------------------------------ MODULE Seconds ------------------------------
(***************************************************************************)
(* Time as the keep-alives see it.  Time advances in ticks, `Ticks' of     *)
(* them to a second.  The program stores time(NULL), the second in which a *)
(* node was last heard, and subtracts it from the current second; here the *)
(* age in ticks is kept with the place of the present tick in its second,  *)
(* which give the same difference and repeat for ever.                     *)
(***************************************************************************)
EXTENDS Integers

CONSTANTS
  Ticks,   \* ticks in a second
  Limit    \* seconds without a sign of life a node survives (2 in the code)

ASSUME Scale == Ticks \in Nat \ {0} /\ Limit \in Nat

Phase == 0..(Ticks - 1)

\* The age of what never was.
Absent == -1

\* Ages are not counted further: at this one a node is stale in every phase.
Oldest == (Limit + 1) * Ticks

Age == 0..Oldest

\* time(NULL) - last_keep_alive, for what happened `age' ticks ago.
Elapsed(age, phase) == (age - phase + Ticks - 1) \div Ticks

\* mutant of Stale: the limit itself is too long.
StaleEarly(age, phase) == Elapsed(age, phase) >= Limit

\* sysdate-server->last_keep_alive>2
Stale(age, phase) == Elapsed(age, phase) > Limit

NextPhase(phase) == (phase + 1) % Ticks

Older(age) == IF age \in {Absent, Oldest} THEN age ELSE age + 1
=============================================================================
