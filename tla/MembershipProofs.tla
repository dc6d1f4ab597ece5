-------------------------- MODULE MembershipProofs --------------------------
(***************************************************************************)
(* Proofs about Membership, for any number of nodes and participants and   *)
(* any values of the delays that meet the stated inequalities.             *)
(***************************************************************************)
EXTENDS Membership, FiniteSetTheorems, TLAPS

-----------------------------------------------------------------------------
(* Arithmetic.                                                             *)

\* What the integer division of Elapsed returns.
LEMMA DivBounds ==
  ASSUME NEW a \in Int, NEW b \in Nat \ {0}
  PROVE  a \div b \in Int /\ b * (a \div b) <= a /\ a < b * (a \div b) + b
  BY SMT

\* A product grows with its factor.
LEMMA TimesGrows ==
  ASSUME NEW a \in Int, NEW b \in Int, NEW c \in Nat, a <= b
  PROVE  c * a <= c * b
  BY SMT

\* A node is not stale before Limit seconds have passed, wherever they began.
LEMMA YoungNotStale ==
  ASSUME NEW age \in Int, NEW now \in Phase, age <= Limit * Ticks
  PROVE  ~Stale(age, now)
<1> DEFINE q == Elapsed(age, now)
<1> SUFFICES ASSUME q > Limit PROVE FALSE BY DEF Stale
<1>1. /\ q \in Int
      /\ Ticks * q <= age - now + Ticks - 1
  BY DivBounds, Scale DEF Elapsed, Phase
<1>2. Ticks * (Limit + 1) <= Ticks * q
  <2> HIDE DEF q
  <2> QED BY <1>1, TimesGrows, Scale
<1> QED BY <1>1, <1>2, Scale DEF Phase

\* At the age at which ages are no longer counted, a node is stale at any time.
LEMMA OldestStale ==
  ASSUME NEW now \in Phase
  PROVE  Stale(Oldest, now)
<1> DEFINE N == Oldest - now + Ticks - 1
           q == N \div Ticks
<1>1. Oldest \in Nat /\ Oldest = Ticks * Limit + Ticks BY Scale DEF Oldest
<1>2. N \in Int /\ N >= Oldest BY <1>1, Scale DEF Phase
<1>3. q \in Int /\ N < Ticks * q + Ticks
  <2> HIDE DEF N
  <2> QED BY <1>2, DivBounds, Scale
<1>4. ASSUME q <= Limit PROVE FALSE
  <2> HIDE DEF q
  <2>1. Ticks * q <= Ticks * Limit BY <1>3, <1>4, TimesGrows, Scale
  <2>2. Ticks * q \in Int /\ Ticks * Limit \in Int BY <1>3, Scale
  <2> HIDE DEF N
  <2> QED BY <1>1, <1>2, <1>3, <2>1, <2>2, Scale
<1>5. q > Limit
  <2> HIDE DEF q
  <2> QED BY <1>3, <1>4, Scale
<1> QED BY <1>5 DEF Stale, Elapsed

\* The bounds of the counters.
LEMMA Bounds ==
  /\ HeldUp \in Nat /\ Oldest \in Nat \ {0} /\ Detection \in Nat
  /\ MaxPeriod <= Detection /\ Ticks <= MaxPeriod /\ 0 <= MaxPeriod
  /\ 0 \in 0..Detection /\ Ticks \in 0..Detection /\ 0 \in 0..MaxHold
  /\ 0 \in Age /\ Oldest \in Age /\ Absent \notin Age
<1>1. Cardinality(Participant) \in Nat BY Actors, FS_CardinalityType
<1>2. HeldUp \in Nat BY <1>1, Durations DEF HeldUp
<1>3. Oldest \in Nat \ {0} BY Scale DEF Oldest
<1> QED BY <1>2, <1>3, Durations, Scale DEF Detection, Age, Absent

\* An age grows with the clock, as far as it is counted.
LEMMA OlderFacts ==
  ASSUME NEW age \in Age \cup {Absent}
  PROVE  /\ Older(age) \in Age \cup {Absent}
         /\ Older(age) = Absent <=> age = Absent
         /\ Older(age) <= age + 1
         /\ Older(age) # Oldest => Older(age) = age + 1 \/ age = Absent
         /\ Older(age) = Oldest => age = Oldest \/ age + 1 = Oldest
  BY Bounds DEF Older, Age, Absent

\* A count that goes down to 0.
LEMMA SoonerTyped ==
  ASSUME NEW bound \in Nat, NEW count \in 0..bound
  PROVE  Sooner(count) \in 0..bound
  BY DEF Sooner

\* The clock stays in its range.
LEMMA NextPhaseTyped ==
  ASSUME NEW now \in Phase
  PROVE  NextPhase(now) \in Phase
  BY Scale DEF Phase, NextPhase

-----------------------------------------------------------------------------
(* Datagrams.                                                              *)

\* What is in a datagram.
LEMMA DatagramFields ==
  ASSUME NEW d \in Datagram
  PROVE  /\ d.waited \in 0..MaxDelay
         /\ d = [header |-> d.header, to |-> d.to, node |-> d.node, waited |-> d.waited]
         /\ \/ /\ d.header \in {"CONNECT", "SHARE_SERVER", "KEEP"}
               /\ d.to \in Node /\ d.node \in Node
            \/ d.header = "ASK_BALANCE" /\ d.to \in Node /\ d.node \in Participant
            \/ d.header = "SEND_BALANCE" /\ d.to \in Participant /\ d.node \in Node
  BY DEF Datagram

\* What is in a datagram that was just sent.
LEMMA SentFields ==
  ASSUME NEW header, NEW to, NEW node
  PROVE  LET d == Sent(header, to, node) IN
         /\ d.header = header /\ d.to = to /\ d.node = node /\ d.waited = 0
         /\ header \in {"CONNECT", "SHARE_SERVER", "KEEP"} /\ to \in Node /\ node \in Node
              => d \in Datagram
         /\ header = "ASK_BALANCE" /\ to \in Node /\ node \in Participant => d \in Datagram
         /\ header = "SEND_BALANCE" /\ to \in Participant /\ node \in Node => d \in Datagram
  BY Durations DEF Sent, Datagram

\* A datagram, a tick later.
Aged(d) == [d EXCEPT !.waited = Later(@, MaxDelay)]

LEMMA AgedFields ==
  ASSUME NEW d \in Datagram
  PROVE  LET e == Aged(d) IN
         /\ e \in Datagram
         /\ e.header = d.header /\ e.to = d.to /\ e.node = d.node
         /\ e.waited = IF d.waited = MaxDelay THEN MaxDelay ELSE d.waited + 1
  BY Durations DEF Aged, Later, Datagram

-----------------------------------------------------------------------------
(* The first layer: types, the life of processes, and questions.           *)

\* A process that does not run does nothing, and knows nobody.
IdleWhenDown ==
  \A n \in Node : ~Up(n) => /\ main[n] = "loop" /\ fthread[n] = "asleep"
                            /\ \A m \in Node : ~Known(n, m)

\* A node is known to others only, and after it was started.
KnownStarted == \A n, m \in Node : Known(n, m) => status[m] # "off" /\ m # n

\* Datagrams wait for nodes that run, and tell of others that were started.
Sensible(d) ==
  /\ d \in Datagram
  /\ d.to \in Node => Up(d.to)
  /\ d.node \in Node => status[d.node] # "off" /\ d.node # d.to

\* Nobody is down before somebody was stopped: no main ends by itself until then.
FirstStopped == stopped = {} => \A n \in Node : status[n] # "down"

\* fthread is on time.
OnTime == \A n \in Node : Up(n) => since[n] <= MaxPeriod

\* The questions main has not read.
Asked == {d \in udp : d.header = "ASK_BALANCE"}

\* A participant asks one question, and main knows whom it answers.
Questions ==
  /\ \A d, e \in Asked : d.node = e.node => d = e
  /\ \A d \in Asked : participant[d.node] # "idle"
  /\ \A n \in Node : main[n] = "balance" => asker[n] \in Participant

MInv ==
  /\ TypeOK /\ IdleWhenDown /\ KnownStarted /\ FirstStopped /\ OnTime /\ Questions
  /\ \A d \in udp : Sensible(d)

LEMMA TableTyped ==
  ASSUME MInv, NEW n \in Node, NEW m \in Node
  PROVE  server_table[n][m] \in Age \cup {Absent}
  BY DEF MInv, TypeOK

\* It holds at first.
LEMMA InitTyped == ASSUME Init PROVE MInv
<1>1. TypeOK
  BY Bounds, Scale, Durations, Deployment, Actors DEF Init, TypeOK, Absent
<1>2. Asked = {} BY DEF Asked, Init
<1>3. IdleWhenDown BY DEF Init, IdleWhenDown, Up, Known
<1>4. KnownStarted BY DEF Init, KnownStarted, Known
<1>5. FirstStopped BY DEF Init, FirstStopped
<1>6. OnTime BY Bounds, Durations DEF Init, OnTime
<1>7. Questions BY <1>2 DEF Init, Questions
<1> QED BY <1>1, <1>3, <1>4, <1>5, <1>6, <1>7 DEF MInv, Init

\* Start.
LEMMA StartTyped == ASSUME MInv, NEW n \in Node, Start(n) PROVE MInv'
<1> USE DEF MInv
<1>1. /\ \A d \in udp' : d \in udp \/ (Peer[n] # Nobody /\ d = Sent("CONNECT", Peer[n], n))
      /\ udp \subseteq udp'
  BY DEF Start
<1>2. Peer[n] # Nobody => Peer[n] \in Node /\ Peer[n] # n /\ Up(Peer[n])
  BY Deployment DEF Start
<1>3. /\ status' \in [Node -> {"off", "up", "down"}] /\ status'[n] = "up"
      /\ \A m \in Node \ {n} : status'[m] = status[m]
      /\ ~Up(n)
  BY DEF Start, TypeOK, Up
<1>4. \A d \in udp' : Sensible(d)'
  <2> SUFFICES ASSUME NEW d \in udp' PROVE Sensible(d)' OBVIOUS
  <2>1. CASE d \in udp BY <2>1, <1>3 DEF Sensible, Up
  <2>2. CASE d \notin udp
    <3>1. d = Sent("CONNECT", Peer[n], n) /\ Peer[n] \in Node /\ Peer[n] # n /\ Up(Peer[n])
      BY <2>2, <1>1, <1>2
    <3> QED BY <3>1, <1>3, SentFields DEF Sensible, Up
  <2> QED BY <2>1, <2>2
<1>5. /\ server_table' \in [Node -> [Node -> Age \cup {Absent}]]
      /\ \A m \in Node : server_table'[n][m] = IF m = Peer[n] THEN 0 ELSE Absent
      /\ \A m \in Node \ {n} : server_table'[m] = server_table[m]
  BY Bounds DEF Start, TypeOK
<1>6. since' \in [Node -> 0..Detection] /\ since'[n] <= MaxPeriod
      /\ \A m \in Node \ {n} : since'[m] = since[m]
  BY Bounds DEF Start, TypeOK
<1>7. TypeOK' BY <1>3, <1>4, <1>5, <1>6 DEF Start, TypeOK, Sensible, mainVars, askVars
<1>8. IdleWhenDown' BY <1>3, <1>5 DEF IdleWhenDown, Start, mainVars, Up, Known
<1>9. KnownStarted' BY <1>2, <1>3, <1>5, Actors DEF KnownStarted, Up, Known
<1>10. FirstStopped' BY <1>3 DEF FirstStopped, Start
<1>11. OnTime' BY <1>3, <1>6 DEF OnTime, Up
<1>12. Questions'
  <2>1. Asked' = Asked BY <1>1, SentFields DEF Asked
  <2> QED BY <2>1 DEF Questions, Start, mainVars, askVars
<1> QED BY <1>4, <1>7, <1>8, <1>9, <1>10, <1>11, <1>12

\* A process that ends, with the datagrams to it.
LEMMA EndsTyped ==
  ASSUME MInv, NEW n \in Node, Ends(n), udp' = {d \in udp : d.to # n},
         stopped' \subseteq Node, stopped \subseteq stopped', stopped' # {},
         UNCHANGED << phase, askVars >>
  PROVE  MInv'
<1> USE DEF MInv
<1>1. /\ status' \in [Node -> {"off", "up", "down"}] /\ status'[n] = "down"
      /\ \A m \in Node \ {n} : status'[m] = status[m]
  BY DEF Ends, TypeOK
<1>2. \A d \in udp' : Sensible(d)' BY <1>1 DEF Sensible, Up
<1>3. /\ server_table' \in [Node -> [Node -> Age \cup {Absent}]]
      /\ \A m \in Node : server_table'[n][m] = Absent
      /\ \A m \in Node \ {n} : server_table'[m] = server_table[m]
  BY DEF Ends, TypeOK
<1>4. /\ since' \in [Node -> 0..Detection] /\ \A m \in Node \ {n} : since'[m] = since[m]
      /\ held' \in [Node -> 0..MaxHold]
  BY Bounds DEF Ends, TypeOK
<1>5. /\ main' \in [Node -> {"loop", "balance"}] /\ main'[n] = "loop"
      /\ \A m \in Node \ {n} : main'[m] = main[m] /\ asker'[m] = asker[m]
      /\ asker' \in [Node -> Participant \cup {Nobody}]
      /\ fthread' \in [Node -> {"asleep", "removing"}] /\ fthread'[n] = "asleep"
      /\ \A m \in Node \ {n} : fthread'[m] = fthread[m]
  BY DEF Ends, TypeOK
<1>6. TypeOK' BY <1>1, <1>2, <1>3, <1>4, <1>5 DEF TypeOK, Sensible, askVars
<1>7. IdleWhenDown' BY <1>1, <1>3, <1>5 DEF IdleWhenDown, Up, Known
<1>8. KnownStarted' BY <1>1, <1>3 DEF KnownStarted, Known
<1>9. FirstStopped' BY DEF FirstStopped
<1>10. OnTime' BY <1>1, <1>4 DEF OnTime, Up
<1>11. Questions' BY <1>5 DEF Questions, Asked, askVars
<1> QED BY <1>2, <1>6, <1>7, <1>8, <1>9, <1>10, <1>11

\* Stop.
LEMMA StopTyped == ASSUME MInv, NEW n \in Node, Stop(n) PROVE MInv'
  BY EndsTyped DEF Stop, MInv, TypeOK

\* SendKeeps.
LEMMA SendKeepsTyped == ASSUME MInv, NEW n \in Node, SendKeeps(n) PROVE MInv'
<1> USE DEF MInv
<1>1. \A d \in udp' : d \in udp \/ \E k \in Node \ {n} : Known(n, k) /\ Up(k) /\ d = Sent("KEEP", k, n)
  BY DEF SendKeeps
<1>2. \A d \in udp' : Sensible(d)'
  <2> SUFFICES ASSUME NEW d \in udp' PROVE Sensible(d)' OBVIOUS
  <2>1. CASE d \in udp BY <2>1 DEF Sensible, Up, SendKeeps, nodeVars
  <2>2. CASE d \notin udp
    <3>1. PICK k \in Node \ {n} : Up(k) /\ d = Sent("KEEP", k, n) BY <2>2, <1>1
    <3> QED BY <3>1, SentFields DEF Sensible, Up, SendKeeps, nodeVars
  <2> QED BY <2>1, <2>2
<1>3. Asked' = Asked
  <2>1. \A d \in udp' : d.header = "ASK_BALANCE" => d \in udp BY <1>1, SentFields
  <2>2. udp \subseteq udp' BY DEF SendKeeps
  <2> QED BY <2>1, <2>2 DEF Asked
<1>4. TypeOK' BY <1>2 DEF SendKeeps, TypeOK, Sensible, nodeVars, tableVars, mainVars, askVars
<1>5. IdleWhenDown'
  <2>1. Up(n) /\ \A m \in Node \ {n} : fthread'[m] = fthread[m] BY DEF SendKeeps, TypeOK
  <2> QED BY <2>1 DEF SendKeeps, IdleWhenDown, Up, Known, nodeVars, tableVars, mainVars
<1>6. KnownStarted' BY DEF SendKeeps, KnownStarted, Known, nodeVars, tableVars
<1>7. FirstStopped' /\ OnTime' BY DEF SendKeeps, FirstStopped, OnTime, Up, nodeVars
<1>8. Questions' BY <1>3 DEF Questions, SendKeeps, mainVars, askVars
<1> QED BY <1>2, <1>4, <1>5, <1>6, <1>7, <1>8

\* RemoveDead.
LEMMA RemoveDeadTyped == ASSUME MInv, NEW n \in Node, RemoveDead(n) PROVE MInv'
<1> USE DEF MInv
<1>1. \A d \in udp' : Sensible(d)' BY DEF Sensible, Up, RemoveDead, nodeVars
<1>2. /\ server_table' \in [Node -> [Node -> Age \cup {Absent}]]
      /\ \A m \in Node : server_table'[n][m] \in {server_table[n][m], Absent}
      /\ \A m \in Node \ {n} : server_table'[m] = server_table[m]
  BY DEF RemoveDead, TypeOK
<1>3. /\ fthread' \in [Node -> {"asleep", "removing"}] /\ fthread'[n] = "asleep"
      /\ \A m \in Node \ {n} : fthread'[m] = fthread[m]
  BY DEF RemoveDead, TypeOK
<1>4. /\ since' \in [Node -> 0..Detection] /\ since'[n] <= MaxPeriod
      /\ \A m \in Node \ {n} : since'[m] = since[m]
  BY Bounds DEF RemoveDead, TypeOK
<1>5. TypeOK' BY <1>1, <1>2, <1>3, <1>4 DEF RemoveDead, TypeOK, nodeVars, mainVars, askVars
<1>6. IdleWhenDown' BY <1>2, <1>3 DEF RemoveDead, IdleWhenDown, Up, Known, nodeVars, mainVars
<1>7. KnownStarted' BY <1>2 DEF RemoveDead, KnownStarted, Known, nodeVars
<1>8. FirstStopped' /\ OnTime' BY <1>4 DEF RemoveDead, FirstStopped, OnTime, Up, nodeVars
<1>9. Questions' BY DEF Questions, Asked, RemoveDead, mainVars, askVars
<1> QED BY <1>1, <1>5, <1>6, <1>7, <1>8, <1>9

\* A datagram is received, without an effect or with the insertion of a new node m
\* that is sent datagrams; or the date of a known node is renewed.
LEMMA TableChangeTyped ==
  ASSUME MInv, NEW n \in Node, Up(n), NEW m \in Node, NEW age \in Age,
         Known(n, m) \/ (status[m] # "off" /\ m # n),
         server_table' = [server_table EXCEPT ![n][m] = age],
         \A d \in udp' : d \in udp \/ (Sensible(d) /\ d.header # "ASK_BALANCE"),
         UNCHANGED << nodeVars, roundVars, mainVars, askVars >>
  PROVE  MInv'
<1> USE DEF MInv
<1>1. \A d \in udp' : Sensible(d)' BY DEF Sensible, Up, nodeVars
<1>2. /\ server_table' \in [Node -> [Node -> Age \cup {Absent}]]
      /\ \A k, l \in Node : <<k, l>> # <<n, m>> => server_table'[k][l] = server_table[k][l]
  BY DEF TypeOK
<1>3. Asked' \subseteq Asked BY DEF Asked
<1>4. TypeOK' BY <1>1, <1>2 DEF TypeOK, Sensible, nodeVars, roundVars, mainVars, askVars
<1>5. IdleWhenDown' BY <1>2 DEF IdleWhenDown, Up, Known, nodeVars, roundVars, mainVars
<1>6. KnownStarted' BY <1>2 DEF KnownStarted, Known, nodeVars
<1>7. FirstStopped' /\ OnTime' BY DEF FirstStopped, OnTime, Up, nodeVars, roundVars
<1>8. Questions' BY <1>3 DEF Questions, mainVars, askVars
<1> QED BY <1>1, <1>4, <1>5, <1>6, <1>7, <1>8

\* A datagram is taken, and nothing else changes.
LEMMA TakenTyped ==
  ASSUME MInv, udp' \subseteq udp,
         UNCHANGED << nodeVars, tableVars, roundVars, mainVars, askVars >>
  PROVE  MInv'
<1> USE DEF MInv
<1>1. \A d \in udp' : Sensible(d)' BY DEF Sensible, Up, nodeVars
<1>2. TypeOK' BY <1>1 DEF TypeOK, Sensible, nodeVars, tableVars, roundVars, mainVars, askVars
<1>3. IdleWhenDown' BY DEF IdleWhenDown, Up, Known, nodeVars, tableVars, roundVars, mainVars
<1>4. KnownStarted' BY DEF KnownStarted, Known, nodeVars, tableVars
<1>5. FirstStopped' /\ OnTime' BY DEF FirstStopped, OnTime, Up, nodeVars, roundVars
<1>6. Questions' BY DEF Questions, Asked, mainVars, askVars
<1> QED BY <1>1, <1>2, <1>3, <1>4, <1>5, <1>6

\* What ConnectReceived does.
LEMMA ConnectCases ==
  ASSUME MInv, NEW n \in Node, ConnectReceived(n)
  PROVE  /\ Receiving(n) /\ UNCHANGED << phase, stopped, askVars >>
         /\ \E d \in udp :
              /\ d.header = "CONNECT" /\ d.to = n /\ d.node \in Node /\ d.node # n
              /\ status[d.node] # "off"
              /\ \/ /\ Known(n, d.node)
                    /\ udp' = udp \ {d}
                    /\ UNCHANGED << status, tableVars, roundVars, mainVars >>
                 \/ /\ ~Known(n, d.node) /\ Up(d.node)
                    /\ udp' = (udp \ {d}) \cup Introduce(n, d.node)
                    /\ server_table' = [server_table EXCEPT ![n][d.node] = 0]
                    /\ UNCHANGED << status, roundVars, mainVars >>
                 \/ /\ ~Up(d.node)
                    /\ udp' = {e \in udp : e.to # n}
                    /\ Ends(n)
<1>1. \A d \in udp : d.header = "CONNECT" /\ d.to = n =>
         d.node \in Node /\ d.node # n /\ status[d.node] # "off"
  BY DatagramFields DEF MInv, Sensible
<1> QED BY <1>1 DEF ConnectReceived

\* ConnectReceived.
LEMMA ConnectTyped == ASSUME MInv, NEW n \in Node, ConnectReceived(n) PROVE MInv'
<1>1. Up(n) /\ UNCHANGED << phase, stopped, askVars >> BY ConnectCases DEF Receiving
<1>2. PICK d \in udp :
        /\ d.node \in Node /\ d.node # n /\ status[d.node] # "off"
        /\ \/ /\ udp' = udp \ {d}
              /\ UNCHANGED << status, tableVars, roundVars, mainVars >>
           \/ /\ ~Known(n, d.node) /\ Up(d.node)
              /\ udp' = (udp \ {d}) \cup Introduce(n, d.node)
              /\ server_table' = [server_table EXCEPT ![n][d.node] = 0]
              /\ UNCHANGED << status, roundVars, mainVars >>
           \/ /\ ~Up(d.node)
              /\ udp' = {e \in udp : e.to # n}
              /\ Ends(n)
  BY ConnectCases
<1>3. CASE udp' = udp \ {d} /\ UNCHANGED << status, tableVars, roundVars, mainVars >>
  BY <1>1, <1>3, TakenTyped DEF nodeVars
<1>4. CASE /\ ~Known(n, d.node) /\ Up(d.node)
           /\ udp' = (udp \ {d}) \cup Introduce(n, d.node)
           /\ server_table' = [server_table EXCEPT ![n][d.node] = 0]
           /\ UNCHANGED << status, roundVars, mainVars >>
  <2>1. ASSUME NEW e \in Introduce(n, d.node) PROVE Sensible(e) /\ e.header # "ASK_BALANCE"
    <3>1. CASE e = Sent("CONNECT", d.node, n)
      BY <3>1, <1>1, <1>2, <1>4, SentFields DEF Sensible, Up
    <3>2. CASE e # Sent("CONNECT", d.node, n)
      <4>1. PICK s \in Node : Known(n, s) /\ e = Sent("SHARE_SERVER", d.node, s)
        BY <3>2 DEF Introduce
      <4>2. status[s] # "off" /\ s # d.node
        BY <4>1, <1>4 DEF MInv, KnownStarted
      <4> QED BY <4>1, <4>2, <1>2, <1>4, SentFields DEF Sensible, Up
    <3> QED BY <3>1, <3>2
  <2>2. \A e \in udp' : e \in udp \/ (Sensible(e) /\ e.header # "ASK_BALANCE")
    BY <2>1, <1>4
  <2> QED BY <1>1, <1>2, <1>4, <2>2, Bounds, TableChangeTyped DEF nodeVars
<1>5. CASE ~Up(d.node) /\ udp' = {e \in udp : e.to # n} /\ Ends(n)
  <2>1. status[d.node] = "down" BY <1>2, <1>5 DEF MInv, TypeOK, Up
  <2>2. stopped # {} BY <1>2, <2>1 DEF MInv, FirstStopped
  <2> QED BY <1>1, <1>5, <2>2, EndsTyped DEF MInv, TypeOK
<1> QED BY <1>2, <1>3, <1>4, <1>5

\* What ShareServerReceived does.
LEMMA ShareCases ==
  ASSUME MInv, NEW n \in Node, ShareServerReceived(n)
  PROVE  /\ Receiving(n) /\ UNCHANGED << nodeVars, roundVars, mainVars, askVars >>
         /\ \E d \in udp :
              /\ d.header = "SHARE_SERVER" /\ d.to = n /\ d.node \in Node /\ d.node # n
              /\ status[d.node] # "off"
              /\ \/ /\ Known(n, d.node)
                    /\ udp' = udp \ {d} /\ UNCHANGED tableVars
                 \/ /\ ~Known(n, d.node)
                    /\ server_table' = [server_table EXCEPT ![n][d.node] = 0]
                    /\ udp' = (udp \ {d}) \cup (IF Up(d.node) THEN {Sent("CONNECT", d.node, n)}
                                                             ELSE {})
<1>1. \A d \in udp : d.header = "SHARE_SERVER" /\ d.to = n =>
         d.node \in Node /\ d.node # n /\ status[d.node] # "off"
  BY DatagramFields DEF MInv, Sensible
<1>2. \A m \in Node : m # n => {Sent("CONNECT", k, n) : k \in {l \in {m} \ {n} : Up(l)}}
                               = IF Up(m) THEN {Sent("CONNECT", m, n)} ELSE {}
  OBVIOUS
<1> QED BY <1>1, <1>2 DEF ShareServerReceived

\* ShareServerReceived.
LEMMA ShareTyped == ASSUME MInv, NEW n \in Node, ShareServerReceived(n) PROVE MInv'
<1>1. Up(n) /\ UNCHANGED << nodeVars, roundVars, mainVars, askVars >>
  BY ShareCases DEF Receiving
<1>2. PICK d \in udp :
        /\ d.node \in Node /\ d.node # n /\ status[d.node] # "off"
        /\ \/ udp' = udp \ {d} /\ UNCHANGED tableVars
           \/ /\ server_table' = [server_table EXCEPT ![n][d.node] = 0]
              /\ udp' = (udp \ {d}) \cup (IF Up(d.node) THEN {Sent("CONNECT", d.node, n)}
                                                       ELSE {})
  BY ShareCases
<1>3. CASE udp' = udp \ {d} /\ UNCHANGED tableVars
  BY <1>1, <1>3, TakenTyped
<1>4. CASE /\ server_table' = [server_table EXCEPT ![n][d.node] = 0]
           /\ udp' = (udp \ {d}) \cup (IF Up(d.node) THEN {Sent("CONNECT", d.node, n)} ELSE {})
  <2>1. ASSUME NEW e \in udp', e \notin udp
        PROVE  Sensible(e) /\ e.header # "ASK_BALANCE"
    <3>1. e = Sent("CONNECT", d.node, n) /\ Up(d.node) BY <2>1, <1>4
    <3> QED BY <3>1, <1>1, <1>2, SentFields DEF Sensible, Up
  <2> QED BY <1>1, <1>2, <1>4, <2>1, Bounds, TableChangeTyped
<1> QED BY <1>2, <1>3, <1>4

\* What KeepReceived does.
LEMMA KeepCases ==
  ASSUME MInv, NEW n \in Node, KeepReceived(n)
  PROVE  /\ Receiving(n) /\ UNCHANGED << nodeVars, roundVars, mainVars, askVars >>
         /\ \E d \in udp :
              /\ d.header = "KEEP" /\ d.to = n /\ d.node \in Node /\ d.node # n
              /\ udp' = udp \ {d}
              /\ \/ ~Known(n, d.node) /\ UNCHANGED tableVars
                 \/ /\ Known(n, d.node)
                    /\ server_table' = [server_table EXCEPT ![n][d.node] = 0]
<1>1. \A d \in udp : d.header = "KEEP" /\ d.to = n => d.node \in Node /\ d.node # n
  BY DatagramFields DEF MInv, Sensible
<1>2. ASSUME NEW m \in Node
      PROVE  LET new == [server_table EXCEPT ![n][m] = IF @ = Absent THEN Absent ELSE 0] IN
             \/ ~Known(n, m) /\ new = server_table
             \/ Known(n, m) /\ new = [server_table EXCEPT ![n][m] = 0]
  BY DEF MInv, TypeOK, Known
<1> QED BY <1>1, <1>2 DEF KeepReceived, tableVars

\* KeepReceived.
LEMMA KeepTyped == ASSUME MInv, NEW n \in Node, KeepReceived(n) PROVE MInv'
<1>1. Up(n) /\ UNCHANGED << nodeVars, roundVars, mainVars, askVars >>
  BY KeepCases DEF Receiving
<1>2. PICK d \in udp :
        /\ d.node \in Node /\ udp' = udp \ {d}
        /\ \/ UNCHANGED tableVars
           \/ /\ Known(n, d.node)
              /\ server_table' = [server_table EXCEPT ![n][d.node] = 0]
  BY KeepCases
<1>3. CASE UNCHANGED tableVars BY <1>1, <1>2, <1>3, TakenTyped
<1>4. CASE Known(n, d.node) /\ server_table' = [server_table EXCEPT ![n][d.node] = 0]
  BY <1>1, <1>2, <1>4, Bounds, TableChangeTyped
<1> QED BY <1>2, <1>3, <1>4

\* What AskBalanceReceived does.
LEMMA AskCases ==
  ASSUME MInv, NEW n \in Node, AskBalanceReceived(n)
  PROVE  /\ Receiving(n)
         /\ \E d \in Asked :
              /\ d.to = n /\ d.node \in Participant
              /\ udp' = udp \ {d} /\ Asked' = Asked \ {d}
              /\ main' = [main EXCEPT ![n] = "balance"]
              /\ asker' = [asker EXCEPT ![n] = d.node]
         /\ UNCHANGED << nodeVars, tableVars, roundVars, held, askVars >>
<1>1. \A d \in udp : d.header = "ASK_BALANCE" => d.node \in Participant
  BY DatagramFields DEF MInv, Sensible
<1> QED BY <1>1 DEF AskBalanceReceived, Asked

\* AskBalanceReceived.
LEMMA AskTyped == ASSUME MInv, NEW n \in Node, AskBalanceReceived(n) PROVE MInv'
<1> USE DEF MInv
<1>1. Up(n) /\ UNCHANGED << nodeVars, tableVars, roundVars, held, askVars >>
  BY AskCases DEF Receiving
<1>2. PICK d \in Asked :
        /\ d.node \in Participant
        /\ udp' = udp \ {d} /\ Asked' = Asked \ {d}
        /\ main' = [main EXCEPT ![n] = "balance"]
        /\ asker' = [asker EXCEPT ![n] = d.node]
  BY AskCases
<1>3. /\ main' \in [Node -> {"loop", "balance"}]
      /\ asker' \in [Node -> Participant \cup {Nobody}]
      /\ asker'[n] \in Participant
      /\ \A m \in Node \ {n} : main'[m] = main[m] /\ asker'[m] = asker[m]
  BY <1>2 DEF TypeOK
<1>4. \A e \in udp' : Sensible(e)' BY <1>1, <1>2 DEF Sensible, Up, nodeVars
<1>5. TypeOK' BY <1>1, <1>3, <1>4 DEF TypeOK, Sensible, nodeVars, tableVars, roundVars, askVars
<1>6. IdleWhenDown' BY <1>1, <1>3 DEF IdleWhenDown, Up, Known, nodeVars, tableVars, roundVars
<1>7. KnownStarted' BY <1>1 DEF KnownStarted, Known, nodeVars, tableVars
<1>8. FirstStopped' /\ OnTime' BY <1>1 DEF FirstStopped, OnTime, Up, nodeVars, roundVars
<1>9. Questions' BY <1>1, <1>2, <1>3 DEF Questions, askVars
<1> QED BY <1>4, <1>5, <1>6, <1>7, <1>8, <1>9

\* AnswerBalance.
LEMMA AnswerTyped == ASSUME MInv, NEW n \in Node, AnswerBalance(n) PROVE MInv'
<1> USE DEF MInv
<1>1. asker[n] \in Participant BY DEF AnswerBalance, Questions
<1>2. \A d \in udp' : Sensible(d)'
  <2> SUFFICES ASSUME NEW d \in udp' PROVE Sensible(d)' OBVIOUS
  <2>1. CASE d \in udp BY <2>1 DEF Sensible, Up, AnswerBalance, nodeVars
  <2>2. CASE d \notin udp
    <3>1. d = Sent("SEND_BALANCE", asker[n], n) BY <2>2 DEF AnswerBalance
    <3> QED BY <1>1, <3>1, SentFields, Actors DEF Sensible, Up, AnswerBalance, nodeVars
  <2> QED BY <2>1, <2>2
<1>3. Asked' = Asked BY SentFields DEF Asked, AnswerBalance
<1>4. /\ main' \in [Node -> {"loop", "balance"}] /\ main'[n] = "loop"
      /\ asker' \in [Node -> Participant \cup {Nobody}]
      /\ \A m \in Node \ {n} : main'[m] = main[m] /\ asker'[m] = asker[m]
  BY DEF AnswerBalance, TypeOK
<1>5. TypeOK'
  BY <1>2, <1>4 DEF TypeOK, Sensible, AnswerBalance, nodeVars, tableVars, roundVars, askVars
<1>6. IdleWhenDown'
  BY <1>4 DEF IdleWhenDown, Up, Known, AnswerBalance, nodeVars, tableVars, roundVars
<1>7. KnownStarted' BY DEF KnownStarted, Known, AnswerBalance, nodeVars, tableVars
<1>8. FirstStopped' /\ OnTime'
  BY DEF FirstStopped, OnTime, Up, AnswerBalance, nodeVars, roundVars
<1>9. Questions' BY <1>3, <1>4 DEF Questions, AnswerBalance, askVars
<1> QED BY <1>2, <1>5, <1>6, <1>7, <1>8, <1>9

\* Mine.
LEMMA MineTyped == ASSUME MInv, NEW n \in Node, Mine(n) PROVE MInv'
<1> USE DEF MInv
<1>1. \A d \in udp' : Sensible(d)' BY DEF Sensible, Up, Mine, nodeVars
<1>2. held' \in [Node -> 0..MaxHold]
  <2>1. 1..MaxHold \subseteq 0..MaxHold OBVIOUS
  <2> QED BY <2>1 DEF Mine, TypeOK
<1>3. TypeOK' BY <1>2 DEF TypeOK, Mine, nodeVars, tableVars, roundVars, askVars
<1>4. IdleWhenDown' BY DEF IdleWhenDown, Up, Known, Mine, nodeVars, tableVars, roundVars
<1>5. KnownStarted' BY DEF KnownStarted, Known, Mine, nodeVars, tableVars
<1>6. FirstStopped' /\ OnTime' BY DEF FirstStopped, OnTime, Up, Mine, nodeVars, roundVars
<1>7. Questions' BY DEF Questions, Asked, Mine, askVars
<1> QED BY <1>1, <1>3, <1>4, <1>5, <1>6, <1>7

\* GetBalance.
LEMMA GetTyped ==
  ASSUME MInv, NEW n \in Node, NEW p \in Participant, GetBalance(p, n) PROVE MInv'
<1> USE DEF MInv
<1> DEFINE q == Sent("ASK_BALANCE", n, p)
<1>1. q \in Datagram /\ q.header = "ASK_BALANCE" /\ q.to = n /\ q.node = p BY SentFields
<1>2. udp' = udp \cup {q} BY DEF GetBalance
<1> HIDE DEF q
<1>3. \A d \in udp' : Sensible(d)'
  BY <1>1, <1>2, Actors DEF Sensible, Up, GetBalance, nodeVars
<1>4. Asked' = Asked \cup {q} BY <1>1, <1>2 DEF Asked
<1>5. /\ participant' \in [Participant -> {"idle", "waiting", "answered", "gave up"}]
      /\ patience' \in [Participant -> 0..Ticks]
      /\ participant[p] = "idle" /\ participant'[p] = "waiting"
      /\ \A r \in Participant \ {p} : participant'[r] = participant[r]
  <2>1. Ticks \in 0..Ticks BY Scale
  <2> QED BY <2>1 DEF GetBalance, TypeOK
<1>6. \A d \in Asked : d.node \in Participant BY DatagramFields DEF Asked, Sensible
<1>7. TypeOK'
  BY <1>3, <1>5 DEF TypeOK, Sensible, GetBalance, nodeVars, tableVars, roundVars, mainVars
<1>8. IdleWhenDown'
  BY DEF IdleWhenDown, Up, Known, GetBalance, nodeVars, tableVars, roundVars, mainVars
<1>9. KnownStarted' BY DEF KnownStarted, Known, GetBalance, nodeVars, tableVars
<1>10. FirstStopped' /\ OnTime'
  BY DEF FirstStopped, OnTime, Up, GetBalance, nodeVars, roundVars
<1>11. Questions'
  <2>1. \A d \in Asked : d.node # p BY <1>5 DEF Questions
  <2>2. \A d, e \in Asked' : d.node = e.node => d = e BY <1>1, <1>4, <2>1 DEF Questions
  <2>3. \A d \in Asked' : participant'[d.node] # "idle"
    BY <1>1, <1>4, <1>5, <1>6 DEF Questions
  <2> QED BY <2>2, <2>3 DEF Questions, GetBalance, mainVars
<1> QED BY <1>3, <1>7, <1>8, <1>9, <1>10, <1>11

\* A participant that no longer waits.
LEMMA ParticipantTyped ==
  ASSUME MInv, NEW p \in Participant, udp' \subseteq udp,
         participant' \in [Participant -> {"idle", "waiting", "answered", "gave up"}],
         \A r \in Participant : participant'[r] = "idle" => participant[r] = "idle",
         patience' \in [Participant -> 0..Ticks],
         UNCHANGED << nodeVars, tableVars, roundVars, mainVars >>
  PROVE  MInv'
<1> USE DEF MInv
<1>1. \A d \in udp' : Sensible(d)' BY DEF Sensible, Up, nodeVars
<1>2. \A d \in Asked : d.node \in Participant BY DatagramFields DEF Asked, Sensible
<1>3. TypeOK' BY <1>1 DEF TypeOK, Sensible, nodeVars, tableVars, roundVars, mainVars
<1>4. IdleWhenDown' BY DEF IdleWhenDown, Up, Known, nodeVars, tableVars, roundVars, mainVars
<1>5. KnownStarted' BY DEF KnownStarted, Known, nodeVars, tableVars
<1>6. FirstStopped' /\ OnTime' BY DEF FirstStopped, OnTime, Up, nodeVars, roundVars
<1>7. Asked' \subseteq Asked BY DEF Asked
<1>8. Questions' BY <1>2, <1>7 DEF Questions, mainVars
<1> QED BY <1>1, <1>3, <1>4, <1>5, <1>6, <1>8

\* AnswerReceived and GiveUp.
LEMMA AnsweredTyped == ASSUME MInv, NEW p \in Participant, AnswerReceived(p) PROVE MInv'
<1>1. /\ udp' \subseteq udp
      /\ UNCHANGED << nodeVars, tableVars, roundVars, mainVars >>
  BY DEF AnswerReceived
<1>2. /\ participant' \in [Participant -> {"idle", "waiting", "answered", "gave up"}]
      /\ \A r \in Participant : participant'[r] = "idle" => participant[r] = "idle"
  BY DEF AnswerReceived, MInv, TypeOK
<1>3. patience' \in [Participant -> 0..Ticks]
  <2>1. 0 \in 0..Ticks BY Scale
  <2> QED BY <2>1 DEF AnswerReceived, MInv, TypeOK
<1> QED BY <1>1, <1>2, <1>3, ParticipantTyped

LEMMA GiveUpTyped == ASSUME MInv, NEW p \in Participant, GiveUp(p) PROVE MInv'
<1>1. /\ udp' \subseteq udp /\ patience' \in [Participant -> 0..Ticks]
      /\ UNCHANGED << nodeVars, tableVars, roundVars, mainVars >>
  BY DEF GiveUp, MInv, TypeOK
<1>2. /\ participant' \in [Participant -> {"idle", "waiting", "answered", "gave up"}]
      /\ \A r \in Participant : participant'[r] = "idle" => participant[r] = "idle"
  BY DEF GiveUp, MInv, TypeOK
<1> QED BY <1>1, <1>2, ParticipantTyped

\* What a tick does.
LEMMA TickFacts ==
  ASSUME MInv, Tick
  PROVE  /\ UNCHANGED << status, stopped, fthread, main, asker, participant >>
         /\ udp' = {Aged(d) : d \in udp}
         /\ \A n \in Node : Up(n) => /\ fthread[n] = "asleep"
                                     /\ since[n] < MaxPeriod /\ since'[n] = since[n] + 1
         /\ \A n \in Node : since'[n] \in 0..Detection /\ since'[n] <= since[n] + 1
         /\ \A n, m \in Node : server_table'[n][m] = Older(server_table[n][m])
         /\ \A n \in Node : main[n] = "balance" => held[n] > 0 /\ held'[n] = held[n] - 1
         /\ \A p \in Participant : participant[p] = "waiting" =>
              patience[p] > 0 /\ patience'[p] = patience[p] - 1
         /\ \A d \in udp : \/ d.waited < MaxDelay
                           \/ d.to \in Node /\ main[d.to] = "balance"
<1> USE DEF MInv
<1>1. \A n \in Node : Up(n) => fthread[n] = "asleep" /\ since[n] < MaxPeriod
  <2> SUFFICES ASSUME NEW n \in Node, Up(n)
               PROVE  fthread[n] = "asleep" /\ since[n] < MaxPeriod
    OBVIOUS
  <2>1. fthread[n] # "removing" /\ since[n] # MaxPeriod BY DEF Tick, Overdue
  <2>2. fthread[n] \in {"asleep", "removing"} /\ since[n] \in 0..Detection BY DEF TypeOK
  <2>3. since[n] <= MaxPeriod BY DEF OnTime
  <2> QED BY <2>1, <2>2, <2>3, Bounds, Durations
<1>2. \A n \in Node : /\ since[n] \in 0..Detection /\ held[n] \in 0..MaxHold
                      /\ main[n] \in {"loop", "balance"}
  BY DEF TypeOK
<1>3. \A n \in Node : since'[n] = Later(since[n], Detection) /\ held'[n] = Sooner(held[n])
  BY DEF Tick
<1>4. \A n \in Node : Up(n) => since'[n] = since[n] + 1
  BY <1>1, <1>2, <1>3, Bounds, Durations DEF Later
<1>5. \A n \in Node : since'[n] \in 0..Detection /\ since'[n] <= since[n] + 1
  BY <1>2, <1>3, Bounds DEF Later
<1>6. \A n \in Node : main[n] = "balance" => held[n] > 0 /\ held'[n] = held[n] - 1
  <2>1. \A n \in Node : main[n] = "balance" => held[n] # 0
    BY DEF Tick, Overdue, IdleWhenDown
  <2> QED BY <2>1, <1>2, <1>3, Durations DEF Sooner
<1>7. \A p \in Participant : participant[p] = "waiting" =>
        patience[p] > 0 /\ patience'[p] = patience[p] - 1
  <2>1. \A p \in Participant : participant[p] = "waiting" => patience[p] # 0
    BY DEF Tick, Overdue
  <2>2. \A p \in Participant : /\ patience[p] \in 0..Ticks
                               /\ patience'[p] = Sooner(patience[p])
    BY DEF Tick, TypeOK
  <2> QED BY <2>1, <2>2, Scale DEF Sooner
<1>8. \A d \in udp : \/ d.waited < MaxDelay
                     \/ d.to \in Node /\ main[d.to] = "balance"
  <2> SUFFICES ASSUME NEW d \in udp, ~(d.waited < MaxDelay)
               PROVE  d.to \in Node /\ main[d.to] = "balance"
    OBVIOUS
  <2>1. d.waited \in 0..MaxDelay /\ Sensible(d) BY DatagramFields DEF Sensible
  <2>2. d.waited = MaxDelay BY <2>1, Durations
  <2>3. d.to \in Node /\ ~Receiving(d.to) BY <2>2 DEF Tick, Overdue
  <2> QED BY <2>1, <2>3, <1>2 DEF Receiving, Sensible
<1>9. udp' = {Aged(d) : d \in udp} BY DEF Tick, Aged
<1>10. \A n, m \in Node : server_table'[n][m] = Older(server_table[n][m]) BY DEF Tick
<1> QED BY <1>1, <1>4, <1>5, <1>6, <1>7, <1>8, <1>9, <1>10 DEF Tick

\* Tick.
LEMMA TickTyped == ASSUME MInv, Tick PROVE MInv'
<1> USE DEF MInv
<1>1. UNCHANGED << status, stopped, fthread, main, asker, participant >> BY DEF Tick
<1>2. \A e \in udp' : \E d \in udp : e = Aged(d) BY TickFacts
<1>3. \A d \in udp : d \in Datagram BY DEF Sensible
<1>4. \A e \in udp' : Sensible(e)'
  <2> SUFFICES ASSUME NEW e \in udp' PROVE Sensible(e)' OBVIOUS
  <2>1. PICK d \in udp : e = Aged(d) BY <1>2
  <2>2. e \in Datagram /\ e.to = d.to /\ e.node = d.node BY <2>1, <1>3, AgedFields
  <2> QED BY <2>2, <1>1 DEF Sensible, Up
<1>5. server_table' \in [Node -> [Node -> Age \cup {Absent}]]
  <2>1. \A n, m \in Node : Older(server_table[n][m]) \in Age \cup {Absent}
    BY OlderFacts DEF TypeOK
  <2> QED BY <2>1 DEF Tick
<1>6. since' \in [Node -> 0..Detection] BY TickFacts DEF Tick
<1>7. held' \in [Node -> 0..MaxHold]
  <2>1. \A n \in Node : Sooner(held[n]) \in 0..MaxHold
    BY Durations, SoonerTyped DEF TypeOK
  <2> QED BY <2>1 DEF Tick
<1>8. patience' \in [Participant -> 0..Ticks]
  <2>1. \A p \in Participant : Sooner(patience[p]) \in 0..Ticks
    BY Scale, SoonerTyped DEF TypeOK
  <2> QED BY <2>1 DEF Tick
<1>9. phase' \in Phase BY NextPhaseTyped DEF Tick, TypeOK
<1>10. TypeOK' BY <1>1, <1>4, <1>5, <1>6, <1>7, <1>8, <1>9 DEF TypeOK, Sensible
<1>11. \A n, m \in Node : Known(n, m)' <=> Known(n, m)
  <2>1. \A n, m \in Node : server_table[n][m] \in Age \cup {Absent} BY DEF TypeOK
  <2> QED BY <2>1, TickFacts, OlderFacts DEF Known
<1>12. IdleWhenDown' /\ KnownStarted'
  BY <1>1, <1>11 DEF IdleWhenDown, KnownStarted, Up
<1>13. FirstStopped' BY <1>1 DEF FirstStopped
<1>14. OnTime'
  <2>1. \A n \in Node : since[n] \in 0..Detection BY DEF TypeOK
  <2> QED BY <1>1, <2>1, TickFacts, Bounds, Durations DEF OnTime, Up
<1>15. Questions'
  <2>1. \A e \in Asked' : \E d \in Asked : e = Aged(d) /\ e.node = d.node
    BY <1>2, <1>3, AgedFields DEF Asked
  <2> QED BY <1>1, <2>1 DEF Questions
<1> QED BY <1>4, <1>10, <1>12, <1>13, <1>14, <1>15

\* Every step keeps it.
LEMMA NextTyped == ASSUME MInv, [Next]_vars PROVE MInv'
<1>1. CASE Tick BY <1>1, TickTyped
<1>2. ASSUME NEW n \in Node, Start(n) PROVE MInv' BY <1>2, StartTyped
<1>3. ASSUME NEW n \in Node, Stop(n) PROVE MInv' BY <1>3, StopTyped
<1>4. ASSUME NEW n \in Node, Round(n) PROVE MInv'
  BY <1>4, SendKeepsTyped, RemoveDeadTyped DEF Round
<1>5. ASSUME NEW n \in Node, Receive(n) PROVE MInv'
  BY <1>5, ConnectTyped, ShareTyped, KeepTyped, AskTyped DEF Receive
<1>6. ASSUME NEW n \in Node, AnswerBalance(n) PROVE MInv' BY <1>6, AnswerTyped
<1>7. ASSUME NEW n \in Node, Mine(n) PROVE MInv' BY <1>7, MineTyped
<1>8. ASSUME NEW n \in Node, NEW p \in Participant, GetBalance(p, n) PROVE MInv'
  BY <1>8, GetTyped
<1>9. ASSUME NEW p \in Participant, AnswerReceived(p) \/ GiveUp(p) PROVE MInv'
  BY <1>9, AnsweredTyped, GiveUpTyped
<1>10. CASE UNCHANGED vars
  BY <1>10, TakenTyped DEF vars
<1> QED BY <1>1, <1>2, <1>3, <1>4, <1>5, <1>6, <1>7, <1>8, <1>9, <1>10 DEF Next

\* Types, and the life of processes, hold in every state.
THEOREM AlwaysTyped == Safety => []MInv
  BY InitTyped, NextTyped, PTL DEF Safety

\* The variables have their types, whatever the delays.
THEOREM TypesRight == Safety => []TypeOK
<1>1. MInv => TypeOK BY DEF MInv
<1> QED BY <1>1, AlwaysTyped, PTL

-----------------------------------------------------------------------------
(* The second layer: how long main is held up, in all.                     *)

\* The participants whose question main has not read.
Unread == {p \in Participant : participant[p] = "idle" \/ \E d \in Asked : d.node = p}

\* The ticks main may still be held up: for those questions, and for the present one.
Budget(n) == MaxHold * Cardinality(Unread) + (IF main[n] = "balance" THEN held[n] ELSE 0)

\* The ticks it was, at most.
Spent(n) == HeldUp - Budget(n)

\* Only GetBalance adds a question.
LEMMA NoQuestion ==
  ASSUME MInv, NEW n \in Node,
         Start(n) \/ Stop(n) \/ Round(n) \/ Receive(n) \/ AnswerBalance(n) \/ Mine(n)
  PROVE  Asked' \subseteq Asked /\ UNCHANGED participant
<1>1. CASE Start(n) BY <1>1, SentFields DEF Start, Asked, askVars
<1>2. CASE Stop(n) BY <1>2 DEF Stop, Asked, askVars
<1>3. CASE SendKeeps(n)
  <2>1. \A d \in udp' : d \in udp \/ \E k \in Node : d = Sent("KEEP", k, n) BY <1>3 DEF SendKeeps
  <2> QED BY <1>3, <2>1, SentFields DEF SendKeeps, Asked, askVars
<1>4. CASE RemoveDead(n) BY <1>4 DEF RemoveDead, Asked, askVars
<1>5. CASE ConnectReceived(n)
  <2>1. \A m \in Node : \A e \in Introduce(n, m) : e.header # "ASK_BALANCE"
    <3> SUFFICES ASSUME NEW m \in Node, NEW e \in Introduce(n, m)
                 PROVE  e.header # "ASK_BALANCE"
      OBVIOUS
    <3>1. CASE e = Sent("CONNECT", m, n) BY <3>1, SentFields
    <3>2. CASE e # Sent("CONNECT", m, n)
      <4>1. PICK s \in Node : e = Sent("SHARE_SERVER", m, s) BY <3>2 DEF Introduce
      <4> QED BY <4>1, SentFields
    <3> QED BY <3>1, <3>2
  <2> QED BY <1>5, <2>1, ConnectCases DEF Asked, askVars
<1>6. CASE ShareServerReceived(n) BY <1>6, ShareCases, SentFields DEF Asked, askVars
<1>7. CASE KeepReceived(n) BY <1>7, KeepCases DEF Asked, askVars
<1>8. CASE AskBalanceReceived(n) BY <1>8, AskCases DEF askVars
<1>9. CASE AnswerBalance(n) BY <1>9, SentFields DEF AnswerBalance, Asked, askVars
<1>10. CASE Mine(n) BY <1>10 DEF Mine, Asked, askVars
<1> QED BY <1>1, <1>2, <1>3, <1>4, <1>5, <1>6, <1>7, <1>8, <1>9, <1>10 DEF Round, Receive

\* No question becomes unread again.
LEMMA UnreadShrinks == ASSUME MInv, [Next]_vars PROVE Unread' \subseteq Unread
<1>1. ASSUME NEW n \in Node,
             Start(n) \/ Stop(n) \/ Round(n) \/ Receive(n) \/ AnswerBalance(n) \/ Mine(n)
      PROVE  Unread' \subseteq Unread
  BY <1>1, NoQuestion DEF Unread
<1>2. ASSUME NEW n \in Node, NEW p \in Participant, GetBalance(p, n)
      PROVE  Unread' \subseteq Unread
  <2> DEFINE q == Sent("ASK_BALANCE", n, p)
  <2>1. q.node = p BY SentFields
  <2>2. Asked' \subseteq Asked \cup {q} BY <1>2 DEF GetBalance, Asked
  <2>3. participant[p] = "idle" /\ \A r \in Participant \ {p} : participant'[r] = participant[r]
    BY <1>2 DEF GetBalance, MInv, TypeOK
  <2> HIDE DEF q
  <2> QED BY <2>1, <2>2, <2>3 DEF Unread
<1>3. ASSUME NEW p \in Participant, AnswerReceived(p) \/ GiveUp(p)
      PROVE  Unread' \subseteq Unread
  <2>1. Asked' \subseteq Asked BY <1>3 DEF AnswerReceived, GiveUp, Asked
  <2>2. \A r \in Participant : participant'[r] = "idle" => participant[r] = "idle"
    BY <1>3 DEF AnswerReceived, GiveUp, MInv, TypeOK
  <2> QED BY <2>1, <2>2 DEF Unread
<1>4. ASSUME Tick PROVE Unread' \subseteq Unread
  <2>1. \A d \in udp : d \in Datagram BY DEF MInv, Sensible
  <2>2. \A e \in Asked' : \E d \in Asked : e.node = d.node
    BY <1>4, <2>1, TickFacts, AgedFields DEF Asked
  <2>3. UNCHANGED participant BY <1>4 DEF Tick
  <2> QED BY <2>2, <2>3 DEF Unread
<1>5. CASE UNCHANGED vars BY <1>5 DEF vars, askVars, Unread, Asked
<1> QED BY <1>1, <1>2, <1>3, <1>4, <1>5 DEF Next

\* Questions can be counted.
LEMMA CountFacts ==
  ASSUME NEW S \in SUBSET Participant, NEW T \in SUBSET S
  PROVE  /\ IsFiniteSet(T) /\ Cardinality(T) \in Nat /\ Cardinality(S) \in Nat
         /\ Cardinality(T) <= Cardinality(S)
         /\ MaxHold * Cardinality(T) \in Nat
         /\ MaxHold * Cardinality(T) <= MaxHold * Cardinality(S)
<1>1. IsFiniteSet(S) BY Actors, FS_Subset
<1>2. /\ IsFiniteSet(T) /\ Cardinality(T) \in Nat /\ Cardinality(S) \in Nat
      /\ Cardinality(T) <= Cardinality(S)
  BY <1>1, FS_Subset, FS_CardinalityType
<1>3. MaxHold * Cardinality(T) <= MaxHold * Cardinality(S) BY <1>2, TimesGrows, Durations
<1> QED BY <1>2, <1>3, Durations

\* Fewer questions, and no longer a wait, mean a smaller budget.
LEMMA BudgetShrinks ==
  ASSUME MInv, MInv', NEW n \in Node, Unread' \subseteq Unread,
         main'[n] = "balance" => main[n] = "balance" /\ held'[n] <= held[n]
  PROVE  Budget(n)' <= Budget(n)
<1>1. Unread \subseteq Participant BY DEF Unread
<1>2. MaxHold * Cardinality(Unread') <= MaxHold * Cardinality(Unread) BY <1>1, CountFacts
<1>3. MaxHold * Cardinality(Unread') \in Nat /\ MaxHold * Cardinality(Unread) \in Nat
  BY <1>1, CountFacts
<1>4. held[n] \in 0..MaxHold /\ held'[n] \in 0..MaxHold BY DEF MInv, TypeOK
<1>5. held[n] \in Nat /\ held'[n] \in Nat BY <1>4, Durations
<1> QED BY <1>2, <1>3, <1>5 DEF Budget

\* A question that is read costs what main may wait for it.
LEMMA BudgetAsk ==
  ASSUME MInv, MInv', NEW k \in Node, AskBalanceReceived(k), NEW n \in Node
  PROVE  Budget(n)' <= Budget(n)
<1>1. PICK d \in Asked : /\ d.node \in Participant /\ Asked' = Asked \ {d}
                         /\ main' = [main EXCEPT ![k] = "balance"]
  BY AskCases
<1>2. UNCHANGED << held, participant >> BY AskCases DEF askVars
<1>3. d.node \in Unread /\ d.node \notin Unread'
  BY <1>1, <1>2 DEF Unread, MInv, Questions
<1>4. Unread' \subseteq Unread \ {d.node} BY <1>1, <1>2, <1>3 DEF Unread
<1>5. Unread \subseteq Participant BY DEF Unread
<1>6. IsFiniteSet(Unread) BY <1>5, CountFacts
<1>7. Cardinality(Unread \ {d.node}) = Cardinality(Unread) - 1
  BY <1>3, <1>6, FS_RemoveElement
<1>8. MaxHold * Cardinality(Unread') <= MaxHold * Cardinality(Unread \ {d.node})
  BY <1>4, <1>5, CountFacts
<1>9. MaxHold * Cardinality(Unread \ {d.node}) = MaxHold * Cardinality(Unread) - MaxHold
  <2>1. Cardinality(Unread) \in Nat BY <1>5, CountFacts
  <2> QED BY <1>7, <2>1, Durations
<1>10. MaxHold * Cardinality(Unread') \in Nat /\ MaxHold * Cardinality(Unread) \in Nat
  BY <1>4, <1>5, CountFacts
<1>11. held'[n] = held[n] /\ held[n] \in 0..MaxHold /\ MaxHold \in Nat
  BY <1>2, Durations DEF MInv, TypeOK
<1>12. n # k => main'[n] = main[n] BY <1>1 DEF MInv, TypeOK
<1>13. main[k] = "loop" BY AskCases DEF Receiving
<1> QED BY <1>8, <1>9, <1>10, <1>11, <1>12, <1>13 DEF Budget

\* What was spent is a number, at most HeldUp.
LEMMA SpentTyped ==
  ASSUME MInv, NEW n \in Node
  PROVE  Budget(n) \in Nat /\ Spent(n) \in Int /\ Spent(n) <= HeldUp
<1>1. Unread \subseteq Participant BY DEF Unread
<1>2. MaxHold * Cardinality(Unread) \in Nat BY <1>1, CountFacts
<1>3. held[n] \in 0..MaxHold BY DEF MInv, TypeOK
<1>4. held[n] \in Nat BY <1>3, Durations
<1>5. Budget(n) \in Nat BY <1>2, <1>4 DEF Budget
<1> QED BY <1>5, Bounds DEF Spent

\* It never falls, and grows while main is held up.
LEMMA SpentGrows ==
  ASSUME MInv, [Next]_vars, NEW n \in Node
  PROVE  /\ Spent(n) \in Int /\ Spent(n)' \in Int /\ Spent(n)' <= HeldUp
         /\ Spent(n) <= Spent(n)'
         /\ Tick /\ main[n] = "balance" => Spent(n) + 1 <= Spent(n)'
<1>1. MInv' BY NextTyped
<1>2. Unread' \subseteq Unread BY UnreadShrinks
<1> DEFINE NoWait == main'[n] = "balance" => (main[n] = "balance" /\ held'[n] <= held[n])
<1>3. held[n] \in 0..MaxHold BY DEF MInv, TypeOK
<1>4. held[n] \in Nat /\ held[n] <= held[n] BY <1>3, Durations
<1>5. ASSUME NEW k \in Node,
             Start(k) \/ Stop(k) \/ Round(k) \/ ConnectReceived(k) \/ ShareServerReceived(k)
               \/ KeepReceived(k) \/ AnswerBalance(k) \/ Mine(k)
      PROVE  NoWait
  <2>1. CASE Ends(k)
    <3>1. /\ main'[k] = "loop"
          /\ n # k => main'[n] = main[n] /\ held'[n] = held[n]
      BY <2>1 DEF Ends, MInv, TypeOK
    <3> QED BY <3>1, <1>4
  <2>2. CASE UNCHANGED mainVars BY <2>2, <1>4 DEF mainVars
  <2>3. CASE AnswerBalance(k)
    <3>1. held' = held /\ main' = [main EXCEPT ![k] = "loop"] BY <2>3 DEF AnswerBalance
    <3>2. main'[n] = "balance" => main[n] = "balance" BY <3>1 DEF MInv, TypeOK
    <3> QED BY <3>1, <3>2, <1>4
  <2>4. CASE Mine(k)
    <3>1. /\ main' = main /\ main[k] = "loop"
          /\ n # k => held'[n] = held[n]
      BY <2>4 DEF Mine, MInv, TypeOK
    <3> QED BY <3>1, <1>4
  <2>5. ConnectReceived(k) => Ends(k) \/ UNCHANGED mainVars BY ConnectCases
  <2> QED
    BY <1>5, <2>1, <2>2, <2>3, <2>4, <2>5
    DEF Start, Stop, Round, SendKeeps, RemoveDead, ShareServerReceived, KeepReceived
<1>6. ASSUME NEW p \in Participant,
             AnswerReceived(p) \/ GiveUp(p) \/ \E k \in Node : GetBalance(p, k)
      PROVE  NoWait
  <2>1. UNCHANGED mainVars BY <1>6 DEF AnswerReceived, GiveUp, GetBalance
  <2> QED BY <1>4, <2>1 DEF mainVars
<1>7. ASSUME Tick
      PROVE  /\ NoWait
             /\ main[n] = "balance" => main'[n] = "balance" /\ held'[n] = held[n] - 1
  BY <1>4, <1>7, TickFacts
<1>8. UNCHANGED vars => NoWait BY <1>4 DEF vars, mainVars
<1>9. NoWait \/ \E k \in Node : AskBalanceReceived(k)
  BY <1>5, <1>6, <1>7, <1>8 DEF Next, Receive
<1>10. Budget(n)' <= Budget(n) BY <1>1, <1>2, <1>9, BudgetShrinks, BudgetAsk
<1>11. Tick /\ main[n] = "balance" => Budget(n)' + 1 <= Budget(n)
  <2> SUFFICES ASSUME Tick, main[n] = "balance" PROVE Budget(n)' + 1 <= Budget(n) OBVIOUS
  <2>1. Unread \subseteq Participant BY DEF Unread
  <2>2. /\ MaxHold * Cardinality(Unread') <= MaxHold * Cardinality(Unread)
        /\ MaxHold * Cardinality(Unread') \in Nat /\ MaxHold * Cardinality(Unread) \in Nat
    BY <1>2, <2>1, CountFacts
  <2> QED BY <1>4, <1>7, <2>2 DEF Budget
<1>12. Budget(n) \in Nat /\ Budget(n)' \in Nat
  <2>1. Unread \subseteq Participant /\ Unread' \subseteq Participant BY <1>2 DEF Unread
  <2>2. MaxHold * Cardinality(Unread) \in Nat /\ MaxHold * Cardinality(Unread') \in Nat
    BY <2>1, CountFacts
  <2>3. held'[n] \in 0..MaxHold BY <1>1 DEF MInv, TypeOK
  <2>4. held'[n] \in Nat BY <2>3, Durations
  <2> QED BY <1>4, <2>2, <2>4 DEF Budget
<1>13. Spent(n) = HeldUp - Budget(n) /\ Spent(n)' = HeldUp - Budget(n)' BY DEF Spent
<1> QED BY <1>10, <1>11, <1>12, <1>13, Bounds

\* More is never spent than there was.
SpentInv == \A n \in Node : 0 <= Spent(n)

LEMMA InitSpent == ASSUME Init PROVE SpentInv
<1>1. Unread = Participant BY DEF Init, Unread
<1>2. Cardinality(Participant) \in Nat BY Actors, FS_CardinalityType
<1>3. \A n \in Node : main[n] = "loop" BY DEF Init
<1>4. \A n \in Node : Budget(n) = MaxHold * Cardinality(Participant) + 0
  BY <1>1, <1>3 DEF Budget
<1>5. \A n \in Node : Budget(n) = HeldUp BY <1>2, <1>4, Durations DEF HeldUp
<1> QED BY <1>5, Bounds DEF SpentInv, Spent

LEMMA NextSpent == ASSUME MInv, SpentInv, [Next]_vars PROVE SpentInv'
  BY SpentGrows DEF SpentInv

-----------------------------------------------------------------------------
(* The third layer: where a question is, and for how long it has been there.  *)

\* The ticks a participant has waited.
Waited(p) == Ticks - patience[p]

\* Its question has not been read ...
InFlight(p) ==
  \E d \in udp : d.header = "ASK_BALANCE" /\ d.node = p /\ Waited(p) <= d.waited + Spent(d.to)

\* ... or main is about to answer ...
Handled(p) ==
  \E n \in Node : main[n] = "balance" /\ asker[n] = p /\ Waited(p) <= MaxDelay + Spent(n)

\* ... or the answer is on its way.
Returning(p) ==
  \E d \in udp : d.header = "SEND_BALANCE" /\ d.to = p
                 /\ Waited(p) <= MaxDelay + HeldUp + d.waited

WaitInv ==
  stopped = {} => \A p \in Participant : participant[p] = "waiting" =>
                    InFlight(p) \/ Handled(p) \/ Returning(p)

LEMMA WaitedTyped ==
  ASSUME MInv, NEW p \in Participant
  PROVE  patience[p] \in Int /\ 0 <= patience[p] /\ Waited(p) \in Int
<1>1. patience[p] \in 0..Ticks BY DEF MInv, TypeOK
<1> QED BY <1>1, Scale DEF Waited

\* A question, a participant that main is about to answer, and an answer are where
\* they were, after a step that leaves them and the participant's patience alone.
LEMMA InFlightStays ==
  ASSUME MInv, [Next]_vars, NEW p \in Participant, patience'[p] = patience[p], InFlight(p),
         \A d \in udp : d.header = "ASK_BALANCE" /\ d.node = p => d \in udp'
  PROVE  InFlight(p)'
<1>1. PICK d \in udp : /\ d.header = "ASK_BALANCE" /\ d.node = p
                       /\ Waited(p) <= d.waited + Spent(d.to)
  BY DEF InFlight
<1>2. d.to \in Node /\ d.waited \in 0..MaxDelay BY <1>1, DatagramFields DEF MInv, Sensible
<1>3. Waited(p) \in Int /\ Waited(p)' = Waited(p) BY WaitedTyped DEF Waited
<1>4. Waited(p)' <= d.waited + Spent(d.to)' BY <1>1, <1>2, <1>3, SpentGrows, Durations
<1> QED BY <1>1, <1>4 DEF InFlight

LEMMA HandledStays ==
  ASSUME MInv, [Next]_vars, NEW p \in Participant, patience'[p] = patience[p], Handled(p),
         \A n \in Node : main[n] = "balance" /\ asker[n] = p =>
           main'[n] = "balance" /\ asker'[n] = p
  PROVE  Handled(p)'
<1>1. PICK n \in Node : /\ main[n] = "balance" /\ asker[n] = p
                        /\ Waited(p) <= MaxDelay + Spent(n)
  BY DEF Handled
<1>2. Waited(p) \in Int /\ Waited(p)' = Waited(p) BY WaitedTyped DEF Waited
<1>3. Waited(p)' <= MaxDelay + Spent(n)' BY <1>1, <1>2, SpentGrows, Durations
<1> QED BY <1>1, <1>3 DEF Handled

LEMMA ReturningStays ==
  ASSUME NEW p \in Participant, patience'[p] = patience[p], Returning(p),
         \A d \in udp : d.header = "SEND_BALANCE" /\ d.to = p => d \in udp'
  PROVE  Returning(p)'
  BY DEF Returning, Waited

\* A step that leaves all of them where they are.
LEMMA WaitUntouched ==
  ASSUME MInv, [Next]_vars, WaitInv, stopped' = {} => stopped = {},
         \A d \in udp : d.header \in {"ASK_BALANCE", "SEND_BALANCE"} => d \in udp',
         UNCHANGED << main, asker, askVars >>
  PROVE  WaitInv'
  BY InFlightStays, HandledStays, ReturningStays DEF WaitInv, askVars

\* The steps that concern one participant: main reads its question, ...
LEMMA AskWaits ==
  ASSUME MInv, [Next]_vars, WaitInv, NEW k \in Node, AskBalanceReceived(k)
  PROVE  WaitInv'
<1>1. /\ UNCHANGED << nodeVars, askVars >> /\ main[k] = "loop"
  BY AskCases DEF Receiving
<1>2. PICK q \in Asked :
        /\ q.to = k /\ q.node \in Participant /\ udp' = udp \ {q}
        /\ main' = [main EXCEPT ![k] = "balance"]
        /\ asker' = [asker EXCEPT ![k] = q.node]
  BY AskCases
<1>3. /\ main'[k] = "balance" /\ asker'[k] = q.node
      /\ \A n \in Node \ {k} : main'[n] = main[n] /\ asker'[n] = asker[n]
  BY <1>2 DEF MInv, TypeOK
<1> SUFFICES ASSUME stopped = {}, NEW p \in Participant, participant[p] = "waiting"
             PROVE  (InFlight(p) \/ Handled(p) \/ Returning(p))'
  BY <1>1 DEF WaitInv, nodeVars, askVars
<1>4. patience'[p] = patience[p] BY <1>1 DEF askVars
<1>5. CASE InFlight(p)
  <2>1. PICK d \in udp : /\ d.header = "ASK_BALANCE" /\ d.node = p
                         /\ Waited(p) <= d.waited + Spent(d.to)
    BY <1>5 DEF InFlight
  <2>2. CASE d = q
    <3>1. q.waited \in 0..MaxDelay BY DatagramFields DEF MInv, Sensible, Asked
    <3>2. Waited(p) \in Int /\ Waited(p)' = Waited(p) BY <1>4, WaitedTyped DEF Waited
    <3>3. Waited(p)' <= MaxDelay + Spent(k)'
      BY <1>2, <2>1, <2>2, <3>1, <3>2, SpentGrows, Durations
    <3> QED BY <1>3, <2>1, <2>2, <3>3 DEF Handled
  <2>3. CASE d # q
    <3>1. \A e \in udp : e.header = "ASK_BALANCE" /\ e.node = p => e \in udp'
      BY <1>2, <2>1, <2>3 DEF MInv, Questions, Asked
    <3> QED BY <1>4, <1>5, <3>1, InFlightStays
  <2> QED BY <2>2, <2>3
<1>6. CASE Handled(p) BY <1>1, <1>3, <1>4, <1>6, HandledStays
<1>7. CASE Returning(p) BY <1>2, <1>4, <1>7, ReturningStays DEF Asked
<1> QED BY <1>5, <1>6, <1>7 DEF WaitInv

\* ... and answers it; ...
LEMMA AnswerWaits ==
  ASSUME MInv, [Next]_vars, WaitInv, NEW k \in Node, AnswerBalance(k)
  PROVE  WaitInv'
<1> DEFINE a == Sent("SEND_BALANCE", asker[k], k)
<1>1. /\ a.header = "SEND_BALANCE" /\ a.to = asker[k] /\ a.waited = 0 BY SentFields
<1>2. udp' = udp \cup {a} /\ UNCHANGED << nodeVars, askVars >> BY DEF AnswerBalance
<1> HIDE DEF a
<1>3. \A n \in Node \ {k} : main'[n] = main[n] /\ asker'[n] = asker[n]
  BY DEF AnswerBalance, MInv, TypeOK
<1> SUFFICES ASSUME stopped = {}, NEW p \in Participant, participant[p] = "waiting"
             PROVE  (InFlight(p) \/ Handled(p) \/ Returning(p))'
  BY <1>2 DEF WaitInv, nodeVars, askVars
<1>4. patience'[p] = patience[p] BY <1>2 DEF askVars
<1>5. CASE InFlight(p) BY <1>2, <1>4, <1>5, InFlightStays
<1>6. CASE Handled(p)
  <2>1. PICK n \in Node : /\ main[n] = "balance" /\ asker[n] = p
                          /\ Waited(p) <= MaxDelay + Spent(n)
    BY <1>6 DEF Handled
  <2>2. CASE asker[k] = p
    <3>1. Waited(p) \in Int /\ Waited(p)' = Waited(p) BY <1>4, WaitedTyped DEF Waited
    <3>2. Waited(p)' <= MaxDelay + HeldUp + a.waited
      BY <1>1, <2>1, <3>1, SpentGrows, Bounds, Durations
    <3>3. Returning(p)' BY <1>1, <1>2, <2>2, <3>2 DEF Returning
    <3> QED BY <3>3
  <2>3. CASE asker[k] # p BY <1>3, <1>4, <1>6, <2>3, HandledStays
  <2> QED BY <2>2, <2>3
<1>7. CASE Returning(p) BY <1>2, <1>4, <1>7, ReturningStays
<1> QED BY <1>5, <1>6, <1>7 DEF WaitInv

\* ... a participant asks.
LEMMA GetWaits ==
  ASSUME MInv, [Next]_vars, SpentInv, WaitInv,
         NEW k \in Node, NEW p \in Participant, GetBalance(p, k)
  PROVE  WaitInv'
<1> DEFINE q == Sent("ASK_BALANCE", k, p)
<1>1. q.header = "ASK_BALANCE" /\ q.to = k /\ q.node = p /\ q.waited = 0 BY SentFields
<1>2. udp' = udp \cup {q} /\ UNCHANGED << nodeVars, mainVars >> BY DEF GetBalance
<1> HIDE DEF q
<1>3. /\ patience'[p] = Ticks
      /\ \A r \in Participant \ {p} : /\ participant'[r] = participant[r]
                                      /\ patience'[r] = patience[r]
  BY DEF GetBalance, MInv, TypeOK
<1> SUFFICES ASSUME stopped = {}, NEW r \in Participant, participant'[r] = "waiting"
             PROVE  (InFlight(r) \/ Handled(r) \/ Returning(r))'
  BY <1>2 DEF WaitInv, nodeVars
<1>4. CASE r = p
  <2>1. Waited(p)' = 0 BY <1>3, Scale DEF Waited
  <2>2. 0 <= q.waited + Spent(k)' BY <1>1, SpentGrows DEF SpentInv
  <2>3. Waited(p)' <= q.waited + Spent(q.to)' BY <1>1, <2>1, <2>2
  <2>4. InFlight(p)' BY <1>1, <1>2, <2>3 DEF InFlight
  <2> QED BY <1>4, <2>4
<1>5. CASE r # p
  BY <1>2, <1>3, <1>5, InFlightStays, HandledStays, ReturningStays DEF WaitInv, mainVars
<1> QED BY <1>4, <1>5

\* A participant that is answered, or gives up, no longer waits.
LEMMA DoneWaits ==
  ASSUME MInv, [Next]_vars, WaitInv, NEW p \in Participant, AnswerReceived(p) \/ GiveUp(p)
  PROVE  WaitInv'
<1>1. /\ UNCHANGED << nodeVars, mainVars >>
      /\ \A d \in udp : d.header = "ASK_BALANCE" \/ d.to # p => d \in udp'
  BY DEF AnswerReceived, GiveUp
<1>2. /\ participant'[p] # "waiting"
      /\ \A r \in Participant \ {p} : /\ participant'[r] = participant[r]
                                      /\ patience'[r] = patience[r]
  BY DEF AnswerReceived, GiveUp, MInv, TypeOK
<1> QED
  BY <1>1, <1>2, InFlightStays, HandledStays, ReturningStays DEF WaitInv, nodeVars, mainVars

\* A tick: what waits longer than MaxDelay does so because main is held up.
LEMMA TickWaits ==
  ASSUME MInv, [Next]_vars, WaitInv, Tick
  PROVE  WaitInv'
<1>1. UNCHANGED << stopped, main, asker, participant >> BY DEF Tick
<1> SUFFICES ASSUME stopped = {}, NEW p \in Participant, participant[p] = "waiting"
             PROVE  (InFlight(p) \/ Handled(p) \/ Returning(p))'
  BY <1>1 DEF WaitInv
<1>2. Waited(p) \in Int /\ Waited(p)' = Waited(p) + 1
  BY WaitedTyped, TickFacts, Scale DEF Waited
<1>3. \A d \in udp : d \in Datagram /\ Aged(d) \in udp' BY TickFacts DEF MInv, Sensible
<1>4. CASE InFlight(p)
  <2>1. PICK d \in udp : /\ d.header = "ASK_BALANCE" /\ d.node = p
                         /\ Waited(p) <= d.waited + Spent(d.to)
    BY <1>4 DEF InFlight
  <2>2. d.to \in Node /\ d.waited \in 0..MaxDelay BY <1>3, <2>1, DatagramFields
  <2>3. /\ Aged(d).header = d.header /\ Aged(d).to = d.to /\ Aged(d).node = d.node
        /\ Aged(d).waited = IF d.waited = MaxDelay THEN MaxDelay ELSE d.waited + 1
    BY <1>3, AgedFields
  <2>4. d.waited < MaxDelay \/ main[d.to] = "balance" BY TickFacts
  <2>5. /\ Spent(d.to) \in Int /\ Spent(d.to)' \in Int /\ Spent(d.to) <= Spent(d.to)'
        /\ main[d.to] = "balance" => Spent(d.to) + 1 <= Spent(d.to)'
    BY <2>2, SpentGrows
  <2>6. Waited(p)' <= Aged(d).waited + Spent(d.to)'
    BY <1>2, <2>1, <2>2, <2>3, <2>4, <2>5, Durations
  <2>7. InFlight(p)' BY <1>3, <2>1, <2>3, <2>6 DEF InFlight
  <2> QED BY <2>7
<1>5. CASE Handled(p)
  <2>1. PICK n \in Node : /\ main[n] = "balance" /\ asker[n] = p
                          /\ Waited(p) <= MaxDelay + Spent(n)
    BY <1>5 DEF Handled
  <2>2. Spent(n) \in Int /\ Spent(n)' \in Int /\ Spent(n) + 1 <= Spent(n)'
    BY <2>1, SpentGrows
  <2>3. Waited(p)' <= MaxDelay + Spent(n)' BY <1>2, <2>1, <2>2, Durations
  <2> QED BY <1>1, <2>1, <2>3 DEF Handled
<1>6. CASE Returning(p)
  <2>1. PICK d \in udp : /\ d.header = "SEND_BALANCE" /\ d.to = p
                         /\ Waited(p) <= MaxDelay + HeldUp + d.waited
    BY <1>6 DEF Returning
  <2>2. d.waited \in 0..MaxDelay BY <1>3, <2>1, DatagramFields
  <2>3. d.waited < MaxDelay BY <2>1, TickFacts, Actors
  <2>4. Aged(d).header = d.header /\ Aged(d).to = d.to /\ Aged(d).waited = d.waited + 1
    BY <1>3, <2>2, <2>3, AgedFields, Durations
  <2>5. Waited(p)' <= MaxDelay + HeldUp + Aged(d).waited
    BY <1>2, <2>1, <2>2, <2>4, Bounds, Durations
  <2>6. Returning(p)' BY <1>3, <2>1, <2>4, <2>5 DEF Returning
  <2> QED BY <2>6
<1> QED BY <1>4, <1>5, <1>6 DEF WaitInv

\* Every step keeps track of the questions.
LEMMA NextWaits ==
  ASSUME MInv, SpentInv, WaitInv, [Next]_vars
  PROVE  WaitInv'
<1>1. ASSUME NEW n \in Node, Start(n) \/ Round(n) \/ Mine(n) PROVE WaitInv'
  BY <1>1, WaitUntouched
  DEF Start, Round, SendKeeps, RemoveDead, Mine, nodeVars, mainVars
<1>2. ASSUME NEW n \in Node, Stop(n) PROVE WaitInv' BY <1>2 DEF Stop, WaitInv
<1>3. ASSUME NEW n \in Node, ConnectReceived(n) PROVE WaitInv'
  <2> USE <1>3
  <2>1. UNCHANGED << stopped, askVars >> BY ConnectCases
  <2>2. PICK d \in udp :
          /\ d.header = "CONNECT" /\ d.node \in Node /\ status[d.node] # "off"
          /\ \/ udp \ {d} \subseteq udp' /\ UNCHANGED mainVars
             \/ ~Up(d.node)
    BY ConnectCases
  <2>3. CASE udp \ {d} \subseteq udp' /\ UNCHANGED mainVars
    <3>1. \A e \in udp : e.header \in {"ASK_BALANCE", "SEND_BALANCE"} => e \in udp'
      BY <2>2, <2>3
    <3>2. UNCHANGED << main, asker, askVars >> BY <2>1, <2>3 DEF mainVars
    <3> QED BY <2>1, <3>1, <3>2, WaitUntouched
  <2>4. CASE ~Up(d.node)
    <3>1. stopped # {} BY <2>2, <2>4 DEF MInv, FirstStopped, TypeOK, Up
    <3> QED BY <2>1, <3>1 DEF WaitInv
  <2> QED BY <2>2, <2>3, <2>4
<1>4. ASSUME NEW n \in Node, ShareServerReceived(n) \/ KeepReceived(n) PROVE WaitInv'
  <2>1. UNCHANGED << nodeVars, mainVars, askVars >> BY <1>4, ShareCases, KeepCases
  <2>2. \A e \in udp : e.header \in {"ASK_BALANCE", "SEND_BALANCE"} => e \in udp'
    BY <1>4, ShareCases, KeepCases
  <2>3. UNCHANGED << stopped, main, asker, askVars >> BY <2>1 DEF nodeVars, mainVars
  <2> QED BY <2>2, <2>3, WaitUntouched
<1>5. CASE UNCHANGED vars BY <1>5, WaitUntouched DEF vars, nodeVars, mainVars
<1> QED
  BY <1>1, <1>2, <1>3, <1>4, <1>5, AskWaits, AnswerWaits, GetWaits, DoneWaits, TickWaits
  DEF Next, Receive

\* A question, a wait and an answer fit in a second.
PromptAnswers == 2 * MaxDelay + HeldUp < Ticks

\* Wherever the question is, the participant has not run out of patience.
LEMMA InTime ==
  ASSUME PromptAnswers, MInv, NEW p \in Participant,
         InFlight(p) \/ Handled(p) \/ Returning(p)
  PROVE  patience[p] # 0
<1> SUFFICES ASSUME patience[p] = 0 PROVE FALSE OBVIOUS
<1>1. /\ MaxDelay \in Int /\ HeldUp \in Int /\ Ticks \in Int
      /\ MaxDelay + MaxDelay + HeldUp < Ticks /\ 0 <= MaxDelay
  BY Bounds, Durations, Scale DEF PromptAnswers
<1>2. Waited(p) = Ticks BY <1>1 DEF Waited
<1>3. \A d \in udp : d.waited \in Int /\ d.waited <= MaxDelay
  BY DatagramFields, Durations DEF MInv, Sensible
<1>4. CASE InFlight(p)
  <2>1. PICK d \in udp : d.header = "ASK_BALANCE" /\ Ticks <= d.waited + Spent(d.to)
    BY <1>2, <1>4 DEF InFlight
  <2>2. d.to \in Node BY <2>1, DatagramFields DEF MInv, Sensible
  <2>3. Spent(d.to) \in Int /\ Spent(d.to) <= HeldUp BY <2>2, SpentTyped
  <2> QED BY <1>1, <1>3, <2>1, <2>3
<1>5. CASE Handled(p)
  <2>1. PICK n \in Node : Ticks <= MaxDelay + Spent(n) BY <1>2, <1>5 DEF Handled
  <2>2. Spent(n) \in Int /\ Spent(n) <= HeldUp BY SpentTyped
  <2> QED BY <1>1, <2>1, <2>2
<1>6. CASE Returning(p)
  <2>1. PICK d \in udp : Ticks <= MaxDelay + HeldUp + d.waited BY <1>2, <1>6 DEF Returning
  <2> QED BY <1>1, <1>3, <2>1
<1> QED BY <1>4, <1>5, <1>6

LEMMA NextAnswered ==
  ASSUME PromptAnswers, MInv, SpentInv, WaitInv, QuestionsAnswered, [Next]_vars
  PROVE  QuestionsAnswered'
<1> SUFFICES ASSUME stopped' = {}, NEW p \in Participant, participant'[p] = "gave up"
             PROVE  FALSE
  BY DEF QuestionsAnswered
<1>1. stopped = {}
  BY ConnectCases
  DEF Next, Start, Stop, Round, SendKeeps, RemoveDead, Receive, ShareServerReceived,
      KeepReceived, AskBalanceReceived, AnswerBalance, Mine, GetBalance, AnswerReceived,
      GiveUp, Tick, vars, nodeVars
<1>2. participant[p] # "gave up" BY <1>1 DEF QuestionsAnswered
<1>3. ASSUME NEW n \in Node,
             Start(n) \/ Stop(n) \/ Round(n) \/ Receive(n) \/ AnswerBalance(n) \/ Mine(n)
      PROVE  FALSE
  BY <1>2, <1>3, NoQuestion
<1>4. ASSUME NEW n \in Node, NEW r \in Participant, GetBalance(r, n) PROVE FALSE
  BY <1>2, <1>4 DEF GetBalance, MInv, TypeOK
<1>5. ASSUME NEW r \in Participant, AnswerReceived(r) PROVE FALSE
  BY <1>2, <1>5 DEF AnswerReceived, MInv, TypeOK
<1>6. GiveUp(p)
  <2>1. ASSUME NEW r \in Participant, GiveUp(r) PROVE r = p
    BY <1>2, <2>1 DEF GiveUp, MInv, TypeOK
  <2>2. ~Tick /\ ~UNCHANGED vars BY <1>2 DEF Tick, vars, askVars
  <2> QED BY <1>3, <1>4, <1>5, <2>1, <2>2 DEF Next
<1>7. participant[p] = "waiting" /\ patience[p] = 0 BY <1>6 DEF GiveUp
<1> QED BY <1>1, <1>7, InTime DEF WaitInv

\* If a question, the waits of main for all questions, and an answer fit in the second
\* that select is given, then a participant is answered as long as no node stops: no
\* question is lost or answered to someone else, and a KEEP that main has to read first
\* does not make it wait longer (ASK_BALANCE, SEND_BALANCE).
THEOREM QuestionsAlwaysAnswered ==
  ASSUME PromptAnswers
  PROVE  Safety => []QuestionsAnswered
<1>1. Init => WaitInv /\ QuestionsAnswered BY DEF Init, WaitInv, QuestionsAnswered
<1>2. MInv /\ SpentInv /\ WaitInv /\ QuestionsAnswered /\ [Next]_vars
        => SpentInv' /\ WaitInv' /\ QuestionsAnswered'
  BY NextSpent, NextWaits, NextAnswered
<1>3. Init => SpentInv BY InitSpent
<1> QED BY <1>1, <1>2, <1>3, AlwaysTyped, PTL DEF Safety

-----------------------------------------------------------------------------
(* The fourth layer: how long ago a running node was heard.                *)

\* A mesh of all nodes changes by losses only.
Static ==
  Mesh = Node => /\ \A d \in udp : d.header \notin {"CONNECT", "SHARE_SERVER"}
                 /\ \A n \in Node : status[n] # "off"

\* How late a node that inserted another one may be connected back to.
Late == IF Mesh = Node THEN 0 ELSE MaxDelay + HeldUp

\* Ticks since a node sent KEEPs.
Silent(m) == IF fthread[m] = "removing" THEN 0 ELSE since[m]

\* n knows m.  m does not know n, and is about to read n's CONNECT ...
Introduced(n, m) ==
  /\ ~Known(m, n)
  /\ \E d \in udp : /\ d.header = "CONNECT" /\ d.to = m /\ d.node = n
                    /\ server_table[n][m] <= d.waited + Spent(m)

\* ... or m knows n, and has sent it a KEEP ...
KeepComing(n, m) ==
  /\ Known(m, n)
  /\ \E d \in udp : /\ d.header = "KEEP" /\ d.to = n /\ d.node = m
                    /\ server_table[n][m] <= d.waited + Spent(n) + MaxPeriod + Late

\* ... or has been heard since it last sent one.
KeepRead(n, m) == Known(m, n) /\ server_table[n][m] <= Silent(m) + Late

Heard(n, m) == Introduced(n, m) \/ KeepComing(n, m) \/ KeepRead(n, m)

HeardInv == \A n, m \in Node : Up(n) /\ Up(m) /\ Known(n, m) => Heard(n, m)

\* The period of fthread, the delay of a KEEP, the waits of main, and the time a node
\* may be unknown to one it knows, fit in the time a node survives without a KEEP.
KeepsUp == MaxPeriod + MaxDelay + HeldUp + Late <= Limit * Ticks

\* The numbers that are compared.
LEMMA HeardTyped ==
  ASSUME MInv, NEW n \in Node, NEW m \in Node
  PROVE  /\ server_table[n][m] \in Int /\ -1 <= server_table[n][m]
         /\ Silent(m) \in Int /\ 0 <= Silent(m)
         /\ Up(m) => Silent(m) <= MaxPeriod
         /\ Late \in Int /\ 0 <= Late /\ MaxPeriod \in Int /\ 0 <= MaxPeriod
         /\ HeldUp \in Int /\ 0 <= HeldUp
<1>1. server_table[n][m] \in Age \cup {Absent} BY DEF MInv, TypeOK
<1>2. since[m] \in 0..Detection /\ (Up(m) => since[m] <= MaxPeriod)
  BY DEF MInv, TypeOK, OnTime
<1>3. Late \in Int /\ 0 <= Late BY Bounds, Durations DEF Late
<1> QED BY <1>1, <1>2, <1>3, Bounds, Durations DEF Age, Absent, Silent

LEMMA WaitedInt ==
  ASSUME MInv, NEW d \in udp
  PROVE  d.waited \in Int /\ 0 <= d.waited /\ d.waited <= MaxDelay /\ MaxDelay \in Int
<1>1. d.waited \in 0..MaxDelay BY DatagramFields DEF MInv, Sensible
<1> QED BY <1>1, Durations

\* Two running nodes that know each other are not stale to each other.
LEMMA HeardFresh ==
  ASSUME KeepsUp, MInv, HeardInv, NEW n \in Node, NEW m \in Node,
         Up(n), Up(m), Known(n, m), Known(m, n)
  PROVE  ~Stale(server_table[n][m], phase)
<1> DEFINE age == server_table[n][m]
<1>1. KeepComing(n, m) \/ KeepRead(n, m) BY DEF HeardInv, Heard, Introduced
<1>2. age <= Limit * Ticks
  <2>0. Limit * Ticks \in Int BY Scale
  <2>1. CASE KeepComing(n, m)
    <3>1. PICK d \in udp : age <= d.waited + Spent(n) + MaxPeriod + Late
      BY <2>1 DEF KeepComing
    <3> HIDE DEF age
    <3>2. Spent(n) \in Int /\ Spent(n) <= HeldUp BY SpentTyped
    <3>3. age \in Int BY HeardTyped DEF age
    <3> QED BY <2>0, <3>1, <3>2, <3>3, WaitedInt, HeardTyped DEF KeepsUp
  <2>2. CASE KeepRead(n, m)
    BY <2>0, <2>2, HeardTyped, Bounds, Durations DEF KeepRead, KeepsUp
  <2> QED BY <1>1, <2>1, <2>2
<1>3. phase \in Phase BY DEF MInv, TypeOK
<1> QED BY <1>2, <1>3, HeardTyped, YoungNotStale

\* A pair that a step leaves alone.
LEMMA HeardStays ==
  ASSUME MInv, [Next]_vars, NEW n \in Node, NEW m \in Node, Heard(n, m),
         server_table'[n][m] = server_table[n][m], Known(m, n)' <=> Known(m, n),
         \A d \in udp : d.header = "CONNECT" /\ d.to = m /\ d.node = n => d \in udp',
         \A d \in udp : d.header = "KEEP" /\ d.to = n /\ d.node = m => d \in udp',
         Silent(m)' = Silent(m)
  PROVE  Heard(n, m)'
<1>1. /\ Spent(n) \in Int /\ Spent(n)' \in Int /\ Spent(n) <= Spent(n)'
      /\ Spent(m) \in Int /\ Spent(m)' \in Int /\ Spent(m) <= Spent(m)'
  BY SpentGrows
<1>2. CASE Introduced(n, m)
  <2>1. PICK d \in udp : /\ d.header = "CONNECT" /\ d.to = m /\ d.node = n
                         /\ server_table[n][m] <= d.waited + Spent(m)
    BY <1>2 DEF Introduced
  <2>2. server_table'[n][m] <= d.waited + Spent(m)' BY <1>1, <2>1, HeardTyped, WaitedInt
  <2>3. Introduced(n, m)' BY <1>2, <2>1, <2>2 DEF Introduced
  <2> QED BY <2>3 DEF Heard
<1>3. CASE KeepComing(n, m)
  <2>1. PICK d \in udp : /\ d.header = "KEEP" /\ d.to = n /\ d.node = m
                         /\ server_table[n][m] <= d.waited + Spent(n) + MaxPeriod + Late
    BY <1>3 DEF KeepComing
  <2>2. server_table'[n][m] <= d.waited + Spent(n)' + MaxPeriod + Late
    BY <1>1, <2>1, HeardTyped, WaitedInt
  <2>3. KeepComing(n, m)' BY <1>3, <2>1, <2>2 DEF KeepComing
  <2> QED BY <2>3 DEF Heard
<1>4. CASE KeepRead(n, m)
  <2>1. KeepRead(n, m)' BY <1>4 DEF KeepRead
  <2> QED BY <2>1 DEF Heard
<1> QED BY <1>2, <1>3, <1>4 DEF Heard

\* A step that changes no table, process or round, and takes no CONNECT or KEEP.
LEMMA HeardUntouched ==
  ASSUME MInv, HeardInv, [Next]_vars,
         \A d \in udp : d.header \in {"CONNECT", "KEEP"} => d \in udp',
         UNCHANGED << nodeVars, tableVars, roundVars >>
  PROVE  HeardInv'
<1> SUFFICES ASSUME NEW n \in Node, NEW m \in Node, (Up(n) /\ Up(m) /\ Known(n, m))'
             PROVE  Heard(n, m)'
  BY DEF HeardInv
<1>1. Heard(n, m) BY DEF HeardInv, Up, Known, nodeVars, tableVars
<1>2. Silent(m)' = Silent(m) BY DEF Silent, roundVars
<1> QED BY <1>1, <1>2, HeardStays DEF tableVars, Known

\* Start: the CONNECT of the new process is on its way.
LEMMA StartHeard ==
  ASSUME MayRestart = {}, MInv, SpentInv, HeardInv, [Next]_vars, NEW k \in Node, Start(k)
  PROVE  HeardInv'
<1>1. status[k] = "off" BY DEF Start
<1>2. \A m \in Node : ~Known(m, k) BY <1>1 DEF MInv, KnownStarted
<1>3. /\ \A m \in Node \ {k} : status'[m] = status[m] /\ server_table'[m] = server_table[m]
      /\ \A m \in Node : server_table'[k][m] = IF m = Peer[k] THEN 0 ELSE Absent
      /\ \A m \in Node \ {k} : since'[m] = since[m] /\ fthread'[m] = fthread[m]
  BY DEF Start, MInv, TypeOK
<1>4. udp \subseteq udp' BY DEF Start
<1> SUFFICES ASSUME NEW n \in Node, NEW m \in Node, (Up(n) /\ Up(m) /\ Known(n, m))'
             PROVE  Heard(n, m)'
  BY DEF HeardInv
<1>5. CASE n = k
  <2>1. m = Peer[k] /\ m # k /\ server_table'[n][m] = 0
    BY <1>3, <1>5, Deployment DEF Known
  <2>2. m # Nobody BY Actors
  <2> DEFINE c == Sent("CONNECT", m, k)
  <2>3. c \in udp' /\ c.header = "CONNECT" /\ c.to = m /\ c.node = k /\ c.waited = 0
    BY <2>1, <2>2, SentFields DEF Start
  <2> HIDE DEF c
  <2>4. ~Known(m, k)' BY <1>2, <1>3, <2>1 DEF Known
  <2>5. server_table'[n][m] <= c.waited + Spent(m)' BY <2>1, <2>3, SpentGrows DEF SpentInv
  <2>6. Introduced(n, m)' BY <1>5, <2>3, <2>4, <2>5 DEF Introduced
  <2> QED BY <2>6 DEF Heard
<1>6. CASE n # k
  <2>1. Known(n, m) /\ m # k BY <1>2, <1>3, <1>6 DEF Known
  <2>2. Up(n) /\ Up(m) BY <1>3, <1>6, <2>1 DEF Up
  <2>3. Silent(m)' = Silent(m) BY <1>3, <2>1 DEF Silent
  <2>4. Heard(n, m) BY <2>1, <2>2 DEF HeardInv
  <2>5. server_table'[n] = server_table[n] /\ server_table'[m] = server_table[m]
    BY <1>3, <1>6, <2>1
  <2> QED BY <1>4, <2>3, <2>4, <2>5, HeardStays DEF Known
<1> QED BY <1>5, <1>6

\* A process that ends.
LEMMA EndsHeard ==
  ASSUME MInv, HeardInv, [Next]_vars, NEW k \in Node, Ends(k), udp' = {d \in udp : d.to # k}
  PROVE  HeardInv'
<1>1. /\ \A m \in Node \ {k} : status'[m] = status[m] /\ server_table'[m] = server_table[m]
      /\ status'[k] = "down"
      /\ \A m \in Node \ {k} : since'[m] = since[m] /\ fthread'[m] = fthread[m]
  BY DEF Ends, MInv, TypeOK
<1> SUFFICES ASSUME NEW n \in Node, NEW m \in Node, (Up(n) /\ Up(m) /\ Known(n, m))'
             PROVE  Heard(n, m)'
  BY DEF HeardInv
<1>2. n # k /\ m # k BY <1>1 DEF Up
<1>3. server_table'[n] = server_table[n] /\ server_table'[m] = server_table[m]
  BY <1>1, <1>2
<1>4. Heard(n, m) BY <1>1, <1>2, <1>3 DEF HeardInv, Up, Known
<1>5. Silent(m)' = Silent(m) BY <1>1, <1>2 DEF Silent
<1> QED BY <1>2, <1>3, <1>4, <1>5, HeardStays DEF Known

\* SendKeeps: the KEEPs are on their way.
LEMMA SendKeepsHeard ==
  ASSUME MInv, SpentInv, HeardInv, [Next]_vars, NEW k \in Node, SendKeeps(k)
  PROVE  HeardInv'
<1>1. /\ UNCHANGED << nodeVars, tableVars, since >> /\ udp \subseteq udp'
      /\ \A m \in Node \ {k} : fthread'[m] = fthread[m]
      /\ Up(k) /\ fthread[k] = "asleep"
  BY DEF SendKeeps, MInv, TypeOK
<1> SUFFICES ASSUME NEW n \in Node, NEW m \in Node, (Up(n) /\ Up(m) /\ Known(n, m))'
             PROVE  Heard(n, m)'
  BY DEF HeardInv
<1>2. Up(n) /\ Up(m) /\ Known(n, m) BY <1>1 DEF Up, Known, nodeVars, tableVars
<1>3. Heard(n, m) BY <1>2 DEF HeardInv
<1>4. CASE m = k /\ Known(k, n)
  <2>1. n # k BY <1>2, <1>4 DEF MInv, KnownStarted
  <2> DEFINE d == Sent("KEEP", n, k)
  <2>2. d \in udp' BY <1>2, <1>4, <2>1 DEF SendKeeps
  <2>3. d.header = "KEEP" /\ d.to = n /\ d.node = k /\ d.waited = 0 BY SentFields
  <2> HIDE DEF d
  <2>4. 0 <= Spent(n)' /\ Spent(n)' \in Int /\ Spent(n) <= Spent(n)' /\ Spent(n) \in Int
    BY SpentGrows DEF SpentInv
  <2>5. CASE KeepComing(n, m)
    <3>1. PICK e \in udp : /\ e.header = "KEEP" /\ e.to = n /\ e.node = m
                           /\ server_table[n][m] <= e.waited + Spent(n) + MaxPeriod + Late
      BY <2>5 DEF KeepComing
    <3>2. server_table'[n][m] <= e.waited + Spent(n)' + MaxPeriod + Late
      BY <1>1, <2>4, <3>1, HeardTyped, WaitedInt DEF tableVars
    <3>3. KeepComing(n, m)' BY <1>1, <1>4, <3>1, <3>2 DEF KeepComing, Known, tableVars
    <3> QED BY <3>3 DEF Heard
  <2>6. CASE KeepRead(n, m)
    <3>1. server_table[n][m] <= MaxPeriod + Late BY <1>2, <2>6, HeardTyped DEF KeepRead
    <3>2. server_table'[n][m] <= d.waited + Spent(n)' + MaxPeriod + Late
      BY <1>1, <2>3, <2>4, <3>1, HeardTyped DEF tableVars
    <3>3. KeepComing(n, m)'
      BY <1>1, <1>4, <2>2, <2>3, <3>2 DEF KeepComing, Known, tableVars
    <3> QED BY <3>3 DEF Heard
  <2> QED BY <1>3, <1>4, <2>5, <2>6 DEF Heard, Introduced
<1>5. CASE m = k /\ ~Known(k, n)
  <2>1. Introduced(n, m) BY <1>3, <1>5 DEF Heard, KeepComing, KeepRead
  <2>2. PICK e \in udp : /\ e.header = "CONNECT" /\ e.to = m /\ e.node = n
                         /\ server_table[n][m] <= e.waited + Spent(m)
    BY <2>1 DEF Introduced
  <2>3. server_table'[n][m] <= e.waited + Spent(m)'
    BY <1>1, <2>2, HeardTyped, WaitedInt, SpentGrows DEF tableVars
  <2>4. Introduced(n, m)' BY <1>1, <1>5, <2>2, <2>3 DEF Introduced, Known, tableVars
  <2> QED BY <2>4 DEF Heard
<1>6. CASE m # k
  <2>1. Silent(m)' = Silent(m) BY <1>1, <1>6 DEF Silent
  <2> QED BY <1>1, <1>3, <2>1, HeardStays DEF Known, tableVars
<1> QED BY <1>4, <1>5, <1>6

\* RemoveDead: it does not remove one that has heard it.
LEMMA RemoveDeadHeard ==
  ASSUME KeepsUp, MInv, HeardInv, [Next]_vars, NEW k \in Node, RemoveDead(k)
  PROVE  /\ HeardInv'
         /\ \A m \in Node : Up(m) /\ Known(m, k) /\ Known(k, m) => Known(k, m)'
<1>1. /\ UNCHANGED << nodeVars, udp >> /\ Up(k) /\ fthread[k] = "removing"
      /\ \A m \in Node \ {k} : /\ fthread'[m] = fthread[m] /\ since'[m] = since[m]
                               /\ server_table'[m] = server_table[m]
      /\ fthread'[k] = "asleep" /\ since'[k] = 0
      /\ \A m \in Node : server_table'[k][m] =
           IF m = k \/ Stale(server_table[k][m], phase) THEN Absent ELSE server_table[k][m]
  BY DEF RemoveDead, MInv, TypeOK
<1>2. \A m \in Node : Silent(m)' = Silent(m) BY <1>1 DEF Silent
<1>3. ASSUME NEW m \in Node, Up(m), Known(m, k), Known(k, m)
      PROVE  server_table'[k][m] = server_table[k][m]
  <2>1. m # k BY <1>3 DEF MInv, KnownStarted
  <2>2. ~Stale(server_table[k][m], phase) BY <1>1, <1>3, HeardFresh
  <2> QED BY <1>1, <2>1, <2>2
<1>4. ASSUME NEW n \in Node, NEW m \in Node, (Up(n) /\ Up(m) /\ Known(n, m))'
      PROVE  Heard(n, m)'
  <2>1. Known(n, m) /\ server_table'[n][m] = server_table[n][m] BY <1>1, <1>4 DEF Known
  <2>2. Up(n) /\ Up(m) /\ m # n BY <1>1, <1>4, <2>1 DEF Up, nodeVars, MInv, KnownStarted
  <2>3. Known(m, n)' <=> Known(m, n)
    <3>1. CASE m = k
      <4>1. Known(m, n) => Known(m, n)' BY <1>3, <2>1, <2>2, <3>1 DEF Known
      <4>2. Known(m, n)' => Known(m, n) BY <1>1, <3>1 DEF Known
      <4> QED BY <4>1, <4>2
    <3>2. CASE m # k BY <1>1, <3>2 DEF Known
    <3> QED BY <3>1, <3>2
  <2>4. Heard(n, m) BY <2>1, <2>2 DEF HeardInv
  <2> QED BY <1>1, <1>2, <2>1, <2>3, <2>4, HeardStays
<1>5. HeardInv' BY <1>4 DEF HeardInv
<1> QED BY <1>3, <1>5 DEF Known

\* A node k inserts a node j and sends it a CONNECT.  If j knows k, the CONNECT of j was
\* not late.
LEMMA InsertHeard ==
  ASSUME MInv, SpentInv, HeardInv, [Next]_vars, Mesh # Node,
         NEW k \in Node, NEW j \in Node, ~Known(k, j), j # k,
         server_table' = [server_table EXCEPT ![k][j] = 0],
         Up(j) => Sent("CONNECT", j, k) \in udp',
         \A d \in udp : d \in udp' \/ d.header = "SHARE_SERVER"
                                   \/ (d.header = "CONNECT" /\ d.to = k /\ d.node = j),
         UNCHANGED << nodeVars, roundVars >>
  PROVE  HeardInv'
<1>1. /\ server_table'[k][j] = 0
      /\ \A n, m \in Node : <<n, m>> # <<k, j>> => server_table'[n][m] = server_table[n][m]
  BY DEF MInv, TypeOK
<1>2. \A m \in Node : Silent(m)' = Silent(m) BY DEF Silent, roundVars
<1>3. Known(k, j)' BY <1>1 DEF Known, Absent
<1> SUFFICES ASSUME NEW n \in Node, NEW m \in Node, (Up(n) /\ Up(m) /\ Known(n, m))'
             PROVE  Heard(n, m)'
  BY DEF HeardInv
<1>4. Up(n) /\ Up(m) BY DEF Up, nodeVars
<1>5. CASE n = k /\ m = j /\ ~Known(j, k)
  <2> DEFINE c == Sent("CONNECT", j, k)
  <2>1. c \in udp' BY <1>4, <1>5
  <2>2. c.header = "CONNECT" /\ c.to = j /\ c.node = k /\ c.waited = 0 BY SentFields
  <2> HIDE DEF c
  <2>3. server_table'[n][m] <= c.waited + Spent(j)'
    BY <1>1, <1>5, <2>2, SpentGrows DEF SpentInv
  <2>4. ~Known(j, k)' BY <1>1, <1>5 DEF Known
  <2>5. Introduced(n, m)' BY <1>5, <2>1, <2>2, <2>3, <2>4 DEF Introduced
  <2> QED BY <2>5 DEF Heard
<1>6. CASE n = k /\ m = j /\ Known(j, k)
  <2>1. Known(j, k)' BY <1>1, <1>6 DEF Known
  <2>2. server_table'[n][m] <= Silent(m)' + Late BY <1>1, <1>2, <1>6, HeardTyped
  <2>3. KeepRead(n, m)' BY <1>6, <2>1, <2>2 DEF KeepRead
  <2> QED BY <2>3 DEF Heard
<1>7. CASE n = j /\ m = k
  <2>1. Known(j, k) /\ server_table'[n][m] = server_table[n][m] BY <1>1, <1>7 DEF Known
  <2>2. Introduced(j, k)
    BY <1>4, <1>7, <2>1 DEF HeardInv, Heard, KeepComing, KeepRead
  <2>3. PICK d \in udp : /\ d.header = "CONNECT" /\ d.to = k
                         /\ server_table[j][k] <= d.waited + Spent(k)
    BY <2>2 DEF Introduced
  <2>4. Spent(k) \in Int /\ Spent(k) <= HeldUp BY SpentTyped
  <2>5. Late = MaxDelay + HeldUp BY DEF Late
  <2>6. server_table'[n][m] <= Silent(m)' + Late
    BY <1>2, <1>7, <2>1, <2>3, <2>4, <2>5, HeardTyped, WaitedInt
  <2>7. KeepRead(n, m)' BY <1>3, <1>7, <2>6 DEF KeepRead
  <2> QED BY <2>7 DEF Heard
<1>8. CASE <<n, m>> # <<k, j>> /\ <<n, m>> # <<j, k>>
  <2>1. /\ server_table'[n][m] = server_table[n][m]
        /\ server_table'[m][n] = server_table[m][n]
    BY <1>1, <1>8
  <2>2. Heard(n, m) BY <1>4, <2>1 DEF HeardInv, Known
  <2>3. \A d \in udp : d.header = "CONNECT" /\ d.to = m /\ d.node = n => d \in udp'
    BY <1>8
  <2>4. \A d \in udp : d.header = "KEEP" => d \in udp' OBVIOUS
  <2> QED BY <1>2, <2>1, <2>2, <2>3, <2>4, HeardStays DEF Known
<1> QED BY <1>5, <1>6, <1>7, <1>8

\* A CONNECT of a node that is known already tells nothing.
LEMMA RepeatHeard ==
  ASSUME MInv, HeardInv, [Next]_vars, NEW k \in Node, NEW j \in Node, Known(k, j),
         \A d \in udp : d \in udp' \/ d.header \notin {"CONNECT", "KEEP"}
                                   \/ (d.header = "CONNECT" /\ d.to = k /\ d.node = j),
         UNCHANGED << nodeVars, tableVars, roundVars >>
  PROVE  HeardInv'
<1> SUFFICES ASSUME NEW n \in Node, NEW m \in Node, (Up(n) /\ Up(m) /\ Known(n, m))'
             PROVE  Heard(n, m)'
  BY DEF HeardInv
<1>1. Heard(n, m) BY DEF HeardInv, Up, Known, nodeVars, tableVars
<1>2. Silent(m)' = Silent(m) BY DEF Silent, roundVars
<1>3. CASE m = k /\ n = j
  <2>1. Known(m, n) /\ Known(m, n)' BY <1>3 DEF Known, tableVars
  <2>2. CASE KeepComing(n, m)
    <3>1. PICK e \in udp : /\ e.header = "KEEP" /\ e.to = n /\ e.node = m
                           /\ server_table[n][m] <= e.waited + Spent(n) + MaxPeriod + Late
      BY <2>2 DEF KeepComing
    <3>2. server_table'[n][m] <= e.waited + Spent(n)' + MaxPeriod + Late
      BY <3>1, HeardTyped, WaitedInt, SpentGrows DEF tableVars
    <3>3. e \in udp' BY <3>1
    <3>4. KeepComing(n, m)' BY <2>1, <3>1, <3>2, <3>3 DEF KeepComing
    <3> QED BY <3>4 DEF Heard
  <2>3. CASE KeepRead(n, m)
    <3>1. KeepRead(n, m)' BY <1>2, <2>1, <2>3 DEF KeepRead, tableVars
    <3> QED BY <3>1 DEF Heard
  <2> QED BY <1>1, <2>1, <2>2, <2>3 DEF Heard, Introduced
<1>4. CASE ~(m = k /\ n = j) BY <1>1, <1>2, <1>4, HeardStays DEF tableVars, Known
<1> QED BY <1>3, <1>4

\* ConnectReceived.
LEMMA ConnectHeard ==
  ASSUME MInv, SpentInv, Static, HeardInv, [Next]_vars, NEW k \in Node, ConnectReceived(k)
  PROVE  HeardInv'
<1>1. UNCHANGED << phase, stopped >> BY ConnectCases
<1>2. PICK d \in udp :
        /\ d.header = "CONNECT" /\ d.to = k /\ d.node \in Node /\ d.node # k
        /\ \/ /\ Known(k, d.node)
              /\ udp' = udp \ {d}
              /\ UNCHANGED << status, tableVars, roundVars, mainVars >>
           \/ /\ ~Known(k, d.node) /\ Up(d.node)
              /\ udp' = (udp \ {d}) \cup Introduce(k, d.node)
              /\ server_table' = [server_table EXCEPT ![k][d.node] = 0]
              /\ UNCHANGED << status, roundVars, mainVars >>
           \/ /\ udp' = {e \in udp : e.to # k}
              /\ Ends(k)
  BY ConnectCases
<1>3. Mesh # Node BY <1>2 DEF Static
<1>4. CASE /\ Known(k, d.node) /\ udp' = udp \ {d}
           /\ UNCHANGED << status, tableVars, roundVars, mainVars >>
  BY <1>1, <1>2, <1>4, RepeatHeard DEF nodeVars
<1>5. CASE /\ ~Known(k, d.node) /\ Up(d.node)
           /\ udp' = (udp \ {d}) \cup Introduce(k, d.node)
           /\ server_table' = [server_table EXCEPT ![k][d.node] = 0]
           /\ UNCHANGED << status, roundVars, mainVars >>
  <2>1. Sent("CONNECT", d.node, k) \in udp' BY <1>5 DEF Introduce
  <2>2. \A e \in udp : e \in udp' \/ e.header = "SHARE_SERVER"
                      \/ (e.header = "CONNECT" /\ e.to = k /\ e.node = d.node)
    BY <1>2, <1>5
  <2>3. UNCHANGED << nodeVars, roundVars >> BY <1>1, <1>5 DEF nodeVars
  <2>4. d.node \in Node /\ d.node # k BY <1>2
  <2> QED BY <1>3, <1>5, <2>1, <2>2, <2>3, <2>4, InsertHeard
<1>6. CASE udp' = {e \in udp : e.to # k} /\ Ends(k) BY <1>6, EndsHeard
<1> QED BY <1>2, <1>4, <1>5, <1>6

\* ShareServerReceived.
LEMMA ShareHeard ==
  ASSUME MInv, SpentInv, Static, HeardInv, [Next]_vars, NEW k \in Node, ShareServerReceived(k)
  PROVE  HeardInv'
<1>1. UNCHANGED << nodeVars, roundVars >> BY ShareCases
<1>2. PICK d \in udp :
        /\ d.header = "SHARE_SERVER" /\ d.node \in Node /\ d.node # k
        /\ \/ udp' = udp \ {d} /\ UNCHANGED tableVars
           \/ /\ ~Known(k, d.node)
              /\ server_table' = [server_table EXCEPT ![k][d.node] = 0]
              /\ udp' = (udp \ {d}) \cup (IF Up(d.node) THEN {Sent("CONNECT", d.node, k)}
                                                       ELSE {})
  BY ShareCases
<1>3. Mesh # Node BY <1>2 DEF Static
<1>4. CASE udp' = udp \ {d} /\ UNCHANGED tableVars
  BY <1>1, <1>2, <1>4, HeardUntouched
<1>5. CASE /\ ~Known(k, d.node)
           /\ server_table' = [server_table EXCEPT ![k][d.node] = 0]
           /\ udp' = (udp \ {d}) \cup (IF Up(d.node) THEN {Sent("CONNECT", d.node, k)} ELSE {})
  <2>1. Up(d.node) => Sent("CONNECT", d.node, k) \in udp' BY <1>5
  <2>2. \A e \in udp : e \in udp' \/ e.header = "SHARE_SERVER" BY <1>2, <1>5
  <2> QED BY <1>1, <1>2, <1>3, <1>5, <2>1, <2>2, InsertHeard
<1> QED BY <1>2, <1>4, <1>5

\* KeepReceived: the sender has just been heard.
LEMMA KeepHeard ==
  ASSUME MInv, SpentInv, HeardInv, [Next]_vars, NEW k \in Node, KeepReceived(k)
  PROVE  HeardInv'
<1>1. UNCHANGED << nodeVars, roundVars >> BY KeepCases
<1>2. PICK j \in Node, d \in udp :
        /\ d.header = "KEEP" /\ d.to = k /\ d.node = j /\ j # k /\ udp' = udp \ {d}
        /\ \/ ~Known(k, j) /\ UNCHANGED tableVars
           \/ Known(k, j) /\ server_table' = [server_table EXCEPT ![k][j] = 0]
  BY KeepCases
<1>3. \A n, m \in Node : <<n, m>> # <<k, j>> => server_table'[n][m] = server_table[n][m]
  <2>1. CASE UNCHANGED tableVars BY <2>1 DEF tableVars
  <2>2. CASE server_table' = [server_table EXCEPT ![k][j] = 0] BY <2>2 DEF MInv, TypeOK
  <2> QED BY <1>2, <2>1, <2>2
<1>4. ASSUME Known(k, j) PROVE server_table'[k][j] = 0
  <2>1. server_table' = [server_table EXCEPT ![k][j] = 0] BY <1>2, <1>4
  <2> QED BY <2>1 DEF MInv, TypeOK
<1>5. \A n, m \in Node : Known(n, m)' <=> Known(n, m)
  BY <1>2, <1>3, <1>4 DEF Known, tableVars, Absent
<1>6. \A m \in Node : Silent(m)' = Silent(m) BY <1>1 DEF Silent, roundVars
<1> SUFFICES ASSUME NEW n \in Node, NEW m \in Node, (Up(n) /\ Up(m) /\ Known(n, m))'
             PROVE  Heard(n, m)'
  BY DEF HeardInv
<1>7. Heard(n, m) BY <1>1, <1>5 DEF HeardInv, Up, nodeVars
<1>8. CASE n = k /\ m = j
  <2>1. server_table'[n][m] = 0 BY <1>4, <1>5, <1>8
  <2>2. CASE Known(m, n)
    <3>1. server_table'[n][m] <= Silent(m)' + Late BY <1>6, <2>1, HeardTyped
    <3>2. KeepRead(n, m)' BY <1>5, <2>2, <3>1 DEF KeepRead
    <3> QED BY <3>2 DEF Heard
  <2>3. CASE ~Known(m, n)
    <3>1. PICK e \in udp : e.header = "CONNECT" /\ e.to = m /\ e.node = n
      BY <1>7, <2>3 DEF Heard, Introduced, KeepComing, KeepRead
    <3>2. e \in udp' BY <1>2, <3>1
    <3>3. server_table'[n][m] <= e.waited + Spent(m)'
      BY <2>1, <3>1, WaitedInt, SpentGrows DEF SpentInv
    <3>4. Introduced(n, m)' BY <1>5, <2>3, <3>1, <3>2, <3>3 DEF Introduced
    <3> QED BY <3>4 DEF Heard
  <2> QED BY <2>2, <2>3
<1>9. CASE <<n, m>> # <<k, j>>
  <2>1. \A e \in udp : e.header = "KEEP" /\ e.to = n /\ e.node = m => e \in udp'
    BY <1>2, <1>9
  <2>2. \A e \in udp : e.header = "CONNECT" => e \in udp' BY <1>2
  <2> QED BY <1>3, <1>5, <1>6, <1>7, <1>9, <2>1, <2>2, HeardStays
<1> QED BY <1>8, <1>9

\* A tick: everybody's age grows, and so does what explains it.
LEMMA TickHeard ==
  ASSUME MInv, HeardInv, [Next]_vars, Tick
  PROVE  HeardInv'
<1>1. UNCHANGED << status, fthread, main >> BY DEF Tick
<1>2. \A n, m \in Node : /\ server_table[n][m] \in Age \cup {Absent}
                         /\ server_table'[n][m] = Older(server_table[n][m])
  <2>1. \A n, m \in Node : server_table[n][m] \in Age \cup {Absent} BY TableTyped
  <2> QED BY <2>1, TickFacts
<1>3. \A n, m \in Node : /\ server_table'[n][m] \in Int
                         /\ server_table'[n][m] <= server_table[n][m] + 1
                         /\ Known(n, m)' <=> Known(n, m)
  BY <1>2, OlderFacts DEF Known, Age, Absent
<1>4. \A d \in udp : d \in Datagram /\ Aged(d) \in udp' BY TickFacts DEF MInv, Sensible
<1>5. \A d \in udp : /\ Aged(d).header = d.header /\ Aged(d).to = d.to /\ Aged(d).node = d.node
                     /\ Aged(d).waited = IF d.waited = MaxDelay THEN MaxDelay ELSE d.waited + 1
  BY <1>4, AgedFields
<1>6. ASSUME NEW d \in udp, d.to \in Node
      PROVE  /\ Aged(d).waited \in Int /\ Spent(d.to) \in Int /\ Spent(d.to)' \in Int
             /\ d.waited + Spent(d.to) + 1 <= Aged(d).waited + Spent(d.to)'
  <2>1. d.waited < MaxDelay \/ main[d.to] = "balance" BY TickFacts
  <2>2. /\ Spent(d.to) \in Int /\ Spent(d.to)' \in Int /\ Spent(d.to) <= Spent(d.to)'
        /\ main[d.to] = "balance" => Spent(d.to) + 1 <= Spent(d.to)'
    BY <1>6, SpentGrows
  <2> QED BY <1>5, <2>1, <2>2, WaitedInt
<1> SUFFICES ASSUME NEW n \in Node, NEW m \in Node, (Up(n) /\ Up(m) /\ Known(n, m))'
             PROVE  Heard(n, m)'
  BY DEF HeardInv
<1>7. Up(n) /\ Up(m) BY <1>1 DEF Up
<1>8. Heard(n, m) BY <1>3, <1>7 DEF HeardInv
<1>9. CASE Introduced(n, m)
  <2>1. PICK d \in udp : /\ d.header = "CONNECT" /\ d.to = m /\ d.node = n
                         /\ server_table[n][m] <= d.waited + Spent(m)
    BY <1>9 DEF Introduced
  <2>2. server_table'[n][m] <= Aged(d).waited + Spent(m)'
    BY <1>3, <1>6, <2>1, HeardTyped, WaitedInt
  <2>3. Introduced(n, m)' BY <1>3, <1>4, <1>5, <1>9, <2>1, <2>2 DEF Introduced
  <2> QED BY <2>3 DEF Heard
<1>10. CASE KeepComing(n, m)
  <2>1. PICK d \in udp : /\ d.header = "KEEP" /\ d.to = n /\ d.node = m
                         /\ server_table[n][m] <= d.waited + Spent(n) + MaxPeriod + Late
    BY <1>10 DEF KeepComing
  <2>2. server_table'[n][m] <= Aged(d).waited + Spent(n)' + MaxPeriod + Late
    BY <1>3, <1>6, <2>1, HeardTyped, WaitedInt
  <2>3. KeepComing(n, m)' BY <1>3, <1>4, <1>5, <1>10, <2>1, <2>2 DEF KeepComing
  <2> QED BY <2>3 DEF Heard
<1>11. CASE KeepRead(n, m)
  <2>1. Silent(m)' = Silent(m) + 1 BY <1>1, <1>7, TickFacts DEF Silent
  <2>2. server_table'[n][m] <= Silent(m)' + Late
    BY <1>3, <1>11, <2>1, HeardTyped DEF KeepRead
  <2>3. KeepRead(n, m)' BY <1>3, <1>11, <2>2 DEF KeepRead
  <2> QED BY <2>3 DEF Heard
<1> QED BY <1>8, <1>9, <1>10, <1>11 DEF Heard

\* A mesh of all nodes stays one, less those that stop.
LEMMA NextStatic ==
  ASSUME MayRestart = {}, MInv, Static, [Next]_vars
  PROVE  Static'
<1> SUFFICES ASSUME Mesh = Node PROVE Static' BY DEF Static
<1>1. /\ \A d \in udp : d.header \notin {"CONNECT", "SHARE_SERVER"}
      /\ \A n \in Node : status[n] # "off"
  BY DEF Static
<1> SUFFICES /\ \A d \in udp' : d.header \notin {"CONNECT", "SHARE_SERVER"}
             /\ \A n \in Node : status'[n] # "off"
  BY DEF Static
<1>2. ASSUME NEW n \in Node, Start(n) PROVE FALSE BY <1>1, <1>2 DEF Start
<1>3. ASSUME NEW n \in Node, ConnectReceived(n) \/ ShareServerReceived(n) PROVE FALSE
  BY <1>1, <1>3 DEF ConnectReceived, ShareServerReceived
<1>4. ASSUME NEW n \in Node, SendKeeps(n)
      PROVE  \A d \in udp' : d.header \notin {"CONNECT", "SHARE_SERVER"}
  <2>1. \A d \in udp' : d \in udp \/ \E k \in Node : d = Sent("KEEP", k, n)
    BY <1>4 DEF SendKeeps
  <2> QED BY <1>1, <2>1, SentFields
<1>5. ASSUME NEW n \in Node, AnswerBalance(n) \/ \E p \in Participant : GetBalance(p, n)
      PROVE  \A d \in udp' : d.header \notin {"CONNECT", "SHARE_SERVER"}
  BY <1>1, <1>5, SentFields DEF AnswerBalance, GetBalance
<1>6. ASSUME Tick PROVE \A d \in udp' : d.header \notin {"CONNECT", "SHARE_SERVER"}
  <2>1. \A e \in udp' : \E d \in udp : d \in Datagram /\ e = Aged(d)
    BY <1>6, TickFacts DEF MInv, Sensible
  <2> QED BY <1>1, <2>1, AgedFields
<1>7. \A d \in udp' : d.header \notin {"CONNECT", "SHARE_SERVER"}
  BY <1>1, <1>2, <1>3, <1>4, <1>5, <1>6
  DEF Next, Stop, Round, RemoveDead, Receive, KeepReceived, AskBalanceReceived, Mine,
      AnswerReceived, GiveUp, vars
<1>8. ASSUME NEW n \in Node, Stop(n) PROVE \A m \in Node : status'[m] # "off"
  BY <1>1, <1>8 DEF Stop, Ends, MInv, TypeOK
<1>9. \A n \in Node : status'[n] # "off"
  BY <1>1, <1>2, <1>3, <1>8
  DEF Next, Round, SendKeeps, RemoveDead, Receive, KeepReceived, AskBalanceReceived,
      AnswerBalance, Mine, GetBalance, AnswerReceived, GiveUp, Tick, vars, nodeVars
<1> QED BY <1>7, <1>9

\* Every step keeps it.
LEMMA NextHeard ==
  ASSUME MayRestart = {}, KeepsUp, MInv, SpentInv, Static, HeardInv, [Next]_vars
  PROVE  HeardInv'
<1>1. ASSUME NEW n \in Node, Stop(n) PROVE HeardInv' BY <1>1, EndsHeard DEF Stop
<1>2. ASSUME NEW n \in Node, AskBalanceReceived(n) \/ Mine(n) PROVE HeardInv'
  <2>1. CASE Mine(n) BY <2>1, HeardUntouched DEF Mine
  <2>2. CASE AskBalanceReceived(n)
    <3>1. \A d \in udp : d.header \in {"CONNECT", "KEEP"} => d \in udp'
      BY <2>2 DEF AskBalanceReceived
    <3> QED BY <2>2, <3>1, HeardUntouched DEF AskBalanceReceived
  <2> QED BY <1>2, <2>1, <2>2
<1>3. ASSUME NEW n \in Node, AnswerBalance(n) PROVE HeardInv'
  BY <1>3, HeardUntouched DEF AnswerBalance
<1>4. ASSUME NEW n \in Node, NEW p \in Participant, GetBalance(p, n) PROVE HeardInv'
  BY <1>4, HeardUntouched DEF GetBalance
<1>5. ASSUME NEW p \in Participant, AnswerReceived(p) \/ GiveUp(p) PROVE HeardInv'
  <2>1. /\ \A d \in udp : d.header \in {"CONNECT", "KEEP"} => d \in udp'
        /\ UNCHANGED << nodeVars, tableVars, roundVars >>
    BY <1>5 DEF AnswerReceived, GiveUp
  <2> QED BY <2>1, HeardUntouched
<1>6. CASE UNCHANGED vars BY <1>6, HeardUntouched DEF vars
<1> QED
  BY <1>1, <1>2, <1>3, <1>4, <1>5, <1>6, StartHeard, SendKeepsHeard, RemoveDeadHeard,
     ConnectHeard, ShareHeard, KeepHeard, TickHeard
  DEF Next, Round, Receive

LEMMA InitHeard == ASSUME Init PROVE Static /\ HeardInv
<1>1. Static BY DEF Static, Init
<1>2. \A n, m \in Node : Known(n, m) => /\ server_table[n][m] = 0 /\ Known(m, n)
                                        /\ fthread[m] = "asleep" /\ since[m] = 0
  BY DEF Init, Known, Absent
<1>3. Late \in Int /\ 0 <= Late BY Bounds, Durations DEF Late
<1>4. HeardInv BY <1>2, <1>3 DEF HeardInv, Heard, KeepRead, Silent
<1> QED BY <1>1, <1>4

\* Nobody but fthread removes a node.
LEMMA OthersKeep ==
  ASSUME MInv, Next, NEW n \in Node, NEW m \in Node, Up(n), Up(n)', Known(n, m), ~RemoveDead(n)
  PROVE  Known(n, m)'
<1>1. ASSUME NEW k \in Node, Ends(k) PROVE server_table'[n] = server_table[n]
  <2>1. status'[k] = "down" BY <1>1 DEF Ends, MInv, TypeOK
  <2>2. n # k BY <2>1 DEF Up
  <2> QED BY <1>1, <2>2 DEF Ends, MInv, TypeOK
<1>2. ASSUME NEW k \in Node, Start(k) PROVE server_table'[n] = server_table[n]
  BY <1>2 DEF Start, Up, MInv, TypeOK
<1>3. ASSUME NEW k \in Node, RemoveDead(k) PROVE server_table'[n] = server_table[n]
  <2>1. n # k BY <1>3
  <2> QED BY <1>3, <2>1 DEF RemoveDead, MInv, TypeOK
<1>4. ASSUME NEW k \in Node, NEW j \in Node, server_table' = [server_table EXCEPT ![k][j] = 0]
      PROVE  Known(n, m)'
  <2>1. server_table'[n][m] \in {0, server_table[n][m]} BY <1>4 DEF MInv, TypeOK
  <2>2. Absent # 0 BY DEF Absent
  <2> QED BY <2>1, <2>2 DEF Known
<1>5. ASSUME NEW k \in Node, ConnectReceived(k) PROVE Known(n, m)'
  BY <1>1, <1>4, <1>5, ConnectCases DEF tableVars, Known
<1>6. ASSUME NEW k \in Node, ShareServerReceived(k) PROVE Known(n, m)'
  BY <1>4, <1>6, ShareCases DEF tableVars, Known
<1>7. ASSUME NEW k \in Node, KeepReceived(k) PROVE Known(n, m)'
  BY <1>4, <1>7, KeepCases DEF tableVars, Known
<1>8. ASSUME Tick PROVE Known(n, m)'
  <2>1. server_table[n][m] \in Age \cup {Absent} BY TableTyped
  <2>2. server_table'[n][m] = Older(server_table[n][m]) BY <1>8, TickFacts
  <2> QED BY <2>1, <2>2, OlderFacts DEF Known
<1>9. ASSUME NEW k \in Node,
             SendKeeps(k) \/ AskBalanceReceived(k) \/ AnswerBalance(k) \/ Mine(k)
               \/ \E p \in Participant : GetBalance(p, k) \/ AnswerReceived(p) \/ GiveUp(p)
      PROVE  Known(n, m)'
  BY <1>9
  DEF SendKeeps, AskBalanceReceived, AnswerBalance, Mine, GetBalance, AnswerReceived, GiveUp,
      tableVars, Known
<1> QED
  BY <1>1, <1>2, <1>3, <1>5, <1>6, <1>7, <1>8, <1>9 DEF Next, Stop, Round, Receive, Known

\* If no node is started again, and the period of fthread, the delay of a KEEP, the waits
\* of main for all questions, and the time it takes to be connected back fit in Limit
\* seconds, then no running node removes a running one that sends it KEEPs: however the
\* rounds, the delays and the waits add up, and wherever seconds begin (fthread,
\* suppression_dead_server, KEEP).
THEOREM LivingAlwaysStay ==
  ASSUME MayRestart = {}, KeepsUp
  PROVE  Safety => LivingStay
<1>1. Init => SpentInv /\ Static /\ HeardInv BY InitSpent, InitHeard
<1>2. MInv /\ SpentInv /\ Static /\ HeardInv /\ [Next]_vars
        => SpentInv' /\ Static' /\ HeardInv'
  BY NextSpent, NextStatic, NextHeard
<1>3. ASSUME MInv, HeardInv, Next, NEW m \in Node, NEW n \in Node,
             Up(m), Up(n), Known(m, n), Known(n, m), Up(n)'
      PROVE  Known(n, m)'
  <2>1. CASE RemoveDead(n) BY <1>3, <2>1, RemoveDeadHeard
  <2>2. CASE ~RemoveDead(n) BY <1>3, <2>2, OthersKeep
  <2> QED BY <2>1, <2>2
<1>4. MInv /\ HeardInv /\ [Next]_vars
        => [\A m, n \in Node :
              Up(m) /\ Up(n) /\ Known(m, n) /\ Known(n, m) /\ Up(n)' => Known(n, m)']_vars
  BY <1>3
<1> QED BY <1>1, <1>2, <1>4, AlwaysTyped, PTL DEF Safety, LivingStay

-----------------------------------------------------------------------------
(* The fifth layer: how long ago a dead node was heard.                    *)

\* A KEEP of a dead node has waited since that node stopped; and what is known of a dead
\* node was heard then, or later by the delay of its last KEEP.  Ages are not counted
\* beyond Oldest, but there the next round removes the node.
GoneInv ==
  /\ \A d \in udp : d.header = "KEEP" /\ status[d.node] = "down" =>
       since[d.node] <= d.waited + Spent(d.to)
  /\ \A n, m \in Node : status[m] = "down" /\ Known(n, m) =>
       since[m] <= server_table[n][m] + MaxDelay + HeldUp
                   + (IF server_table[n][m] = Oldest THEN since[n] - 1 ELSE 0)

LEMMA InitGone == ASSUME Init PROVE GoneInv
  BY DEF Init, GoneInv

\* A step that ends nobody, takes nothing from the ages, and adds no KEEP of the dead.
LEMMA GoneUntouched ==
  ASSUME MInv, GoneInv, [Next]_vars,
         \A d \in udp' : d.header = "KEEP" => d \in udp \/ (d.node \in Node /\ Up(d.node)),
         UNCHANGED << nodeVars, tableVars, since >>
  PROVE  GoneInv'
<1>1. ASSUME NEW d \in udp', d.header = "KEEP", status'[d.node] = "down"
      PROVE  since'[d.node] <= d.waited + Spent(d.to)'
  <2>1. d \in udp BY <1>1 DEF nodeVars, Up
  <2>2. d.to \in Node /\ d.node \in Node BY <1>1, <2>1, DatagramFields DEF MInv, Sensible
  <2>3. since[d.node] <= d.waited + Spent(d.to) BY <1>1, <2>1 DEF GoneInv, nodeVars
  <2>4. since[d.node] \in 0..Detection BY <2>2 DEF MInv, TypeOK
  <2> QED BY <2>1, <2>2, <2>3, <2>4, WaitedInt, SpentGrows, Bounds
<1>2. ASSUME NEW n \in Node, NEW m \in Node, status'[m] = "down", Known(n, m)'
      PROVE  since'[m] <= server_table'[n][m] + MaxDelay + HeldUp
                          + (IF server_table'[n][m] = Oldest THEN since'[n] - 1 ELSE 0)
  BY <1>2 DEF GoneInv, Known, nodeVars, tableVars
<1> QED BY <1>1, <1>2 DEF GoneInv

\* Stop: the clock of the dead node starts.
LEMMA StopGone ==
  ASSUME MInv, SpentInv, GoneInv, [Next]_vars, NEW k \in Node, Stop(k)
  PROVE  GoneInv'
<1>1. /\ \A m \in Node \ {k} : /\ status'[m] = status[m] /\ server_table'[m] = server_table[m]
                               /\ since'[m] = since[m]
      /\ since'[k] = 0 /\ \A m \in Node : ~Known(k, m)'
      /\ udp' \subseteq udp
  BY DEF Stop, Ends, MInv, TypeOK, Known
<1>2. ASSUME NEW d \in udp', d.header = "KEEP", status'[d.node] = "down"
      PROVE  since'[d.node] <= d.waited + Spent(d.to)'
  <2>1. d \in udp BY <1>1
  <2>2. d.to \in Node /\ d.node \in Node BY <1>2, <2>1, DatagramFields DEF MInv, Sensible
  <2>3. /\ Spent(d.to) \in Int /\ Spent(d.to)' \in Int /\ Spent(d.to) <= Spent(d.to)'
        /\ 0 <= Spent(d.to)
    BY <2>2, SpentGrows DEF SpentInv
  <2>4. CASE d.node = k BY <1>1, <2>1, <2>3, <2>4, WaitedInt
  <2>5. CASE d.node # k
    <3>1. since[d.node] <= d.waited + Spent(d.to) BY <1>1, <1>2, <2>1, <2>2, <2>5 DEF GoneInv
    <3>2. since[d.node] \in 0..Detection BY <2>2 DEF MInv, TypeOK
    <3> QED BY <1>1, <2>1, <2>2, <2>3, <2>5, <3>1, <3>2, WaitedInt, Bounds
  <2> QED BY <2>4, <2>5
<1>3. ASSUME NEW n \in Node, NEW m \in Node, status'[m] = "down", Known(n, m)'
      PROVE  since'[m] <= server_table'[n][m] + MaxDelay + HeldUp
                          + (IF server_table'[n][m] = Oldest THEN since'[n] - 1 ELSE 0)
  <2>1. n # k BY <1>1, <1>3
  <2>2. server_table'[n] = server_table[n] /\ since'[n] = since[n] BY <1>1, <2>1
  <2>3. Known(n, m) BY <1>3, <2>2 DEF Known
  <2>4. CASE m = k
    <3>1. server_table[n][m] \in Age BY <2>3, TableTyped DEF Known
    <3>2. since[n] \in 0..Detection BY DEF MInv, TypeOK
    <3> QED BY <1>1, <2>2, <2>4, <3>1, <3>2, Bounds, Durations DEF Age
  <2>5. CASE m # k BY <1>1, <1>3, <2>2, <2>3, <2>5 DEF GoneInv
  <2> QED BY <2>4, <2>5
<1> QED BY <1>2, <1>3 DEF GoneInv

\* RemoveDead: nothing of the oldest age is left.
LEMMA RemoveDeadGone ==
  ASSUME MInv, GoneInv, [Next]_vars, NEW k \in Node, RemoveDead(k)
  PROVE  GoneInv'
<1>1. /\ UNCHANGED << nodeVars, udp >> /\ Up(k)
      /\ \A m \in Node \ {k} : server_table'[m] = server_table[m] /\ since'[m] = since[m]
      /\ \A m \in Node : server_table'[k][m] =
           IF m = k \/ Stale(server_table[k][m], phase) THEN Absent ELSE server_table[k][m]
  BY DEF RemoveDead, MInv, TypeOK
<1>2. ASSUME NEW d \in udp', d.header = "KEEP", status'[d.node] = "down"
      PROVE  since'[d.node] <= d.waited + Spent(d.to)'
  <2>1. d \in udp BY <1>1
  <2>2. d.to \in Node /\ d.node \in Node BY <1>2, <2>1, DatagramFields DEF MInv, Sensible
  <2>3. since[d.node] <= d.waited + Spent(d.to) BY <1>1, <1>2, <2>1 DEF GoneInv, nodeVars
  <2>4. d.node # k BY <1>1, <1>2 DEF Up, nodeVars
  <2>5. since[d.node] \in 0..Detection BY <2>2 DEF MInv, TypeOK
  <2> QED BY <1>1, <2>1, <2>2, <2>3, <2>4, <2>5, WaitedInt, SpentGrows, Bounds
<1>3. ASSUME NEW n \in Node, NEW m \in Node, status'[m] = "down", Known(n, m)'
      PROVE  since'[m] <= server_table'[n][m] + MaxDelay + HeldUp
                          + (IF server_table'[n][m] = Oldest THEN since'[n] - 1 ELSE 0)
  <2>1. status[m] = "down" /\ m # k /\ since'[m] = since[m]
    BY <1>1, <1>3 DEF Up, nodeVars
  <2>2. Known(n, m) /\ server_table'[n][m] = server_table[n][m]
    BY <1>1, <1>3 DEF Known
  <2>3. since[m] <= server_table[n][m] + MaxDelay + HeldUp
                    + (IF server_table[n][m] = Oldest THEN since[n] - 1 ELSE 0)
    BY <2>1, <2>2 DEF GoneInv
  <2>4. CASE n = k
    <3>1. phase \in Phase BY DEF MInv, TypeOK
    <3>2. ~Stale(server_table[k][m], phase) BY <1>1, <1>3, <2>4 DEF Known
    <3>3. server_table[n][m] # Oldest BY <2>4, <3>1, <3>2, OldestStale
    <3> QED BY <2>1, <2>2, <2>3, <3>3
  <2>5. CASE n # k BY <1>1, <2>1, <2>2, <2>3, <2>5
  <2> QED BY <2>4, <2>5
<1> QED BY <1>2, <1>3 DEF GoneInv

\* KeepReceived: the last KEEP of a dead node makes it young again, but not for long.
LEMMA KeepGone ==
  ASSUME MInv, GoneInv, [Next]_vars, NEW k \in Node, KeepReceived(k)
  PROVE  GoneInv'
<1>1. UNCHANGED << nodeVars, roundVars >> BY KeepCases
<1>2. PICK j \in Node, d \in udp :
        /\ d.header = "KEEP" /\ d.to = k /\ d.node = j /\ j # k /\ udp' = udp \ {d}
        /\ \/ ~Known(k, j) /\ UNCHANGED tableVars
           \/ Known(k, j) /\ server_table' = [server_table EXCEPT ![k][j] = 0]
  BY KeepCases
<1>3. CASE UNCHANGED tableVars
  BY <1>1, <1>2, <1>3, GoneUntouched DEF roundVars
<1>4. CASE server_table' = [server_table EXCEPT ![k][j] = 0]
  <2>1. /\ server_table'[k][j] = 0
        /\ \A n, m \in Node : <<n, m>> # <<k, j>> => server_table'[n][m] = server_table[n][m]
    BY <1>4 DEF MInv, TypeOK
  <2>2. ASSUME NEW e \in udp', e.header = "KEEP", status'[e.node] = "down"
        PROVE  since'[e.node] <= e.waited + Spent(e.to)'
    <3>1. e \in udp BY <1>2
    <3>2. e.to \in Node /\ e.node \in Node BY <2>2, <3>1, DatagramFields DEF MInv, Sensible
    <3>3. since[e.node] <= e.waited + Spent(e.to)
      BY <1>1, <2>2, <3>1 DEF GoneInv, nodeVars
    <3>4. since[e.node] \in 0..Detection BY <3>2 DEF MInv, TypeOK
    <3> QED BY <1>1, <3>1, <3>2, <3>3, <3>4, WaitedInt, SpentGrows, Bounds DEF roundVars
  <2>3. ASSUME NEW n \in Node, NEW m \in Node, status'[m] = "down", Known(n, m)'
        PROVE  since'[m] <= server_table'[n][m] + MaxDelay + HeldUp
                            + (IF server_table'[n][m] = Oldest THEN since'[n] - 1 ELSE 0)
    <3>1. CASE n = k /\ m = j
      <4>1. since[j] <= d.waited + Spent(k) BY <1>1, <1>2, <2>3, <3>1 DEF GoneInv, nodeVars
      <4>2. since[j] \in 0..Detection BY DEF MInv, TypeOK
      <4>3. Oldest # 0 BY Bounds
      <4>4. since[j] <= MaxDelay + HeldUp
        BY <4>1, <4>2, WaitedInt, SpentTyped, Bounds
      <4> QED BY <1>1, <2>1, <3>1, <4>2, <4>3, <4>4, Bounds, Durations DEF roundVars
    <3>2. CASE <<n, m>> # <<k, j>>
      BY <1>1, <2>1, <2>3, <3>2 DEF GoneInv, Known, nodeVars, roundVars
    <3> QED BY <3>1, <3>2
  <2> QED BY <2>2, <2>3 DEF GoneInv
<1> QED BY <1>2, <1>3, <1>4

\* A tick: the time since a node stopped grows, and so does what explains it.
LEMMA TickGone ==
  ASSUME MInv, GoneInv, [Next]_vars, Tick
  PROVE  GoneInv'
<1>1. UNCHANGED << status, main >> BY DEF Tick
<1>2. \A m \in Node : since[m] \in 0..Detection BY DEF MInv, TypeOK
<1>3. \A m \in Node : /\ since[m] \in Int /\ 0 <= since[m]
                      /\ since'[m] \in Int /\ since'[m] <= since[m] + 1
  BY <1>2, TickFacts, Bounds
<1>4. ASSUME NEW e \in udp', e.header = "KEEP", status'[e.node] = "down"
      PROVE  since'[e.node] <= e.waited + Spent(e.to)'
  <2>1. PICK d \in udp : e = Aged(d) BY TickFacts
  <2>2. d \in Datagram BY DEF MInv, Sensible
  <2>3. /\ e.header = d.header /\ e.to = d.to /\ e.node = d.node
        /\ e.waited = IF d.waited = MaxDelay THEN MaxDelay ELSE d.waited + 1
    BY <2>1, <2>2, AgedFields
  <2>4. d.to \in Node /\ d.node \in Node BY <1>4, <2>2, <2>3, DatagramFields
  <2>5. since[d.node] <= d.waited + Spent(d.to) BY <1>1, <1>4, <2>3 DEF GoneInv
  <2>6. d.waited < MaxDelay \/ main[d.to] = "balance" BY TickFacts
  <2>7. /\ Spent(d.to) \in Int /\ Spent(d.to)' \in Int /\ Spent(d.to) <= Spent(d.to)'
        /\ main[d.to] = "balance" => Spent(d.to) + 1 <= Spent(d.to)'
    BY <2>4, SpentGrows
  <2>8. since'[d.node] \in Int /\ since'[d.node] <= since[d.node] + 1 /\ since[d.node] \in Int
    BY <1>3, <2>4
  <2> QED BY <2>3, <2>5, <2>6, <2>7, <2>8, WaitedInt
<1>5. ASSUME NEW n \in Node, NEW m \in Node, status'[m] = "down", Known(n, m)'
      PROVE  since'[m] <= server_table'[n][m] + MaxDelay + HeldUp
                          + (IF server_table'[n][m] = Oldest THEN since'[n] - 1 ELSE 0)
  <2> DEFINE age == server_table[n][m]
             new == server_table'[n][m]
  <2>1. age \in Age \cup {Absent} BY TableTyped
  <2>2. new = Older(age) BY TickFacts
  <2>3. Known(n, m) BY <1>5, <2>1, <2>2, OlderFacts DEF Known
  <2>4. Up(n) BY <2>3 DEF MInv, IdleWhenDown
  <2>5. since'[n] = since[n] + 1 BY <2>4, TickFacts
  <2>6. since[m] <= age + MaxDelay + HeldUp + (IF age = Oldest THEN since[n] - 1 ELSE 0)
    BY <1>1, <1>5, <2>3 DEF GoneInv
  <2>7. age \in Int /\ age # Absent BY <2>1, <2>3 DEF Known, Age, Absent
  <2>8. IF age = Oldest THEN new = Oldest ELSE new = age + 1
    BY <2>1, <2>2, <2>7 DEF Older
  <2>9. /\ since[m] \in Int /\ since'[m] \in Int /\ since'[m] <= since[m] + 1
        /\ since[n] \in Int /\ 0 <= since[n]
    BY <1>3
  <2> HIDE DEF age, new
  <2>10. since'[m] <= new + MaxDelay + HeldUp + (IF new = Oldest THEN since'[n] - 1 ELSE 0)
    BY <2>5, <2>6, <2>7, <2>8, <2>9, Bounds, Durations
  <2> QED BY <2>10 DEF new
<1> QED BY <1>4, <1>5 DEF GoneInv

\* Every step keeps it, in a mesh of all nodes.
LEMMA NextGone ==
  ASSUME MayRestart = {}, Mesh = Node, MInv, SpentInv, Static, GoneInv, [Next]_vars
  PROVE  GoneInv'
<1>1. ASSUME NEW n \in Node, Start(n) \/ ConnectReceived(n) \/ ShareServerReceived(n)
      PROVE  FALSE
  BY <1>1 DEF Static, Start, ConnectReceived, ShareServerReceived
<1>2. ASSUME NEW n \in Node, SendKeeps(n) PROVE GoneInv'
  <2>1. \A d \in udp' : d \in udp \/ \E k \in Node : d = Sent("KEEP", k, n)
    BY <1>2 DEF SendKeeps
  <2>2. \A d \in udp' : d \in udp \/ d.node = n BY <2>1, SentFields
  <2>3. Up(n) /\ UNCHANGED << nodeVars, tableVars, since >> BY <1>2 DEF SendKeeps
  <2> QED BY <2>2, <2>3, GoneUntouched
<1>3. ASSUME NEW n \in Node, AskBalanceReceived(n) \/ Mine(n) PROVE GoneInv'
  <2>1. udp' \subseteq udp /\ UNCHANGED << nodeVars, tableVars, since >>
    BY <1>3 DEF AskBalanceReceived, Mine, roundVars
  <2> QED BY <2>1, GoneUntouched
<1>4. ASSUME NEW n \in Node, AnswerBalance(n) \/ \E p \in Participant : GetBalance(p, n)
      PROVE  GoneInv'
  <2>1. \A d \in udp' : d.header = "KEEP" => d \in udp
    BY <1>4, SentFields DEF AnswerBalance, GetBalance
  <2>2. UNCHANGED << nodeVars, tableVars, since >>
    BY <1>4 DEF AnswerBalance, GetBalance, roundVars
  <2> QED BY <2>1, <2>2, GoneUntouched
<1>5. ASSUME NEW p \in Participant, AnswerReceived(p) \/ GiveUp(p) PROVE GoneInv'
  <2>1. udp' \subseteq udp /\ UNCHANGED << nodeVars, tableVars, since >>
    BY <1>5 DEF AnswerReceived, GiveUp, roundVars
  <2> QED BY <2>1, GoneUntouched
<1>6. CASE UNCHANGED vars BY <1>6, GoneUntouched DEF vars, roundVars
<1> QED
  BY <1>1, <1>2, <1>3, <1>4, <1>5, <1>6, StopGone, RemoveDeadGone, KeepGone, TickGone
  DEF Next, Round, Receive

\* In a mesh of all nodes where none is started again, a node that stopped is in no table
\* once its last KEEP has waited behind all that holds main up, it has been silent until
\* it is stale in any phase of a second, and one more round has passed: no KEEP read late,
\* and no round that has just missed it, keeps a dead node longer (fthread,
\* suppression_dead_server).
THEOREM DeadAlwaysForgotten ==
  ASSUME MayRestart = {}, Mesh = Node
  PROVE  Safety => []DeadForgotten
<1>1. Init => SpentInv /\ Static /\ GoneInv BY InitSpent, InitHeard, InitGone
<1>2. MInv /\ SpentInv /\ Static /\ GoneInv /\ [Next]_vars
        => SpentInv' /\ Static' /\ GoneInv'
  BY NextSpent, NextStatic, NextGone
<1>3. MInv /\ GoneInv => DeadForgotten
  <2> SUFFICES ASSUME MInv, GoneInv, NEW n \in Node, NEW m \in Node,
                      status[m] = "down", since[m] >= Detection, Known(n, m)
               PROVE  FALSE
    BY DEF DeadForgotten
  <2> DEFINE age == server_table[n][m]
  <2>1. since[m] <= age + MaxDelay + HeldUp + (IF age = Oldest THEN since[n] - 1 ELSE 0)
    BY DEF GoneInv
  <2>2. age \in Age \cup {Absent} /\ since[m] \in 0..Detection /\ since[n] \in 0..Detection
    BY DEF MInv, TypeOK
  <2>3. since[n] <= MaxPeriod BY DEF MInv, IdleWhenDown, OnTime
  <2>4. age \in Int /\ age <= Oldest BY <2>2, Bounds DEF Age, Absent
  <2>5. /\ Detection = MaxDelay + HeldUp + Oldest + MaxPeriod
        /\ MaxPeriod >= 1 /\ MaxPeriod \in Int
    BY Durations, Scale DEF Detection
  <2> HIDE DEF age
  <2> QED BY <2>1, <2>2, <2>3, <2>4, <2>5, Bounds, Durations
<1> QED BY <1>1, <1>2, <1>3, AlwaysTyped, PTL DEF Safety
=============================================================================
