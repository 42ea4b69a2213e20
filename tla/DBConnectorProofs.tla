------------------------- MODULE DBConnectorProofs -------------------------
(***************************************************************************)
(* What CDBConnector and CDBConnector_TLS promise for any number of        *)
(* threads, attempts and calls, against a server that loses connections,   *)
(* answers and sessions as it likes.                                       *)
(***************************************************************************)
EXTENDS DBConnector, TLAPS

\* The executions so far, the lost answers and the attempts left.
CountInv ==
    \A t \in Threads :
        /\ pc[t] \in {"new", "first"} => executed[t] = 0 /\ lost[t] = 0
        /\ pc[t] \in {"loop", "again"} => executed[t] = lost[t]
        /\ executed[t] + iQueryCount[t] <= QueryCount

\* A thread inside a call has its connector in the stack, or is about to, and
\* has no session when it connects.
PlaceInv ==
    /\ connected \subseteq tls
    /\ \A t \in Threads : pc[t] = "new" => t \notin tls
    /\ \A t \in Threads : pc[t] = "first" => t \notin connected
    /\ \A t \in Threads : pc[t] = "again" => t \notin session
    /\ \A t \in Threads : pc[t] \notin {"idle", "new"} => t \in stkDBC
    /\ life # "used" => \A t \in Threads : pc[t] = "idle"
    /\ life = "used" => tls = stkDBC
    /\ life = "dead" => stkDBC = {}

Inv ==
    /\ TypeOK
    /\ CountInv
    /\ ResultTellsExecution
    /\ PlaceInv
    /\ SessionsClosed

USE CountAssumption, BoundAssumption DEF CountAssumption, BoundAssumption

LEMMA InitInv == Init => Inv
BY DEF Init, Inv, TypeOK, CountInv, ResultTellsExecution, PlaceInv, SessionsClosed

LEMMA TypeStep == TypeOK /\ [Next]_vars => TypeOK'
<1> SUFFICES ASSUME TypeOK, [Next]_vars PROVE TypeOK'
  OBVIOUS
<1> USE DEF TypeOK, Goto, Moves, Return, Connect, Accepted, Refused, CountDown, links, local,
        hist, owned
<1>1. ASSUME NEW t \in Threads, Call(t) PROVE TypeOK'
  BY <1>1 DEF Call
<1>2. ASSUME NEW t \in Threads, Thread(t) PROVE TypeOK'
  <2>1. CASE New(t)
    BY <2>1 DEF New
  <2>2. CASE FirstAccepted(t) \/ FirstRefused(t)
    BY <2>2 DEF FirstAccepted, FirstRefused
  <2>3. CASE Reconnect(t) \/ Again(t)
    BY <2>3 DEF Reconnect, Again
  <2>4. CASE SendAnswered(t)
    BY <2>4 DEF SendAnswered, Sends, Executes
  <2>5. CASE SendRefused(t)
    BY <2>5 DEF SendRefused, Sends
  <2>6. CASE SendLost(t)
    BY <2>6 DEF SendLost, Sends, Executes
  <2>7. CASE GiveUp(t)
    BY <2>7 DEF GiveUp
  <2> QED
    BY <1>2, <2>1, <2>2, <2>3, <2>4, <2>5, <2>6, <2>7 DEF Thread, Query
<1>3. CASE Delete
  BY <1>3 DEF Delete
<1>4. CASE Destroy
  BY <1>4 DEF Destroy
<1>5. CASE ServerDrops
  BY <1>5 DEF ServerDrops
<1>6. CASE UNCHANGED vars
  BY <1>6 DEF vars
<1> QED
  BY <1>1, <1>2, <1>3, <1>4, <1>5, <1>6 DEF Next

\* Only a call's own thread touches its counts, and each attempt pays for at
\* most one execution.
Counts == CountInv /\ ResultTellsExecution

LEMMA CountStep == TypeOK /\ Counts /\ [Next]_vars => Counts'
<1> SUFFICES ASSUME TypeOK, Counts, [Next]_vars PROVE Counts'
  OBVIOUS
<1> USE DEF TypeOK, Counts, CountInv, ResultTellsExecution, Goto, Moves, Return, CountDown,
        links, local, hist, owned
<1>1. ASSUME NEW t \in Threads, Call(t) PROVE Counts'
  BY <1>1 DEF Call
<1>2. ASSUME NEW t \in Threads, Thread(t) PROVE Counts'
  <2>1. CASE New(t)
    BY <2>1 DEF New
  <2>2. CASE FirstAccepted(t) \/ FirstRefused(t)
    BY <2>2 DEF FirstAccepted, FirstRefused
  <2>3. CASE Reconnect(t) \/ Again(t)
    BY <2>3 DEF Reconnect, Again
  <2>4. CASE SendAnswered(t)
    BY <2>4 DEF SendAnswered, Sends, Executes
  <2>5. CASE SendRefused(t)
    BY <2>5 DEF SendRefused, Sends
  <2>6. CASE SendLost(t)
    <3>1. CASE UNCHANGED hist
      BY <2>6, <3>1 DEF SendLost, Sends
    <3>2. CASE Executes(t) /\ lost' = [lost EXCEPT ![t] = @ + 1]
      BY <2>6, <3>2 DEF SendLost, Sends, Executes
    <3> QED
      BY <2>6, <3>1, <3>2 DEF SendLost
  <2>7. CASE GiveUp(t)
    BY <2>7 DEF GiveUp
  <2> QED
    BY <1>2, <2>1, <2>2, <2>3, <2>4, <2>5, <2>6, <2>7 DEF Thread, Query
<1>3. CASE Delete \/ Destroy \/ ServerDrops
  BY <1>3 DEF Delete, Destroy, ServerDrops
<1>4. CASE UNCHANGED vars
  BY <1>4 DEF vars
<1> QED
  BY <1>1, <1>2, <1>3, <1>4 DEF Next

\* A session begins only for a connector in the stack, together with its
\* _pMySQL, and _pMySQL is given up only when the session is gone.
Places == PlaceInv /\ SessionsClosed

LEMMA PlaceStep == TypeOK /\ Places /\ [Next]_vars => Places'
<1> SUFFICES ASSUME TypeOK, Places, [Next]_vars PROVE Places'
  OBVIOUS
<1> USE DEF TypeOK, Places, PlaceInv, SessionsClosed, Goto, Moves, Return, Connect, Accepted,
        Refused, links, local, hist, owned
<1>1. ASSUME NEW t \in Threads, Call(t) PROVE Places'
  BY <1>1 DEF Call
<1>2. ASSUME NEW t \in Threads, Thread(t) PROVE Places'
  <2>1. CASE New(t)
    BY <2>1 DEF New
  <2>2. CASE FirstAccepted(t)
    BY <2>2 DEF FirstAccepted
  <2>3. CASE FirstRefused(t)
    BY <2>3 DEF FirstRefused
  <2>4. CASE Reconnect(t)
    BY <2>4 DEF Reconnect
  <2>5. CASE Again(t)
    BY <2>5 DEF Again
  <2>6. CASE SendAnswered(t) \/ SendRefused(t) \/ SendLost(t)
    BY <2>6 DEF SendAnswered, SendRefused, SendLost, Sends
  <2>7. CASE GiveUp(t)
    BY <2>7 DEF GiveUp
  <2> QED
    BY <1>2, <2>1, <2>2, <2>3, <2>4, <2>5, <2>6, <2>7 DEF Thread, Query
<1>3. CASE Delete
  BY <1>3 DEF Delete
<1>4. CASE Destroy
  BY <1>4 DEF Destroy
<1>5. CASE ServerDrops
  BY <1>5 DEF ServerDrops
<1>6. CASE UNCHANGED vars
  BY <1>6 DEF vars
<1> QED
  BY <1>1, <1>2, <1>3, <1>4, <1>5, <1>6 DEF Next

LEMMA InvCorrect == Spec => []Inv
<1>1. Inv /\ [Next]_vars => Inv'
  BY TypeStep, CountStep, PlaceStep DEF Inv, Counts, Places
<1> QED
  BY InitInv, <1>1, PTL DEF Spec

\* The types hold for any threads and any number of attempts.
THEOREM TypeCorrect == Spec => []TypeOK
<1>1. Inv => TypeOK
  BY DEF Inv
<1> QED
  BY InvCorrect, <1>1, PTL

\* What Query() and Query_Insert() return tells what the server did
\* (CDBConnector.cpp:62-110), whatever connections and answers get lost.
THEOREM ResultTellsExecutionCorrect == Spec => []ResultTellsExecution
<1>1. Inv => ResultTellsExecution
  BY DEF Inv
<1> QED
  BY InvCorrect, <1>1, PTL

\* The destructor (CDBConnector_TLS.cpp:20-26) leaves no session at the server.
THEOREM SessionsClosedCorrect == Spec => []SessionsClosed
<1>1. Inv => SessionsClosed
  BY DEF Inv
<1> QED
  BY InvCorrect, <1>1, PTL

=============================================================================
