---------------------------- MODULE DBConnector ----------------------------
(***************************************************************************)
(* CDBConnector and CDBConnector_TLS of src/Thread_DBSave: each thread     *)
(* makes a connector on its first call and tries for ever to connect it; a *)
(* statement is sent again when the connection failed, a fixed number of   *)
(* times; the destructor closes the sessions it finds in its stack.        *)
(*                                                                         *)
(* The server is outside: it may drop a session at any time, refuse a      *)
(* statement, refuse a connection, and lose the connection before or after *)
(* it executed a statement.  A connector is named after its thread.  Query *)
(* and Query_Insert run the same loop and are one operation here.  The     *)
(* result set, which nobody in src reads or frees after Query, the texts   *)
(* and the log are left out, and so is the order of the stack, which is    *)
(* only emptied.                                                           *)
(***************************************************************************)
EXTENDS Integers

CONSTANTS Threads,     \* the threads that send statements
          QueryCount,  \* iQueryCount, 5 in the code
          MaxCalls     \* bound: the statements of one thread

ASSUME CountAssumption == QueryCount \in Nat \ {0}
ASSUME BoundAssumption == MaxCalls \in Nat

VARIABLES tls,         \* the threads whose TLS slot is set
          stkDBC,      \* the connectors in _stkDBC
          connected,   \* the connectors whose _pMySQL is not null
          session,     \* the connectors with an open session at the server
          iQueryCount,
          returned,    \* what the thread's last call returned
          executed,    \* history: how often the server executed its statement
          lost,        \* history: how many of its answers got lost
          calls,       \* the statements begun
          life,        \* of the CDBConnector_TLS object
          pc

links == <<connected, session>>
local == <<iQueryCount, returned, calls>>
hist  == <<executed, lost>>
owned == <<tls, stkDBC, life>>
vars  == <<tls, stkDBC, connected, session, iQueryCount, returned,
           executed, lost, calls, life, pc>>

Init ==
    /\ tls = {}
    /\ stkDBC = {}
    /\ connected = {}
    /\ session = {}
    /\ iQueryCount = [t \in Threads |-> 0]
    /\ returned = [t \in Threads |-> FALSE]
    /\ executed = [t \in Threads |-> 0]
    /\ lost = [t \in Threads |-> 0]
    /\ calls = [t \in Threads |-> 0]
    /\ life = "used"
    /\ pc = [t \in Threads |-> "idle"]

Goto(t, l)         == pc' = [pc EXCEPT ![t] = l]
Moves(t, from, to) == pc[t] = from /\ Goto(t, to)
Return(t, b)       == Goto(t, "idle") /\ returned' = [returned EXCEPT ![t] = b]

---------------------------------------------------------------------------
(* CDBConnector *)

\* mysql_real_connect(): the result is _pMySQL.
Accepted(t) == connected' = connected \cup {t} /\ session' = session \cup {t}
Refused(t)  == connected' = connected \ {t} /\ UNCHANGED session
Connect(t)  == Accepted(t) \/ Refused(t)

CountDown(t) == iQueryCount' = [iQueryCount EXCEPT ![t] = @ - 1]

\* _pMySQL == nullptr: the attempt is spent on the connection.
Reconnect(t) ==
    /\ Moves(t, "loop", "loop")
    /\ iQueryCount[t] > 0
    /\ t \notin connected
    /\ CountDown(t)
    /\ Connect(t)
    /\ UNCHANGED <<owned, returned, calls, hist>>

\* Slip: the attempt is not counted.
SendsUncounted(t) ==
    /\ pc[t] = "loop"
    /\ iQueryCount[t] > 0
    /\ t \in connected
    /\ UNCHANGED iQueryCount

Sends(t) ==
    /\ pc[t] = "loop"
    /\ iQueryCount[t] > 0
    /\ t \in connected
    /\ CountDown(t)

Executes(t) == executed' = [executed EXCEPT ![t] = @ + 1]

\* mysql_query() == 0; whatever mysql_store_result() gives, the call succeeded.
SendAnswered(t) ==
    /\ Sends(t)
    /\ t \in session
    /\ Executes(t)
    /\ Return(t, TRUE)
    /\ UNCHANGED <<owned, links, calls, lost>>

\* An error that has nothing to do with the connection.
SendRefused(t) ==
    /\ Sends(t)
    /\ t \in session
    /\ Return(t, FALSE)
    /\ UNCHANGED <<owned, links, calls, hist>>

\* CR_SERVER_GONE_ERROR, CR_SERVER_LOST and the other five; the client library
\* closes its end.
SendLost(t) ==
    /\ Sends(t)
    /\ \/ UNCHANGED hist
       \/ t \in session /\ Executes(t) /\ lost' = [lost EXCEPT ![t] = @ + 1]
    /\ session' = session \ {t}
    /\ Goto(t, "again")
    /\ UNCHANGED <<owned, connected, returned, calls>>

\* Slip: the statement is taken for sent once the connection is back.
AgainReturns(t) ==
    /\ pc[t] = "again"
    /\ \/ Accepted(t) /\ Return(t, TRUE)
       \/ Refused(t) /\ Goto(t, "loop") /\ UNCHANGED returned
    /\ UNCHANGED <<owned, iQueryCount, calls, hist>>

\* Connect(); continue;
Again(t) ==
    /\ Moves(t, "again", "loop")
    /\ Connect(t)
    /\ UNCHANGED <<owned, local, hist>>

GiveUp(t) ==
    /\ pc[t] = "loop"
    /\ iQueryCount[t] = 0
    /\ Return(t, FALSE)
    /\ UNCHANGED <<owned, links, iQueryCount, calls, hist>>

---------------------------------------------------------------------------
(* CDBConnector_TLS *)

\* Query() or Query_Insert() of a thread that has a connector, or gets one.
Call(t) ==
    /\ pc[t] = "idle"
    /\ life = "used"
    /\ calls[t] < MaxCalls
    /\ Goto(t, IF t \in tls THEN "loop" ELSE "new")
    /\ calls' = [calls EXCEPT ![t] = @ + 1]
    /\ iQueryCount' = [iQueryCount EXCEPT ![t] = QueryCount]
    /\ returned' = [returned EXCEPT ![t] = FALSE]
    /\ executed' = [executed EXCEPT ![t] = 0]
    /\ lost' = [lost EXCEPT ![t] = 0]
    /\ UNCHANGED <<owned, links>>

\* GetDBConnector(): new, Push, TlsSetValue
New(t) ==
    /\ Moves(t, "new", "first")
    /\ stkDBC' = stkDBC \cup {t}
    /\ tls' = tls \cup {t}
    /\ UNCHANGED <<links, local, hist, life>>

\* while (1) if (Connect()) break;
FirstAccepted(t) ==
    /\ Moves(t, "first", "loop")
    /\ Accepted(t)
    /\ UNCHANGED <<owned, local, hist>>

FirstRefused(t) ==
    /\ Moves(t, "first", "first")
    /\ Refused(t)
    /\ UNCHANGED <<owned, local, hist>>

\* delete, when no thread uses the object any more
Delete ==
    /\ life = "used"
    /\ \A t \in Threads : pc[t] = "idle"
    /\ life' = "dying"
    /\ UNCHANGED <<tls, stkDBC, links, local, hist, pc>>

\* Slip: the loop ends with the first connector, as CLFStack::Clear() does.
DestroyOne ==
    /\ life = "dying"
    /\ \E c \in stkDBC :
          /\ stkDBC' = stkDBC \ {c}
          /\ session' = IF c \in connected THEN session \ {c} ELSE session
    /\ life' = "dead"
    /\ UNCHANGED <<tls, connected, local, hist, pc>>

\* while (Pop(p)) delete p; the connector's destructor calls mysql_close(_pMySQL).
Destroy ==
    /\ life = "dying"
    /\ \/ \E c \in stkDBC :
             /\ stkDBC' = stkDBC \ {c}
             /\ session' = IF c \in connected THEN session \ {c} ELSE session
             /\ UNCHANGED life
       \/ stkDBC = {} /\ life' = "dead" /\ UNCHANGED <<stkDBC, session>>
    /\ UNCHANGED <<tls, connected, local, hist, pc>>

---------------------------------------------------------------------------

\* The server closes a session that was idle for too long, or stops.
ServerDrops ==
    /\ \E c \in session : session' = session \ {c}
    /\ UNCHANGED <<owned, connected, local, hist, pc>>

Query(t) ==
    \/ Reconnect(t) \/ SendAnswered(t) \/ SendRefused(t) \/ SendLost(t)
    \/ Again(t) \/ GiveUp(t)

Thread(t) == New(t) \/ FirstAccepted(t) \/ FirstRefused(t) \/ Query(t)

Next ==
    \/ \E t \in Threads : Call(t) \/ Thread(t)
    \/ Delete
    \/ Destroy
    \/ ServerDrops

Spec == Init /\ [][Next]_vars

\* A thread inside a call runs on; whether the server accepts its connections
\* is left open.  The loop of the first connection has no fairness of its own:
\* a refusal there changes nothing, and weak fairness would make the server
\* accept in the end.
Fairness == \A t \in Threads : WF_vars(New(t) \/ Query(t))

FairSpec == Spec /\ Fairness

---------------------------------------------------------------------------
(* Properties *)

TypeOK ==
    /\ {tls, stkDBC, connected, session} \subseteq SUBSET Threads
    /\ iQueryCount \in [Threads -> 0..QueryCount]
    /\ returned \in [Threads -> BOOLEAN]
    /\ executed \in [Threads -> Nat]
    /\ lost \in [Threads -> Nat]
    /\ calls \in [Threads -> 0..MaxCalls]
    /\ life \in {"used", "dying", "dead"}
    /\ pc \in [Threads -> {"idle", "new", "first", "loop", "again"}]

\* What the result of a call says of the server: TRUE means that the statement
\* was executed once more than answers got lost, so exactly once if none was;
\* FALSE means that every execution there was is one whose answer got lost.
\* No statement is executed more often than the loop has attempts.
ResultTellsExecution ==
    \A t \in Threads : pc[t] = "idle" =>
        /\ executed[t] = lost[t] + (IF returned[t] THEN 1 ELSE 0)
        /\ executed[t] <= QueryCount

\* Every open session belongs to a connector the destructor will find and whose
\* _pMySQL it will close, however the connections came and went; so none is
\* left at the server when the object is gone.
SessionsClosed ==
    /\ session \subseteq stkDBC \cap connected
    /\ life = "dead" => session = {}

\* Whatever the server does, every call returns, or it is the thread's first
\* call and waits for a first connection that never comes: the endless loop of
\* GetDBConnector() is the only one.
CallsReturn == \A t \in Threads : []<>(pc[t] = "idle") \/ <>[](pc[t] = "first")

=============================================================================
