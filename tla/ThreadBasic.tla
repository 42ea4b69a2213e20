---------------------------- MODULE ThreadBasic ----------------------------
(***************************************************************************)
(* The program src/Thread_Basic: AcceptThread and DisconnectThread change  *)
(* g_Connect by interlocked operations, the UpdateThreads count g_Data up  *)
(* under a critical section, and main() ends them all after a while.  Each *)
(* access to a shared variable is a step; the time, the console and the    *)
(* random intervals between two turns are left out.                        *)
(***************************************************************************)
EXTENDS Integers

CONSTANTS Updaters,   \* the UpdateThreads
          MaxTurns    \* bound: no turn is begun once so many were

VARIABLES gConnect,     \* g_Connect
          gData,        \* g_Data
          bShutdown,
          inside,       \* the UpdateThreads inside g_cs
          reg,          \* what an UpdateThread has read of g_Data
          accept,       \* where AcceptThread is
          disconnect,   \* where DisconnectThread is
          update,       \* where each UpdateThread is
          main,         \* where main() is
          turns,        \* the turns begun
          clients,      \* history: clients accepted and not disconnected
          updates       \* history: the increments of g_Data

conn == <<gConnect, clients>>
data == <<gData, inside, reg, updates>>
at   == <<accept, disconnect, update, main>>
vars == <<conn, data, bShutdown, at, turns>>

Init ==
    /\ gConnect = 0
    /\ gData = 0
    /\ bShutdown = FALSE
    /\ inside = {}
    /\ reg = [u \in Updaters |-> 0]
    /\ accept = "top"
    /\ disconnect = "top"
    /\ update = [u \in Updaters |-> "top"]
    /\ main = "wait"
    /\ turns = 0
    /\ clients = 0
    /\ updates = 0

\* while (!g_bShutdown)
Turn == ~bShutdown /\ turns < MaxTurns /\ turns' = turns + 1

---------------------------------------------------------------------------

AcceptThread ==
    /\ accept = "top"
    /\ \/ /\ Turn
          /\ gConnect' = gConnect + 1
          /\ clients' = clients + 1
          /\ UNCHANGED accept
       \/ bShutdown /\ accept' = "done" /\ UNCHANGED <<conn, turns>>
    /\ UNCHANGED <<data, bShutdown, disconnect, update, main>>

\* if (g_Connect > 0)
DisconnectTest ==
    /\ disconnect = "top"
    /\ \/ Turn /\ disconnect' = IF gConnect > 0 THEN "decrement" ELSE "top"
       \/ bShutdown /\ disconnect' = "done" /\ UNCHANGED turns
    /\ UNCHANGED <<conn, data, bShutdown, accept, update, main>>

Decrement ==
    /\ disconnect = "decrement"
    /\ gConnect' = gConnect - 1
    /\ clients' = clients - 1
    /\ disconnect' = "top"
    /\ UNCHANGED <<data, bShutdown, accept, update, main, turns>>

UpdateBegin(u) ==
    /\ update[u] = "top"
    /\ \/ Turn /\ update' = [update EXCEPT ![u] = "enter"]
       \/ bShutdown /\ update' = [update EXCEPT ![u] = "done"] /\ UNCHANGED turns
    /\ UNCHANGED <<conn, data, bShutdown, accept, disconnect, main>>

EnterCriticalSection(u) ==
    /\ update[u] = "enter"
    /\ inside = {}
    /\ inside' = {u}
    /\ update' = [update EXCEPT ![u] = "read"]
    /\ UNCHANGED <<conn, gData, reg, updates, bShutdown, accept, disconnect, main, turns>>

\* ++g_Data reads the variable and writes it back.
Read(u) ==
    /\ update[u] = "read"
    /\ reg' = [reg EXCEPT ![u] = gData]
    /\ update' = [update EXCEPT ![u] = "write"]
    /\ UNCHANGED <<conn, gData, inside, updates, bShutdown, accept, disconnect, main, turns>>

Write(u) ==
    /\ update[u] = "write"
    /\ gData' = reg[u] + 1
    /\ updates' = updates + 1
    /\ inside' = inside \ {u}
    /\ update' = [update EXCEPT ![u] = "top"]
    /\ UNCHANGED <<conn, reg, bShutdown, accept, disconnect, main, turns>>

UpdateThread(u) == UpdateBegin(u) \/ EnterCriticalSection(u) \/ Read(u) \/ Write(u)

\* 20 seconds are over.
MainTimeout ==
    /\ main = "wait"
    /\ bShutdown' = TRUE
    /\ main' = "join"
    /\ UNCHANGED <<conn, data, accept, disconnect, update, turns>>

\* WaitForMultipleObjects(5, ..), DeleteCriticalSection()
MainJoin ==
    /\ main = "join"
    /\ accept = "done" /\ disconnect = "done"
    /\ \A u \in Updaters : update[u] = "done"
    /\ main' = "done"
    /\ UNCHANGED <<conn, data, bShutdown, accept, disconnect, update, turns>>

Next ==
    \/ AcceptThread
    \/ DisconnectTest
    \/ Decrement
    \/ \E u \in Updaters : UpdateThread(u)
    \/ MainTimeout
    \/ MainJoin

Spec == Init /\ [][Next]_vars

---------------------------------------------------------------------------
(* Properties *)

TypeOK ==
    /\ {gConnect, clients} \subseteq Int
    /\ {gData, turns, updates} \subseteq Nat
    /\ bShutdown \in BOOLEAN
    /\ inside \subseteq Updaters
    /\ reg \in [Updaters -> Nat]
    /\ accept \in {"top", "done"}
    /\ disconnect \in {"top", "decrement", "done"}
    /\ update \in [Updaters -> {"top", "enter", "read", "write", "done"}]
    /\ main \in {"wait", "join", "done"}

\* g_Connect is tested and then decremented (main.cpp:109-111), two accesses: it
\* still never falls below zero, and it counts the clients exactly.
ConnectExact == gConnect = clients /\ gConnect >= 0

\* No increment of g_Data is lost between its read and its write, and when
\* main() deletes the critical section nobody is in it or will enter it.
DataExact ==
    /\ gData = updates
    /\ main = "done" => inside = {} /\ \A u \in Updaters : update[u] = "done"

=============================================================================
