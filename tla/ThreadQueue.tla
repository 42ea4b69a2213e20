---------------------------- MODULE ThreadQueue ----------------------------
(***************************************************************************)
(* The program of src/Thread_queue: main() produces messages into the ring *)
(* buffer g_MsgQ, a pool of UpdateThread workers woken through one         *)
(* auto-reset event drains it and applies the messages to g_List, and a    *)
(* QUIT message, put back by every worker that leaves, ends them all.      *)
(*                                                                         *)
(* One step is one access to shared state: taking a lock, a test made      *)
(* under it, the copy out of the ring, the move of its read position       *)
(* together with the unlock, SetEvent, the wait.  The ring is a sequence   *)
(* of whole messages here; RingBuffer models its bytes.                    *)
(***************************************************************************)
EXTENDS Integers, Sequences

CONSTANTS Workers,      \* the UpdateThreads
          Main,         \* the main thread
          NoThread,     \* the owner of a free lock
          BufferSize,   \* bytes of the ring buffer
          MsgSize,      \* sizeof(st_MSG_HEADER)
          MaxMsgs       \* bound: messages main() generates before it can only quit

ASSUME ThreadAssumption ==
    /\ Workers # {}
    /\ Main \notin Workers
    /\ NoThread \notin Workers \cup {Main}
ASSUME SizeAssumption ==
    /\ BufferSize \in Nat
    /\ MsgSize \in Nat \ {0}
    /\ MsgSize < BufferSize
ASSUME BoundAssumption == MaxMsgs \in Nat

Threads == Workers \cup {Main}

ADD_STR    == "ADD_STR"
DEL_STR    == "DEL_STR"
PRINT_LIST == "PRINT_LIST"
QUIT       == "QUIT"
NONE       == "NONE"

\* The header's type, and a number that tells messages apart (for the string).
Content == [id : 1..MaxMsgs, type : {ADD_STR, DEL_STR, PRINT_LIST}]
QuitMsg == [id |-> 0, type |-> QUIT]
NoMsg   == [id |-> 0, type |-> NONE]

VARIABLES msgQ,       \* g_MsgQ: the messages between read and write position
          owner,      \* the holder of g_MsgQ.Lock()
          event,      \* g_hEvent, auto-reset
          list,       \* the length of g_List
          listX,      \* the exclusive holder of g_ListCs
          listS,      \* the shared holders of g_ListCs
          pc,         \* where each thread is
          msg,        \* each thread's local stHeader
          bShutdown,  \* each worker's local bShutdown
          crashed,    \* pop_back ran on the empty list
          generated,  \* how many messages main() has built
          accepted,   \* history: the ids that entered g_MsgQ
          handled     \* history: the ids whose switch case is over

qvars == <<msgQ, owner, event>>
lvars == <<list, listX, listS>>
hvars == <<generated, accepted, handled>>
vars  == <<msgQ, owner, event, list, listX, listS, pc, msg, bShutdown,
           crashed, generated, accepted, handled>>

WorkerPC == {"wait", "lock", "check", "copy", "move", "dispatch", "xlock",
             "pushback", "popback", "slock", "print",
             "qlock", "qcheck", "qput", "qset", "done"}
MainPC   == {"gen", "lock", "check", "put", "set", "join", "done"}

Init ==
    /\ msgQ = <<>>
    /\ owner = NoThread
    /\ event = FALSE
    /\ list = 0
    /\ listX = NoThread
    /\ listS = {}
    /\ pc = [t \in Threads |-> IF t = Main THEN "gen" ELSE "wait"]
    /\ msg = [t \in Threads |-> NoMsg]
    /\ bShutdown = [w \in Workers |-> FALSE]
    /\ crashed = FALSE
    /\ generated = 0
    /\ accepted = {}
    /\ handled = {}

---------------------------------------------------------------------------
(* The ring buffer, its lock and the event. *)

UseSize  == MsgSize * Len(msgQ)
FreeSize == BufferSize - UseSize - 1

Goto(t, l)          == pc' = [pc EXCEPT ![t] = l]
Moves(t, from, to)  == pc[t] = from /\ Goto(t, to)

\* Slip: a lock that does not exclude.
LockIsNoLock(t) == owner' = t

\* g_MsgQ.Lock() and g_MsgQ.Unlock()
Lock(t) == owner = NoThread /\ owner' = t
Unlock  == owner' = NoThread

\* if (GetFreeSize() >= sizeof(st_MSG_HEADER)), under the lock
Room == FreeSize >= MsgSize

\* A wait on the event that succeeds resets it.
WaitEvent == event /\ event' = FALSE
SetEvent  == event' = TRUE

AcquireExclusive(t) == listX = NoThread /\ listS = {} /\ listX' = t
\* Slip: readers of the list do not wait for its writer.
AcquireSharedAnyTime(t) == listS' = listS \cup {t}
AcquireShared(t)    == listX = NoThread /\ listS' = listS \cup {t}

---------------------------------------------------------------------------
(* main() *)

\* The next message has a random type; no key, or a key other than space.
MainGenerate ==
    /\ Moves(Main, "gen", "lock")
    /\ generated < MaxMsgs
    /\ generated' = generated + 1
    /\ \E ty \in {ADD_STR, DEL_STR, PRINT_LIST} :
          msg' = [msg EXCEPT ![Main] = [id |-> generated + 1, type |-> ty]]
    /\ UNCHANGED <<qvars, lvars, bShutdown, crashed, accepted, handled>>

\* Space: the message becomes QUIT and the loop ends after it is sent.
MainSpace ==
    /\ Moves(Main, "gen", "lock")
    /\ msg' = [msg EXCEPT ![Main] = QuitMsg]
    /\ UNCHANGED <<qvars, lvars, bShutdown, crashed, hvars>>

MainLock ==
    /\ Moves(Main, "lock", "check")
    /\ Lock(Main)
    /\ UNCHANGED <<msgQ, event, lvars, msg, bShutdown, crashed, hvars>>

\* A message that does not fit is dropped; SetEvent follows all the same.
MainCheck ==
    /\ pc[Main] = "check"
    /\ \/ Room /\ Goto(Main, "put") /\ UNCHANGED owner
       \/ ~Room /\ Goto(Main, "set") /\ Unlock
    /\ UNCHANGED <<msgQ, event, lvars, msg, bShutdown, crashed, hvars>>

MainPut ==
    /\ Moves(Main, "put", "set")
    /\ msgQ' = Append(msgQ, msg[Main])
    /\ Unlock
    /\ accepted' = accepted \cup {msg[Main].id}
    /\ UNCHANGED <<event, lvars, msg, bShutdown, crashed, generated, handled>>

\* Slip: the loop goes on after QUIT.
MainSetNoBreak ==
    /\ Moves(Main, "set", "gen")
    /\ SetEvent
    /\ UNCHANGED <<msgQ, owner, lvars, msg, bShutdown, crashed, hvars>>

MainSet ==
    /\ pc[Main] = "set"
    /\ SetEvent
    /\ Goto(Main, IF msg[Main] = QuitMsg THEN "join" ELSE "gen")
    /\ UNCHANGED <<msgQ, owner, lvars, msg, bShutdown, crashed, hvars>>

\* Slip: the join returns when any worker is gone (bWaitAll FALSE).
MainJoinAny ==
    /\ Moves(Main, "join", "done")
    /\ \E w \in Workers : pc[w] = "done"
    /\ UNCHANGED <<qvars, lvars, msg, bShutdown, crashed, hvars>>

\* WaitForMultipleObjects on all workers
MainJoin ==
    /\ Moves(Main, "join", "done")
    /\ \A w \in Workers : pc[w] = "done"
    /\ UNCHANGED <<qvars, lvars, msg, bShutdown, crashed, hvars>>

---------------------------------------------------------------------------
(* UpdateThread() *)

Wait(w) ==
    /\ Moves(w, "wait", "lock")
    /\ WaitEvent
    /\ UNCHANGED <<msgQ, owner, lvars, msg, bShutdown, crashed, hvars>>

DrainLock(w) ==
    /\ Moves(w, "lock", "check")
    /\ Lock(w)
    /\ UNCHANGED <<msgQ, event, lvars, msg, bShutdown, crashed, hvars>>

\* An empty queue ends the drain loop: the worker waits again, or leaves.
DrainCheck(w) ==
    /\ pc[w] = "check"
    /\ \/ /\ UseSize >= MsgSize
          /\ Goto(w, "copy")
          /\ UNCHANGED owner
       \/ /\ UseSize < MsgSize
          /\ Goto(w, IF bShutdown[w] THEN "qlock" ELSE "wait")
          /\ Unlock
    /\ UNCHANGED <<msgQ, event, lvars, msg, bShutdown, crashed, hvars>>

\* Dequeue copies the bytes out and then moves the read position.
DrainCopy(w) ==
    /\ Moves(w, "copy", "move")
    /\ msg' = [msg EXCEPT ![w] = Head(msgQ)]
    /\ UNCHANGED <<qvars, lvars, bShutdown, crashed, hvars>>

\* Slip: the message is peeked at and stays in the queue.
DrainPeek(w) ==
    /\ Moves(w, "move", "dispatch")
    /\ Unlock
    /\ UNCHANGED <<msgQ, event, lvars, msg, bShutdown, crashed, hvars>>

\* Slip: the bytes removed are the last ones written.
DrainMoveNewest(w) ==
    /\ Moves(w, "move", "dispatch")
    /\ msgQ' = SubSeq(msgQ, 1, Len(msgQ) - 1)
    /\ Unlock
    /\ UNCHANGED <<event, lvars, msg, bShutdown, crashed, hvars>>

DrainMove(w) ==
    /\ Moves(w, "move", "dispatch")
    /\ msgQ' = Tail(msgQ)
    /\ Unlock
    /\ UNCHANGED <<event, lvars, msg, bShutdown, crashed, hvars>>

\* Slip: one message for each wakeup, no drain loop.
FinishAndWait(w) ==
    /\ Goto(w, "wait")
    /\ handled' = handled \cup {msg[w].id}
    /\ msg' = [msg EXCEPT ![w] = NoMsg]
    /\ UNCHANGED <<generated, accepted>>

\* The case is over: back to the head of the drain loop.
Finish(w) ==
    /\ Goto(w, "lock")
    /\ handled' = handled \cup {msg[w].id}
    /\ msg' = [msg EXCEPT ![w] = NoMsg]
    /\ UNCHANGED <<generated, accepted>>

DispatchAdd(w) ==
    /\ Moves(w, "dispatch", "xlock")
    /\ msg[w].type = ADD_STR
    /\ UNCHANGED <<qvars, lvars, msg, bShutdown, crashed, hvars>>

\* g_List.empty() is read before the list lock is taken.
DispatchDel(w) ==
    /\ pc[w] = "dispatch"
    /\ msg[w].type = DEL_STR
    /\ \/ list > 0 /\ Goto(w, "xlock") /\ UNCHANGED <<msg, hvars>>
       \/ list = 0 /\ Finish(w)
    /\ UNCHANGED <<qvars, lvars, bShutdown, crashed>>

DispatchPrint(w) ==
    /\ Moves(w, "dispatch", "slock")
    /\ msg[w].type = PRINT_LIST
    /\ UNCHANGED <<qvars, lvars, msg, bShutdown, crashed, hvars>>

DispatchQuit(w) ==
    /\ Moves(w, "dispatch", "lock")
    /\ msg[w].type = QUIT
    /\ bShutdown' = [bShutdown EXCEPT ![w] = TRUE]
    /\ msg' = [msg EXCEPT ![w] = NoMsg]
    /\ UNCHANGED <<qvars, lvars, crashed, hvars>>

ListLock(w) ==
    /\ Moves(w, "xlock", IF msg[w].type = ADD_STR THEN "pushback" ELSE "popback")
    /\ AcquireExclusive(w)
    /\ UNCHANGED <<qvars, list, listS, msg, bShutdown, crashed, hvars>>

PushBack(w) ==
    /\ pc[w] = "pushback"
    /\ list' = list + 1
    /\ listX' = NoThread
    /\ Finish(w)
    /\ UNCHANGED <<qvars, listS, bShutdown, crashed>>

\* pop_back of an empty std::list is undefined; the process ends there.
PopBack(w) ==
    /\ pc[w] = "popback"
    /\ \/ /\ list > 0
          /\ list' = list - 1
          /\ listX' = NoThread
          /\ Finish(w)
          /\ UNCHANGED crashed
       \/ /\ list = 0
          /\ crashed' = TRUE
          /\ UNCHANGED <<list, listX, pc, msg, hvars>>
    /\ UNCHANGED <<qvars, listS, bShutdown>>

PrintLock(w) ==
    /\ Moves(w, "slock", "print")
    /\ AcquireShared(w)
    /\ UNCHANGED <<qvars, list, listX, msg, bShutdown, crashed, hvars>>

PrintEnd(w) ==
    /\ pc[w] = "print"
    /\ listS' = listS \ {w}
    /\ Finish(w)
    /\ UNCHANGED <<qvars, list, listX, bShutdown, crashed>>

\* The worker that took QUIT puts a QUIT back for the next one.
ForwardLock(w) ==
    /\ Moves(w, "qlock", "qcheck")
    /\ Lock(w)
    /\ UNCHANGED <<msgQ, event, lvars, msg, bShutdown, crashed, hvars>>

ForwardCheck(w) ==
    /\ pc[w] = "qcheck"
    /\ Goto(w, IF Room THEN "qput" ELSE "qset")
    /\ owner' = IF Room THEN owner ELSE NoThread
    /\ UNCHANGED <<msgQ, event, lvars, msg, bShutdown, crashed, hvars>>

ForwardPut(w) ==
    /\ Moves(w, "qput", "qset")
    /\ msgQ' = Append(msgQ, QuitMsg)
    /\ Unlock
    /\ UNCHANGED <<event, lvars, msg, bShutdown, crashed, hvars>>

\* Slip: nobody is woken for the QUIT that was put back.
ForwardNoSet(w) ==
    /\ Moves(w, "qset", "done")
    /\ UNCHANGED <<qvars, lvars, msg, bShutdown, crashed, hvars>>

ForwardSet(w) ==
    /\ Moves(w, "qset", "done")
    /\ SetEvent
    /\ UNCHANGED <<msgQ, owner, lvars, msg, bShutdown, crashed, hvars>>

---------------------------------------------------------------------------

MainStep == MainLock \/ MainCheck \/ MainPut \/ MainSet \/ MainJoin

UpdateThread(w) ==
    \/ Wait(w) \/ DrainLock(w) \/ DrainCheck(w) \/ DrainCopy(w) \/ DrainMove(w)
    \/ DispatchAdd(w) \/ DispatchDel(w) \/ DispatchPrint(w) \/ DispatchQuit(w)
    \/ ListLock(w) \/ PushBack(w) \/ PopBack(w) \/ PrintLock(w) \/ PrintEnd(w)
    \/ ForwardLock(w) \/ ForwardCheck(w) \/ ForwardPut(w) \/ ForwardSet(w)

Next ==
    /\ ~crashed
    /\ \/ MainGenerate \/ MainSpace \/ MainStep
       \/ \E w \in Workers : UpdateThread(w)

Spec == Init /\ [][Next]_vars

\* Windows schedules every runnable thread.  Nobody is bound to press space,
\* and main() may be slow to produce, so its two "gen" actions are not fair.
Fairness ==
    /\ WF_vars(~crashed /\ MainStep)
    /\ \A w \in Workers : WF_vars(~crashed /\ UpdateThread(w))

FairSpec == Spec /\ Fairness

---------------------------------------------------------------------------
(* Properties *)

QuitAccepted == QuitMsg.id \in accepted

\* The ids of the messages in g_MsgQ, oldest first; the QUIT, which is last
\* when it is there at all, is not one of them.
QuitLast == msgQ # <<>> /\ msgQ[Len(msgQ)] = QuitMsg
Pending  == [i \in 1..(IF QuitLast THEN Len(msgQ) - 1 ELSE Len(msgQ)) |-> msgQ[i].id]

\* The message a worker has dequeued and not finished.
Busy == {"dispatch", "xlock", "pushback", "popback", "slock", "print"}
Hand(w) == IF pc[w] \in Busy /\ msg[w] # QuitMsg THEN {msg[w].id} ELSE {}

\* A worker that took the QUIT and has not put it back.
Carries(w) ==
    \/ pc[w] = "dispatch" /\ msg[w] = QuitMsg
    \/ bShutdown[w] /\ pc[w] \notin {"qset", "done"}

Asleep(w) == pc[w] \in {"wait", "done"}

\* Every variable keeps its type, and the ring never holds more bytes than it
\* can tell from an empty one (CRingBuffer keeps one byte unused).
TypeOK ==
    /\ msgQ \in Seq(Content \cup {QuitMsg})
    /\ UseSize < BufferSize
    /\ owner \in Threads \cup {NoThread}
    /\ event \in BOOLEAN
    /\ list \in Nat
    /\ listX \in Workers \cup {NoThread}
    /\ listS \subseteq Workers
    /\ pc \in [Threads -> WorkerPC \cup MainPC]
    /\ pc[Main] \in MainPC
    /\ \A w \in Workers : pc[w] \in WorkerPC
    /\ msg \in [Threads -> Content \cup {QuitMsg, NoMsg}]
    /\ bShutdown \in [Workers -> BOOLEAN]
    /\ crashed \in BOOLEAN
    /\ generated \in 0..MaxMsgs
    /\ accepted \subseteq 0..MaxMsgs
    /\ handled \subseteq 1..MaxMsgs

\* One thread at a time is between g_MsgQ.Lock() and Unlock(), and what it
\* tested there is still true when it acts on it: a message is there until the
\* Dequeue is over, and is the one that was copied; room for a message is there
\* until the Enqueue.
InQueueLock(t) == pc[t] \in {"check", "copy", "move", "put", "qcheck", "qput"}
CheckedSizeHolds ==
    /\ \A t \in Threads : InQueueLock(t) => owner = t
    /\ \A w \in Workers :
          /\ pc[w] \in {"copy", "move"} => UseSize >= MsgSize
          /\ pc[w] = "move" => msg[w] = Head(msgQ)
          /\ pc[w] = "qput" => Room
    /\ pc[Main] = "put" => Room

\* Every accepted message is in exactly one place: waiting in g_MsgQ, in the
\* hands of one worker, or handled.
ExactlyOnce ==
    LET waiting == {Pending[i] : i \in DOMAIN Pending}
        inHand  == UNION {Hand(w) : w \in Workers}
    IN  /\ accepted \ {QuitMsg.id} = waiting \cup inHand \cup handled
        /\ waiting \cap inHand = {}
        /\ (waiting \cup inHand) \cap handled = {}
        /\ \A i, j \in DOMAIN Pending : i # j => Pending[i] # Pending[j]
        /\ \A v, w \in Workers : v # w => Hand(v) \cap Hand(w) = {}

\* Until main() gets a QUIT into the queue no worker shuts down.  From then on
\* there is one QUIT in the program: behind everything else in the queue, or
\* carried by a single worker while the queue is empty.  So two workers never
\* quit at once and the token is never lost.
QuitToken ==
    IF QuitAccepted
    THEN \/ /\ QuitLast
            /\ \A i \in DOMAIN msgQ : msgQ[i] = QuitMsg => i = Len(msgQ)
            /\ \A w \in Workers : ~Carries(w)
         \/ /\ msgQ = <<>>
            /\ \E w \in Workers : Carries(w) /\ \A v \in Workers \ {w} : ~Carries(v)
    ELSE /\ \A i \in DOMAIN msgQ : msgQ[i] # QuitMsg
         /\ \A w \in Workers : ~Carries(w) /\ ~bShutdown[w]

\* A message in the queue is never left with everybody asleep: the event is
\* set, or somebody is about to set it, or a worker is awake and looks into
\* the queue again before it waits.
NoLostWakeup ==
    msgQ # <<>> => \/ event
                   \/ pc[Main] = "set"
                   \/ \E w \in Workers : ~Asleep(w)

\* When main() is past its join every worker is gone, every message that
\* entered the queue was handled, and what is left in it is one QUIT.
ShutdownClean ==
    pc[Main] = "done" =>
        /\ \A w \in Workers : pc[w] = "done"
        /\ handled = accepted \ {QuitMsg.id}
        /\ msgQ = <<QuitMsg>>

\* g_List changes only while one worker is at it and nobody walks through it
\* to print it.
ListStableWhilePrinting ==
    [][list' # list =>
         \E w \in Workers :
            /\ pc[w] \in {"pushback", "popback"}
            /\ \A v \in Workers \ {w} : pc[v] \notin {"pushback", "popback", "print"}]_vars

\* Once the QUIT is in the queue all workers leave and main() ends, in every
\* schedule, unless pop_back brought the process down.
ShutdownCompletes == QuitAccepted ~> (pc[Main] = "done" \/ crashed)

\* A message that entered the queue is handled in the end.
AcceptedHandled ==
    \A m \in 1..MaxMsgs : m \in accepted ~> (m \in handled \/ crashed)

\* The program implements MessageDispatch, the pipe without locks and events.
Dispatch == INSTANCE MessageDispatch WITH
    Messages <- 1..MaxMsgs,
    Capacity <- (BufferSize - 1) \div MsgSize,
    posted   <- accepted \ {QuitMsg.id},
    pending  <- Pending,
    hand     <- [w \in Workers |-> Hand(w)],
    closed   <- QuitAccepted,
    left     <- {w \in Workers : pc[w] = "done"},
    halted   <- crashed
DispatchSpec == Dispatch!Spec

\* What the README says of list.pop_back: it is synchronised, so it never
\* meets an empty list.  (The test for an empty list is made before the lock.)
PopBackNonEmpty == ~crashed

\* What the README says of the space key: a QUIT message is inserted into the
\* queue, and the threads end.  (main() drops the message when it has no room.)
SpaceStopsProgram == msg[Main] = QuitMsg ~> (pc[Main] = "done" \/ crashed)

=============================================================================
