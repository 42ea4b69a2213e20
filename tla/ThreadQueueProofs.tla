------------------------- MODULE ThreadQueueProofs -------------------------
(***************************************************************************)
(* Proofs about ThreadQueue for any number of workers, any buffer and      *)
(* message size and any number of messages.                                *)
(*                                                                         *)
(* TypeOK is not inductive: that Append keeps the ring within its size     *)
(* needs the room tested before it, that Head and Tail have a message      *)
(* needs the size tested before them, and both tests stay true because     *)
(* their thread holds the queue's lock.  Inv collects what is needed.      *)
(***************************************************************************)
EXTENDS ThreadQueue, SequenceTheorems, TLAPS

Item == Content \cup {QuitMsg}

\* The local message has been set where the code is about to use it.
MsgInv ==
    /\ \A w \in Workers :
          /\ pc[w] \in {"move", "dispatch"} => msg[w] \in Item
          /\ pc[w] \in Busy \ {"dispatch"} => msg[w] \in Content
    /\ pc[Main] \in {"lock", "check", "put", "set"} => msg[Main] \in Item
    /\ pc[Main] \in {"join", "done"} => msg[Main] = QuitMsg

Inv == TypeOK /\ CheckedSizeHolds /\ MsgInv

---------------------------------------------------------------------------

\* The constants, in the form the steps below use them.
LEMMA Constants ==
    /\ Workers # {}
    /\ Main \notin Workers
    /\ NoThread \notin Threads
    /\ Main \in Threads
    /\ \A w \in Workers : w \in Threads /\ w # Main
    /\ BufferSize \in Nat /\ MsgSize \in Nat \ {0} /\ MsgSize < BufferSize
    /\ MaxMsgs \in Nat
BY ThreadAssumption, SizeAssumption, BoundAssumption DEF Threads

\* The contents of a message never have the type of QUIT or of no message.
LEMMA Messages ==
    /\ QuitMsg \notin Content
    /\ NoMsg \notin Content
    /\ QuitMsg # NoMsg
    /\ \A m \in Content : m.id \in 1..MaxMsgs /\ m.type \in {ADD_STR, DEL_STR, PRINT_LIST}
    /\ QuitMsg.id = 0 /\ QuitMsg.type = QUIT
    /\ \A m \in Content : m.type # QUIT
BY DEF Content, QuitMsg, NoMsg, ADD_STR, DEL_STR, PRINT_LIST, QUIT, NONE

\* Room under the lock is what makes an Enqueue keep the ring within bounds.
LEMMA PutFits ==
    ASSUME NEW q \in Seq(Item), NEW m \in Item,
           MsgSize \in Nat, BufferSize \in Nat,
           BufferSize - MsgSize * Len(q) - 1 >= MsgSize
    PROVE  /\ Append(q, m) \in Seq(Item)
           /\ Len(Append(q, m)) = Len(q) + 1
           /\ MsgSize * Len(Append(q, m)) < BufferSize
<1>1. Append(q, m) \in Seq(Item) /\ Len(Append(q, m)) = Len(q) + 1 /\ Len(q) \in Nat
  BY AppendProperties, LenProperties
<1>2. MsgSize * (Len(q) + 1) = MsgSize * Len(q) + MsgSize
  BY <1>1
<1>3. MsgSize * Len(q) \in Nat
  BY <1>1
<1>4. QED
  BY <1>1, <1>2, <1>3

\* A use size of at least one message means there is one.
LEMMA SizeMeansMessage ==
    ASSUME NEW q \in Seq(Item), MsgSize \in Nat \ {0}
    PROVE  MsgSize * Len(q) >= MsgSize <=> q # <<>>
<1>1. Len(q) \in Nat /\ (q # <<>> => Len(q) \in Nat \ {0})
  BY EmptySeq, LenProperties
<1>2. CASE q = <<>>
  <2>1. MsgSize * Len(q) = 0
    BY <1>2
  <2>2. QED
    BY <2>1, <1>2
<1>3. CASE q # <<>>
  <2>1. PICK k \in Nat : Len(q) = k + 1
    <3>1. Len(q) - 1 \in Nat /\ Len(q) = (Len(q) - 1) + 1
      BY <1>1, <1>3
    <3>2. QED
      BY <3>1
  <2>2. MsgSize * (k + 1) = MsgSize * k + MsgSize /\ MsgSize * k \in Nat
    BY <2>1
  <2>3. QED
    BY <2>1, <2>2, <1>3
<1>4. QED
  BY <1>2, <1>3

\* A Dequeue leaves a queue that still fits.
LEMMA TakeFits ==
    ASSUME NEW q \in Seq(Item), q # <<>>, MsgSize \in Nat, BufferSize \in Nat,
           MsgSize * Len(q) < BufferSize
    PROVE  /\ Head(q) \in Item
           /\ Tail(q) \in Seq(Item)
           /\ Len(Tail(q)) = Len(q) - 1
           /\ MsgSize * Len(Tail(q)) < BufferSize
<1>1. /\ Head(q) \in Item
      /\ Tail(q) \in Seq(Item)
      /\ Len(Tail(q)) = Len(q) - 1
      /\ Len(q) \in Nat \ {0}
  BY HeadTailProperties, EmptySeq
<1>2. MsgSize * (Len(q) - 1) = MsgSize * Len(q) - MsgSize /\ MsgSize * Len(q) \in Nat
  BY <1>1
<1>3. QED
  BY <1>1, <1>2

---------------------------------------------------------------------------

\* The program starts in the invariant.
LEMMA InitInv == Init => Inv
<1> SUFFICES ASSUME Init PROVE Inv
  OBVIOUS
<1>1. TypeOK
  <2>1. msgQ \in Seq(Item) /\ UseSize = 0
    BY Constants, EmptySeq DEF Init, UseSize
  <2>2. pc[Main] = "gen" /\ \A w \in Workers : pc[w] = "wait"
    BY Constants DEF Init
  <2>3. pc \in [Threads -> WorkerPC \cup MainPC] /\ "gen" \in MainPC /\ "wait" \in WorkerPC
    BY DEF Init, WorkerPC, MainPC
  <2>4. generated \in 0..MaxMsgs /\ list \in Nat
    BY Constants DEF Init
  <2>5. msg \in [Threads -> Content \cup {QuitMsg, NoMsg}] /\ bShutdown \in [Workers -> BOOLEAN]
    BY DEF Init
  <2>6. UseSize < BufferSize
    BY <2>1, Constants
  <2>7. QED
    BY <2>1, <2>2, <2>3, <2>4, <2>5, <2>6 DEF Init, TypeOK, Item
<1>2. CheckedSizeHolds /\ MsgInv
  BY Constants DEF Init, CheckedSizeHolds, InQueueLock, MsgInv, Busy, Threads
<1>3. QED
  BY <1>1, <1>2 DEF Inv

\* Every step keeps the types.
LEMMA TypeStep ==
    ASSUME Inv, Next PROVE TypeOK'
<1> USE DEF Item, Goto, Moves, qvars, lvars, hvars
<1>1. /\ msgQ \in Seq(Item) /\ UseSize < BufferSize
      /\ pc \in [Threads -> WorkerPC \cup MainPC]
      /\ msg \in [Threads -> Item \cup {NoMsg}]
  BY DEF Inv, TypeOK
<1>2. ASSUME MainGenerate PROVE TypeOK'
  <2>1. generated + 1 \in 1..MaxMsgs
    BY <1>2, Constants DEF MainGenerate, Inv, TypeOK
  <2>2. msg' \in [Threads -> Item \cup {NoMsg}]
    BY <1>1, <1>2, <2>1, Constants DEF MainGenerate, Content
  <2>3. QED
    BY <1>2, <2>1, <2>2, Constants DEF MainGenerate, Inv, TypeOK, UseSize, MainPC
<1>3. ASSUME MainSpace \/ MainLock \/ MainCheck \/ MainSet \/ MainJoin PROVE TypeOK'
  BY <1>1, <1>3, Constants
     DEF MainSpace, MainLock, MainCheck, MainSet, MainJoin, Lock, Unlock, SetEvent,
         Inv, TypeOK, UseSize, MainPC
<1>4. ASSUME MainPut PROVE TypeOK'
  <2>1. msg[Main] \in Item /\ Room
    BY <1>4 DEF MainPut, Inv, MsgInv, CheckedSizeHolds
  <2>2. msgQ' \in Seq(Item) /\ UseSize' < BufferSize
    BY <1>1, <1>4, <2>1, PutFits, Constants DEF MainPut, Room, FreeSize, UseSize
  <2>3. msg[Main].id \in 0..MaxMsgs
    BY <2>1, Messages, Constants
  <2>4. QED
    BY <1>4, <2>2, <2>3, Constants DEF MainPut, Unlock, Inv, TypeOK, MainPC
<1>5. ASSUME NEW w \in Workers,
             Wait(w) \/ DrainLock(w) \/ DrainCheck(w) \/ DispatchAdd(w)
             \/ DispatchPrint(w) \/ DispatchQuit(w) \/ ListLock(w) \/ PrintLock(w)
             \/ ForwardLock(w) \/ ForwardCheck(w) \/ ForwardSet(w)
      PROVE TypeOK'
  <2> USE <1>1, Constants DEF Inv, TypeOK, UseSize, WorkerPC, Lock, Unlock
  <2>1. CASE Wait(w) \/ DrainLock(w) \/ DrainCheck(w) \/ DispatchQuit(w)
    BY <2>1 DEF Wait, DrainLock, DrainCheck, DispatchQuit, WaitEvent
  <2>2. CASE DispatchAdd(w) \/ DispatchPrint(w)
    BY <2>2 DEF DispatchAdd, DispatchPrint
  <2>3. CASE ListLock(w) \/ PrintLock(w)
    <3>1. listS' \subseteq Workers /\ listX' \in Workers \cup {NoThread}
      BY <2>3 DEF ListLock, PrintLock, AcquireExclusive, AcquireShared
    <3>2. PICK l \in {"pushback", "popback", "print"} : Goto(w, l)
      BY <2>3 DEF ListLock, PrintLock, Moves
    <3>3. UNCHANGED <<qvars, list, msg, bShutdown, crashed, hvars>>
      BY <2>3 DEF ListLock, PrintLock
    <3> QED
      BY <3>1, <3>2, <3>3 DEF Goto, qvars, hvars
  <2>4. CASE ForwardLock(w) \/ ForwardCheck(w) \/ ForwardSet(w)
    BY <2>4 DEF ForwardLock, ForwardCheck, ForwardSet, SetEvent
  <2> QED
    BY <1>5, <2>1, <2>2, <2>3, <2>4
<1>6. ASSUME NEW w \in Workers, DrainCopy(w) PROVE TypeOK'
  <2>1. msgQ # <<>>
    BY <1>1, <1>6, SizeMeansMessage, Constants
       DEF DrainCopy, Inv, CheckedSizeHolds, UseSize
  <2>2. Head(msgQ) \in Item
    BY <1>1, <2>1, HeadTailProperties
  <2>3. QED
    BY <1>1, <1>6, <2>2, Constants DEF DrainCopy, Inv, TypeOK, UseSize, WorkerPC
<1>7. ASSUME NEW w \in Workers, DrainMove(w) PROVE TypeOK'
  <2>1. msgQ # <<>>
    BY <1>1, <1>7, SizeMeansMessage, Constants
       DEF DrainMove, Inv, CheckedSizeHolds, UseSize
  <2>2. msgQ' \in Seq(Item) /\ UseSize' < BufferSize
    BY <1>1, <1>7, <2>1, TakeFits, Constants DEF DrainMove, UseSize
  <2>3. QED
    BY <1>1, <1>7, <2>2, Constants DEF DrainMove, Unlock, Inv, TypeOK, WorkerPC
<1>8. ASSUME NEW w \in Workers, PushBack(w) \/ PopBack(w) \/ PrintEnd(w) \/ DispatchDel(w)
      PROVE TypeOK'
  <2>1. msg[w] \in Item /\ (msg[w] # QuitMsg => msg[w].id \in 1..MaxMsgs)
    BY <1>8, Messages
       DEF PushBack, PopBack, PrintEnd, DispatchDel, Inv, MsgInv, Busy
  <2>2. msg[w] # QuitMsg
    BY <1>8, Messages
       DEF PushBack, PopBack, PrintEnd, DispatchDel, Inv, MsgInv, Busy, QUIT, DEL_STR
  <2>3. /\ msgQ' = msgQ /\ owner' = owner /\ event' = event /\ bShutdown' = bShutdown
        /\ generated' = generated /\ accepted' = accepted
        /\ list' \in Nat /\ listX' \in Workers \cup {NoThread}
        /\ listS' \subseteq Workers /\ crashed' \in BOOLEAN
    <3>1. /\ list \in Nat /\ listX \in Workers \cup {NoThread}
          /\ listS \subseteq Workers /\ crashed \in BOOLEAN
      BY DEF Inv, TypeOK
    <3>2. CASE PushBack(w)
      BY <3>1, <3>2 DEF PushBack, Finish
    <3>3. CASE PopBack(w)
      <4>1. CASE list > 0
        BY <3>1, <3>3, <4>1 DEF PopBack, Finish
      <4>2. CASE list = 0
        BY <3>1, <3>3, <4>2 DEF PopBack, Finish
      <4>3. QED
        BY <3>1, <4>1, <4>2
    <3>4. CASE PrintEnd(w)
      BY <3>1, <3>4 DEF PrintEnd, Finish
    <3>5. CASE DispatchDel(w)
      BY <3>1, <3>5 DEF DispatchDel, Finish
    <3>6. QED
      BY <1>8, <3>2, <3>3, <3>4, <3>5
  <2>4. \/ Finish(w)
        \/ UNCHANGED <<pc, msg, handled>>
        \/ Goto(w, "xlock") /\ UNCHANGED <<msg, handled>>
    BY <1>8 DEF PushBack, PopBack, PrintEnd, DispatchDel
  <2>5. msg' \in [Threads -> Item \cup {NoMsg}] /\ handled' \subseteq 1..MaxMsgs
    BY <1>1, <2>1, <2>2, <2>4 DEF Finish, Inv, TypeOK
  <2>6. /\ pc' \in [Threads -> WorkerPC \cup MainPC] /\ pc'[Main] \in MainPC
        /\ \A v \in Workers : pc'[v] \in WorkerPC
    BY <1>1, <2>4, Constants DEF Finish, Inv, TypeOK, WorkerPC
  <2>7. QED
    BY <2>3, <2>5, <2>6 DEF Inv, TypeOK, UseSize
<1>9. ASSUME NEW w \in Workers, ForwardPut(w) PROVE TypeOK'
  <2>1. Room
    BY <1>9 DEF ForwardPut, Inv, CheckedSizeHolds
  <2>2. msgQ' \in Seq(Item) /\ UseSize' < BufferSize
    BY <1>1, <1>9, <2>1, PutFits, Constants DEF ForwardPut, Room, FreeSize, UseSize
  <2>3. QED
    BY <1>1, <1>9, <2>2, Constants DEF ForwardPut, Unlock, Inv, TypeOK, WorkerPC
<1>10. QED
  BY <1>2, <1>3, <1>4, <1>5, <1>6, <1>7, <1>8, <1>9 DEF Next, MainStep, UpdateThread

\* Every step keeps what was tested under the lock true until it is used.
LEMMA CheckedStep ==
    ASSUME Inv, Next PROVE CheckedSizeHolds'
<1> USE DEF Goto, Moves, qvars, lvars, hvars, InQueueLock
<1>1. /\ pc \in [Threads -> WorkerPC \cup MainPC]
      /\ msg \in [Threads -> Item \cup {NoMsg}]
      /\ pc[Main] \in MainPC
      /\ \A w \in Workers : pc[w] \in WorkerPC
  BY DEF Inv, TypeOK, Item
<1>2. CheckedSizeHolds
  BY DEF Inv
<1>3. \A t, u \in Threads : InQueueLock(t) /\ InQueueLock(u) => t = u
  BY <1>2 DEF CheckedSizeHolds
<1>4. owner = NoThread => \A t \in Threads : ~InQueueLock(t)
  BY <1>2, Constants DEF CheckedSizeHolds
<1>5. ASSUME MainLock PROVE CheckedSizeHolds'
  BY <1>1, <1>2, <1>4, <1>5, Constants DEF MainLock, Lock, CheckedSizeHolds, UseSize, Threads
<1>6. ASSUME MainCheck PROVE CheckedSizeHolds'
  BY <1>1, <1>2, <1>3, <1>6, Constants
     DEF MainCheck, Unlock, CheckedSizeHolds, Room, FreeSize, UseSize, Threads
<1>7. ASSUME MainPut PROVE CheckedSizeHolds'
  BY <1>1, <1>2, <1>3, <1>7, Constants DEF MainPut, Unlock, CheckedSizeHolds, Threads
<1>8. ASSUME MainGenerate \/ MainSpace \/ MainSet \/ MainJoin PROVE CheckedSizeHolds'
  BY <1>1, <1>2, <1>8, Constants
     DEF MainGenerate, MainSpace, MainSet, MainJoin, SetEvent, CheckedSizeHolds,
         Room, FreeSize, UseSize, Threads
<1>9. ASSUME NEW w \in Workers, DrainLock(w) \/ ForwardLock(w) PROVE CheckedSizeHolds'
  BY <1>1, <1>2, <1>4, <1>9, Constants
     DEF DrainLock, ForwardLock, Lock, CheckedSizeHolds, UseSize, Threads
<1>10. ASSUME NEW w \in Workers, DrainCheck(w) \/ ForwardCheck(w) PROVE CheckedSizeHolds'
  BY <1>1, <1>2, <1>3, <1>10, Constants
     DEF DrainCheck, ForwardCheck, Unlock, CheckedSizeHolds, Room, FreeSize, UseSize, Threads
<1>11. ASSUME NEW w \in Workers, DrainCopy(w) PROVE CheckedSizeHolds'
  BY <1>1, <1>2, <1>3, <1>11, Constants
     DEF DrainCopy, CheckedSizeHolds, Room, FreeSize, UseSize, Threads
<1>12. ASSUME NEW w \in Workers, DrainMove(w) \/ ForwardPut(w) PROVE CheckedSizeHolds'
  BY <1>1, <1>2, <1>3, <1>12, Constants
     DEF DrainMove, ForwardPut, Unlock, CheckedSizeHolds, Threads
<1>13. ASSUME NEW w \in Workers,
              Wait(w) \/ DispatchAdd(w) \/ DispatchPrint(w) \/ DispatchQuit(w)
              \/ ListLock(w) \/ PrintLock(w) \/ ForwardSet(w)
       PROVE CheckedSizeHolds'
  BY <1>1, <1>2, <1>13, Constants
     DEF Wait, DispatchAdd, DispatchPrint, DispatchQuit, ListLock, PrintLock, ForwardSet,
         WaitEvent, SetEvent, AcquireExclusive, AcquireShared,
         CheckedSizeHolds, Room, FreeSize, UseSize, Threads
<1>14. ASSUME NEW w \in Workers, PushBack(w) \/ PopBack(w) \/ PrintEnd(w) \/ DispatchDel(w)
       PROVE CheckedSizeHolds'
  <2>1. msgQ' = msgQ /\ owner' = owner
    BY <1>14 DEF PushBack, PopBack, PrintEnd, DispatchDel
  <2>2. \/ Finish(w) /\ ~InQueueLock(w)
        \/ UNCHANGED <<pc, msg>>
        \/ Goto(w, "xlock") /\ UNCHANGED msg
    BY <1>14 DEF PushBack, PopBack, PrintEnd, DispatchDel
  <2>3. QED
    BY <1>1, <1>2, <2>1, <2>2, Constants
       DEF Finish, CheckedSizeHolds, Room, FreeSize, UseSize, Threads
<1>15. QED
  BY <1>5, <1>6, <1>7, <1>8, <1>9, <1>10, <1>11, <1>12, <1>13, <1>14
     DEF Next, MainStep, UpdateThread

\* Every step keeps a message of the right kind in the hands of its thread.
LEMMA MsgStep ==
    ASSUME Inv, Next PROVE MsgInv'
<1> USE DEF Goto, Moves, qvars, lvars, hvars
<1>1. /\ pc \in [Threads -> WorkerPC \cup MainPC]
      /\ msg \in [Threads -> Item \cup {NoMsg}]
      /\ msgQ \in Seq(Item)
  BY DEF Inv, TypeOK, Item
<1>2. MsgInv
  BY DEF Inv
<1>3. ASSUME MainGenerate PROVE MsgInv'
  <2>1. generated + 1 \in 1..MaxMsgs
    BY <1>3, Constants DEF MainGenerate, Inv, TypeOK
  <2>2. msg'[Main] \in Content
    BY <1>1, <1>3, <2>1, Constants DEF MainGenerate, Content
  <2>3. /\ pc'[Main] = "lock"
        /\ \A w \in Workers : pc'[w] = pc[w] /\ msg'[w] = msg[w]
    BY <1>1, <1>3, Constants DEF MainGenerate
  <2>4. QED
    BY <1>2, <2>2, <2>3 DEF MsgInv, Item
<1>4. ASSUME MainSpace \/ MainStep PROVE MsgInv'
  BY <1>1, <1>2, <1>4, Constants
     DEF MainSpace, MainStep, MainLock, MainCheck, MainPut, MainSet, MainJoin, MsgInv, Item
<1>5. ASSUME NEW w \in Workers, DrainCopy(w) PROVE MsgInv'
  <2>1. msgQ # <<>>
    BY <1>1, <1>5, SizeMeansMessage, Constants
       DEF DrainCopy, Inv, CheckedSizeHolds, UseSize
  <2>2. Head(msgQ) \in Item
    BY <1>1, <2>1, HeadTailProperties
  <2>3. QED
    BY <1>1, <1>2, <1>5, <2>2, Constants DEF DrainCopy, MsgInv, Busy
<1>6. ASSUME NEW w \in Workers,
             Wait(w) \/ DrainLock(w) \/ DrainCheck(w) \/ DrainMove(w)
             \/ DispatchQuit(w) \/ ForwardLock(w) \/ ForwardCheck(w) \/ ForwardPut(w)
             \/ ForwardSet(w)
      PROVE MsgInv'
  BY <1>1, <1>2, <1>6, Constants
     DEF Wait, DrainLock, DrainCheck, DrainMove, DispatchQuit, ForwardLock, ForwardCheck,
         ForwardPut, ForwardSet, MsgInv, Busy
<1>7. ASSUME NEW w \in Workers,
             \/ DispatchAdd(w) \/ DispatchPrint(w) \/ DispatchDel(w)
             \/ ListLock(w) \/ PrintLock(w)
             \/ PushBack(w) \/ PopBack(w) \/ PrintEnd(w)
      PROVE MsgInv'
  <2>1. pc[w] = "dispatch" => msg[w] \in Content
    BY <1>2, <1>7, Messages
       DEF DispatchAdd, DispatchPrint, DispatchDel, ListLock, PrintLock, PushBack, PopBack,
           PrintEnd, MsgInv, Item, QUIT, ADD_STR, DEL_STR, PRINT_LIST
  <2>2. pc[w] \in Busy => msg[w] \in Content
    BY <1>2, <2>1 DEF MsgInv, Busy
  <2>3. \/ Finish(w)
        \/ msg' = msg /\ pc' = pc
        \/ msg' = msg /\ pc[w] \in Busy /\ \E l \in Busy : Goto(w, l)
    BY <1>7 DEF DispatchAdd, DispatchPrint, DispatchDel, ListLock, PrintLock, PushBack,
                PopBack, PrintEnd, Busy
  <2>4. QED
    BY <1>1, <1>2, <2>2, <2>3, Constants DEF Finish, MsgInv, Busy, Item
<1>8. QED
  BY <1>3, <1>4, <1>5, <1>6, <1>7 DEF Next, UpdateThread

\* Inv is inductive: one lemma for each of its three parts.
LEMMA StepInv == Inv /\ [Next]_vars => Inv'
<1> SUFFICES ASSUME Inv, [Next]_vars PROVE Inv'
  OBVIOUS
<1>1. CASE Next
  BY <1>1, TypeStep, CheckedStep, MsgStep DEF Inv
<1>2. CASE UNCHANGED vars
  BY <1>2 DEF vars, Inv, TypeOK, UseSize, CheckedSizeHolds, InQueueLock, Room, FreeSize, MsgInv
<1>3. QED
  BY <1>1, <1>2

\* Inv holds in every reachable state: types, what the size tests made under
\* the queue's lock promised, and the kind of message in each thread's hands.
THEOREM Invariance == Spec => []Inv
BY InitInv, StepInv, PTL DEF Spec

\* Type correctness, with the bound of the ring: g_MsgQ never holds more than
\* BufferSize - 1 bytes, whatever the sizes are (main.cpp:83-86, 93-96, 192-195).
THEOREM TypeCorrect == Spec => []TypeOK
BY Invariance, PTL DEF Inv

\* The queue lock protects the test-then-act of every producer and consumer.
THEOREM CheckedSizeCorrect == Spec => []CheckedSizeHolds
BY Invariance, PTL DEF Inv

---------------------------------------------------------------------------

\* No step leaves a message with everybody asleep and the event off.
LEMMA WakeupStep == ASSUME Inv, NoLostWakeup, Next PROVE NoLostWakeup'
<1> USE DEF Goto, Moves, qvars, lvars, hvars, Asleep
<1>1. /\ pc \in [Threads -> WorkerPC \cup MainPC]
      /\ msgQ \in Seq(Item)
  BY DEF Inv, TypeOK, Item
<1>2. ASSUME MainGenerate \/ MainSpace \/ MainLock \/ MainCheck \/ MainJoin
      PROVE NoLostWakeup'
  BY <1>1, <1>2, Constants
     DEF MainGenerate, MainSpace, MainLock, MainCheck, MainJoin, NoLostWakeup
<1>3. ASSUME MainPut \/ MainSet PROVE NoLostWakeup'
  BY <1>1, <1>3, Constants DEF MainPut, MainSet, SetEvent, NoLostWakeup
<1>4. ASSUME NEW w \in Workers, DrainCheck(w) PROVE NoLostWakeup'
  \* Only this step puts a worker back to sleep, and only over an empty queue.
  <2>1. CASE pc'[w] = "wait"
    BY <1>1, <1>4, <2>1, SizeMeansMessage, Constants DEF DrainCheck, UseSize, NoLostWakeup
  <2>2. CASE pc'[w] # "wait"
    BY <1>1, <1>4, <2>2, Constants DEF DrainCheck, NoLostWakeup
  <2>3. QED
    BY <2>1, <2>2
<1>5. ASSUME NEW w \in Workers, ForwardSet(w) PROVE NoLostWakeup'
  BY <1>5 DEF ForwardSet, SetEvent, NoLostWakeup
<1>6. ASSUME NEW w \in Workers,
             Wait(w) \/ DrainLock(w) \/ DrainCopy(w) \/ DrainMove(w)
             \/ DispatchAdd(w) \/ DispatchDel(w) \/ DispatchPrint(w) \/ DispatchQuit(w)
             \/ ListLock(w) \/ PushBack(w) \/ PopBack(w) \/ PrintLock(w) \/ PrintEnd(w)
             \/ ForwardLock(w) \/ ForwardCheck(w) \/ ForwardPut(w)
      PROVE NoLostWakeup'
  <2>1. pc'[w] \notin {"wait", "done"}
    BY <1>1, <1>6, Constants
       DEF Wait, DrainLock, DrainCopy, DrainMove, DispatchAdd, DispatchDel, DispatchPrint,
           DispatchQuit, ListLock, PushBack, PopBack, PrintLock, PrintEnd,
           ForwardLock, ForwardCheck, ForwardPut, Finish
  <2>2. QED
    BY <2>1 DEF NoLostWakeup
<1>7. QED
  BY <1>2, <1>3, <1>4, <1>5, <1>6 DEF Next, MainStep, UpdateThread

\* No wakeup is lost: with an auto-reset event that coalesces signals and
\* workers that drain, a message in the queue always has somebody who will
\* look at it (main.cpp:98, 132, 136-141, 197).
THEOREM WakeupCorrect == Spec => []NoLostWakeup
<1>1. Init => NoLostWakeup
  BY DEF Init, NoLostWakeup
<1>2. Inv /\ NoLostWakeup /\ [Next]_vars => NoLostWakeup'
  BY WakeupStep DEF vars, NoLostWakeup, Asleep
<1>3. QED
  BY <1>1, <1>2, Invariance, PTL DEF Spec

---------------------------------------------------------------------------

\* QuitToken needs to know where main() and a worker are once they know of the
\* QUIT, and that a worker in shutdown has seen the queue empty of the rest.
LeavePC == {"qlock", "qcheck", "qput", "qset", "done"}
ShutdownInv ==
    /\ QuitAccepted => pc[Main] \in {"set", "join", "done"} /\ msg[Main] = QuitMsg
    /\ pc[Main] = "done" => \A w \in Workers : pc[w] = "done"
    /\ \A w \in Workers :
          /\ bShutdown[w] => pc[w] \in {"lock", "check"} \cup LeavePC
          /\ pc[w] \in LeavePC => bShutdown[w]
          /\ bShutdown[w] => \A i \in DOMAIN msgQ : msgQ[i] = QuitMsg

TokenInv == Inv /\ QuitToken /\ ShutdownInv

\* A step that changes no queue, no history and nobody's share of the token.
LEMMA TokenFrame ==
    ASSUME QuitToken, msgQ' = msgQ, accepted' = accepted, bShutdown' = bShutdown,
           \A w \in Workers : Carries(w)' <=> Carries(w)
    PROVE  QuitToken'
BY DEF QuitToken, QuitAccepted, QuitLast

\* Whoever carries the token does so alone and over an empty queue.
LEMMA CarrierFacts ==
    ASSUME QuitToken, NEW w \in Workers, Carries(w)
    PROVE  /\ QuitAccepted /\ msgQ = <<>>
           /\ \A v \in Workers \ {w} : ~Carries(v)
BY DEF QuitToken

\* The program starts without a QUIT.
LEMMA TokenInit == Init => QuitToken /\ ShutdownInv
BY Constants
   DEF Init, QuitToken, ShutdownInv, QuitAccepted, Carries, LeavePC, Threads

\* main() puts one QUIT behind everything else, and nothing after it.
LEMMA TokenMain ==
    ASSUME TokenInv, MainGenerate \/ MainSpace \/ MainStep
    PROVE  QuitToken' /\ ShutdownInv'
<1> USE DEF Goto, Moves, qvars, lvars, hvars, QuitAccepted
<1>1. /\ pc \in [Threads -> WorkerPC \cup MainPC]
      /\ msg \in [Threads -> Item \cup {NoMsg}]
      /\ msgQ \in Seq(Item)
      /\ QuitToken /\ ShutdownInv /\ Inv
  BY DEF TokenInv, Inv, TypeOK, Item
<1>2. CASE MainPut
  <2>1. msg[Main] \in Item /\ ~QuitAccepted /\ msgQ' = Append(msgQ, msg[Main])
    BY <1>1, <1>2 DEF MainPut, Inv, MsgInv, ShutdownInv
  <2>2. /\ DOMAIN msgQ = 1..Len(msgQ) /\ DOMAIN msgQ' = 1..(Len(msgQ) + 1)
        /\ Len(msgQ') = Len(msgQ) + 1 /\ Len(msgQ) \in Nat /\ msgQ' # <<>>
        /\ \A i \in 1..Len(msgQ) : msgQ'[i] = msgQ[i]
        /\ msgQ'[Len(msgQ) + 1] = msg[Main]
    BY <1>1, <2>1, AppendProperties, LenProperties
  <2>3. /\ \A i \in DOMAIN msgQ : msgQ[i] # QuitMsg
        /\ \A w \in Workers : ~Carries(w) /\ ~bShutdown[w]
    BY <1>1, <2>1 DEF QuitToken
  <2>4. \A w \in Workers : ~Carries(w)' /\ ~bShutdown'[w] /\ pc'[w] = pc[w]
    BY <1>1, <1>2, <2>3, Constants DEF MainPut, Carries
  <2>5. ShutdownInv'
    <3>1. QuitAccepted' => msg[Main] = QuitMsg
      <4>1. SUFFICES ASSUME msg[Main] # QuitMsg PROVE ~QuitAccepted'
        OBVIOUS
      <4>2. QED
        BY <1>2, <2>1, <4>1, Messages DEF MainPut, Item
    <3>2. pc'[Main] = "set" /\ msg' = msg
      BY <1>1, <1>2, Constants DEF MainPut
    <3>3. QED
      BY <1>1, <2>3, <2>4, <3>1, <3>2 DEF ShutdownInv
  <2>6. CASE msg[Main] = QuitMsg
    <3>1. QuitAccepted' /\ QuitLast'
      BY <1>2, <2>2, <2>6 DEF MainPut, QuitLast
    <3>2. \A i \in DOMAIN msgQ' : msgQ'[i] = QuitMsg => i = Len(msgQ')
      BY <2>2, <2>3
    <3>3. QED
      BY <2>4, <2>5, <3>1, <3>2 DEF QuitToken
  <2>7. CASE msg[Main] # QuitMsg
    <3>1. ~QuitAccepted'
      BY <1>2, <2>1, <2>7, Messages DEF MainPut, Item
    <3>2. \A i \in DOMAIN msgQ' : msgQ'[i] # QuitMsg
      BY <2>2, <2>3, <2>7
    <3>3. QED
      BY <2>4, <2>5, <3>1, <3>2 DEF QuitToken
  <2>8. QED
    BY <2>6, <2>7
<1>3. CASE MainGenerate \/ MainSpace \/ MainLock \/ MainCheck \/ MainSet \/ MainJoin
  <2>1. /\ msgQ' = msgQ /\ accepted' = accepted /\ bShutdown' = bShutdown
        /\ \A w \in Workers : pc'[w] = pc[w] /\ msg'[w] = msg[w]
    BY <1>1, <1>3, Constants
       DEF MainGenerate, MainSpace, MainLock, MainCheck, MainSet, MainJoin
  <2>2. QuitToken'
    BY <1>1, <2>1, TokenFrame DEF Carries
  <2>3. ShutdownInv'
    BY <1>1, <1>3, <2>1, Constants
       DEF MainGenerate, MainSpace, MainLock, MainCheck, MainSet, MainJoin, ShutdownInv
  <2>4. QED
    BY <2>2, <2>3
<1>4. QED
  BY <1>2, <1>3 DEF MainStep

\* A worker takes the QUIT out as the last message and hands on exactly one.
LEMMA TokenWorker ==
    ASSUME TokenInv, Inv', NEW w \in Workers, UpdateThread(w)
    PROVE  QuitToken' /\ ShutdownInv'
<1> USE DEF Goto, Moves, qvars, lvars, hvars, QuitAccepted
<1>1. /\ pc \in [Threads -> WorkerPC \cup MainPC]
      /\ msg \in [Threads -> Item \cup {NoMsg}]
      /\ bShutdown \in [Workers -> BOOLEAN]
      /\ msgQ \in Seq(Item)
      /\ QuitToken /\ ShutdownInv /\ Inv
  BY DEF TokenInv, Inv, TypeOK, Item
<1>2. /\ pc' \in [Threads -> WorkerPC \cup MainPC]
      /\ msg' \in [Threads -> Item \cup {NoMsg}]
  BY DEF Inv, TypeOK, Item
<1>3. CASE DrainMove(w)
  <2>1. msgQ # <<>> /\ msg[w] = Head(msgQ) /\ ~bShutdown[w] /\ ~Carries(w)
    BY <1>1, <1>3, SizeMeansMessage, Constants
       DEF DrainMove, Inv, CheckedSizeHolds, UseSize, ShutdownInv, LeavePC, Carries
  <2>2. /\ DOMAIN msgQ = 1..Len(msgQ) /\ Len(msgQ) \in Nat \ {0}
        /\ msgQ' \in Seq(Item) /\ Len(msgQ') = Len(msgQ) - 1
        /\ DOMAIN msgQ' = 1..(Len(msgQ) - 1)
        /\ \A i \in DOMAIN msgQ' : msgQ'[i] = msgQ[i + 1]
        /\ msg[w] = msgQ[1]
    BY <1>1, <1>3, <2>1, HeadTailProperties, LenProperties, EmptySeq DEF DrainMove
  <2>3. /\ Carries(w)' <=> msg[w] = QuitMsg
        /\ \A v \in Workers \ {w} : Carries(v)' <=> Carries(v)
        /\ bShutdown' = bShutdown /\ accepted' = accepted
    BY <1>1, <1>3, <2>1, Constants DEF DrainMove, Carries
  <2>4. ShutdownInv'
    BY <1>1, <1>3, <2>2, Constants DEF DrainMove, ShutdownInv, LeavePC
  <2>5. CASE ~QuitAccepted
    BY <1>1, <2>2, <2>3, <2>4, <2>5 DEF QuitToken
  <2>6. CASE QuitAccepted
    <3>1. /\ msgQ[Len(msgQ)] = QuitMsg
          /\ \A i \in DOMAIN msgQ : msgQ[i] = QuitMsg => i = Len(msgQ)
          /\ \A v \in Workers : ~Carries(v)
      BY <1>1, <2>1, <2>6 DEF QuitToken, QuitLast
    <3>2. CASE msg[w] = QuitMsg
      <4>1. msgQ' = <<>>
        <5>1. 1 \in DOMAIN msgQ
          BY <2>2
        <5>2. msgQ[1] = QuitMsg
          BY <2>2, <3>2
        <5>3. Len(msgQ) = 1
          BY <3>1, <5>1, <5>2
        <5>4. Len(msgQ') = 0
          BY <2>2, <5>3
        <5>5. QED
          BY <2>2, <5>4, EmptySeq
      <4>2. Carries(w)' /\ \A v \in Workers \ {w} : ~Carries(v)'
        BY <2>3, <3>1, <3>2
      <4>3. QuitAccepted'
        BY <2>3, <2>6
      <4>4. QED
        BY <2>4, <4>1, <4>2, <4>3 DEF QuitToken
    <3>3. CASE msg[w] # QuitMsg
      <4>1. Len(msgQ) > 1
        BY <2>2, <3>1, <3>3
      <4>2. msgQ' # <<>> /\ msgQ'[Len(msgQ')] = QuitMsg
        BY <2>2, <3>1, <4>1
      <4>3. \A i \in DOMAIN msgQ' : msgQ'[i] = QuitMsg => i = Len(msgQ')
        BY <2>2, <3>1
      <4>4. QED
        BY <2>3, <2>4, <2>6, <3>1, <3>3, <4>2, <4>3 DEF QuitToken, QuitLast
    <3>4. QED
      BY <3>2, <3>3
  <2>7. QED
    BY <2>5, <2>6
<1>4. CASE DispatchQuit(w)
  <2>1. Carries(w) /\ Carries(w)'
    BY <1>1, <1>4, Messages, Constants
       DEF DispatchQuit, Carries, Inv, MsgInv, Item
  <2>2. /\ QuitAccepted /\ msgQ = <<>>
        /\ \A v \in Workers \ {w} : ~Carries(v)
    BY <1>1, <2>1, CarrierFacts
  <2>3. /\ \A v \in Workers \ {w} : ~Carries(v)'
        /\ msgQ' = <<>> /\ QuitAccepted'
    BY <1>1, <1>4, <2>2, Constants DEF DispatchQuit, Carries
  <2>4. ShutdownInv'
    BY <1>1, <1>4, <2>2, Constants DEF DispatchQuit, ShutdownInv, LeavePC
  <2>5. QED
    BY <2>1, <2>3, <2>4 DEF QuitToken
<1>5. CASE DrainCheck(w)
  <2>1. bShutdown[w] => Carries(w)
    BY <1>5 DEF DrainCheck, Carries
  <2>2. bShutdown[w] => UseSize < MsgSize
    <3>1. bShutdown[w] => msgQ = <<>>
      BY <1>1, <2>1, CarrierFacts
    <3>2. Len(<<>>) = 0
      OBVIOUS
    <3>3. QED
      BY <3>1, <3>2, Constants DEF UseSize
  <2>3. /\ msgQ' = msgQ /\ accepted' = accepted /\ bShutdown' = bShutdown
        /\ \A v \in Workers : Carries(v)' <=> Carries(v)
    BY <1>1, <1>5, Constants DEF DrainCheck, Carries
  <2>4. ShutdownInv'
    BY <1>1, <1>5, <2>2, Constants DEF DrainCheck, ShutdownInv, LeavePC, UseSize
  <2>5. QED
    BY <1>1, <2>3, <2>4, TokenFrame
<1>6. CASE ForwardCheck(w)
  <2>1. Carries(w) /\ bShutdown[w]
    BY <1>1, <1>6 DEF ForwardCheck, Carries, ShutdownInv, LeavePC
  <2>2. msgQ = <<>>
    BY <1>1, <2>1, CarrierFacts
  <2>3. Room
    BY <2>2, Constants, EmptySeq DEF Room, FreeSize, UseSize
  <2>4. /\ msgQ' = msgQ /\ accepted' = accepted /\ bShutdown' = bShutdown
        /\ \A v \in Workers : Carries(v)' <=> Carries(v)
    BY <1>1, <1>6, <2>3, Constants DEF ForwardCheck, Carries
  <2>5. ShutdownInv'
    BY <1>1, <1>6, <2>3, <2>4, Constants DEF ForwardCheck, ShutdownInv, LeavePC
  <2>6. QED
    BY <1>1, <2>4, <2>5, TokenFrame
<1>7. CASE ForwardPut(w)
  <2>1. Carries(w) /\ bShutdown[w]
    BY <1>1, <1>7 DEF ForwardPut, Carries, ShutdownInv, LeavePC
  <2>2. /\ QuitAccepted /\ msgQ = <<>>
        /\ \A v \in Workers \ {w} : ~Carries(v)
    BY <1>1, <2>1, CarrierFacts
  <2>3. msgQ' = <<QuitMsg>> /\ QuitAccepted' /\ bShutdown' = bShutdown
    BY <1>7, <2>2 DEF ForwardPut
  <2>4. \A v \in Workers : ~Carries(v)'
    BY <1>1, <1>7, <2>2, Constants DEF ForwardPut, Carries
  <2>5. ShutdownInv'
    BY <1>1, <1>7, <2>1, <2>3, Constants DEF ForwardPut, ShutdownInv, LeavePC
  <2>6. QuitLast' /\ \A i \in DOMAIN msgQ' : msgQ'[i] = QuitMsg => i = Len(msgQ')
    BY <2>3 DEF QuitLast
  <2>7. QED
    BY <2>3, <2>4, <2>5, <2>6 DEF QuitToken
<1>8. CASE \/ Wait(w) \/ DrainLock(w) \/ DrainCopy(w)
           \/ DispatchAdd(w) \/ DispatchPrint(w) \/ DispatchDel(w) \/ ListLock(w)
           \/ PushBack(w) \/ PopBack(w) \/ PrintLock(w) \/ PrintEnd(w)
           \/ ForwardLock(w) \/ ForwardSet(w)
  <2>1. msgQ' = msgQ /\ accepted' = accepted /\ bShutdown' = bShutdown
    BY <1>8
       DEF Wait, DrainLock, DrainCopy, DispatchAdd, DispatchPrint, DispatchDel, ListLock,
           PushBack, PopBack, PrintLock, PrintEnd, ForwardLock, ForwardSet, Finish
  <2>2. \A t \in Threads \ {w} : pc'[t] = pc[t] /\ msg'[t] = msg[t]
    BY <1>1, <1>8
       DEF Wait, DrainLock, DrainCopy, DispatchAdd, DispatchPrint, DispatchDel, ListLock,
           PushBack, PopBack, PrintLock, PrintEnd, ForwardLock, ForwardSet, Finish
  <2>3. ~(pc[w] = "dispatch" /\ msg[w] = QuitMsg)
    BY <1>8, Messages
       DEF Wait, DrainLock, DrainCopy, DispatchAdd, DispatchPrint, DispatchDel, ListLock,
           PushBack, PopBack, PrintLock, PrintEnd, ForwardLock, ForwardSet,
           ADD_STR, DEL_STR, PRINT_LIST, QUIT
  <2>4. pc'[w] # "dispatch" \/ (pc'[w] = pc[w] /\ msg'[w] = msg[w])
    BY <1>1, <1>8, Constants
       DEF Wait, DrainLock, DrainCopy, DispatchAdd, DispatchPrint, DispatchDel, ListLock,
           PushBack, PopBack, PrintLock, PrintEnd, ForwardLock, ForwardSet, Finish
  <2>5. IF bShutdown[w]
        THEN \/ pc[w] = "lock" /\ pc'[w] = "check"
             \/ pc[w] = "qlock" /\ pc'[w] = "qcheck"
             \/ pc[w] = "qset" /\ pc'[w] = "done"
        ELSE pc'[w] \notin LeavePC
    BY <1>1, <1>8, Constants
       DEF Wait, DrainLock, DrainCopy, DispatchAdd, DispatchPrint, DispatchDel, ListLock,
           PushBack, PopBack, PrintLock, PrintEnd, ForwardLock, ForwardSet, Finish,
           ShutdownInv, LeavePC
  <2>6. \A v \in Workers : Carries(v)' <=> Carries(v)
    BY <2>1, <2>2, <2>3, <2>4, <2>5, Constants DEF Carries
  <2>7. ShutdownInv'
    <3>1. pc'[Main] = pc[Main] /\ msg'[Main] = msg[Main]
      BY <2>2, Constants
    <3>2. pc[Main] = "done" => pc[w] = "done"
      BY <1>1 DEF ShutdownInv
    <3>3. pc[w] # "done"
      BY <1>8
         DEF Wait, DrainLock, DrainCopy, DispatchAdd, DispatchPrint, DispatchDel, ListLock,
             PushBack, PopBack, PrintLock, PrintEnd, ForwardLock, ForwardSet
    <3>4. QED
      BY <1>1, <2>1, <2>2, <2>5, <3>1, <3>2, <3>3, Constants DEF ShutdownInv, LeavePC
  <2>8. QED
    BY <1>1, <2>1, <2>6, <2>7, TokenFrame
<1>9. QED
  BY <1>3, <1>4, <1>5, <1>6, <1>7, <1>8 DEF UpdateThread

\* TokenInv is inductive.
LEMMA TokenStep == TokenInv /\ [Next]_vars => TokenInv'
<1> SUFFICES ASSUME TokenInv, [Next]_vars PROVE TokenInv'
  OBVIOUS
<1>1. Inv'
  BY StepInv DEF TokenInv
<1>2. CASE Next
  BY <1>1, <1>2, TokenMain, TokenWorker DEF Next, TokenInv
<1>3. CASE UNCHANGED vars
  BY <1>1, <1>3
     DEF vars, TokenInv, QuitToken, QuitAccepted, QuitLast, Carries, ShutdownInv
<1>4. QED
  BY <1>2, <1>3

\* QUIT is one token, and the workers that left did so through its relay:
\* QuitToken with what it needs to be inductive (main.cpp:172-199).
THEOREM TokenInvariance == Spec => []TokenInv
<1>1. Init => TokenInv
  BY InitInv, TokenInit DEF TokenInv
<1>2. QED
  BY <1>1, TokenStep, PTL DEF Spec

\* The shutdown token is never lost and never doubled, for any number of
\* workers: two of them cannot quit at once, and each that quits leaves the
\* QUIT for the next (main.cpp:78-91, 172-199).
THEOREM QuitTokenCorrect == Spec => []QuitToken
BY TokenInvariance, PTL DEF TokenInv

---------------------------------------------------------------------------
(***************************************************************************)
(* No message is lost or handled twice, the shutdown leaves nothing        *)
(* behind, and the list is not changed under a reader.                     *)
(*                                                                         *)
(* ExactlyOnce speaks of Pending, the queue without its QUIT.  DeliverInv  *)
(* says the same of the places in the queue, which is easier to carry      *)
(* through a step, and adds that ids are given in order.                   *)
(***************************************************************************)

\* The places of g_MsgQ that hold a message, and the workers that do.
Mail(i)  == i \in DOMAIN msgQ /\ msgQ[i] # QuitMsg
Holds(w) == pc[w] \in Busy /\ msg[w] # QuitMsg

\* What main() is about to put into the queue is new.
NewInv ==
    /\ accepted \subseteq 0..generated
    /\ pc[Main] \in {"lock", "check", "put"} /\ msg[Main] # QuitMsg =>
          msg[Main].id = generated /\ generated \notin accepted

\* Each message is in at most one place ...
OneInv ==
    /\ \A i \in DOMAIN msgQ : Mail(i) => msgQ[i].id \in accepted \ handled
    /\ \A w \in Workers : Holds(w) => msg[w].id \in accepted \ handled
    /\ \A i, j \in DOMAIN msgQ : Mail(i) /\ Mail(j) /\ msgQ[i].id = msgQ[j].id => i = j
    /\ \A v, w \in Workers : Holds(v) /\ Holds(w) /\ msg[v].id = msg[w].id => v = w
    /\ \A i \in DOMAIN msgQ, w \in Workers : Mail(i) /\ Holds(w) => msgQ[i].id # msg[w].id

\* ... and an accepted one in at least one.
Somewhere(m) ==
    \/ m \in handled
    \/ \E i \in DOMAIN msgQ : Mail(i) /\ msgQ[i].id = m
    \/ \E w \in Workers : Holds(w) /\ msg[w].id = m
AllInv ==
    /\ handled \subseteq accepted
    /\ \A m \in accepted : m = QuitMsg.id \/ Somewhere(m)

DeliverInv == NewInv /\ OneInv /\ AllInv

---------------------------------------------------------------------------

\* The program starts with no message anywhere.
LEMMA DeliverInit == Init => DeliverInv
<1> SUFFICES ASSUME Init PROVE DeliverInv
  OBVIOUS
<1>1. DOMAIN msgQ = {} /\ \A w \in Workers : pc[w] = "wait"
  BY Constants, EmptySeq DEF Init
<1>2. pc[Main] = "gen"
  BY Constants DEF Init
<1>3. QED
  BY <1>1, <1>2 DEF Init, DeliverInv, NewInv, OneInv, AllInv, Holds, Busy

\* A step that moves no message.
LEMMA DeliverFrame ==
    ASSUME DeliverInv, msgQ' = msgQ, accepted' = accepted, handled' = handled,
           \A w \in Workers : (Holds(w)' <=> Holds(w)) /\ (Holds(w) => msg'[w] = msg[w]),
           NewInv'
    PROVE  DeliverInv'
<1>1. \A i : Mail(i)' <=> Mail(i)
  BY DEF Mail
<1>2. OneInv'
  BY <1>1 DEF DeliverInv, OneInv
<1>3. AllInv'
  BY <1>1 DEF DeliverInv, AllInv, Somewhere
<1>4. QED
  BY <1>2, <1>3 DEF DeliverInv

\* main() moves one message, its newest, into the queue.
LEMMA DeliverMain ==
    ASSUME Inv, DeliverInv, MainGenerate \/ MainSpace \/ MainStep
    PROVE  DeliverInv'
<1> USE DEF Goto, Moves, qvars, lvars, hvars
<1>1. /\ pc \in [Threads -> WorkerPC \cup MainPC]
      /\ msg \in [Threads -> Item \cup {NoMsg}]
      /\ msgQ \in Seq(Item)
      /\ generated \in 0..MaxMsgs
  BY DEF Inv, TypeOK, Item
<1>2. \A w \in Workers : (Holds(w)' <=> Holds(w)) /\ msg'[w] = msg[w]
  BY <1>1, Constants
     DEF MainGenerate, MainSpace, MainStep, MainLock, MainCheck, MainPut, MainSet, MainJoin, Holds
<1>3. CASE MainGenerate
  <2>1. /\ generated' = generated + 1 /\ msg'[Main].id = generated + 1
        /\ UNCHANGED <<msgQ, accepted, handled>>
    BY <1>1, <1>3, Constants DEF MainGenerate
  <2>2. NewInv'
    BY <1>1, <2>1, Constants DEF DeliverInv, NewInv
  <2>3. QED
    BY <1>2, <2>1, <2>2, DeliverFrame
<1>4. CASE MainSpace \/ MainLock \/ MainCheck \/ MainSet \/ MainJoin
  <2>1. UNCHANGED <<msgQ, generated, accepted, handled>>
    BY <1>4 DEF MainSpace, MainLock, MainCheck, MainSet, MainJoin
  <2>2. NewInv'
    BY <1>1, <1>4, <2>1, Constants
       DEF MainSpace, MainLock, MainCheck, MainSet, MainJoin, DeliverInv, NewInv
  <2>3. QED
    BY <1>2, <2>1, <2>2, DeliverFrame
<1>5. CASE MainPut
  <2>1. /\ msgQ' = Append(msgQ, msg[Main]) /\ accepted' = accepted \cup {msg[Main].id}
        /\ UNCHANGED <<generated, handled, msg>> /\ pc'[Main] = "set"
        /\ msg[Main] \in Item
    BY <1>1, <1>5, Constants DEF MainPut, Inv, MsgInv
  <2>2. /\ DOMAIN msgQ = 1..Len(msgQ) /\ DOMAIN msgQ' = 1..(Len(msgQ) + 1)
        /\ Len(msgQ) \in Nat
        /\ \A i \in 1..Len(msgQ) : msgQ'[i] = msgQ[i]
        /\ msgQ'[Len(msgQ) + 1] = msg[Main]
    BY <1>1, <2>1, AppendProperties, LenProperties
  <2>3. \A i \in DOMAIN msgQ : i \in DOMAIN msgQ' /\ (Mail(i)' <=> Mail(i)) /\ msgQ'[i] = msgQ[i]
    BY <2>2 DEF Mail
  <2>4. NewInv'
    <3>1. msg[Main].id \in 0..generated /\ accepted \subseteq 0..generated
      BY <1>1, <1>5, <2>1, Messages DEF MainPut, DeliverInv, NewInv
    <3>2. QED
      BY <2>1, <3>1 DEF NewInv
  <2>5. CASE msg[Main] = QuitMsg
    <3>1. \A i \in DOMAIN msgQ' : Mail(i)' => i \in DOMAIN msgQ /\ Mail(i)
      BY <2>2, <2>3, <2>5 DEF Mail
    <3>2. OneInv'
      BY <1>2, <2>1, <2>3, <3>1 DEF DeliverInv, OneInv
    <3>3. AllInv'
      BY <1>2, <2>1, <2>3, <2>5 DEF DeliverInv, AllInv, Somewhere
    <3>4. QED
      BY <2>4, <3>2, <3>3 DEF DeliverInv
  <2>6. CASE msg[Main] # QuitMsg
    <3>1. msg[Main].id = generated /\ generated \notin accepted /\ generated \notin handled
      BY <1>5, <2>6 DEF MainPut, DeliverInv, NewInv, AllInv
    <3>2. PICK n : n = Len(msgQ) + 1
      OBVIOUS
    <3>3. /\ n \in DOMAIN msgQ' /\ Mail(n)' /\ msgQ'[n].id = generated
          /\ \A i \in DOMAIN msgQ' : i = n \/ (i \in DOMAIN msgQ /\ i # n)
      <4>1. n \in DOMAIN msgQ' /\ msgQ'[n] = msg[Main]
        BY <2>2, <3>2
      <4>2. \A i \in DOMAIN msgQ' : i = n \/ (i \in DOMAIN msgQ /\ i # n)
        BY <2>2, <3>2
      <4>3. Mail(n)'
        BY <2>6, <4>1 DEF Mail, QuitMsg, QUIT
      <4>4. QED
        BY <3>1, <4>1, <4>2, <4>3
    <3>4. OneInv'
      <4>1. \A i \in DOMAIN msgQ' : Mail(i)' => msgQ'[i].id \in accepted' \ handled'
        BY <2>1, <2>3, <3>1, <3>3 DEF DeliverInv, OneInv
      <4>2. \A w \in Workers : Holds(w)' => msg'[w].id \in accepted' \ handled'
        BY <1>2, <2>1 DEF DeliverInv, OneInv
      <4>3. \A i, j \in DOMAIN msgQ' :
                Mail(i)' /\ Mail(j)' /\ msgQ'[i].id = msgQ'[j].id => i = j
        BY <2>3, <3>1, <3>3 DEF DeliverInv, OneInv
      <4>4. \A v, w \in Workers : Holds(v)' /\ Holds(w)' /\ msg'[v].id = msg'[w].id => v = w
        BY <1>2 DEF DeliverInv, OneInv
      <4>5. \A i \in DOMAIN msgQ', w \in Workers :
                Mail(i)' /\ Holds(w)' => msgQ'[i].id # msg'[w].id
        BY <1>2, <2>3, <3>1, <3>3 DEF DeliverInv, OneInv
      <4>6. QED
        BY <4>1, <4>2, <4>3, <4>4, <4>5 DEF OneInv
    <3>5. AllInv'
      <4>1. \A m \in accepted : m = QuitMsg.id \/ Somewhere(m)'
        BY <1>2, <2>1, <2>3 DEF DeliverInv, AllInv, Somewhere
      <4>2. \A m : m = generated => Somewhere(m)'
        BY <3>3 DEF Somewhere
      <4>3. accepted' = accepted \cup {generated} /\ handled' = handled
        BY <2>1, <3>1
      <4>4. QED
        BY <4>1, <4>2, <4>3 DEF DeliverInv, AllInv, QuitMsg
    <3>6. QED
      BY <2>4, <3>4, <3>5 DEF DeliverInv
  <2>7. QED
    BY <2>5, <2>6
<1>6. QED
  BY <1>3, <1>4, <1>5 DEF MainStep

\* A worker whose case is over holds a message, and then no longer.
LEMMA FinishMoves ==
    ASSUME Inv, NEW w \in Workers, pc[w] \in Busy, msg[w] \in Content, Finish(w)
    PROVE  /\ Holds(w) /\ ~Holds(w)'
           /\ \A v \in Workers \ {w} : (Holds(v)' <=> Holds(v)) /\ msg'[v] = msg[v]
           /\ handled' = handled \cup {msg[w].id}
           /\ UNCHANGED <<generated, accepted>>
BY Messages, Constants DEF Inv, TypeOK, Finish, Goto, Holds, Busy

\* The end of a case moves one message from a worker's hands to handled.
LEMMA DeliverFinish ==
    ASSUME Inv, DeliverInv, NEW w \in Workers, pc[w] \in Busy, msg[w] \in Content,
           Finish(w), msgQ' = msgQ
    PROVE  DeliverInv'
<1>1. /\ Holds(w) /\ ~Holds(w)'
      /\ \A v \in Workers \ {w} : (Holds(v)' <=> Holds(v)) /\ msg'[v] = msg[v]
      /\ handled' = handled \cup {msg[w].id}
      /\ UNCHANGED <<generated, accepted>>
  BY FinishMoves
<1>2. \A i : Mail(i)' <=> Mail(i)
  BY DEF Mail
<1>3. NewInv'
  <2>1. pc'[Main] = pc[Main] /\ msg'[Main] = msg[Main]
    BY Constants DEF Finish, Goto, Inv, TypeOK
  <2>2. QED
    BY <1>1, <2>1 DEF DeliverInv, NewInv
<1>4. OneInv'
  BY <1>1, <1>2 DEF DeliverInv, OneInv
<1>5. AllInv'
  BY <1>1, <1>2 DEF DeliverInv, OneInv, AllInv, Somewhere
<1>6. QED
  BY <1>3, <1>4, <1>5 DEF DeliverInv

\* A Dequeue moves the oldest message from the queue into the worker's hands.
LEMMA DeliverTake ==
    ASSUME Inv, DeliverInv, NEW w \in Workers, DrainMove(w)
    PROVE  DeliverInv'
<1> USE DEF Goto, Moves, qvars, lvars, hvars
<1>1. /\ pc \in [Threads -> WorkerPC \cup MainPC]
      /\ msgQ \in Seq(Item)
  BY DEF Inv, TypeOK, Item
<1>2. msgQ # <<>> /\ msg[w] = Head(msgQ)
  BY <1>1, SizeMeansMessage, Constants DEF DrainMove, Inv, CheckedSizeHolds, UseSize
<1>3. /\ DOMAIN msgQ = 1..Len(msgQ) /\ Len(msgQ) \in Nat \ {0}
      /\ DOMAIN msgQ' = 1..(Len(msgQ) - 1)
      /\ \A i \in DOMAIN msgQ' : msgQ'[i] = msgQ[i + 1]
      /\ msg[w] = msgQ[1]
  BY <1>1, <1>2, HeadTailProperties, LenProperties, EmptySeq DEF DrainMove
<1>4. /\ \A i \in DOMAIN msgQ' : i + 1 \in DOMAIN msgQ /\ i + 1 # 1 /\ (Mail(i)' <=> Mail(i + 1))
      /\ \A i, j \in DOMAIN msgQ' : i + 1 = j + 1 => i = j
      /\ \A i \in DOMAIN msgQ : i = 1 \/ \E j \in DOMAIN msgQ' : i = j + 1
  <2>1. \A i \in DOMAIN msgQ' : i + 1 \in DOMAIN msgQ /\ i + 1 # 1
    BY <1>3
  <2>2. \A i \in DOMAIN msgQ' : Mail(i)' <=> Mail(i + 1)
    BY <1>3, <2>1 DEF Mail
  <2>3. \A i \in DOMAIN msgQ : i # 1 => i - 1 \in DOMAIN msgQ' /\ i = (i - 1) + 1
    BY <1>3
  <2>4. \A i, j \in DOMAIN msgQ' : i + 1 = j + 1 => i = j
    BY <1>3
  <2>5. QED
    BY <2>1, <2>2, <2>3, <2>4
<1>5. /\ ~Holds(w) /\ (Holds(w)' <=> Mail(1)) /\ 1 \in DOMAIN msgQ
      /\ \A v \in Workers \ {w} : Holds(v)' <=> Holds(v)
      /\ UNCHANGED <<msg, generated, accepted, handled>>
  BY <1>1, <1>3, Constants DEF DrainMove, Holds, Busy, Mail
<1>6. NewInv'
  BY <1>1, <1>5, Constants DEF DrainMove, DeliverInv, NewInv
<1>7. OneInv'
  <2>1. \A i \in DOMAIN msgQ' : Mail(i)' => msgQ'[i].id \in accepted' \ handled'
    BY <1>3, <1>4, <1>5 DEF DeliverInv, OneInv
  <2>2. \A v \in Workers : Holds(v)' => msg'[v].id \in accepted' \ handled'
    BY <1>3, <1>5 DEF DeliverInv, OneInv
  <2>3. \A i, j \in DOMAIN msgQ' :
            Mail(i)' /\ Mail(j)' /\ msgQ'[i].id = msgQ'[j].id => i = j
    BY <1>3, <1>4 DEF DeliverInv, OneInv
  <2>4. \A u, v \in Workers : Holds(u)' /\ Holds(v)' /\ msg'[u].id = msg'[v].id => u = v
    BY <1>3, <1>5 DEF DeliverInv, OneInv
  <2>5. \A i \in DOMAIN msgQ', v \in Workers :
            Mail(i)' /\ Holds(v)' => msgQ'[i].id # msg'[v].id
    <3>1. ASSUME NEW i \in DOMAIN msgQ', NEW v \in Workers, Mail(i)', Holds(v)'
          PROVE  msgQ'[i].id # msg'[v].id
      <4>1. i + 1 \in DOMAIN msgQ /\ Mail(i + 1) /\ i + 1 # 1 /\ msgQ'[i] = msgQ[i + 1]
        BY <1>3, <1>4, <3>1
      <4>2. CASE v = w
        BY <1>3, <1>5, <3>1, <4>1, <4>2 DEF DeliverInv, OneInv
      <4>3. CASE v # w
        BY <1>5, <3>1, <4>1, <4>3 DEF DeliverInv, OneInv
      <4>4. QED
        BY <4>2, <4>3
    <3>2. QED
      BY <3>1
  <2>6. QED
    BY <2>1, <2>2, <2>3, <2>4, <2>5 DEF OneInv
<1>8. AllInv'
  <2>1. ASSUME NEW m \in accepted, m # QuitMsg.id PROVE Somewhere(m)'
    <3>1. Somewhere(m)
      BY <2>1 DEF DeliverInv, AllInv
    <3>2. CASE \E i \in DOMAIN msgQ : Mail(i) /\ msgQ[i].id = m
      <4>1. PICK i \in DOMAIN msgQ : Mail(i) /\ msgQ[i].id = m
        BY <3>2
      <4>2. CASE i = 1
        BY <1>3, <1>5, <4>1, <4>2 DEF Somewhere
      <4>3. CASE i # 1
        BY <1>3, <1>4, <4>1, <4>3 DEF Somewhere
      <4>4. QED
        BY <4>2, <4>3
    <3>3. QED
      BY <1>5, <3>1, <3>2 DEF Somewhere
  <2>2. QED
    BY <1>5, <2>1 DEF DeliverInv, AllInv, QuitMsg
<1>9. QED
  BY <1>6, <1>7, <1>8 DEF DeliverInv

\* A QUIT put back is no message.
LEMMA DeliverForward ==
    ASSUME Inv, DeliverInv, NEW w \in Workers, ForwardPut(w)
    PROVE  DeliverInv'
<1> USE DEF Goto, Moves, qvars, lvars, hvars
<1>1. /\ pc \in [Threads -> WorkerPC \cup MainPC]
      /\ msgQ \in Seq(Item)
  BY DEF Inv, TypeOK, Item
<1>2. /\ DOMAIN msgQ = 1..Len(msgQ) /\ DOMAIN msgQ' = 1..(Len(msgQ) + 1)
      /\ Len(msgQ) \in Nat
      /\ \A i \in 1..Len(msgQ) : msgQ'[i] = msgQ[i]
      /\ msgQ'[Len(msgQ) + 1] = QuitMsg
  BY <1>1, AppendProperties, LenProperties DEF ForwardPut, Item
<1>3. /\ \A i \in DOMAIN msgQ' : Mail(i)' => i \in DOMAIN msgQ /\ Mail(i)
      /\ \A i \in DOMAIN msgQ : i \in DOMAIN msgQ' /\ (Mail(i)' <=> Mail(i)) /\ msgQ'[i] = msgQ[i]
  BY <1>2 DEF Mail
<1>4. /\ \A v \in Workers : Holds(v)' <=> Holds(v)
      /\ UNCHANGED <<msg, generated, accepted, handled>>
  BY <1>1, Constants DEF ForwardPut, Holds, Busy
<1>5. NewInv'
  BY <1>1, <1>4, Constants DEF ForwardPut, DeliverInv, NewInv
<1>6. OneInv'
  BY <1>3, <1>4 DEF DeliverInv, OneInv
<1>7. AllInv'
  BY <1>3, <1>4 DEF DeliverInv, AllInv, Somewhere
<1>8. QED
  BY <1>5, <1>6, <1>7 DEF DeliverInv

\* Every other step of a worker moves no message.
LEMMA DeliverWorker ==
    ASSUME Inv, DeliverInv, NEW w \in Workers, UpdateThread(w)
    PROVE  DeliverInv'
<1> USE DEF Goto, Moves, qvars, lvars, hvars
<1>1. /\ pc \in [Threads -> WorkerPC \cup MainPC]
      /\ msg \in [Threads -> Item \cup {NoMsg}]
      /\ MsgInv
  BY DEF Inv, TypeOK, Item
<1>2. CASE PushBack(w) \/ PopBack(w) \/ PrintEnd(w) \/ DispatchDel(w)
  <2>1. pc[w] \in Busy /\ msg[w] \in Content
    BY <1>1, <1>2, Messages
       DEF PushBack, PopBack, PrintEnd, DispatchDel, MsgInv, Busy, Item, QUIT, DEL_STR
  <2>2. /\ msgQ' = msgQ
        /\ \/ Finish(w)
           \/ UNCHANGED <<pc, msg, hvars>>
           \/ pc' = [pc EXCEPT ![w] = "xlock"] /\ UNCHANGED <<msg, hvars>>
    BY <1>2 DEF PushBack, PopBack, PrintEnd, DispatchDel
  <2>3. CASE Finish(w)
    BY <2>1, <2>2, <2>3, DeliverFinish
  <2>4. CASE ~Finish(w)
    <3>1. \A v \in Workers : (Holds(v)' <=> Holds(v)) /\ msg'[v] = msg[v]
      BY <1>1, <2>1, <2>2, <2>4, Constants DEF Holds, Busy
    <3>2. NewInv'
      BY <1>1, <2>2, <2>4, Constants DEF DeliverInv, NewInv
    <3>3. QED
      BY <2>2, <2>4, <3>1, <3>2, DeliverFrame
  <2>5. QED
    BY <2>3, <2>4
<1>3. CASE \/ Wait(w) \/ DrainLock(w) \/ DrainCheck(w) \/ DrainCopy(w)
           \/ DispatchAdd(w) \/ DispatchPrint(w) \/ DispatchQuit(w)
           \/ ListLock(w) \/ PrintLock(w)
           \/ ForwardLock(w) \/ ForwardCheck(w) \/ ForwardSet(w)
  <2>1. UNCHANGED <<msgQ, generated, accepted, handled>>
    BY <1>3
       DEF Wait, DrainLock, DrainCheck, DrainCopy, DispatchAdd, DispatchPrint, DispatchQuit,
           ListLock, PrintLock, ForwardLock, ForwardCheck, ForwardSet
  <2>2. \A t \in Threads \ {w} : pc'[t] = pc[t] /\ msg'[t] = msg[t]
    BY <1>1, <1>3
       DEF Wait, DrainLock, DrainCheck, DrainCopy, DispatchAdd, DispatchPrint, DispatchQuit,
           ListLock, PrintLock, ForwardLock, ForwardCheck, ForwardSet
  <2>3. DispatchQuit(w) => msg[w] = QuitMsg
    BY <1>1, Messages DEF DispatchQuit, MsgInv, Item
  <2>4. (Holds(w)' <=> Holds(w)) /\ (Holds(w) => msg'[w] = msg[w])
    BY <1>1, <1>3, <2>3, Constants
       DEF Wait, DrainLock, DrainCheck, DrainCopy, DispatchAdd, DispatchPrint, DispatchQuit,
           ListLock, PrintLock, ForwardLock, ForwardCheck, ForwardSet, Holds, Busy
  <2>5. NewInv'
    BY <2>1, <2>2, Constants DEF DeliverInv, NewInv
  <2>6. \A v \in Workers : (Holds(v)' <=> Holds(v)) /\ (Holds(v) => msg'[v] = msg[v])
    BY <2>2, <2>4, Constants DEF Holds
  <2>7. QED
    BY <2>1, <2>5, <2>6, DeliverFrame
<1>4. QED
  BY <1>2, <1>3, DeliverTake, DeliverForward DEF UpdateThread

\* DeliverInv is inductive under Inv.
LEMMA DeliverStep == Inv /\ DeliverInv /\ [Next]_vars => DeliverInv'
<1> SUFFICES ASSUME Inv, DeliverInv, [Next]_vars PROVE DeliverInv'
  OBVIOUS
<1>1. CASE Next
  BY <1>1, DeliverMain, DeliverWorker DEF Next
<1>2. CASE UNCHANGED vars
  BY <1>2, DeliverFrame DEF vars, Holds, DeliverInv, NewInv
<1>3. QED
  BY <1>1, <1>2

\* The QUIT apart, Pending is the queue.
LEMMA PendingIsMail ==
    ASSUME TokenInv
    PROVE  /\ DOMAIN Pending \subseteq DOMAIN msgQ
           /\ \A i \in DOMAIN msgQ : Mail(i) <=> i \in DOMAIN Pending
           /\ \A i \in DOMAIN Pending : Pending[i] = msgQ[i].id
<1>1. msgQ \in Seq(Item) /\ Len(msgQ) \in Nat /\ DOMAIN msgQ = 1..Len(msgQ) /\ QuitToken
  BY LenProperties DEF TokenInv, Inv, TypeOK, Item
<1>2. CASE QuitLast
  <2>1. Len(msgQ) \in DOMAIN msgQ /\ msgQ[Len(msgQ)] = QuitMsg
    BY <1>1, <1>2, EmptySeq DEF QuitLast
  <2>2. \A i \in DOMAIN msgQ : msgQ[i] = QuitMsg => i = Len(msgQ)
    BY <1>2, <2>1 DEF TokenInv, QuitToken, QuitLast
  <2>3. DOMAIN Pending = 1..(Len(msgQ) - 1) /\ \A i \in DOMAIN Pending : Pending[i] = msgQ[i].id
    BY <1>2 DEF Pending
  <2>4. QED
    BY <1>1, <2>1, <2>2, <2>3 DEF Mail
<1>3. CASE ~QuitLast
  <2>1. \A i \in DOMAIN msgQ : msgQ[i] # QuitMsg
    <3>1. CASE QuitAccepted
      <4>1. msgQ = <<>>
        BY <1>1, <1>3, <3>1 DEF QuitToken
      <4>2. QED
        BY <4>1
    <3>2. CASE ~QuitAccepted
      BY <1>1, <3>2 DEF QuitToken
    <3>3. QED
      BY <3>1, <3>2
  <2>2. DOMAIN Pending = 1..Len(msgQ) /\ \A i \in DOMAIN Pending : Pending[i] = msgQ[i].id
    BY <1>3 DEF Pending
  <2>3. QED
    BY <1>1, <2>1, <2>2 DEF Mail
<1>4. QED
  BY <1>2, <1>3

\* The invariant says what ExactlyOnce says.
LEMMA DeliverMeansOnce == TokenInv /\ DeliverInv => ExactlyOnce
<1> SUFFICES ASSUME TokenInv, DeliverInv PROVE ExactlyOnce
  OBVIOUS
<1> DEFINE waiting == {Pending[i] : i \in DOMAIN Pending}
           inHand  == UNION {Hand(w) : w \in Workers}
<1>1. \A m : m \in waiting <=> \E i \in DOMAIN msgQ : Mail(i) /\ msgQ[i].id = m
  BY PendingIsMail
<1>2. \A m : m \in inHand <=> \E w \in Workers : Holds(w) /\ msg[w].id = m
  BY DEF Hand, Holds
<1>3. \A w \in Workers : Holds(w) => msg[w] \in Content
  BY DEF Holds, TokenInv, Inv, MsgInv, Busy, Item
<1>4. \A i \in DOMAIN msgQ : Mail(i) => msgQ[i] \in Content
  BY DEF Mail, TokenInv, Inv, TypeOK
<1>5. QuitMsg.id \notin waiting \cup inHand \cup handled
  <2>1. handled \subseteq 1..MaxMsgs /\ QuitMsg.id = 0
    BY Messages DEF TokenInv, Inv, TypeOK
  <2>2. QuitMsg.id \notin waiting
    BY <1>1, <1>4, <2>1, Messages
  <2>3. QuitMsg.id \notin inHand
    BY <1>2, <1>3, <2>1, Messages
  <2>4. QED
    BY <2>1, <2>2, <2>3, Constants
<1> HIDE DEF waiting, inHand
<1>6. accepted \ {QuitMsg.id} = waiting \cup inHand \cup handled
  <2>1. waiting \cup inHand \cup handled \subseteq accepted
    BY <1>1, <1>2 DEF DeliverInv, OneInv, AllInv
  <2>2. accepted \ {QuitMsg.id} \subseteq waiting \cup inHand \cup handled
    BY <1>1, <1>2 DEF DeliverInv, AllInv, Somewhere
  <2>3. QED
    BY <1>5, <2>1, <2>2
<1>7. waiting \cap inHand = {} /\ (waiting \cup inHand) \cap handled = {}
  BY <1>1, <1>2 DEF DeliverInv, OneInv
<1>8. \A i, j \in DOMAIN Pending : i # j => Pending[i] # Pending[j]
  BY PendingIsMail DEF DeliverInv, OneInv
<1>9. \A v, w \in Workers : v # w => Hand(v) \cap Hand(w) = {}
  BY DEF Hand, Holds, DeliverInv, OneInv
<1>10. QED
  BY <1>6, <1>7, <1>8, <1>9 DEF ExactlyOnce, waiting, inHand

\* No accepted message is lost, and none is handled twice or by two workers
\* (main.cpp:83-102, 134-185).
THEOREM ExactlyOnceCorrect == Spec => []ExactlyOnce
<1>1. Spec => []DeliverInv
  BY DeliverInit, DeliverStep, Invariance, PTL DEF Spec
<1>2. QED
  BY <1>1, TokenInvariance, DeliverMeansOnce, PTL

---------------------------------------------------------------------------

\* With every worker gone the token is in the queue, and nothing else is.
LEMMA DeliverMeansClean == TokenInv /\ DeliverInv => ShutdownClean
<1> SUFFICES ASSUME TokenInv, DeliverInv, pc[Main] = "done" PROVE
        /\ \A w \in Workers : pc[w] = "done"
        /\ handled = accepted \ {QuitMsg.id}
        /\ msgQ = <<QuitMsg>>
  BY DEF ShutdownClean
<1>1. /\ \A w \in Workers : pc[w] = "done" /\ bShutdown[w] /\ ~Carries(w) /\ ~Holds(w)
      /\ \A w \in Workers : \A i \in DOMAIN msgQ : msgQ[i] = QuitMsg
  BY DEF TokenInv, ShutdownInv, LeavePC, Carries, Holds, Busy
<1>2. QuitLast /\ \A i \in DOMAIN msgQ : msgQ[i] = QuitMsg => i = Len(msgQ)
  BY <1>1, Constants DEF TokenInv, QuitToken
<1>3. msgQ = <<QuitMsg>>
  <2>1. msgQ \in Seq(Item) /\ msgQ # <<>> /\ Len(msgQ) \in Nat \ {0} /\ DOMAIN msgQ = 1..Len(msgQ)
    BY <1>2, LenProperties, EmptySeq DEF QuitLast, TokenInv, Inv, TypeOK, Item
  <2>2. 1 \in DOMAIN msgQ /\ msgQ[1] = QuitMsg
    BY <1>1, <2>1, Constants
  <2>3. Len(msgQ) = 1
    BY <1>2, <2>2
  <2>4. QED
    BY <2>1, <2>2, <2>3
<1>4. handled = accepted \ {QuitMsg.id}
  <2>1. \A i \in DOMAIN msgQ : ~Mail(i)
    BY <1>1, Constants DEF Mail
  <2>2. \A m \in accepted : m = QuitMsg.id \/ m \in handled
    BY <1>1, <2>1 DEF DeliverInv, AllInv, Somewhere
  <2>3. QuitMsg.id \notin handled
    BY Messages, Constants DEF TokenInv, Inv, TypeOK
  <2>4. QED
    BY <2>2, <2>3 DEF DeliverInv, AllInv
<1>5. QED
  BY <1>1, <1>3, <1>4

\* main() returns from its join with every worker gone, every accepted message
\* handled and one QUIT left over (main.cpp:104-114, 187-203).
THEOREM ShutdownCleanCorrect == Spec => []ShutdownClean
<1>1. Spec => []DeliverInv
  BY DeliverInit, DeliverStep, Invariance, PTL DEF Spec
<1>2. QED
  BY <1>1, TokenInvariance, DeliverMeansClean, PTL

---------------------------------------------------------------------------

\* The holders of g_ListCs are those inside it.
ListInv ==
    /\ listX # NoThread => listS = {}
    /\ \A w \in Workers : pc[w] \in {"pushback", "popback"} => listX = w
    /\ \A w \in Workers : pc[w] = "print" => w \in listS

\* Every step keeps the lock of the list.
LEMMA ListStep == Inv /\ ListInv /\ [Next]_vars => ListInv'
<1> SUFFICES ASSUME Inv, ListInv, [Next]_vars PROVE ListInv'
  OBVIOUS
<1> USE DEF Goto, Moves, qvars, lvars, hvars
<1>1. pc \in [Threads -> WorkerPC \cup MainPC]
  BY DEF Inv, TypeOK
<1>2. CASE MainGenerate \/ MainSpace \/ MainStep
  BY <1>1, <1>2, Constants
     DEF MainGenerate, MainSpace, MainStep, MainLock, MainCheck, MainPut, MainSet, MainJoin, ListInv
<1>3. ASSUME NEW w \in Workers, UpdateThread(w) PROVE ListInv'
  <2>1. \A v \in Workers \ {w} : pc'[v] = pc[v]
    BY <1>1, <1>3, Constants
       DEF UpdateThread, Wait, DrainLock, DrainCheck, DrainCopy, DrainMove, DispatchAdd,
           DispatchDel, DispatchPrint, DispatchQuit, ListLock, PushBack, PopBack, PrintLock,
           PrintEnd, ForwardLock, ForwardCheck, ForwardPut, ForwardSet, Finish
  <2>2. CASE ListLock(w)
    BY <1>1, <2>1, <2>2, Constants DEF ListLock, AcquireExclusive, ListInv, Threads
  <2>3. CASE PrintLock(w)
    BY <1>1, <2>1, <2>3, Constants DEF PrintLock, AcquireShared, ListInv, Threads
  <2>4. CASE PushBack(w) \/ PopBack(w)
    BY <1>1, <2>1, <2>4, Constants DEF PushBack, PopBack, Finish, ListInv, Threads
  <2>5. CASE PrintEnd(w)
    BY <1>1, <2>1, <2>5, Constants DEF PrintEnd, Finish, ListInv, Threads
  <2>6. CASE \/ Wait(w) \/ DrainLock(w) \/ DrainCheck(w) \/ DrainCopy(w) \/ DrainMove(w)
             \/ DispatchAdd(w) \/ DispatchDel(w) \/ DispatchPrint(w) \/ DispatchQuit(w)
             \/ ForwardLock(w) \/ ForwardCheck(w) \/ ForwardPut(w) \/ ForwardSet(w)
    <3>1. UNCHANGED <<listX, listS>>
      BY <2>6
         DEF Wait, DrainLock, DrainCheck, DrainCopy, DrainMove, DispatchAdd,
             DispatchDel, DispatchPrint, DispatchQuit, ForwardLock, ForwardCheck,
             ForwardPut, ForwardSet
    <3>2. pc'[w] \notin {"pushback", "popback", "print"}
      BY <1>1, <2>6, Constants
         DEF Wait, DrainLock, DrainCheck, DrainCopy, DrainMove, DispatchAdd,
             DispatchDel, DispatchPrint, DispatchQuit, ForwardLock, ForwardCheck,
             ForwardPut, ForwardSet, Finish
    <3>3. QED
      BY <2>1, <3>1, <3>2 DEF ListInv
  <2>7. QED
    BY <1>3, <2>2, <2>3, <2>4, <2>5, <2>6 DEF UpdateThread
<1>4. CASE UNCHANGED vars
  BY <1>4 DEF vars, ListInv
<1>5. QED
  BY <1>2, <1>3, <1>4 DEF Next

\* g_List changes only in the hands of one worker, with nobody printing it:
\* the SRW lock is taken and released in the right mode (main.cpp:146-171).
THEOREM ListStable == Spec => ListStableWhilePrinting
<1> DEFINE A == list' # list =>
                  \E w \in Workers :
                     /\ pc[w] \in {"pushback", "popback"}
                     /\ \A v \in Workers \ {w} : pc[v] \notin {"pushback", "popback", "print"}
<1>1. Init => ListInv
  BY Constants DEF Init, ListInv, Threads
<1>2. Inv /\ ListInv /\ [Next]_vars => [A]_vars
  <2>1. SUFFICES ASSUME ListInv, Next, list' # list PROVE A
    BY DEF A
  <2>2. PICK w \in Workers : PushBack(w) \/ PopBack(w)
    BY <2>1
       DEF Next, MainGenerate, MainSpace, MainStep, MainLock, MainCheck, MainPut, MainSet,
           MainJoin, UpdateThread, Wait, DrainLock, DrainCheck, DrainCopy, DrainMove,
           DispatchAdd, DispatchDel, DispatchPrint, DispatchQuit, ListLock, PrintLock,
           PrintEnd, ForwardLock, ForwardCheck, ForwardPut, ForwardSet, qvars, lvars, hvars
  <2>3. pc[w] \in {"pushback", "popback"} /\ listX = w
    BY <2>1, <2>2 DEF PushBack, PopBack, ListInv
  <2>4. QED
    BY <2>1, <2>3, Constants DEF ListInv, Threads
<1>3. QED
  BY <1>1, <1>2, ListStep, Invariance, PTL DEF Spec, ListStableWhilePrinting

---------------------------------------------------------------------------
(***************************************************************************)
(* ThreadQueue implements MessageDispatch: every step of the program is a  *)
(* step of the pipe or changes nothing the pipe knows of.  The pipe's      *)
(* queue is Pending, so most of the work is to say what MainPut, DrainMove *)
(* and ForwardPut do to Pending.                                           *)
(***************************************************************************)

RefInv == TokenInv /\ DeliverInv

\* Room in bytes is room for a message.
LEMMA RoomForOne ==
    ASSUME NEW b \in Nat, NEW m \in Nat \ {0}, NEW k \in Nat, m * k <= b
    PROVE  k <= b \div m
<1> DEFINE q == b \div m
<1>1. q \in Int /\ b = m * q + (b % m) /\ (b % m) \in 0..(m - 1)
  BY SMTT(30)
<1> HIDE DEF q
<1>2. SUFFICES ASSUME k > q PROVE FALSE
  BY <1>1 DEF q
<1>3. PICK d \in Nat : k = q + 1 + d
  <2>1. k - q - 1 \in Nat
    BY <1>1, <1>2
  <2>2. QED
    BY <1>1, <2>1
<1>4. m * k = m * q + m + m * d /\ m * d \in Nat
  BY <1>1, <1>3
<1>5. QED
  BY <1>1, <1>2, <1>4

\* Pending as a sequence of its own.
PendingFacts ==
    /\ Pending \in Seq(Nat)
    /\ Len(Pending) = IF QuitLast THEN Len(msgQ) - 1 ELSE Len(msgQ)
    /\ DOMAIN Pending = 1..Len(Pending) /\ Len(Pending) \in Nat
    /\ Len(msgQ) \in Nat /\ DOMAIN msgQ = 1..Len(msgQ)
    /\ \A i \in 1..Len(Pending) : Pending[i] = msgQ[i].id /\ i \in 1..Len(msgQ)

\* The token invariant makes it one.
LEMMA PendingSeq == TokenInv => PendingFacts
<1> SUFFICES ASSUME TokenInv PROVE PendingFacts
  OBVIOUS
<1>1. msgQ \in Seq(Item) /\ Len(msgQ) \in Nat /\ DOMAIN msgQ = 1..Len(msgQ)
  BY LenProperties DEF TokenInv, Inv, TypeOK, Item
<1>2. QuitLast => Len(msgQ) > 0
  BY <1>1, EmptySeq DEF QuitLast
<1>3. PICK n \in Nat : n = IF QuitLast THEN Len(msgQ) - 1 ELSE Len(msgQ)
  <2>1. CASE QuitLast
    <3>1. Len(msgQ) - 1 \in Nat
      BY <1>1, <1>2, <2>1
    <3>2. QED
      BY <2>1, <3>1
  <2>2. CASE ~QuitLast
    BY <1>1, <2>2
  <2>3. QED
    BY <2>1, <2>2
<1>4. Pending = [i \in 1..n |-> msgQ[i].id]
  BY <1>3 DEF Pending
<1>5. \A i \in 1..n : i \in 1..Len(msgQ) /\ msgQ[i].id \in Nat
  <2>1. \A i \in 1..n : i \in 1..Len(msgQ)
    <3>1. n <= Len(msgQ)
      <4>1. CASE QuitLast
        BY <1>1, <1>3, <4>1
      <4>2. CASE ~QuitLast
        BY <1>1, <1>3, <4>2
      <4>3. QED
        BY <4>1, <4>2
    <3>2. QED
      BY <1>1, <3>1
  <2>2. \A i \in 1..Len(msgQ) : msgQ[i] \in Item
    BY <1>1, ElementOfSeq
  <2>3. \A m \in Item : m.id \in Nat
    BY Messages, Constants DEF Item
  <2>4. QED
    BY <2>1, <2>2, <2>3
<1>6. Pending \in [1..n -> Nat]
  BY <1>4, <1>5
<1>7. Pending \in Seq(Nat) /\ Len(Pending) = n
  BY <1>6, SeqDef
<1>8. QED
  BY <1>1, <1>3, <1>4, <1>5, <1>7 DEF PendingFacts

\* What MessageDispatch does not see.
LEMMA Unseen ==
    ASSUME Pending' = Pending, accepted' = accepted, handled' = handled, crashed' = crashed,
           \A w \in Workers : Hand(w)' = Hand(w) /\ (pc'[w] = "done" <=> pc[w] = "done")
    PROVE  UNCHANGED Dispatch!vars
<1>1. [w \in Workers |-> Hand(w)]' = [w \in Workers |-> Hand(w)]
  OBVIOUS
<1>2. {w \in Workers : pc[w] = "done"}' = {w \in Workers : pc[w] = "done"}
  OBVIOUS
<1>3. QED
  BY <1>1, <1>2 DEF Dispatch!vars, QuitAccepted

\* The program starts like the pipe.
LEMMA RefineInit == Init => Dispatch!Init
<1> SUFFICES ASSUME Init PROVE Dispatch!Init
  OBVIOUS
<1>1. \A w \in Workers : pc[w] = "wait"
  BY Constants DEF Init
<1>2. Pending = <<>>
  BY DEF Init, Pending, QuitLast
<1>3. [w \in Workers |-> Hand(w)] = [w \in Workers |-> {}]
  BY <1>1 DEF Hand, Busy
<1>4. {w \in Workers : pc[w] = "done"} = {}
  BY <1>1
<1>5. QED
  BY <1>2, <1>3, <1>4 DEF Init, Dispatch!Init, QuitAccepted

\* main() posts a message or closes the pipe.
LEMMA RefineMainPut ==
    ASSUME RefInv, TokenInv', ~crashed, MainPut
    PROVE  Dispatch!Next
<1> USE DEF Goto, Moves, qvars, lvars, hvars
<1>1. /\ Inv /\ QuitToken /\ ShutdownInv /\ NewInv
      /\ msgQ \in Seq(Item) /\ pc \in [Threads -> WorkerPC \cup MainPC]
      /\ generated \in 0..MaxMsgs
  BY DEF RefInv, DeliverInv, TokenInv, Inv, TypeOK, Item
<1>2. /\ msg[Main] \in Item /\ ~QuitAccepted /\ Room
      /\ msgQ' = Append(msgQ, msg[Main])
      /\ accepted' = accepted \cup {msg[Main].id} /\ UNCHANGED <<msg, handled, crashed>>
  BY <1>1 DEF MainPut, Inv, MsgInv, CheckedSizeHolds, ShutdownInv
<1>3. /\ Len(msgQ) \in Nat /\ Len(msgQ') = Len(msgQ) + 1 /\ msgQ' # <<>>
      /\ \A i \in 1..Len(msgQ) : msgQ'[i] = msgQ[i]
      /\ msgQ'[Len(msgQ) + 1] = msg[Main]
  BY <1>1, <1>2, AppendProperties, LenProperties
<1>4. ~QuitLast
  <2>1. \A i \in DOMAIN msgQ : msgQ[i] # QuitMsg
    BY <1>1, <1>2 DEF QuitToken
  <2>2. QED
    BY <1>1, <2>1, LenProperties, EmptySeq DEF QuitLast
<1>5. /\ Pending \in Seq(Nat) /\ Len(Pending) = Len(msgQ)
      /\ \A i \in 1..Len(Pending) : Pending[i] = msgQ[i].id
      /\ Pending' \in Seq(Nat)
      /\ Len(Pending') = IF msg[Main] = QuitMsg THEN Len(msgQ) ELSE Len(msgQ) + 1
      /\ \A i \in 1..Len(Pending') : Pending'[i] = msgQ'[i].id
  <2>1. QuitLast' <=> msg[Main] = QuitMsg
    BY <1>3 DEF QuitLast
  <2>2. TokenInv
    BY DEF RefInv
  <2>3. /\ Pending \in Seq(Nat) /\ Len(Pending) = Len(msgQ)
        /\ \A i \in 1..Len(Pending) : Pending[i] = msgQ[i].id
    BY <1>4, <2>2, PendingSeq DEF PendingFacts
  <2>4. /\ Pending' \in Seq(Nat)
        /\ Len(Pending') = IF QuitLast' THEN Len(msgQ') - 1 ELSE Len(msgQ')
        /\ \A i \in 1..Len(Pending') : Pending'[i] = msgQ'[i].id
    <3>1. PendingFacts'
      BY PendingSeq, PTL
    <3>2. QED
      BY <3>1 DEF PendingFacts
  <2>5. QED
    BY <1>3, <2>1, <2>3, <2>4
<1>6. /\ [w \in Workers |-> Hand(w)]' = [w \in Workers |-> Hand(w)]
      /\ {w \in Workers : pc[w] = "done"}' = {w \in Workers : pc[w] = "done"}
  <2>1. \A w \in Workers : pc'[w] = pc[w]
    BY <1>1, Constants DEF MainPut
  <2>2. QED
    BY <1>2, <2>1 DEF Hand
<1>7. CASE msg[Main] = QuitMsg
  <2>1. Pending' = Pending
    <3>1. Len(Pending') = Len(Pending) /\ \A i \in 1..Len(Pending) : Pending'[i] = Pending[i]
      BY <1>3, <1>5, <1>7
    <3>2. QED
      BY <1>5, <3>1, SeqEqual
  <2>2. QuitAccepted' /\ accepted' \ {QuitMsg.id} = accepted \ {QuitMsg.id}
    BY <1>2, <1>7 DEF QuitAccepted
  <2>3. Dispatch!Close
    BY <1>2, <1>6, <2>1, <2>2 DEF Dispatch!Close
  <2>4. QED
    BY <2>3 DEF Dispatch!Next
<1>8. CASE msg[Main] # QuitMsg
  <2>1. PICK m : m = msg[Main].id
    OBVIOUS
  <2>2. m \in 1..MaxMsgs /\ m # QuitMsg.id /\ m \notin accepted
    <3>1. msg[Main] \in Content
      BY <1>2, <1>8 DEF Item
    <3>2. QED
      BY <1>1, <1>8, <2>1, <3>1, Messages DEF NewInv, MainPut
  <2>3. Pending' = Append(Pending, m)
    <3>1. /\ Append(Pending, m) \in Seq(Nat)
          /\ Len(Append(Pending, m)) = Len(Pending) + 1
          /\ \A i \in 1..Len(Pending) : Append(Pending, m)[i] = Pending[i]
          /\ Append(Pending, m)[Len(Pending) + 1] = m
      BY <1>5, <2>2, AppendProperties
    <3>2. Len(Pending') = Len(Append(Pending, m))
      BY <1>3, <1>5, <1>8, <3>1
    <3>3. \A i \in 1..Len(Pending') : Pending'[i] = Append(Pending, m)[i]
      BY <1>3, <1>5, <1>8, <2>1, <3>1
    <3>4. QED
      BY <1>5, <3>1, <3>2, <3>3, SeqEqual
  <2>4. Len(Pending) < (BufferSize - 1) \div MsgSize
    <3>1. MsgSize * (Len(Pending) + 1) <= BufferSize - 1
      <4>1. MsgSize * (Len(msgQ) + 1) = MsgSize * Len(msgQ) + MsgSize /\ MsgSize * Len(msgQ) \in Nat
        BY <1>3, Constants
      <4>2. QED
        BY <1>2, <1>3, <1>5, <4>1, Constants DEF Room, FreeSize, UseSize
    <3>2. BufferSize - 1 \in Nat /\ Len(Pending) + 1 \in Nat
      BY <1>3, <1>5, Constants
    <3>3. Len(Pending) + 1 <= (BufferSize - 1) \div MsgSize
      BY <3>1, <3>2, RoomForOne, Constants
    <3>4. (BufferSize - 1) \div MsgSize \in Int
      BY <3>2, Constants
    <3>5. QED
      BY <1>3, <1>5, <3>3, <3>4
  <2>5. /\ accepted' \ {QuitMsg.id} = (accepted \ {QuitMsg.id}) \cup {m}
        /\ QuitAccepted' = QuitAccepted
    BY <1>2, <2>1, <2>2 DEF QuitAccepted
  <2>6. Dispatch!Post(m)
    BY <1>2, <1>6, <2>2, <2>3, <2>4, <2>5 DEF Dispatch!Post
  <2>7. QED
    BY <2>2, <2>6 DEF Dispatch!Next
<1>9. QED
  BY <1>7, <1>8

\* A worker takes the oldest message, or the QUIT, which the pipe has not.
LEMMA RefineTake ==
    ASSUME RefInv, TokenInv', ~crashed, NEW w \in Workers, DrainMove(w)
    PROVE  Dispatch!Next \/ UNCHANGED Dispatch!vars
<1> USE DEF Goto, Moves, qvars, lvars, hvars
<1>1. /\ TokenInv /\ Inv /\ QuitToken
      /\ msgQ \in Seq(Item) /\ pc \in [Threads -> WorkerPC \cup MainPC]
  BY DEF RefInv, TokenInv, Inv, TypeOK, Item
<1>2. /\ msgQ # <<>> /\ msg[w] = Head(msgQ) /\ msg[w] \in Item
      /\ pc[w] = "move" /\ pc'[w] = "dispatch" /\ \A v \in Workers \ {w} : pc'[v] = pc[v]
      /\ msgQ' = Tail(msgQ) /\ UNCHANGED <<msg, accepted, handled, crashed>>
  BY <1>1, SizeMeansMessage, Constants
     DEF DrainMove, Inv, MsgInv, CheckedSizeHolds, UseSize
<1>3. /\ Len(msgQ) \in Nat \ {0} /\ Len(msgQ') = Len(msgQ) - 1
      /\ \A i \in 1..Len(msgQ') : msgQ'[i] = msgQ[i + 1]
      /\ msg[w] = msgQ[1]
      /\ msgQ' = <<>> <=> Len(msgQ) = 1
  <2>1. /\ Len(msgQ) \in Nat \ {0} /\ msgQ' \in Seq(Item) /\ Len(msgQ') = Len(msgQ) - 1
        /\ \A i \in 1..Len(msgQ') : msgQ'[i] = msgQ[i + 1]
        /\ msg[w] = msgQ[1]
    BY <1>1, <1>2, HeadTailProperties, EmptySeq
  <2>2. msgQ' = <<>> <=> Len(msgQ') = 0
    BY <2>1, EmptySeq
  <2>3. QED
    BY <2>1, <2>2
<1>4. /\ Pending \in Seq(Nat) /\ Len(Pending) \in Nat
      /\ Len(Pending) = IF QuitLast THEN Len(msgQ) - 1 ELSE Len(msgQ)
      /\ \A i \in 1..Len(Pending) : Pending[i] = msgQ[i].id
  BY <1>1, PendingSeq DEF PendingFacts
<1>5. /\ Pending' \in Seq(Nat) /\ Len(Pending') \in Nat
      /\ Len(Pending') = IF QuitLast' THEN Len(msgQ') - 1 ELSE Len(msgQ')
      /\ \A i \in 1..Len(Pending') : Pending'[i] = msgQ'[i].id
  <2>1. PendingFacts'
    BY PendingSeq, PTL
  <2>2. QED
    BY <2>1 DEF PendingFacts
<1>6. \A v \in Workers : pc'[v] = "done" <=> pc[v] = "done"
  BY <1>2
<1>7. CASE msg[w] = QuitMsg
  <2>1. Len(msgQ) = 1
    <3>1. 1 \in DOMAIN msgQ /\ msgQ[1] = QuitMsg
      BY <1>1, <1>3, <1>7, LenProperties
    <3>2. QuitLast /\ \A i \in DOMAIN msgQ : msgQ[i] = QuitMsg => i = Len(msgQ)
      BY <1>1, <1>2, <3>1 DEF QuitToken
    <3>3. QED
      BY <3>1, <3>2
  <2>2. Len(Pending) = 0
    <3>1. QuitLast
      BY <1>2, <1>3, <1>7, <2>1 DEF QuitLast
    <3>2. QED
      BY <1>4, <2>1, <3>1
  <2>3. Len(Pending') = 0
    <3>1. ~QuitLast'
      BY <1>3, <2>1 DEF QuitLast
    <3>2. QED
      BY <1>3, <1>5, <2>1, <3>1
  <2>4. Pending' = Pending
    BY <1>4, <1>5, <2>2, <2>3, SeqEqual
  <2>5. \A v \in Workers : Hand(v)' = Hand(v)
    BY <1>2, <1>7 DEF Hand, Busy
  <2>6. QED
    BY <1>2, <1>6, <2>4, <2>5, Unseen
<1>8. CASE msg[w] # QuitMsg
  <2>1. QuitLast' <=> QuitLast
    <3>1. CASE Len(msgQ) = 1
      BY <1>3, <1>8, <3>1 DEF QuitLast
    <3>2. CASE Len(msgQ) # 1
      <4>1. Len(msgQ') \in 1..Len(msgQ') /\ Len(msgQ') + 1 = Len(msgQ)
        BY <1>3, <3>2
      <4>2. msgQ'[Len(msgQ')] = msgQ[Len(msgQ)]
        BY <1>3, <4>1
      <4>3. QED
        BY <1>2, <1>3, <3>2, <4>2 DEF QuitLast
    <3>3. QED
      BY <3>1, <3>2
  <2>2. Len(Pending') = Len(Pending) - 1
    <3>1. CASE QuitLast
      BY <1>3, <1>4, <1>5, <2>1, <3>1
    <3>2. CASE ~QuitLast
      BY <1>3, <1>4, <1>5, <2>1, <3>2
    <3>3. QED
      BY <3>1, <3>2
  <2>3. Pending # <<>>
    <3>1. Len(Pending) # 0
      BY <1>5, <2>2
    <3>2. QED
      BY <3>1, EmptySeq
  <2>4. Head(Pending) = msg[w].id
    BY <1>3, <1>4, <1>5, <2>2, <2>3
  <2>5. Pending' = Tail(Pending)
    <3>1. /\ Tail(Pending) \in Seq(Nat) /\ Len(Tail(Pending)) = Len(Pending) - 1
          /\ \A i \in 1..Len(Tail(Pending)) : Tail(Pending)[i] = Pending[i + 1]
      BY <1>4, <2>3, HeadTailProperties
    <3>2. \A i \in 1..Len(Pending') : Pending'[i] = Tail(Pending)[i]
      <4>1. Len(Pending') <= Len(msgQ')
        <5>1. CASE QuitLast'
          BY <1>3, <1>5, <5>1
        <5>2. CASE ~QuitLast'
          BY <1>3, <1>5, <5>2
        <5>3. QED
          BY <5>1, <5>2
      <4>2. \A i \in 1..Len(Pending') :
                i \in 1..Len(msgQ') /\ i + 1 \in 1..Len(Pending) /\ i \in 1..Len(Tail(Pending))
        <5>1. /\ Len(msgQ') \in Nat /\ Len(Pending) \in Nat
              /\ Len(Pending') = Len(Pending) - 1 /\ Len(Tail(Pending)) = Len(Pending) - 1
          BY <1>3, <1>4, <2>2, <3>1
        <5>2. QED
          BY <4>1, <5>1
      <4>3. QED
        BY <1>3, <1>4, <1>5, <3>1, <4>2
    <3>3. QED
      BY <1>5, <2>2, <3>1, <3>2, SeqEqual
  <2>6. Hand(w) = {} /\ [v \in Workers |-> Hand(v)]' =
                        [[v \in Workers |-> Hand(v)] EXCEPT ![w] = {Head(Pending)}]
    <3>1. Hand(w) = {} /\ Hand(w)' = {msg[w].id}
      BY <1>2, <1>8 DEF Hand, Busy
    <3>2. \A v \in Workers \ {w} : Hand(v)' = Hand(v)
      BY <1>2 DEF Hand
    <3>3. QED
      BY <2>4, <3>1, <3>2
  <2>7. {v \in Workers : pc[v] = "done"}' = {v \in Workers : pc[v] = "done"}
    BY <1>6
  <2>8. Dispatch!Take(w)
    BY <1>2, <2>3, <2>5, <2>6, <2>7 DEF Dispatch!Take, QuitAccepted
  <2>9. QED
    BY <2>8 DEF Dispatch!Next
<1>9. QED
  BY <1>7, <1>8

\* The end of a case is the handling of a message.
LEMMA RefineFinish ==
    ASSUME Inv, ~crashed, NEW w \in Workers, pc[w] \in Busy, msg[w] \in Content,
           Finish(w), msgQ' = msgQ, crashed' = crashed
    PROVE  Dispatch!Next
<1>1. /\ Holds(w) /\ ~Holds(w)'
      /\ \A v \in Workers \ {w} : (Holds(v)' <=> Holds(v)) /\ msg'[v] = msg[v]
      /\ handled' = handled \cup {msg[w].id}
      /\ UNCHANGED <<generated, accepted>>
  BY FinishMoves
<1>2. /\ Hand(w) = {msg[w].id} /\ Hand(w)' = {}
      /\ \A v \in Workers \ {w} : Hand(v)' = Hand(v)
  BY <1>1 DEF Hand, Holds
<1>3. [v \in Workers |-> Hand(v)]' = [[v \in Workers |-> Hand(v)] EXCEPT ![w] = {}]
  BY <1>2
<1>4. \A v \in Workers : pc'[v] = "done" <=> pc[v] = "done"
  BY Constants DEF Finish, Goto, Busy, Inv, TypeOK
<1>5. {v \in Workers : pc[v] = "done"}' = {v \in Workers : pc[v] = "done"}
  BY <1>4
<1>6. Pending' = Pending
  BY DEF Pending, QuitLast
<1>7. Dispatch!Handle(w)
  BY <1>1, <1>2, <1>3, <1>5, <1>6 DEF Dispatch!Handle, QuitAccepted
<1>8. QED
  BY <1>7 DEF Dispatch!Next

\* A QUIT put back is not seen, and a worker leaves an empty pipe.
LEMMA RefineForward ==
    ASSUME RefInv, TokenInv', ~crashed, NEW w \in Workers, ForwardPut(w) \/ ForwardSet(w)
    PROVE  Dispatch!Next \/ UNCHANGED Dispatch!vars
<1> USE DEF Goto, Moves, qvars, lvars, hvars
<1>1. /\ TokenInv /\ Inv /\ QuitToken /\ ShutdownInv
      /\ pc \in [Threads -> WorkerPC \cup MainPC]
  BY DEF RefInv, TokenInv, Inv, TypeOK, Item
<1>2. bShutdown[w] /\ QuitAccepted /\ \A i \in DOMAIN msgQ : msgQ[i] = QuitMsg
  BY <1>1 DEF ForwardPut, ForwardSet, ShutdownInv, LeavePC, QuitToken
<1>3. Pending = <<>>
  <2>1. /\ Pending \in Seq(Nat) /\ Len(Pending) \in Nat /\ DOMAIN Pending = 1..Len(Pending)
        /\ \A i \in DOMAIN Pending : Mail(i) /\ i \in DOMAIN msgQ
    BY <1>1, PendingSeq, PendingIsMail DEF PendingFacts
  <2>2. DOMAIN Pending = {}
    BY <1>2, <2>1 DEF Mail
  <2>3. QED
    BY <2>1, <2>2, EmptySeq
<1>4. /\ UNCHANGED <<msg, accepted, handled, crashed>>
      /\ \A v \in Workers \ {w} : pc'[v] = pc[v]
      /\ pc[w] \notin Busy /\ pc'[w] \notin Busy
  BY <1>1, Constants DEF ForwardPut, ForwardSet, Busy
<1>5. \A v \in Workers : Hand(v)' = Hand(v)
  BY <1>4 DEF Hand
<1>6. CASE ForwardPut(w)
  <2>1. Carries(w)
    BY <1>1, <1>2, <1>6 DEF ForwardPut, Carries
  <2>2. msgQ' = <<QuitMsg>>
    <3>1. msgQ = <<>>
      BY <1>1, <2>1, CarrierFacts
    <3>2. QED
      BY <1>6, <3>1 DEF ForwardPut
  <2>3. Pending' = <<>>
    BY <2>2 DEF Pending, QuitLast
  <2>4. \A v \in Workers : pc'[v] = "done" <=> pc[v] = "done"
    BY <1>1, <1>6, Constants DEF ForwardPut
  <2>5. QED
    BY <1>3, <1>4, <1>5, <2>3, <2>4, Unseen
<1>7. CASE ForwardSet(w)
  <2>1. Pending' = Pending
    BY <1>7 DEF ForwardSet, Pending, QuitLast
  <2>2. {v \in Workers : pc[v] = "done"}' = {v \in Workers : pc[v] = "done"} \cup {w}
    BY <1>1, <1>7, Constants DEF ForwardSet
  <2>3. [v \in Workers |-> Hand(v)]' = [v \in Workers |-> Hand(v)] /\ Hand(w) = {}
    BY <1>4, <1>5 DEF Hand
  <2>4. QuitAccepted' = QuitAccepted
    BY <1>4 DEF QuitAccepted
  <2>5. Dispatch!Leave(w)
    BY <1>2, <1>3, <1>4, <2>1, <2>2, <2>3, <2>4 DEF Dispatch!Leave
  <2>6. QED
    BY <2>5 DEF Dispatch!Next
<1>8. QED
  BY <1>6, <1>7

\* pop_back of the empty list ends the process.
LEMMA RefineCrash ==
    ASSUME Inv, ~crashed, NEW w \in Workers, PopBack(w), crashed' # crashed
    PROVE  Dispatch!Next
<1>1. crashed' = TRUE /\ UNCHANGED <<msgQ, pc, msg, accepted, handled>>
  BY DEF PopBack, qvars, hvars
<1>2. /\ Pending' = Pending /\ QuitAccepted' = QuitAccepted
      /\ [v \in Workers |-> Hand(v)]' = [v \in Workers |-> Hand(v)]
      /\ {v \in Workers : pc[v] = "done"}' = {v \in Workers : pc[v] = "done"}
  BY <1>1 DEF Pending, QuitLast, QuitAccepted, Hand
<1>3. Dispatch!Halt
  BY <1>1, <1>2 DEF Dispatch!Halt
<1>4. QED
  BY <1>3 DEF Dispatch!Next

\* The steps of a worker.
LEMMA RefineWorker ==
    ASSUME RefInv, TokenInv', ~crashed, NEW w \in Workers, UpdateThread(w)
    PROVE  Dispatch!Next \/ UNCHANGED Dispatch!vars
<1> USE DEF Goto, Moves, qvars, lvars, hvars
<1>1. /\ pc \in [Threads -> WorkerPC \cup MainPC]
      /\ msg \in [Threads -> Item \cup {NoMsg}]
      /\ Inv /\ MsgInv /\ ShutdownInv
  BY DEF RefInv, TokenInv, Inv, TypeOK, Item
<1>2. CASE PushBack(w) \/ PopBack(w) \/ PrintEnd(w) \/ DispatchDel(w)
  <2>1. pc[w] \in Busy /\ msg[w] \in Content
    BY <1>1, <1>2, Messages
       DEF PushBack, PopBack, PrintEnd, DispatchDel, MsgInv, Busy, Item, QUIT, DEL_STR
  <2>2. /\ msgQ' = msgQ
        /\ \/ Finish(w) /\ crashed' = crashed
           \/ PopBack(w) /\ crashed' # crashed
           \/ /\ pc' = [pc EXCEPT ![w] = "xlock"] \/ pc' = pc
              /\ UNCHANGED <<msg, hvars, crashed>>
    BY <1>2 DEF PushBack, PopBack, PrintEnd, DispatchDel
  <2>3. CASE Finish(w) /\ crashed' = crashed
    BY <1>1, <2>1, <2>2, <2>3, RefineFinish
  <2>4. CASE PopBack(w) /\ crashed' # crashed
    BY <1>1, <2>4, RefineCrash
  <2>5. CASE (pc' = [pc EXCEPT ![w] = "xlock"] \/ pc' = pc) /\ UNCHANGED <<msg, hvars, crashed>>
    <3>1. \A v \in Workers : pc'[v] = "done" <=> pc[v] = "done"
      BY <1>1, <2>1, <2>5, Constants DEF Busy
    <3>2. \A v \in Workers : Hand(v)' = Hand(v)
      BY <1>1, <2>1, <2>5, Constants DEF Hand, Busy
    <3>3. Pending' = Pending
      BY <2>2 DEF Pending, QuitLast
    <3>4. QED
      BY <2>5, <3>1, <3>2, <3>3, Unseen
  <2>6. QED
    BY <2>2, <2>3, <2>4, <2>5
<1>3. CASE \/ Wait(w) \/ DrainLock(w) \/ DrainCheck(w) \/ DrainCopy(w)
           \/ DispatchAdd(w) \/ DispatchPrint(w) \/ DispatchQuit(w)
           \/ ListLock(w) \/ PrintLock(w) \/ ForwardLock(w) \/ ForwardCheck(w)
  <2>1. UNCHANGED <<msgQ, accepted, handled, crashed>>
    BY <1>3
       DEF Wait, DrainLock, DrainCheck, DrainCopy, DispatchAdd, DispatchPrint, DispatchQuit,
           ListLock, PrintLock, ForwardLock, ForwardCheck
  <2>2. \A t \in Threads \ {w} : pc'[t] = pc[t] /\ msg'[t] = msg[t]
    BY <1>1, <1>3
       DEF Wait, DrainLock, DrainCheck, DrainCopy, DispatchAdd, DispatchPrint, DispatchQuit,
           ListLock, PrintLock, ForwardLock, ForwardCheck
  <2>3. DispatchQuit(w) => msg[w] = QuitMsg
    BY <1>1, Messages DEF DispatchQuit, MsgInv, Item
  <2>4. /\ (Holds(w)' <=> Holds(w)) /\ (Holds(w) => msg'[w] = msg[w])
        /\ pc[w] # "done" /\ pc'[w] # "done"
    BY <1>1, <1>3, <2>3, Constants
       DEF Wait, DrainLock, DrainCheck, DrainCopy, DispatchAdd, DispatchPrint, DispatchQuit,
           ListLock, PrintLock, ForwardLock, ForwardCheck, Holds, Busy
  <2>5. \A v \in Workers : Hand(v)' = Hand(v) /\ (pc'[v] = "done" <=> pc[v] = "done")
    BY <2>2, <2>4, Constants DEF Hand, Holds
  <2>6. Pending' = Pending
    BY <2>1 DEF Pending, QuitLast
  <2>7. QED
    BY <2>1, <2>5, <2>6, Unseen
<1>4. QED
  BY <1>2, <1>3, RefineTake, RefineForward DEF UpdateThread

\* The steps of main() other than the Enqueue.
LEMMA RefineMain ==
    ASSUME RefInv, MainGenerate \/ MainSpace \/ MainLock \/ MainCheck \/ MainSet \/ MainJoin
    PROVE  UNCHANGED Dispatch!vars
<1> USE DEF Goto, Moves, qvars, lvars, hvars
<1>1. /\ pc \in [Threads -> WorkerPC \cup MainPC]
      /\ msg \in [Threads -> Item \cup {NoMsg}]
  BY DEF RefInv, TokenInv, Inv, TypeOK, Item
<1>2. /\ UNCHANGED <<msgQ, accepted, handled, crashed>>
      /\ \A v \in Workers : pc'[v] = pc[v] /\ msg'[v] = msg[v]
  BY <1>1, Constants
     DEF MainGenerate, MainSpace, MainLock, MainCheck, MainSet, MainJoin
<1>3. Pending' = Pending /\ \A v \in Workers : Hand(v)' = Hand(v)
  BY <1>2 DEF Pending, QuitLast, Hand
<1>4. QED
  BY <1>2, <1>3, Unseen

\* Each step of the program is a step of the pipe or is not seen by it.
LEMMA RefineStep == RefInv /\ TokenInv' /\ [Next]_vars => [Dispatch!Next]_(Dispatch!vars)
<1> SUFFICES ASSUME RefInv, TokenInv', [Next]_vars
             PROVE  Dispatch!Next \/ UNCHANGED Dispatch!vars
  OBVIOUS
<1>1. CASE Next
  <2>1. CASE MainPut
    BY <1>1, <2>1, RefineMainPut DEF Next
  <2>2. CASE MainGenerate \/ MainSpace \/ MainLock \/ MainCheck \/ MainSet \/ MainJoin
    BY <2>2, RefineMain
  <2>3. CASE \E w \in Workers : UpdateThread(w)
    BY <1>1, <2>3, RefineWorker DEF Next
  <2>4. QED
    BY <1>1, <2>1, <2>2, <2>3 DEF Next, MainStep
<1>2. CASE UNCHANGED vars
  <2>1. Pending' = Pending /\ \A v \in Workers : Hand(v)' = Hand(v)
    BY <1>2 DEF vars, Pending, QuitLast, Hand
  <2>2. QED
    BY <1>2, <2>1, Unseen DEF vars
<1>3. QED
  BY <1>1, <1>2

\* The program of Thread_queue implements the pipe: its locks, event and ring
\* buffer lose, double and reorder nothing, refuse a message only when the
\* ring is full, and no worker leaves with messages waiting (main.cpp:38-204).
THEOREM Refinement == Spec => DispatchSpec
<1>1. Spec => []DeliverInv
  BY DeliverInit, DeliverStep, Invariance, PTL DEF Spec
<1>2. QED
  BY <1>1, TokenInvariance, RefineInit, RefineStep, PTL
     DEF Spec, DispatchSpec, Dispatch!Spec, RefInv

=============================================================================
