------------------------------- MODULE DBSave -------------------------------
(***************************************************************************)
(* The pipeline of src/Thread_DBSave: UpdateThreads take a header from     *)
(* g_DBPacketPool, fill it and put the pointer into the ring buffer        *)
(* g_DBQueryBuffer under its lock; DBWriterThread takes pointers out       *)
(* WITHOUT that lock, turns the header into a query, gives the header back *)
(* and sends the query; main() runs the control keys and the shutdown.     *)
(*                                                                         *)
(* Producers and the writer race on the ring's positions, so every call of *)
(* the size functions is modelled as the two reads it makes of the other   *)
(* side's position: the one it compares and the one it computes with.  All *)
(* positions are multiples of the pointer size; they are counted in        *)
(* pointers here, and sizes in bytes as in the code.  The three message    *)
(* types take the same steps on counters of their own; one stands          *)
(* for them all.                                                           *)
(***************************************************************************)
EXTENDS Integers, Sequences, FiniteSets

CONSTANTS Updaters,   \* the UpdateThreads, finitely many
          Slots,      \* the ring's size in pointers (20000 / 8)
          PtrSize,    \* sizeof(st_DBQUERY_HEADER*)
          Headers,    \* the headers the pool can hand out
          NoHeader,   \* a pHeader that points to none of them
          MaxMsgs     \* bound: no new message once the counter is here

ASSUME RingAssumption == Slots \in Nat /\ Slots > 1 /\ PtrSize \in Nat /\ PtrSize > 1
ASSUME HeaderAssumption == NoHeader \notin Headers
ASSUME BoundAssumption == MaxMsgs \in Nat

NoRow    == [no |-> 0, again |-> 0]
Writer   == "DBWriterThread"
Main     == "main"
None     == "none"

ASSUME ThreadAssumption == {Writer, Main, None} \cap Updaters = {}
ASSUME UpdatersAssumption == IsFiniteSet(Updaters)

VARIABLES slot, iRead, iWrite,  \* g_DBQueryBuffer
          owner,                \* the holder of its lock
          writerEvent,          \* g_hDBWriterEvent, auto-reset
          exitEvent,            \* g_hDBExitEvent, manual reset
          bShutdown,            \* g_bShutdown
          bControlMode,
          counter,              \* g_lJoin, g_lStage or g_lPlayer
          row,                  \* row[h]: the message inside header h
          live,                 \* the headers the pool has handed out
          hdr,                  \* each thread's pHeader
          szQuery,              \* the writer's query text
          byExit,               \* iRetval == WAIT_OBJECT_0
          ahead,                \* inside a size call: what its comparison gave
          pc,
          corrupted,            \* a copy ran over its destination
          accepted,             \* history: the rows put into the ring
          queried,              \* history: the rows sent to the database
          leaked                \* history: the headers nobody knows any more

ring  == <<slot, iRead, iWrite, owner>>
sync  == <<writerEvent, exitEvent, bShutdown, bControlMode>>
data  == <<counter, row, live, hdr, szQuery>>
hist  == <<accepted, queried, leaked>>
vars  == <<slot, iRead, iWrite, owner, writerEvent, exitEvent, bShutdown,
           bControlMode, counter, row, live, hdr, szQuery, byExit, ahead, pc,
           corrupted, accepted, queried, leaked>>

Users   == Updaters \cup {Writer}
Threads == Users \cup {Main}

Init ==
    /\ slot = [p \in 0..Slots - 1 |-> NoHeader]
    /\ iRead = 0
    /\ iWrite = 0
    /\ owner = None
    /\ writerEvent = FALSE
    /\ exitEvent = FALSE
    /\ bShutdown = FALSE
    /\ bControlMode = FALSE
    /\ counter = 0
    /\ row = [h \in Headers |-> NoRow]
    /\ live = {}
    /\ hdr = [t \in Users |-> NoHeader]
    /\ szQuery = NoRow
    /\ byExit = FALSE
    /\ ahead = [t \in Users |-> None]
    /\ pc = [t \in Threads |->
                IF t = Main THEN "keys" ELSE IF t = Writer THEN "wait" ELSE "top"]
    /\ corrupted = FALSE
    /\ accepted = <<>>
    /\ queried = <<>>
    /\ leaked = {}

---------------------------------------------------------------------------
(* The ring buffer's sizes, as a racing thread sees them. *)

Goto(t, l)         == pc' = [pc EXCEPT ![t] = l]
Moves(t, from, to) == pc[t] = from /\ Goto(t, to)

\* Call sites of GetUseSize(), which GetFreeSize() is made of, and of the two
\* GetUnbroken...Size().
SizeSites == {"test", "enough", "cmp", "take", "copy", "room", "ecmp", "etake", "ecopy"}

\* _iWrite <= (_iRead + _iBufferSize - 1) % _iBufferSize, in pointers
BelowRead == iRead = 0 \/ iWrite < iRead

\* The first read of a call: which branch of the function it takes.
Compare(t) ==
    /\ pc[t] \in SizeSites
    /\ ahead[t] = None
    /\ LET branch == IF pc[t] = "ecopy" THEN BelowRead ELSE iWrite >= iRead
       IN  ahead' = [ahead EXCEPT ![t] = IF branch THEN "yes" ELSE "no"]
    /\ UNCHANGED <<ring, sync, data, byExit, pc, corrupted, hist>>

\* The rest of the call, in bytes; it may be negative.
UseSize(t)  == PtrSize * (IF ahead[t] = "yes" THEN iWrite - iRead
                                              ELSE (Slots - iRead) + iWrite)
FreeSize(t) == PtrSize * Slots - UseSize(t) - 1

\* The branch taken with the size just read.
Called(t) == ahead[t] # None /\ ahead' = [ahead EXCEPT ![t] = None]

\* `GetUseSize() >= sizeof(...)` compares unsigned: a negative size is large.
AtLeast(size, n) == size < 0 \/ size >= n

NextPos(pos) == (pos + 1) % Slots

---------------------------------------------------------------------------
(* UpdateThread() *)

\* while (!g_bShutdown)
UpdateTop(u) ==
    /\ pc[u] = "top"
    /\ \/ ~bShutdown /\ counter < MaxMsgs /\ Goto(u, "alloc")
       \/ bShutdown /\ Goto(u, "done")
    /\ UNCHANGED <<ring, sync, data, byExit, ahead, corrupted, hist>>

\* The pool hands out a header that nobody has.
UpdateAlloc(u) ==
    /\ Moves(u, "alloc", "incr")
    /\ \E h \in Headers \ live :
          /\ live' = live \cup {h}
          /\ hdr' = [hdr EXCEPT ![u] = h]
    /\ UNCHANGED <<ring, sync, counter, row, szQuery, byExit, ahead, corrupted, hist>>

\* InterlockedIncrement gives the number ...
UpdateIncrement(u) ==
    /\ Moves(u, "incr", "reread")
    /\ counter' = counter + 1
    /\ row' = [row EXCEPT ![hdr[u]].no = counter + 1]
    /\ UNCHANGED <<ring, sync, live, hdr, szQuery, byExit, ahead, corrupted, hist>>

\* Slip: the number, too, is read from the counter that others increment.
UpdateRereadBoth(u) ==
    /\ Moves(u, "reread", "lock")
    /\ row' = [row EXCEPT ![hdr[u]] = [no |-> counter, again |-> counter]]
    /\ UNCHANGED <<ring, sync, counter, live, hdr, szQuery, byExit, ahead, corrupted, hist>>

\* ... and the other fields are read from the counter afterwards.
UpdateReread(u) ==
    /\ Moves(u, "reread", "lock")
    /\ row' = [row EXCEPT ![hdr[u]].again = counter]
    /\ UNCHANGED <<ring, sync, counter, live, hdr, szQuery, byExit, ahead, corrupted, hist>>

\* Slip: the lock does not exclude.
UpdateNoLock(u) ==
    /\ Moves(u, "lock", "room")
    /\ owner' = u
    /\ UNCHANGED <<slot, iRead, iWrite, sync, data, byExit, ahead, corrupted, hist>>

UpdateLock(u) ==
    /\ Moves(u, "lock", "room")
    /\ owner = None
    /\ owner' = u
    /\ UNCHANGED <<slot, iRead, iWrite, sync, data, byExit, ahead, corrupted, hist>>

\* Without room the pointer is dropped and its header is lost.
UpdateRoom(u) ==
    /\ pc[u] = "room"
    /\ Called(u)
    /\ \/ /\ AtLeast(FreeSize(u), PtrSize)
          /\ Goto(u, "ecmp")
          /\ UNCHANGED <<owner, hdr, leaked>>
       \/ /\ ~AtLeast(FreeSize(u), PtrSize)
          /\ Goto(u, "set")
          /\ owner' = None
          /\ hdr' = [hdr EXCEPT ![u] = NoHeader]
          /\ leaked' = leaked \cup {hdr[u]}
    /\ UNCHANGED <<slot, iRead, iWrite, sync, counter, row, live, szQuery, byExit,
                   corrupted, accepted, queried>>

\* Enqueue: if (GetFreeSize() <= iSize) iSize = GetFreeSize();
EnqueueCompare(u) ==
    /\ pc[u] = "ecmp"
    /\ Called(u)
    /\ Goto(u, IF FreeSize(u) <= PtrSize THEN "etake" ELSE "ecopy")
    /\ UNCHANGED <<ring, sync, data, byExit, corrupted, hist>>

\* A size other than the pointer's copies from beyond the pointer.
EnqueueTake(u) ==
    /\ Moves(u, "etake", "ecopy")
    /\ Called(u)
    /\ corrupted' = (FreeSize(u) # PtrSize)
    /\ UNCHANGED <<ring, sync, data, byExit, hist>>

\* if (GetUnbrokenEnqueueSize() >= iSize): the branch taken below the read
\* position gives a negative size once the writer has moved that behind
\* _iWrite, and Enqueue then copies everything up to the array's end.
NegativeRoom(u) == ahead[u] = "yes" /\ ~BelowRead

EnqueueCopy(u) ==
    /\ Moves(u, "ecopy", "emove")
    /\ Called(u)
    /\ slot' = [slot EXCEPT ![iWrite] = hdr[u]]
    /\ corrupted' = NegativeRoom(u)
    /\ UNCHANGED <<iRead, iWrite, owner, sync, data, byExit, hist>>

EnqueueMove(u) ==
    /\ Moves(u, "emove", "set")
    /\ iWrite' = NextPos(iWrite)
    /\ owner' = None
    /\ accepted' = Append(accepted, row[hdr[u]])
    /\ hdr' = [hdr EXCEPT ![u] = NoHeader]
    /\ UNCHANGED <<slot, iRead, sync, counter, row, live, szQuery, byExit, ahead,
                   corrupted, queried, leaked>>

\* Slip: nobody wakes the writer.
UpdateNoSet(u) ==
    /\ Moves(u, "set", "top")
    /\ UNCHANGED <<ring, sync, data, byExit, ahead, corrupted, hist>>

UpdateSet(u) ==
    /\ Moves(u, "set", "top")
    /\ writerEvent' = TRUE
    /\ UNCHANGED <<ring, exitEvent, bShutdown, bControlMode, data, byExit, ahead,
                   corrupted, hist>>

UpdateThread(u) ==
    \/ UpdateTop(u) \/ UpdateAlloc(u) \/ UpdateIncrement(u) \/ UpdateReread(u)
    \/ UpdateLock(u) \/ Compare(u) \/ UpdateRoom(u) \/ EnqueueCompare(u)
    \/ EnqueueTake(u) \/ EnqueueCopy(u) \/ EnqueueMove(u) \/ UpdateSet(u)

---------------------------------------------------------------------------
(* DBWriterThread() *)

\* Slip: the exit event ends the writer before it has looked into the ring.
WriterQuit ==
    /\ pc[Writer] = "wait"
    /\ \/ exitEvent /\ byExit' = TRUE /\ Goto(Writer, "done") /\ UNCHANGED writerEvent
       \/ /\ ~exitEvent /\ writerEvent /\ byExit' = FALSE /\ writerEvent' = FALSE
          /\ Goto(Writer, "test")
    /\ UNCHANGED <<ring, exitEvent, bShutdown, bControlMode, data, ahead, corrupted, hist>>

\* WaitForMultipleObjects reports the first of its events that is set.
WriterWait ==
    /\ Moves(Writer, "wait", "test")
    /\ \/ exitEvent /\ byExit' = TRUE /\ UNCHANGED writerEvent
       \/ ~exitEvent /\ writerEvent /\ byExit' = FALSE /\ writerEvent' = FALSE
    /\ UNCHANGED <<ring, exitEvent, bShutdown, bControlMode, data, ahead, corrupted, hist>>

\* while (GetUseSize() != 0); the loop over, the exit event ends the thread.
WriterTest ==
    /\ pc[Writer] = "test"
    /\ Called(Writer)
    /\ \/ UseSize(Writer) # 0 /\ Goto(Writer, "enough") /\ UNCHANGED bShutdown
       \/ /\ UseSize(Writer) = 0
          /\ Goto(Writer, IF byExit THEN "done" ELSE "wait")
          /\ bShutdown' = (bShutdown \/ byExit)
    /\ UNCHANGED <<ring, writerEvent, exitEvent, bControlMode, data, byExit, corrupted, hist>>

WriterEnough ==
    /\ pc[Writer] = "enough"
    /\ Called(Writer)
    /\ Goto(Writer, IF AtLeast(UseSize(Writer), PtrSize) THEN "cmp" ELSE "test")
    /\ UNCHANGED <<ring, sync, data, byExit, corrupted, hist>>

\* Dequeue: if (GetUseSize() <= iSize) iSize = GetUseSize();
DequeueCompare ==
    /\ pc[Writer] = "cmp"
    /\ Called(Writer)
    /\ Goto(Writer, IF UseSize(Writer) <= PtrSize THEN "take" ELSE "copy")
    /\ UNCHANGED <<ring, sync, data, byExit, corrupted, hist>>

\* A size other than the pointer's copies over what lies behind pHeader.
DequeueTake ==
    /\ Moves(Writer, "take", "copy")
    /\ Called(Writer)
    /\ corrupted' = (UseSize(Writer) # PtrSize)
    /\ UNCHANGED <<ring, sync, data, byExit, hist>>

\* if (GetUnbrokenDequeueSize() >= iSize): when _iWrite wraps inside the call
\* the size is negative, and the copy then goes on to the array's end.
DequeueCopy ==
    /\ Moves(Writer, "copy", "move")
    /\ Called(Writer)
    /\ hdr' = [hdr EXCEPT ![Writer] = slot[iRead]]
    /\ corrupted' = (ahead[Writer] = "yes" /\ iWrite < iRead /\ iRead < Slots - 1)
    /\ UNCHANGED <<ring, sync, counter, row, live, szQuery, byExit, hist>>

DequeueMove ==
    /\ Moves(Writer, "move", "format")
    /\ iRead' = NextPos(iRead)
    /\ UNCHANGED <<slot, iWrite, owner, sync, data, byExit, ahead, corrupted, hist>>

WriterFormat ==
    /\ Moves(Writer, "format", "free")
    /\ szQuery' = row[hdr[Writer]]
    /\ UNCHANGED <<ring, sync, counter, row, live, hdr, byExit, ahead, corrupted, hist>>

\* Slip: the header is never given back.
WriterNoFree ==
    /\ Moves(Writer, "free", "query")
    /\ hdr' = [hdr EXCEPT ![Writer] = NoHeader]
    /\ UNCHANGED <<ring, sync, counter, row, live, szQuery, byExit, ahead, corrupted, hist>>

WriterFree ==
    /\ Moves(Writer, "free", "query")
    /\ live' = live \ {hdr[Writer]}
    /\ hdr' = [hdr EXCEPT ![Writer] = NoHeader]
    /\ UNCHANGED <<ring, sync, counter, row, szQuery, byExit, ahead, corrupted, hist>>

\* The result of Query() is not looked at.
WriterQuery ==
    /\ Moves(Writer, "query", "test")
    /\ queried' = Append(queried, szQuery)
    /\ UNCHANGED <<ring, sync, data, byExit, ahead, corrupted, accepted, leaked>>

DBWriterThread ==
    \/ WriterWait \/ Compare(Writer) \/ WriterTest \/ WriterEnough
    \/ DequeueCompare \/ DequeueTake \/ DequeueCopy \/ DequeueMove
    \/ WriterFormat \/ WriterFree \/ WriterQuery

---------------------------------------------------------------------------
(* main() and ServerControl() *)

\* One turn of main()'s loop with a key: U unlocks the control mode, L locks
\* it, Q in control mode asks for the shutdown; the digits set the log level.
ServerControl ==
    /\ pc[Main] = "keys"
    /\ ~bShutdown
    /\ \/ bControlMode' = TRUE /\ UNCHANGED bShutdown
       \/ bControlMode /\ bControlMode' = FALSE /\ UNCHANGED bShutdown
       \/ bControlMode /\ bShutdown' = TRUE /\ UNCHANGED bControlMode
    /\ UNCHANGED <<ring, writerEvent, exitEvent, data, byExit, ahead, pc, corrupted, hist>>

MainLeave ==
    /\ Moves(Main, "keys", "join")
    /\ bShutdown
    /\ UNCHANGED <<ring, sync, data, byExit, ahead, corrupted, hist>>

\* Slip: the writer is told to exit while updaters still run.
MainNoJoin ==
    /\ Moves(Main, "join", "exit")
    /\ UNCHANGED <<ring, sync, data, byExit, ahead, corrupted, hist>>

MainJoin ==
    /\ Moves(Main, "join", "exit")
    /\ \A u \in Updaters : pc[u] = "done"
    /\ UNCHANGED <<ring, sync, data, byExit, ahead, corrupted, hist>>

\* Slip: the event that ends the writer is not set.
MainNoExitEvent ==
    /\ Moves(Main, "exit", "joinwriter")
    /\ writerEvent' = TRUE
    /\ UNCHANGED <<ring, exitEvent, bShutdown, bControlMode, data, byExit, ahead,
                   corrupted, hist>>

\* The loop around SetEvent runs once: GetExitCodeThread overwrites the -1.
MainExitEvent ==
    /\ Moves(Main, "exit", "joinwriter")
    /\ exitEvent' = TRUE
    /\ UNCHANGED <<ring, writerEvent, bShutdown, bControlMode, data, byExit, ahead,
                   corrupted, hist>>

MainJoinWriter ==
    /\ Moves(Main, "joinwriter", "done")
    /\ pc[Writer] = "done"
    /\ UNCHANGED <<ring, sync, data, byExit, ahead, corrupted, hist>>

MainStep == MainLeave \/ MainJoin \/ MainExitEvent \/ MainJoinWriter

Next ==
    /\ ~corrupted
    /\ \/ \E u \in Updaters : UpdateThread(u)
       \/ DBWriterThread
       \/ ServerControl
       \/ MainStep

Spec == Init /\ [][Next]_vars

\* Every thread runs on; nobody is bound to press a key.  The database answers
\* every query: it accepts the writer's first connection, and CDBConnector gives
\* up after five attempts.
Fairness ==
    /\ \A u \in Updaters : WF_vars(~corrupted /\ UpdateThread(u))
    /\ WF_vars(~corrupted /\ DBWriterThread)
    /\ WF_vars(~corrupted /\ MainStep)

FairSpec == Spec /\ Fairness

---------------------------------------------------------------------------
(* Properties *)

\* The positions of the pointers waiting in the ring.
Waiting == {p \in 0..Slots - 1 : IF iWrite >= iRead THEN iRead <= p /\ p < iWrite
                                                    ELSE iRead <= p \/ p < iWrite}

\* How far a position lies behind the read position.
Off(p) == IF p >= iRead THEN p - iRead ELSE (Slots - iRead) + p

TypeOK ==
    /\ slot \in [0..Slots - 1 -> Headers \cup {NoHeader}]
    /\ iRead \in 0..Slots - 1
    /\ iWrite \in 0..Slots - 1
    /\ owner \in Updaters \cup {None}
    /\ {writerEvent, exitEvent, bShutdown, bControlMode, byExit, corrupted} \subseteq BOOLEAN
    /\ counter \in Nat
    /\ row \in [Headers -> [no : Nat, again : Nat]]
    /\ live \subseteq Headers
    /\ hdr \in [Users -> Headers \cup {NoHeader}]
    /\ szQuery \in [no : Nat, again : Nat]
    /\ ahead \in [Users -> {None, "yes", "no"}]
    /\ leaked \subseteq Headers

\* The threads that have a header in their pHeader.
Hands == {t \in Users : /\ hdr[t] # NoHeader
                        /\ t = Writer => pc[Writer] \in {"format", "free"}}

\* Every header the pool handed out has one place: one waiting slot, one
\* thread's pHeader, or nobody knows it.  So nobody works on a freed header and
\* none is freed twice.
HeaderOwnership ==
    /\ live = {slot[p] : p \in Waiting} \cup {hdr[t] : t \in Hands} \cup leaked
    /\ \A p, q \in Waiting : p # q => slot[p] # slot[q]
    /\ \A p \in Waiting : slot[p] \notin leaked /\ \A t \in Hands : slot[p] # hdr[t]
    /\ \A t, u \in Hands : t # u => hdr[t] # hdr[u]
    /\ \A t \in Hands : hdr[t] \notin leaked

\* The database gets the rows in the order in which they entered the ring, as
\* they were then, none twice and none left out.
RowsInOrder ==
    /\ Len(queried) <= Len(accepted)
    /\ \A i \in 1..Len(queried) : queried[i] = accepted[i]

\* No two rows carry the same number, and a row's later fields, read from the
\* shared counter again, never lie behind it.
RowNumbers ==
    /\ \A i, j \in 1..Len(accepted) : i # j => accepted[i].no # accepted[j].no
    /\ \A i \in 1..Len(accepted) : accepted[i].again >= accepted[i].no

\* A pointer in the ring never waits for a writer that sleeps with no event
\* set and nobody about to set one.
NoLostWakeup ==
    (iRead # iWrite /\ pc[Writer] \in {"wait", "done"}) =>
        \/ writerEvent \/ exitEvent
        \/ \E u \in Updaters : pc[u] = "set"

\* Once main() is past its joins every row that entered the ring was sent.
ShutdownDrains ==
    pc[Main] = "done" => queried = accepted /\ \A t \in Users : pc[t] = "done"

\* The numbers in the headers that wait in the ring, the oldest first, and the
\* number the writer works on.
Backlog == [i \in 1..Off(iWrite) |-> row[slot[(iRead + i - 1) % Slots]].no]

InHand == IF pc[Writer] = "format" THEN {row[hdr[Writer]].no}
          ELSE IF pc[Writer] \in {"free", "query"} THEN {szQuery.no}
          ELSE {}

Numbers(rows) == {rows[i].no : i \in 1..Len(rows)}

\* The headers, the unlocked ring and the events are together the pipe that
\* MessageDispatch specifies, with the writer as its worker: what fits is posted
\* once and in order, the writer takes the oldest, and it leaves when main() has
\* announced the end and nothing is left.
Pipe == INSTANCE MessageDispatch WITH
    Workers  <- {Writer},
    Messages <- 1..(MaxMsgs + Cardinality(Updaters)),
    Capacity <- Slots - 1,
    posted   <- Numbers(accepted),
    pending  <- Backlog,
    hand     <- [w \in {Writer} |-> InHand],
    handled  <- Numbers(queried),
    closed   <- exitEvent,
    left     <- IF pc[Writer] = "done" THEN {Writer} ELSE {},
    halted   <- corrupted
PipeSpec == Pipe!Spec

\* The shutdown key ends the program.
ShutdownCompletes == bShutdown ~> (pc[Main] = "done" \/ corrupted)

\* A row that entered the ring is sent in the end.
RowsReachDB ==
    \A n \in 1..MaxMsgs : Len(accepted) >= n ~> (Len(queried) >= n \/ corrupted)

\* Dequeue never copies more than the pointer it is asked for.  (Its two calls
\* of GetUseSize() see different sizes when a producer enqueues in between.)
DequeueExact ==
    pc[Writer] = "take" /\ ahead[Writer] # None => UseSize(Writer) <= PtrSize


=============================================================================
