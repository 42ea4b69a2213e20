----------------------------- MODULE ChunkPool -----------------------------
(***************************************************************************)
(* CLFMemoryPool_TLS: every thread takes items from a chunk of its own, in *)
(* order; any thread may free any item; the thread that frees the last     *)
(* item of a chunk gives the chunk back to a CLFMemoryPool, of which this  *)
(* module uses the promise only (BlockPool).  One step is one access to    *)
(* shared memory.  The check code in front of every item is always right   *)
(* for an item the pool handed out, and is left out.                       *)
(***************************************************************************)
EXTENDS Integers, FiniteSets

CONSTANTS Threads,
          Chunks,      \* the chunks the chunk pool can hand out
          None,        \* no chunk, no item
          ChunkSize,   \* _lChunkSize
          MaxCalls     \* bound: calls of Alloc and Free

\* The data nodes of all chunks.
Items == Chunks \X (0..ChunkSize - 1)

ASSUME ChunkAssumption == None \notin Chunks \cup Items /\ ChunkSize \in Nat \ {0}
ASSUME BoundAssumption == MaxCalls \in Nat

VARIABLES tls,          \* the chunk in each thread's TLS slot
          lAllocIndex, iFreeCount,   \* _lAllocIndex and _iFreeCount of every chunk
          live,         \* the chunks the chunk pool has handed out
          lUseCnt,
          pc,
          item,         \* the item a call is about
          given,        \* given[i]: how many callers have item i
          calls         \* the calls so far

vars == <<tls, lAllocIndex, iFreeCount, live, lUseCnt, pc, item, given, calls>>

Init ==
    /\ tls = [t \in Threads |-> None]
    /\ lAllocIndex = [c \in Chunks |-> 0]
    /\ iFreeCount = [c \in Chunks |-> 0]
    /\ live = {}
    /\ lUseCnt = 0
    /\ pc = [t \in Threads |-> "idle"]
    /\ item = [t \in Threads |-> None]
    /\ given = [i \in Items |-> 0]
    /\ calls = 0

Goto(t, l)         == pc' = [pc EXCEPT ![t] = l]
Moves(t, from, to) == pc[t] = from /\ Goto(t, to)

Given == {i \in Items : given[i] > 0}

\* Alloc returns the item it chose.
ReturnItem(t, i) ==
    /\ Goto(t, "idle")
    /\ given' = [given EXCEPT ![i] = @ + 1]
    /\ item' = [item EXCEPT ![t] = None]

Call(t) == pc[t] = "idle" /\ calls < MaxCalls /\ calls' = calls + 1

---------------------------------------------------------------------------
(* Alloc() *)

\* A thread without a chunk takes one first.
AllocCall(t) ==
    /\ Call(t)
    /\ Goto(t, IF tls[t] = None THEN "get" ELSE "use")
    /\ UNCHANGED <<tls, lAllocIndex, iFreeCount, live, lUseCnt, item, given>>

\* ChunkAlloc(): a chunk from the chunk pool, ...
ChunkAlloc(t) ==
    /\ Moves(t, "get", "clear")
    /\ \E c \in Chunks \ live :
          /\ live' = live \cup {c}
          /\ tls' = [tls EXCEPT ![t] = c]
    /\ UNCHANGED <<lAllocIndex, iFreeCount, lUseCnt, item, given, calls>>

\* The call that took a chunk goes on: with its first item, or, when it took
\* the last item of the old chunk, back to the caller.
AfterChunk(t) ==
    IF item[t] = None THEN Goto(t, "use") /\ UNCHANGED <<item, given>>
                      ELSE ReturnItem(t, item[t])

\* Slip: a chunk that was used before starts with one free too few.
ClearShort(t) ==
    /\ pc[t] = "clear"
    /\ lAllocIndex' = [lAllocIndex EXCEPT ![tls[t]] = 0]
    /\ iFreeCount' = [iFreeCount EXCEPT ![tls[t]] = ChunkSize - 1]
    /\ AfterChunk(t)
    /\ UNCHANGED <<tls, live, lUseCnt, calls>>

\* Slip: the index of the chunk's last life is kept.
ClearNoIndex(t) ==
    /\ pc[t] = "clear"
    /\ iFreeCount' = [iFreeCount EXCEPT ![tls[t]] = ChunkSize]
    /\ AfterChunk(t)
    /\ UNCHANGED <<tls, lAllocIndex, live, lUseCnt, calls>>

\* ... whose counters Init() sets when the chunk is new and Clear() when it is
\* not.
Clear(t) ==
    /\ pc[t] = "clear"
    /\ lAllocIndex' = [lAllocIndex EXCEPT ![tls[t]] = 0]
    /\ iFreeCount' = [iFreeCount EXCEPT ![tls[t]] = ChunkSize]
    /\ AfterChunk(t)
    /\ UNCHANGED <<tls, live, lUseCnt, calls>>

AllocUse(t) ==
    /\ Moves(t, "use", "take")
    /\ lUseCnt' = lUseCnt + 1
    /\ UNCHANGED <<tls, lAllocIndex, iFreeCount, live, item, given, calls>>

\* CChunk::Alloc(): the next item, and a new chunk after the last one.
AllocTake(t) ==
    LET c == tls[t]
        i == <<c, lAllocIndex[c]>>
    IN  /\ pc[t] = "take"
        /\ lAllocIndex' = [lAllocIndex EXCEPT ![c] = @ + 1]
        /\ IF lAllocIndex[c] + 1 = ChunkSize
             THEN Goto(t, "get") /\ item' = [item EXCEPT ![t] = i] /\ UNCHANGED given
             ELSE ReturnItem(t, i)
        /\ UNCHANGED <<tls, iFreeCount, live, lUseCnt, calls>>

---------------------------------------------------------------------------
(* Free() *)

\* Slip: the item is not counted as given back.
FreeNoUse(t) ==
    /\ Call(t)
    /\ Goto(t, "drop")
    /\ \E i \in Given :
          /\ given' = [given EXCEPT ![i] = @ - 1]
          /\ item' = [item EXCEPT ![t] = i]
    /\ UNCHANGED <<tls, lAllocIndex, iFreeCount, live, lUseCnt>>

FreeCall(t) ==
    /\ Call(t)
    /\ Goto(t, "drop")
    /\ lUseCnt' = lUseCnt - 1
    /\ \E i \in Given :
          /\ given' = [given EXCEPT ![i] = @ - 1]
          /\ item' = [item EXCEPT ![t] = i]
    /\ UNCHANGED <<tls, lAllocIndex, iFreeCount, live>>

\* CChunk::Free(): the last one out takes the chunk along.
FreeDrop(t) ==
    LET c == item[t][1]
        last == iFreeCount[c] - 1 = 0
    IN  /\ Moves(t, "drop", IF last THEN "recycle" ELSE "idle")
        /\ iFreeCount' = [iFreeCount EXCEPT ![c] = @ - 1]
        /\ item' = IF last THEN item ELSE [item EXCEPT ![t] = None]
        /\ UNCHANGED <<tls, lAllocIndex, live, lUseCnt, given, calls>>

Recycle(t) ==
    /\ Moves(t, "recycle", "idle")
    /\ live' = live \ {item[t][1]}
    /\ item' = [item EXCEPT ![t] = None]
    /\ UNCHANGED <<tls, lAllocIndex, iFreeCount, lUseCnt, given, calls>>

---------------------------------------------------------------------------

Next ==
    \E t \in Threads :
        \/ AllocCall(t) \/ ChunkAlloc(t) \/ Clear(t) \/ AllocUse(t) \/ AllocTake(t)
        \/ FreeCall(t) \/ FreeDrop(t) \/ Recycle(t)

Spec == Init /\ [][Next]_vars

---------------------------------------------------------------------------
(* Properties *)

TypeOK ==
    /\ tls \in [Threads -> Chunks \cup {None}]
    /\ lAllocIndex \in [Chunks -> 0..ChunkSize]
    /\ iFreeCount \in [Chunks -> 0..ChunkSize]
    /\ live \subseteq Chunks
    /\ lUseCnt \in Nat
    /\ item \in [Threads -> Items \cup {None}]
    /\ given \in [Items -> Nat]

\* The chunk a thread takes items from is its own: handed out by the chunk
\* pool, with no other thread, and never full between two calls.  In the
\* step between the last item and the next chunk the slot is stale; that
\* chunk cannot be recycled before the item it still owes has been returned.
ChunkOwned ==
    \A t \in Threads : tls[t] # None =>
        /\ tls[t] \in live
        /\ \A u \in Threads \ {t} : tls[u] # tls[t]
        /\ pc[t] \in {"idle", "use", "take", "drop", "recycle"} => lAllocIndex[tls[t]] < ChunkSize

\* The items of chunk c a call has in its hands: on the way to a caller, or back.
Moving(c) == {item[t] : t \in {u \in Threads : pc[u] \in {"get", "clear", "drop"}
                                            /\ item[u] # None /\ item[u][1] = c}}

\* The items of chunk c that still have to come back, those not handed out yet
\* included, by their places in the chunk.
Owed(c) == {k \in 0..ChunkSize - 1 :
               k >= lAllocIndex[c] \/ <<c, k>> \in Given \cup Moving(c)}

\* An item is in one place: not handed out, with one caller, or in the hands of
\* one call; and iFreeCount is the number of items that have to come back, so
\* the chunk goes back when the last of them is freed and not before.
FreeCountExact ==
    /\ \A i \in Given : given[i] = 1
    /\ \A t, u \in Threads : t # u /\ item[t] # None => item[t] # item[u]
    /\ \A c \in live : (\A t \in Threads : ~(tls[t] = c /\ pc[t] = "clear")) =>
          /\ Given \cap Moving(c) = {}
          /\ \A i \in Given \cup Moving(c) : i[1] = c => i[2] < lAllocIndex[c]
          /\ iFreeCount[c] = Cardinality(Owed(c))

\* With no call in progress _lUseCnt is the number of items with callers.
UseCountExact == (\A t \in Threads : pc[t] = "idle") => lUseCnt = Cardinality(Given)

\* All three counts, each within its type.
CountsExact == TypeOK /\ FreeCountExact /\ UseCountExact

\* The pool hands out items that nobody has.
Pool == INSTANCE BlockPool WITH Blocks <- Items
PoolSpec == Pool!Spec

=============================================================================
