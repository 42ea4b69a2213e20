------------------------------- MODULE LFPool -------------------------------
(***************************************************************************)
(* CLFMemoryPool: a pool of blocks without locks.  Free blocks form a list *)
(* behind a top that carries a tag; Alloc and Free replace top and tag     *)
(* with one double-word compare-and-exchange.  One step is one access to   *)
(* shared memory.                                                          *)
(*                                                                         *)
(* Every use in the repository builds the pool with no initial blocks, so  *)
(* _bFreelist is TRUE and a request the list cannot serve takes a new      *)
(* block.  Blocks never go back to the heap, so reading the link of a      *)
(* block that has left the list is harmless by itself.                     *)
(***************************************************************************)
EXTENDS Integers, FiniteSets

CONSTANTS Threads,
          Blocks,    \* the blocks malloc can return
          NoBlock,   \* nullptr
          MaxCalls   \* bound: calls of Alloc and Free

ASSUME BlockAssumption == NoBlock \notin Blocks /\ IsFiniteSet(Blocks)
ASSUME BoundAssumption == MaxCalls \in Nat

VARIABLES top,         \* _pTop: [block, tag]
          pNextBlock,  \* the link in front of every block
          iUnique,     \* _iUnique, the source of tags
          lUseSize, lAllocSize,
          pc,
          local,       \* the locals of each thread's call
          known,       \* the blocks malloc has returned
          given,       \* given[b]: how many callers have block b
          calls        \* the calls so far

size == <<lUseSize, lAllocSize>>
vars == <<top, pNextBlock, iUnique, lUseSize, lAllocSize, pc, local, known, given, calls>>

\* The locals: lAllocCount, iUnique, stTopNode_Copy, the link Alloc read and
\* the block being freed.
Fresh == [count |-> 0, unique |-> 0, copy |-> [block |-> NoBlock, tag |-> 0],
          next |-> NoBlock, node |-> NoBlock]

Init ==
    /\ top = [block |-> NoBlock, tag |-> 0]
    /\ pNextBlock = [b \in Blocks |-> NoBlock]
    /\ iUnique = 0
    /\ lUseSize = 0
    /\ lAllocSize = 0
    /\ pc = [t \in Threads |-> "idle"]
    /\ local = [t \in Threads |-> Fresh]
    /\ known = {}
    /\ given = [b \in Blocks |-> 0]
    /\ calls = 0

Goto(t, l)         == pc' = [pc EXCEPT ![t] = l]
Moves(t, from, to) == pc[t] = from /\ Goto(t, to)
Return(t)          == Goto(t, "idle") /\ local' = [local EXCEPT ![t] = Fresh]

\* The blocks in the hands of callers.
Given == {b \in Blocks : given[b] > 0}
HandOut(b) == given' = [given EXCEPT ![b] = @ + 1]

Call(t, first) == Moves(t, "idle", first) /\ calls < MaxCalls /\ calls' = calls + 1

\* InterlockedIncrement64(&_iUnique)
NewTag(t) ==
    /\ iUnique' = iUnique + 1
    /\ local' = [local EXCEPT ![t].unique = iUnique + 1]

\* Slip: the exchange compares the block and not the tag.
SameBlock(t) == top.block = local[t].copy.block

\* InterlockedCompareExchange128 finds what the thread copied.
Unchanged(t) == top = local[t].copy
Exchange(t, b) == top' = [block |-> b, tag |-> local[t].unique]

---------------------------------------------------------------------------
(* Alloc() *)

AllocCall(t) ==
    /\ Call(t, "use")
    /\ local' = [local EXCEPT ![t].count = lAllocSize]
    /\ UNCHANGED <<top, pNextBlock, iUnique, size, known, given>>

\* Slip: the value before the increment is compared.
AllocUseOld(t) ==
    /\ pc[t] = "use"
    /\ lUseSize' = lUseSize + 1
    /\ Goto(t, IF local[t].count < lUseSize THEN "new" ELSE "unique")
    /\ UNCHANGED <<top, pNextBlock, iUnique, lAllocSize, local, known, given, calls>>

\* if (lAllocCount < InterlockedIncrement64(&_lUseSize))
AllocUse(t) ==
    /\ pc[t] = "use"
    /\ lUseSize' = lUseSize + 1
    /\ Goto(t, IF local[t].count < lUseSize + 1 THEN "new" ELSE "unique")
    /\ UNCHANGED <<top, pNextBlock, iUnique, lAllocSize, local, known, given, calls>>

\* Slip: a new block is not counted.
AllocNewUncounted(t) ==
    /\ pc[t] = "new"
    /\ \E b \in Blocks \ known :
          /\ known' = known \cup {b}
          /\ HandOut(b)
    /\ Return(t)
    /\ UNCHANGED <<top, pNextBlock, iUnique, size, calls>>

\* malloc() returns a block nobody knows; its link is not set.
AllocNew(t) ==
    /\ pc[t] = "new"
    /\ \E b \in Blocks \ known :
          /\ known' = known \cup {b}
          /\ HandOut(b)
    /\ lAllocSize' = lAllocSize + 1
    /\ Return(t)
    /\ UNCHANGED <<top, pNextBlock, iUnique, lUseSize, calls>>

AllocUnique(t) ==
    /\ Moves(t, "unique", "atag")
    /\ NewTag(t)
    /\ UNCHANGED <<top, pNextBlock, size, known, given, calls>>

\* The tag is copied before the block, so that a copy that mixes two tops
\* carries the older tag.
AllocTag(t) ==
    /\ Moves(t, "atag", "atop")
    /\ local' = [local EXCEPT ![t].copy.tag = top.tag]
    /\ UNCHANGED <<top, pNextBlock, iUnique, size, known, given, calls>>

AllocTop(t) ==
    /\ Moves(t, "atop", "aptr")
    /\ local' = [local EXCEPT ![t].copy.block = top.block]
    /\ UNCHANGED <<top, pNextBlock, iUnique, size, known, given, calls>>

\* _pTop->pTopBlock is read again, ...
AllocPtr(t) ==
    /\ Moves(t, "aptr", "anext")
    /\ local' = [local EXCEPT ![t].next = top.block]
    /\ UNCHANGED <<top, pNextBlock, iUnique, size, known, given, calls>>

\* ... and then the link of the block it names.
AllocNext(t) ==
    /\ Moves(t, "anext", "acas")
    /\ local' = [local EXCEPT ![t].next = pNextBlock[local[t].next]]
    /\ UNCHANGED <<top, pNextBlock, iUnique, size, known, given, calls>>

\* Slip: the result of the exchange is not looked at.
AllocCASOnce(t) ==
    /\ pc[t] = "acas"
    /\ IF Unchanged(t) THEN Exchange(t, local[t].next) ELSE UNCHANGED top
    /\ HandOut(local[t].copy.block)
    /\ Return(t)
    /\ UNCHANGED <<pNextBlock, iUnique, size, known, calls>>

AllocCAS(t) ==
    /\ pc[t] = "acas"
    /\ \/ /\ Unchanged(t)
          /\ Exchange(t, local[t].next)
          /\ HandOut(local[t].copy.block)
          /\ Return(t)
       \/ ~Unchanged(t) /\ Goto(t, "atag") /\ UNCHANGED <<top, local, given>>
    /\ UNCHANGED <<pNextBlock, iUnique, size, known, calls>>

---------------------------------------------------------------------------
(* Free() *)

FreeCall(t) ==
    /\ Call(t, "ftag")
    /\ iUnique' = iUnique + 1
    /\ \E b \in Given :
          /\ given' = [given EXCEPT ![b] = @ - 1]
          /\ local' = [local EXCEPT ![t].unique = iUnique + 1, ![t].node = b]
    /\ UNCHANGED <<top, pNextBlock, size, known>>

FreeTag(t) ==
    /\ Moves(t, "ftag", "ftop")
    /\ local' = [local EXCEPT ![t].copy.tag = top.tag]
    /\ UNCHANGED <<top, pNextBlock, iUnique, size, known, given, calls>>

FreeTop(t) ==
    /\ Moves(t, "ftop", "flink")
    /\ local' = [local EXCEPT ![t].copy.block = top.block]
    /\ UNCHANGED <<top, pNextBlock, iUnique, size, known, given, calls>>

FreeLink(t) ==
    /\ Moves(t, "flink", "fcas")
    /\ pNextBlock' = [pNextBlock EXCEPT ![local[t].node] = top.block]
    /\ UNCHANGED <<top, iUnique, size, local, known, given, calls>>

\* Slip: the loop repeats the exchange alone.
FreeCASOnly(t) ==
    /\ pc[t] = "fcas"
    /\ \/ Unchanged(t) /\ Exchange(t, local[t].node) /\ Goto(t, "fuse")
       \/ ~Unchanged(t) /\ UNCHANGED <<top, pc>>
    /\ UNCHANGED <<pNextBlock, iUnique, size, local, known, given, calls>>

FreeCAS(t) ==
    /\ pc[t] = "fcas"
    /\ \/ Unchanged(t) /\ Exchange(t, local[t].node) /\ Goto(t, "fuse")
       \/ ~Unchanged(t) /\ Goto(t, "ftag") /\ UNCHANGED top
    /\ UNCHANGED <<pNextBlock, iUnique, size, local, known, given, calls>>

FreeUse(t) ==
    /\ pc[t] = "fuse"
    /\ lUseSize' = lUseSize - 1
    /\ Return(t)
    /\ UNCHANGED <<top, pNextBlock, iUnique, lAllocSize, known, given, calls>>

---------------------------------------------------------------------------

Step(t) ==
    \/ AllocUse(t) \/ AllocNew(t) \/ AllocUnique(t) \/ AllocTag(t) \/ AllocTop(t)
    \/ AllocPtr(t) \/ AllocNext(t) \/ AllocCAS(t)
    \/ FreeTag(t) \/ FreeTop(t) \/ FreeLink(t) \/ FreeCAS(t) \/ FreeUse(t)

Next == \E t \in Threads : AllocCall(t) \/ FreeCall(t) \/ Step(t)

Spec == Init /\ [][Next]_vars

\* A thread inside a call runs on.
FairSpec == Spec /\ \A t \in Threads : WF_vars(Step(t))

---------------------------------------------------------------------------
(* Properties *)

\* The block n links behind the top, and the blocks of the free list.
Nth[n \in 0..Cardinality(Blocks)] ==
    IF n = 0 THEN top.block
    ELSE IF Nth[n - 1] = NoBlock THEN NoBlock ELSE pNextBlock[Nth[n - 1]]
FreeBlocks == {Nth[n] : n \in DOMAIN Nth} \ {NoBlock}

Popping == {t \in Threads : pc[t] \in {"unique", "atag", "atop", "aptr", "anext", "acas"}}
Pushing == {t \in Threads : pc[t] \in {"ftag", "ftop", "flink", "fcas"}}

Locals == [count : Nat, unique : Nat, copy : [block : Blocks \cup {NoBlock}, tag : Nat],
           next : Blocks \cup {NoBlock}, node : Blocks \cup {NoBlock}]
TypeOK ==
    /\ top \in [block : Blocks \cup {NoBlock}, tag : Nat]
    /\ pNextBlock \in [Blocks -> Blocks \cup {NoBlock}]
    /\ {iUnique, lUseSize, lAllocSize, calls} \subseteq Nat
    /\ local \in [Threads -> Locals]
    /\ given \in [Blocks -> Nat]
    /\ known \subseteq Blocks

\* Following the links from the top meets every free block once and ends, and
\* every block is in one place: in the list, with a caller, or on its way back.
FreeListIntact ==
    /\ \A i, j \in DOMAIN Nth : i < j /\ Nth[i] # NoBlock => Nth[i] # Nth[j]
    /\ known = FreeBlocks \cup Given \cup {local[t].node : t \in Pushing}
    /\ FreeBlocks \cap Given = {}
    /\ \A t \in Pushing : local[t].node \notin FreeBlocks \cup Given
    /\ \A t, u \in Pushing : t # u => local[t].node # local[u].node

\* A thread that has decided for the free list finds a block there, although
\* it decided by two counters read at different moments: the list is never
\* shorter than the number of threads taking from it.
EnoughFree == Cardinality(Popping) <= Cardinality(FreeBlocks)

\* With no call in progress the counters are what GetUseSize() and
\* GetAllocSize() promise; no counter is ever negative.
CountersExact ==
    /\ TypeOK
    /\ (\A t \in Threads : pc[t] = "idle") =>
          lUseSize = Cardinality(Given) /\ lAllocSize = Cardinality(known)

\* A call ends, unless malloc() has no block for it: an exchange fails only
\* because another one succeeded.
NoMemory(t) == pc[t] = "new" /\ known = Blocks
CallsReturn == \A t \in Threads : pc[t] # "idle" ~> (pc[t] = "idle" \/ NoMemory(t))

\* The pool hands out blocks that nobody has.
Pool == INSTANCE BlockPool
PoolSpec == Pool!Spec

=============================================================================
