------------------------------ MODULE LFStack ------------------------------
(***************************************************************************)
(* CLFStack: a stack without locks.  Its nodes come from a CLFMemoryPool,  *)
(* of which this module uses the promise only (BlockPool): a node somebody *)
(* gave back may be handed out again at once.  One step is one access to   *)
(* shared memory; what a thread does to a node nobody else can reach joins *)
(* the step before it.                                                     *)
(***************************************************************************)
EXTENDS Integers, Sequences, FiniteSets

CONSTANTS Threads,
          Nodes,     \* the nodes the pool can hand out
          NoNode,    \* nullptr
          MaxCalls   \* bound: calls of Push and Pop

ASSUME NodeAssumption == NoNode \notin Nodes /\ IsFiniteSet(Nodes)
ASSUME ThreadAssumption == IsFiniteSet(Threads)
ASSUME BoundAssumption == MaxCalls \in Nat

VARIABLES top,            \* _pTopNode: [node, tag]
          Data, pNextNode,   \* the two fields of every node
          iUnique,        \* _iUnique, the source of tags
          lUseSize,
          live,           \* the nodes the pool has handed out
          pc,
          local,          \* the locals of each thread's call
          result,         \* history: the value the last Pop returned
          calls           \* the calls so far; a Push pushes its number

vars == <<top, Data, pNextNode, iUnique, lUseSize, live, pc, local, result, calls>>

\* The locals: iUnique, stTopNode_Copy, pNode_New, pNode_Next and pOutData.
Fresh == [unique |-> 0, copy |-> [node |-> NoNode, tag |-> 0],
          new |-> NoNode, next |-> NoNode, data |-> 0]

Init ==
    /\ top = [node |-> NoNode, tag |-> 0]
    /\ Data = [n \in Nodes |-> 0]
    /\ pNextNode = [n \in Nodes |-> NoNode]
    /\ iUnique = 0
    /\ lUseSize = 0
    /\ live = {}
    /\ pc = [t \in Threads |-> "idle"]
    /\ local = [t \in Threads |-> Fresh]
    /\ result = 0
    /\ calls = 0

Goto(t, l)         == pc' = [pc EXCEPT ![t] = l]
Moves(t, from, to) == pc[t] = from /\ Goto(t, to)
Return(t)          == Goto(t, "idle") /\ local' = [local EXCEPT ![t] = Fresh]

NewTag(t) ==
    /\ iUnique' = iUnique + 1
    /\ local' = [local EXCEPT ![t].unique = iUnique + 1]

\* Slip: the exchange compares the node and not the tag.
SameNode(t) == top.node = local[t].copy.node

\* InterlockedCompareExchange128 finds what the thread copied.
Unchanged(t) == top = local[t].copy
Exchange(t, n) == top' = [node |-> n, tag |-> local[t].unique]

CopyTag(t) == local' = [local EXCEPT ![t].copy.tag = top.tag]
CopyTop(t) == local' = [local EXCEPT ![t].copy.node = top.node]

---------------------------------------------------------------------------
(* Push() *)

PushCall(t) ==
    /\ Moves(t, "idle", "punique")
    /\ calls < MaxCalls
    /\ calls' = calls + 1
    /\ \E n \in Nodes \ live :
          /\ live' = live \cup {n}
          /\ Data' = [Data EXCEPT ![n] = calls + 1]
          /\ pNextNode' = [pNextNode EXCEPT ![n] = NoNode]
          /\ local' = [local EXCEPT ![t].new = n]
    /\ UNCHANGED <<top, iUnique, lUseSize, result>>

PushUnique(t) ==
    /\ Moves(t, "punique", "ptag")
    /\ NewTag(t)
    /\ UNCHANGED <<top, Data, pNextNode, lUseSize, live, result, calls>>

PushTag(t) ==
    /\ Moves(t, "ptag", "ptop")
    /\ CopyTag(t)
    /\ UNCHANGED <<top, Data, pNextNode, iUnique, lUseSize, live, result, calls>>

PushTop(t) ==
    /\ Moves(t, "ptop", "plink")
    /\ CopyTop(t)
    /\ UNCHANGED <<top, Data, pNextNode, iUnique, lUseSize, live, result, calls>>

\* The top is read once more for the link.
PushLink(t) ==
    /\ Moves(t, "plink", "pcas")
    /\ pNextNode' = [pNextNode EXCEPT ![local[t].new] = top.node]
    /\ UNCHANGED <<top, Data, iUnique, lUseSize, live, local, result, calls>>

\* Slip: after a failure the copy is new and the link is not.
PushCASOldLink(t) ==
    /\ pc[t] = "pcas"
    /\ \/ Unchanged(t) /\ Exchange(t, local[t].new) /\ Goto(t, "pcount") /\ UNCHANGED local
       \/ /\ ~Unchanged(t)
          /\ local' = [local EXCEPT ![t].copy = top]
          /\ UNCHANGED <<top, pc>>
    /\ UNCHANGED <<Data, pNextNode, iUnique, lUseSize, live, result, calls>>

PushCAS(t) ==
    /\ pc[t] = "pcas"
    /\ \/ Unchanged(t) /\ Exchange(t, local[t].new) /\ Goto(t, "pcount")
       \/ ~Unchanged(t) /\ Goto(t, "ptag") /\ UNCHANGED top
    /\ UNCHANGED <<Data, pNextNode, iUnique, lUseSize, live, local, result, calls>>

\* Slip: the node is not counted.
PushNoCount(t) ==
    /\ pc[t] = "pcount"
    /\ Return(t)
    /\ UNCHANGED <<top, Data, pNextNode, iUnique, lUseSize, live, result, calls>>

PushCount(t) ==
    /\ pc[t] = "pcount"
    /\ lUseSize' = lUseSize + 1
    /\ Return(t)
    /\ UNCHANGED <<top, Data, pNextNode, iUnique, live, result, calls>>

---------------------------------------------------------------------------
(* Pop() *)

PopCall(t) ==
    /\ Moves(t, "idle", "count")
    /\ calls < MaxCalls
    /\ calls' = calls + 1
    /\ UNCHANGED <<top, Data, pNextNode, iUnique, lUseSize, live, local, result>>

\* Slip: the value before the decrement is compared.
PopCountOld(t) ==
    /\ pc[t] = "count"
    /\ lUseSize' = lUseSize - 1
    /\ Goto(t, IF lUseSize < 0 THEN "undo" ELSE "unique")
    /\ UNCHANGED <<top, Data, pNextNode, iUnique, live, local, result, calls>>

\* if (InterlockedDecrement(&_lUseSize) < 0)
PopCount(t) ==
    /\ pc[t] = "count"
    /\ lUseSize' = lUseSize - 1
    /\ Goto(t, IF lUseSize - 1 < 0 THEN "undo" ELSE "unique")
    /\ UNCHANGED <<top, Data, pNextNode, iUnique, live, local, result, calls>>

\* Slip: a Pop that fails keeps what it took from the count.
PopNoUndo(t) ==
    /\ pc[t] = "undo"
    /\ Return(t)
    /\ UNCHANGED <<top, Data, pNextNode, iUnique, lUseSize, live, result, calls>>

\* return false
PopUndo(t) ==
    /\ pc[t] = "undo"
    /\ lUseSize' = lUseSize + 1
    /\ Return(t)
    /\ UNCHANGED <<top, Data, pNextNode, iUnique, live, result, calls>>

PopUnique(t) ==
    /\ Moves(t, "unique", "tag")
    /\ NewTag(t)
    /\ UNCHANGED <<top, Data, pNextNode, lUseSize, live, result, calls>>

PopTag(t) ==
    /\ Moves(t, "tag", "top")
    /\ CopyTag(t)
    /\ UNCHANGED <<top, Data, pNextNode, iUnique, lUseSize, live, result, calls>>

PopTop(t) ==
    /\ Moves(t, "top", "next")
    /\ CopyTop(t)
    /\ UNCHANGED <<top, Data, pNextNode, iUnique, lUseSize, live, result, calls>>

\* The node may be gone, or used again, by the time its fields are read.
PopNext(t) ==
    /\ Moves(t, "next", "data")
    /\ local' = [local EXCEPT ![t].next = pNextNode[local[t].copy.node]]
    /\ UNCHANGED <<top, Data, pNextNode, iUnique, lUseSize, live, result, calls>>

PopData(t) ==
    /\ Moves(t, "data", "cas")
    /\ local' = [local EXCEPT ![t].data = Data[local[t].copy.node]]
    /\ UNCHANGED <<top, Data, pNextNode, iUnique, lUseSize, live, result, calls>>

PopCAS(t) ==
    /\ pc[t] = "cas"
    /\ \/ /\ Unchanged(t)
          /\ Exchange(t, local[t].next)
          /\ result' = local[t].data
          /\ Goto(t, "free")
       \/ ~Unchanged(t) /\ Goto(t, "tag") /\ UNCHANGED <<top, result>>
    /\ UNCHANGED <<Data, pNextNode, iUnique, lUseSize, live, local, calls>>

\* return true
PopFree(t) ==
    /\ pc[t] = "free"
    /\ live' = live \ {local[t].copy.node}
    /\ Return(t)
    /\ UNCHANGED <<top, Data, pNextNode, iUnique, lUseSize, result, calls>>

---------------------------------------------------------------------------

Next ==
    \E t \in Threads :
        \/ PushCall(t) \/ PushUnique(t) \/ PushTag(t) \/ PushTop(t) \/ PushLink(t)
        \/ PushCAS(t) \/ PushCount(t)
        \/ PopCall(t) \/ PopCount(t) \/ PopUndo(t) \/ PopUnique(t) \/ PopTag(t)
        \/ PopTop(t) \/ PopNext(t) \/ PopData(t) \/ PopCAS(t) \/ PopFree(t)

Spec == Init /\ [][Next]_vars

---------------------------------------------------------------------------
(* Properties *)

\* The node n links behind the top; the nodes and the values of the stack.
Nth[n \in 0..Cardinality(Nodes)] ==
    IF n = 0 THEN top.node
    ELSE IF Nth[n - 1] = NoNode THEN NoNode ELSE pNextNode[Nth[n - 1]]
Linked == {Nth[n] : n \in DOMAIN Nth} \ {NoNode}
Stack  == [i \in 1..Cardinality(Linked) |-> Data[Nth[i - 1]]]

Pushing == {t \in Threads : pc[t] \in {"punique", "ptag", "ptop", "plink", "pcas"}}
Popping == {t \in Threads : pc[t] \in {"unique", "tag", "top", "next", "data", "cas"}}
Freeing == {t \in Threads : pc[t] = "free"}

Locals == [unique : Nat, copy : [node : Nodes \cup {NoNode}, tag : Nat],
           new : Nodes \cup {NoNode}, next : Nodes \cup {NoNode}, data : Nat]

\* The count falls below zero only while Pops that fail are putting it back.
TypeOK ==
    /\ top \in [node : Nodes \cup {NoNode}, tag : Nat]
    /\ Data \in [Nodes -> Nat]
    /\ pNextNode \in [Nodes -> Nodes \cup {NoNode}]
    /\ lUseSize \in -Cardinality(Threads)..Cardinality(Nodes)
    /\ {iUnique, result, calls} \subseteq Nat
    /\ live \subseteq Nodes
    /\ local \in [Threads -> Locals]

\* The links meet every node of the stack once and end, and every node taken
\* from the pool has one owner: the stack, a Push that has not linked it, or a
\* Pop that has unlinked it.
StackIntact ==
    LET new == {local[t].new : t \in Pushing}
        old == {local[t].copy.node : t \in Freeing}
    IN  /\ \A i, j \in DOMAIN Nth : i < j /\ Nth[i] # NoNode => Nth[i] # Nth[j]
        /\ live = Linked \cup new \cup old
        /\ Linked \cap (new \cup old) = {}
        /\ Cardinality(new \cup old) = Cardinality(Pushing) + Cardinality(Freeing)

\* A Pop that got its share of the count finds a node for it, so it never
\* follows a null top.
EnoughNodes == Cardinality(Popping) <= Cardinality(Linked)

\* A Pop fails only when there are no more values in the stack than other
\* calls in progress; alone it fails only on the empty stack.
FalseMeansBusy ==
    \A t \in Threads :
        pc[t] = "count" /\ lUseSize <= 0 =>
            Cardinality(Linked) <= Cardinality({u \in Threads \ {t} : pc[u] # "idle"})

\* The count stays within the numbers of nodes and of failing Pops; with no call
\* in progress GetUseSize() is the number of values.
SizeExact ==
    /\ TypeOK
    /\ (\A t \in Threads : pc[t] = "idle") => lUseSize = Cardinality(Linked)

\* Each Push and each Pop takes effect at its exchange, as on a plain stack.
Lifo == INSTANCE LifoStack WITH Values <- 1..MaxCalls, Nothing <- 0, stack <- Stack
StackSpec == Lifo!Spec

=============================================================================
