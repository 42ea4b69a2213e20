--------------------------- MODULE LFStackProofs ---------------------------
(***************************************************************************)
(* What CLFStack keeps for any number of threads, nodes and calls: the     *)
(* nodes behind the top stay a list although a node may be taken, freed    *)
(* and linked again while others still read it, a Pop that got its share   *)
(* of the count finds a node, and every exchange is a push or a pop of a   *)
(* plain stack.                                                            *)
(***************************************************************************)
EXTENDS LFStack, FiniteSetTheorems, SequenceTheorems, WellFoundedInduction, TLAPS

USE NodeAssumption, ThreadAssumption, BoundAssumption
    DEF NodeAssumption, ThreadAssumption, BoundAssumption

---------------------------------------------------------------------------
(* The list behind the top *)

\* f is the list of the nodes of the stack, from the top on.
Chain(f) ==
    /\ f \in Seq(Nodes)
    /\ top.node = IF Len(f) = 0 THEN NoNode ELSE f[1]
    /\ \A i \in 1..Len(f) : pNextNode[f[i]] = IF i = Len(f) THEN NoNode ELSE f[i + 1]
    /\ \A i, j \in 1..Len(f) : i # j => f[i] # f[j]
In(f) == {f[i] : i \in 1..Len(f)}

\* The equation of Nth, for any function.
Follows(g) == g = [n \in 0..Cardinality(Nodes) |->
                    IF n = 0 THEN top.node
                    ELSE IF g[n - 1] = NoNode THEN NoNode ELSE pNextNode[g[n - 1]]]

LEMMA ChainCount ==
    ASSUME NEW f, Chain(f)
    PROVE  /\ IsFiniteSet(In(f)) /\ Cardinality(In(f)) = Len(f) /\ Len(f) \in Nat
           /\ Len(f) <= Cardinality(Nodes) /\ Cardinality(Nodes) \in Nat
<1>1. f \in Bijection(1..Len(f), In(f))
  <2>1. f \in [1..Len(f) -> In(f)]
    BY DEF Chain, In
  <2> QED
    BY <2>1 DEF Chain, In, Bijection, Injection, Surjection, IsInjective
<1>2. IsFiniteSet(1..Len(f)) /\ Cardinality(1..Len(f)) = Len(f) /\ Len(f) \in Nat
  <2>1. Len(f) \in Nat
    BY DEF Chain
  <2>2. IsFiniteSet(1..Len(f)) /\ Cardinality(1..Len(f)) = IF 1 > Len(f) THEN 0 ELSE Len(f) - 1 + 1
    BY <2>1, FS_Interval
  <2> QED
    BY <2>1, <2>2
<1>3. ExistsBijection(1..Len(f), In(f))
  BY <1>1 DEF ExistsBijection
<1>4. IsFiniteSet(In(f)) /\ Cardinality(In(f)) = Len(f)
  BY <1>2, <1>3, FS_Bijection
<1>5. In(f) \subseteq Nodes
  BY DEF Chain, In
<1>6. Cardinality(In(f)) <= Cardinality(Nodes) /\ Cardinality(Nodes) \in Nat
  BY <1>5, FS_Subset, FS_CardinalityType
<1> QED
  BY <1>2, <1>4, <1>6

LEMMA ChainIsNth ==
    ASSUME NEW f, Chain(f)
    PROVE  Nth = [n \in 0..Cardinality(Nodes) |-> IF n < Len(f) THEN f[n + 1] ELSE NoNode]
<1> DEFINE g == [n \in 0..Cardinality(Nodes) |-> IF n < Len(f) THEN f[n + 1] ELSE NoNode]
<1>1. Len(f) \in Nat /\ \A i \in 1..Len(f) : f[i] \in Nodes /\ f[i] # NoNode
  BY DEF Chain
<1>2. Follows(g)
  <2>1. ASSUME NEW n \in 0..Cardinality(Nodes)
        PROVE  g[n] = IF n = 0 THEN top.node
                      ELSE IF g[n - 1] = NoNode THEN NoNode ELSE pNextNode[g[n - 1]]
    <3>1. Cardinality(Nodes) \in Nat
      BY FS_CardinalityType
    <3>2. CASE n = 0
      BY <1>1, <3>1, <3>2 DEF Chain
    <3>3. CASE n # 0
      <4>1. n - 1 \in 0..Cardinality(Nodes)
        BY <3>1, <3>3
      <4>2. g[n - 1] = IF n - 1 < Len(f) THEN f[n] ELSE NoNode
        BY <4>1, <3>1, <3>3
      <4>3. n \in 1..Len(f) => pNextNode[f[n]] = IF n = Len(f) THEN NoNode ELSE f[n + 1]
        BY <3>1 DEF Chain
      <4> QED
        BY <1>1, <3>1, <3>3, <4>2, <4>3
    <3> QED
      BY <3>2, <3>3
  <2> QED
    BY <2>1 DEF Follows
<1>3. Follows(Nth)
  BY <1>2 DEF Nth, Follows
<1>4. \A n \in 0..Cardinality(Nodes) : Nth[n] = g[n]
  <2> DEFINE Bad == {n \in 0..Cardinality(Nodes) : Nth[n] # g[n]}
  <2> SUFFICES ASSUME Bad # {} PROVE FALSE
    OBVIOUS
  <2>1. Cardinality(Nodes) \in Nat
    BY FS_CardinalityType
  <2>2. Bad \subseteq Nat
    BY <2>1
  <2>3. PICK n \in Bad : \A m \in Bad : <<m, n>> \notin OpToRel(<, Nat)
    BY <2>2, WFMin, NatLessThanWellFounded
  <2>4. \A m \in Bad : ~(m < n)
    BY <2>2, <2>3 DEF OpToRel
  <2>5. n # 0
    BY <1>2, <1>3, <2>1 DEF Follows
  <2>6. n - 1 \in 0..Cardinality(Nodes) /\ n - 1 \notin Bad
    BY <2>1, <2>4, <2>5
  <2>7. Nth[n - 1] = g[n - 1]
    BY <2>6
  <2>8. n \in 0..Cardinality(Nodes) /\ Nth[n] # g[n]
    OBVIOUS
  <2>9. Nth[n] = IF Nth[n - 1] = NoNode THEN NoNode ELSE pNextNode[Nth[n - 1]]
    BY <1>3, <2>5, <2>8 DEF Follows
  <2>10. g[n] = IF g[n - 1] = NoNode THEN NoNode ELSE pNextNode[g[n - 1]]
    <3> HIDE DEF g
    <3> QED
      BY <1>2, <2>5, <2>8 DEF Follows
  <2> QED
    BY <2>7, <2>8, <2>9, <2>10
<1> QED
  BY <1>3, <1>4 DEF Follows

LEMMA LinkedIs == ASSUME NEW f, Chain(f) PROVE Linked = In(f) /\ Cardinality(Linked) = Len(f)
<1>1. Nth = [n \in 0..Cardinality(Nodes) |-> IF n < Len(f) THEN f[n + 1] ELSE NoNode]
  BY ChainIsNth
<1>2. Len(f) \in Nat /\ Cardinality(Nodes) \in Nat /\ Len(f) <= Cardinality(Nodes)
  BY ChainCount
<1>3. \A i \in 1..Len(f) : f[i] \in Nodes
  BY DEF Chain
<1>4. ASSUME NEW b \in Linked PROVE b \in In(f)
  <2>1. PICK n \in 0..Cardinality(Nodes) : b = Nth[n] /\ b # NoNode
    BY <1>1 DEF Linked
  <2>2. n < Len(f) /\ b = f[n + 1]
    BY <1>1, <2>1
  <2>3. n + 1 \in 1..Len(f)
    BY <1>2, <2>2
  <2> QED
    BY <2>2, <2>3 DEF In
<1>5. ASSUME NEW b \in In(f) PROVE b \in Linked
  <2>1. PICK i \in 1..Len(f) : b = f[i]
    BY DEF In
  <2>2. i - 1 \in 0..Cardinality(Nodes) /\ i - 1 < Len(f)
    BY <1>2
  <2>3. Nth[i - 1] = f[(i - 1) + 1]
    BY <1>1, <2>2
  <2>4. Nth[i - 1] = b /\ i - 1 \in DOMAIN Nth
    BY <1>1, <1>2, <2>1, <2>2, <2>3
  <2>5. b # NoNode
    BY <1>3, <2>1
  <2> QED
    BY <2>4, <2>5 DEF Linked
<1>6. Linked = In(f)
  BY <1>4, <1>5
<1> QED
  BY <1>6, ChainCount

\* The values of the stack, along the list.
LEMMA StackIs == ASSUME NEW f, Chain(f) PROVE Stack = [i \in 1..Len(f) |-> Data[f[i]]]
<1>1. Stack = [i \in 1..Len(f) |-> Data[Nth[i - 1]]]
  BY LinkedIs DEF Stack
<1>2. ASSUME NEW i \in 1..Len(f) PROVE Nth[i - 1] = f[i]
  <2>1. i - 1 \in 0..Cardinality(Nodes) /\ i - 1 < Len(f)
    BY ChainCount
  <2>2. Nth[i - 1] = f[(i - 1) + 1]
    BY <2>1, ChainIsNth
  <2>3. (i - 1) + 1 = i
    BY ChainCount
  <2> QED
    BY <2>2, <2>3
<1> QED
  BY <1>1, <1>2

LEMMA ChainKept ==
    ASSUME NEW f, Chain(f), UNCHANGED top, \A m \in In(f) : pNextNode'[m] = pNextNode[m]
    PROVE  Chain(f)'
<1>1. \A i \in 1..Len(f) : pNextNode'[f[i]] = pNextNode[f[i]]
  BY DEF In
<1> QED
  BY <1>1 DEF Chain

LEMMA ChainTop ==
    ASSUME NEW f, Chain(f), top.node \in Nodes
    PROVE  Len(f) \in Nat \ {0} /\ top.node = f[1] /\ top.node \in In(f)
<1>1. f \in Seq(Nodes) /\ top.node = IF Len(f) = 0 THEN NoNode ELSE f[1]
  BY DEF Chain
<1>2. Len(f) \in Nat \ {0} /\ top.node = f[1] /\ 1 \in 1..Len(f)
  BY <1>1
<1> QED
  BY <1>2 DEF In

\* The top takes over the link of the first node.
LEMMA ChainPop ==
    ASSUME NEW f, Chain(f), top.node \in Nodes,
           top'.node = pNextNode[top.node], UNCHANGED pNextNode
    PROVE  \E g : /\ Chain(g)' /\ Len(g) = Len(f) - 1 /\ In(g) = In(f) \ {top.node}
                  /\ \A i \in 1..Len(g) : g[i] = f[i + 1]
<1> DEFINE g == [i \in 1..Len(f) - 1 |-> f[i + 1]]
<1>1. Len(f) \in Nat \ {0} /\ top.node = f[1]
  BY ChainTop
<1>2. \A i \in 1..Len(f) - 1 : i + 1 \in 1..Len(f) /\ f[i + 1] \in Nodes
  BY <1>1 DEF Chain
<1>3. g \in Seq(Nodes) /\ Len(g) = Len(f) - 1
  BY <1>1, <1>2
<1>4. \A i \in 1..Len(g) : g[i] = f[i + 1] /\ i + 1 \in 1..Len(f) /\ i + 1 # 1
  BY <1>1, <1>3
<1>5. \A i \in 1..Len(f) : i # 1 => i - 1 \in 1..Len(g) /\ g[i - 1] = f[i]
  BY <1>1, <1>3
<1> HIDE DEF g
<1>6. In(g) = In(f) \ {top.node}
  <2>1. In(g) \subseteq In(f) \ {top.node}
    <3>1. \A i \in 1..Len(g) : g[i] \in In(f)
      BY <1>4 DEF In
    <3>2. 1 \in 1..Len(f)
      BY <1>1
    <3>3. \A i \in 1..Len(g) : g[i] # f[1]
      BY <1>4, <3>2 DEF Chain
    <3> QED
      BY <1>1, <3>1, <3>3 DEF In
  <2>2. In(f) \ {top.node} \subseteq In(g)
    BY <1>1, <1>5 DEF In
  <2> QED
    BY <2>1, <2>2
<1>7. Chain(g)'
  <2>1. \A i \in 1..Len(f) : pNextNode[f[i]] = IF i = Len(f) THEN NoNode ELSE f[i + 1]
    BY DEF Chain
  <2>2. top'.node = IF Len(g) = 0 THEN NoNode ELSE g[1]
    <3>1. 1 \in 1..Len(f)
      BY <1>1
    <3>2. top'.node = IF 1 = Len(f) THEN NoNode ELSE f[1 + 1]
      BY <1>1, <2>1, <3>1
    <3>3. Len(g) # 0 => 1 \in 1..Len(g)
      BY <1>1, <1>3
    <3>4. Len(g) # 0 => g[1] = f[1 + 1]
      BY <1>4, <3>3
    <3>5. 1 = Len(f) <=> Len(g) = 0
      BY <1>1, <1>3
    <3> QED
      BY <3>2, <3>4, <3>5
  <2>3. ASSUME NEW i \in 1..Len(g)
        PROVE  pNextNode[g[i]] = IF i = Len(g) THEN NoNode ELSE g[i + 1]
    <3>1. pNextNode[g[i]] = IF i + 1 = Len(f) THEN NoNode ELSE f[(i + 1) + 1]
      BY <1>4, <2>1
    <3>2. i + 1 = Len(f) <=> i = Len(g)
      BY <1>1, <1>3
    <3>3. i # Len(g) => i + 1 \in 1..Len(g)
      BY <1>1, <1>3
    <3>4. i # Len(g) => g[i + 1] = f[(i + 1) + 1]
      BY <1>4, <3>3
    <3> QED
      BY <3>1, <3>2, <3>4
  <2>4. \A i, j \in 1..Len(g) : i # j => g[i] # g[j]
    <3>1. \A i, j \in 1..Len(f) : i # j => f[i] # f[j]
      BY DEF Chain
    <3>2. \A i, j \in 1..Len(g) : i # j => i + 1 # j + 1
      BY <1>1, <1>3
    <3> QED
      BY <1>4, <3>1, <3>2
  <2> QED
    BY <1>3, <2>2, <2>3, <2>4 DEF Chain
<1> QED
  BY <1>3, <1>4, <1>6, <1>7

\* A new node that links the top becomes the top.
LEMMA ChainPush ==
    ASSUME NEW f, Chain(f), NEW n \in Nodes, n \notin In(f),
           pNextNode[n] = top.node, top'.node = n, UNCHANGED pNextNode
    PROVE  \E g : /\ Chain(g)' /\ Len(g) = Len(f) + 1 /\ In(g) = In(f) \cup {n}
                  /\ g[1] = n /\ \A i \in 1..Len(f) : g[i + 1] = f[i]
<1> DEFINE g == [i \in 1..Len(f) + 1 |-> IF i = 1 THEN n ELSE f[i - 1]]
<1>1. Len(f) \in Nat /\ \A i \in 1..Len(f) : f[i] \in Nodes
  BY DEF Chain
<1>2. g \in Seq(Nodes) /\ Len(g) = Len(f) + 1
  <2>1. \A i \in 1..Len(f) + 1 : i = 1 \/ i - 1 \in 1..Len(f)
    BY <1>1
  <2> QED
    BY <1>1, <2>1
<1>3. g[1] = n /\ \A i \in 1..Len(f) : g[i + 1] = f[i] /\ i + 1 \in 1..Len(g)
  BY <1>1, <1>2
<1>4. \A i \in 1..Len(g) : i = 1 \/ \E j \in 1..Len(f) : i = j + 1
  <2>1. \A i \in 1..Len(g) : i # 1 => i - 1 \in 1..Len(f) /\ i = (i - 1) + 1
    BY <1>1, <1>2
  <2> QED
    BY <2>1
<1> HIDE DEF g
<1>5. In(g) = In(f) \cup {n}
  <2>1. In(g) \subseteq In(f) \cup {n}
    <3>1. ASSUME NEW i \in 1..Len(g) PROVE g[i] \in In(f) \cup {n}
      <4>1. CASE i = 1
        BY <1>3, <4>1
      <4>2. CASE i # 1
        BY <1>3, <1>4, <4>2 DEF In
      <4> QED
        BY <4>1, <4>2
    <3> QED
      BY <3>1 DEF In
  <2>2. In(f) \subseteq In(g)
    BY <1>3 DEF In
  <2>3. 1 \in 1..Len(g)
    BY <1>1, <1>2
  <2>4. n \in In(g)
    BY <1>3, <2>3 DEF In
  <2> QED
    BY <2>1, <2>2, <2>4
<1>6. Chain(g)'
  <2>1. top'.node = IF Len(g) = 0 THEN NoNode ELSE g[1]
    BY <1>1, <1>2, <1>3
  <2>2. ASSUME NEW i \in 1..Len(g)
        PROVE  pNextNode[g[i]] = IF i = Len(g) THEN NoNode ELSE g[i + 1]
    <3>1. CASE i = 1
      <4>1. pNextNode[g[i]] = IF Len(f) = 0 THEN NoNode ELSE f[1]
        BY <1>3, <3>1 DEF Chain
      <4>2. CASE Len(f) = 0
        BY <1>2, <3>1, <4>1, <4>2
      <4>3. CASE Len(f) # 0
        <5>1. 1 \in 1..Len(f)
          BY <1>1, <4>3
        <5>2. g[1 + 1] = f[1]
          BY <1>3, <5>1
        <5> QED
          BY <1>1, <1>2, <3>1, <4>1, <4>3, <5>2
      <4> QED
        BY <4>2, <4>3
    <3>2. CASE i # 1
      <4>1. PICK j \in 1..Len(f) : i = j + 1
        BY <1>4, <3>2
      <4>2. pNextNode[f[j]] = IF j = Len(f) THEN NoNode ELSE f[j + 1]
        BY DEF Chain
      <4>3. g[i] = f[j]
        BY <1>3, <4>1
      <4>4. j # Len(f) => j + 1 \in 1..Len(f)
        BY <1>1
      <4>5. j # Len(f) => g[i + 1] = f[j + 1]
        BY <1>3, <4>1, <4>4
      <4> QED
        BY <1>1, <1>2, <4>1, <4>2, <4>3, <4>5
    <3> QED
      BY <3>1, <3>2
  <2>3. \A i, j \in 1..Len(g) : i # j => g[i] # g[j]
    <3>1. \A i \in 1..Len(f) : g[i + 1] # n
      BY <1>3 DEF In
    <3>2. \A i, j \in 1..Len(f) : i # j => f[i] # f[j]
      BY DEF Chain
    <3>3. SUFFICES ASSUME NEW i \in 1..Len(g), NEW j \in 1..Len(g), i # j PROVE g[i] # g[j]
      OBVIOUS
    <3>4. CASE i = 1 \/ j = 1
      BY <1>3, <1>4, <3>1, <3>3, <3>4
    <3>5. CASE i # 1 /\ j # 1
      <4>1. PICK k \in 1..Len(f) : i = k + 1
        BY <1>4, <3>5
      <4>2. PICK l \in 1..Len(f) : j = l + 1
        BY <1>4, <3>5
      <4> QED
        BY <1>3, <3>2, <3>3, <4>1, <4>2
    <3> QED
      BY <3>4, <3>5
  <2> QED
    BY <1>2, <2>1, <2>2, <2>3 DEF Chain
<1> QED
  BY <1>2, <1>3, <1>5, <1>6

\* The same one step later.
LEMMA LinkedOfChain == \A f : Chain(f) => Linked = In(f) /\ Cardinality(Linked) = Len(f)
BY LinkedIs

LEMMA StackOfChain == \A f : Chain(f) => Stack = [i \in 1..Len(f) |-> Data[f[i]]]
BY StackIs

LEMMA LinkedOfChainLater == (\A f : Chain(f) => Linked = In(f) /\ Cardinality(Linked) = Len(f))'
BY LinkedOfChain, PTL

LEMMA StackOfChainLater == (\A f : Chain(f) => Stack = [i \in 1..Len(f) |-> Data[f[i]]])'
BY StackOfChain, PTL

LEMMA LinkedNext == ASSUME NEW f, Chain(f)' PROVE Linked' = In(f) /\ Cardinality(Linked') = Len(f)
<1>1. In(f)' = In(f)
  BY DEF In
<1> QED
  BY <1>1, LinkedOfChainLater

LEMMA StackNext == ASSUME NEW f, Chain(f)' PROVE Stack' = [i \in 1..Len(f) |-> Data'[f[i]]]
BY StackOfChainLater

---------------------------------------------------------------------------
(* The inductive invariant *)

PopCopied  == {"top", "next", "data", "cas"}
PushCopied == {"ptop", "plink", "pcas"}
\* A thread that has copied the tag of the top, and one with a tag not used yet.
Copied(t) == pc[t] \in PopCopied \cup PushCopied
Armed(t)  == pc[t] \in {"tag", "ptag"} \cup PopCopied \cup PushCopied

PcOK == pc \in [Threads -> {"idle", "punique", "ptag", "pcount", "count", "undo", "unique", "tag", "free"}
                           \cup PopCopied \cup PushCopied]

\* TypeOK with the bare type of the count; its bounds follow from CountInv.
TypeInv ==
    /\ top \in [node : Nodes \cup {NoNode}, tag : Nat]
    /\ Data \in [Nodes -> Nat]
    /\ pNextNode \in [Nodes -> Nodes \cup {NoNode}]
    /\ lUseSize \in Int
    /\ {iUnique, result, calls} \subseteq Nat
    /\ live \subseteq Nodes
    /\ local \in [Threads -> Locals]

\* A tag is given to one exchange, and nobody copies it before that one.
TagInv ==
    /\ top.tag <= iUnique
    /\ \A t \in Threads : Copied(t) => local[t].copy.tag <= iUnique
    /\ \A t \in Threads : Armed(t) =>
          /\ local[t].unique <= iUnique
          /\ local[t].unique # top.tag
          /\ \A u \in Threads : Copied(u) => local[u].copy.tag # local[t].unique
          /\ \A u \in Threads \ {t} : Armed(u) => local[u].unique # local[t].unique

\* While the tag is the one a thread copied, what it read since then is still so.
EpochInv ==
    \A t \in Threads : Copied(t) /\ local[t].copy.tag = top.tag =>
        /\ pc[t] \in {"plink", "pcas", "next", "data", "cas"} => local[t].copy.node = top.node
        /\ pc[t] \in {"data", "cas"} => local[t].next = pNextNode[top.node]
        /\ pc[t] = "cas" => local[t].data = Data[top.node]
        /\ pc[t] = "pcas" => pNextNode[local[t].new] = top.node

\* The calls that own a node outside the stack, and the node.
Owning == Pushing \cup Freeing
Own(t) == IF pc[t] = "free" THEN local[t].copy.node ELSE local[t].new
Held   == {Own(t) : t \in Owning}

OwnInv ==
    /\ \A t, u \in Owning : t # u => Own(t) # Own(u)
    /\ \A t \in Pushing : Data[Own(t)] \in 1..MaxCalls

ListInv ==
    /\ \E f : Chain(f)
    /\ live = Linked \cup Held
    /\ Linked \cap Held = {}

ReadInv == \A t \in Threads : pc[t] \in {"next", "data", "cas"} => local[t].copy.node \in Nodes

\* A node is in the list before it is counted and leaves it after its Pop has
\* taken it from the count; only Pops that fail bring the count below zero.
Counting == {t \in Threads : pc[t] = "pcount"}
Undoing  == {t \in Threads : pc[t] = "undo"}
CountInv ==
    /\ lUseSize + Cardinality(Counting) + Cardinality(Popping) + Cardinality(Undoing) = Cardinality(Linked)
    /\ lUseSize + Cardinality(Undoing) >= 0

SafeInv == TypeInv /\ PcOK /\ TagInv /\ EpochInv /\ OwnInv /\ ListInv /\ ReadInv /\ CountInv

---------------------------------------------------------------------------
(* What the steps share *)

LEMMA Sizes ==
    /\ IsFiniteSet(Counting) /\ IsFiniteSet(Popping) /\ IsFiniteSet(Undoing) /\ IsFiniteSet(Owning)
    /\ IsFiniteSet(Pushing) /\ IsFiniteSet(Freeing)
    /\ Cardinality(Counting) \in Nat /\ Cardinality(Popping) \in Nat /\ Cardinality(Undoing) \in Nat
<1>1. /\ Counting \subseteq Threads /\ Popping \subseteq Threads /\ Undoing \subseteq Threads
      /\ Owning \subseteq Threads /\ Pushing \subseteq Threads /\ Freeing \subseteq Threads
  BY DEF Counting, Popping, Undoing, Owning, Pushing, Freeing
<1>2. \A S : S \subseteq Threads => IsFiniteSet(S)
  BY FS_Subset
<1> QED
  BY <1>1, <1>2, FS_CardinalityType

\* A Pop that got its share of the count finds a node.
LEMMA PopFinds ==
    ASSUME SafeInv
    PROVE  Cardinality(Popping) <= Cardinality(Linked) /\ (Popping # {} => top.node \in Nodes)
<1>1. PICK f : Chain(f)
  BY DEF SafeInv, ListInv
<1>2. Cardinality(Linked) = Len(f) /\ Len(f) \in Nat
  BY <1>1, LinkedIs, ChainCount
<1>3. Cardinality(Popping) <= Cardinality(Linked)
  BY <1>2, Sizes DEF SafeInv, CountInv, TypeInv
<1>4. Popping # {} => Cardinality(Popping) # 0
  BY Sizes, FS_EmptySet
<1>5. Popping # {} => Len(f) # 0
  BY <1>2, <1>3, <1>4, Sizes
<1> QED
  BY <1>1, <1>2, <1>3, <1>5 DEF Chain

LEMMA Moved ==
    ASSUME PcOK, NEW t \in Threads, NEW l, Goto(t, l),
           l \in {"idle", "punique", "ptag", "pcount", "count", "undo", "unique", "tag", "free"}
                 \cup PopCopied \cup PushCopied
    PROVE  PcOK' /\ pc'[t] = l /\ \A u \in Threads \ {t} : pc'[u] = pc[u]
BY DEF PcOK, Goto

\* A step that changes nodes outside the stack only.
LEMMA StackKept ==
    ASSUME SafeInv, UNCHANGED top,
           \A m \in Linked : pNextNode'[m] = pNextNode[m] /\ Data'[m] = Data[m]
    PROVE  (\E f : Chain(f))' /\ Linked' = Linked /\ Stack' = Stack
<1>1. PICK f : Chain(f)
  BY DEF SafeInv, ListInv
<1>2. Linked = In(f) /\ Stack = [i \in 1..Len(f) |-> Data[f[i]]]
  BY <1>1, LinkedIs, StackIs
<1>3. Chain(f)'
  BY <1>1, <1>2, ChainKept
<1>4. Linked' = In(f) /\ Stack' = [i \in 1..Len(f) |-> Data'[f[i]]]
  BY <1>3, LinkedNext, StackNext
<1>5. \A i \in 1..Len(f) : Data'[f[i]] = Data[f[i]]
  BY <1>2 DEF In
<1> QED
  BY <1>2, <1>3, <1>4, <1>5

\* A step of one thread inside one part of its call, on its locals.
LEMMA Quiet ==
    ASSUME SafeInv, NEW t \in Threads, UNCHANGED <<top, Data, pNextNode, lUseSize, live>>,
           \A u \in Threads \ {t} : pc'[u] = pc[u] /\ local'[u] = local[u],
           t \in Pushing' <=> t \in Pushing, t \in Popping' <=> t \in Popping,
           t \in Freeing' <=> t \in Freeing, t \in Counting' <=> t \in Counting,
           t \in Undoing' <=> t \in Undoing,
           t \in Owning => Own(t)' = Own(t)
    PROVE  OwnInv' /\ ListInv' /\ CountInv' /\ Stack' = Stack
<1>1. Linked' = Linked /\ Stack' = Stack /\ (\E f : Chain(f))'
  BY StackKept
<1>2. Pushing' = Pushing /\ Popping' = Popping /\ Freeing' = Freeing /\ Counting' = Counting
      /\ Undoing' = Undoing
  BY DEF Pushing, Popping, Freeing, Counting, Undoing
<1>3. Owning' = Owning /\ \A u \in Owning : Own(u)' = Own(u)
  BY <1>2 DEF Owning, Own, Pushing, Freeing
<1>4. Held' = Held
  BY <1>3 DEF Held
<1>5. OwnInv'
  BY <1>2, <1>3 DEF OwnInv, SafeInv, Owning
<1>6. ListInv'
  BY <1>1, <1>4 DEF ListInv, SafeInv
<1>7. CountInv'
  BY <1>1, <1>2 DEF CountInv, SafeInv
<1> QED
  BY <1>1, <1>5, <1>6, <1>7

---------------------------------------------------------------------------
(* Steps on locals *)

LEMMA UniqueStep ==
    ASSUME SafeInv, NEW t \in Threads, PushUnique(t) \/ PopUnique(t)
    PROVE  SafeInv' /\ UNCHANGED <<Stack, result>>
<1> USE DEF SafeInv, PushUnique, PopUnique, Moves, NewTag
<1>1. /\ PcOK' /\ \A u \in Threads \ {t} : pc'[u] = pc[u]
      /\ \/ pc[t] = "punique" /\ pc'[t] = "ptag"
         \/ pc[t] = "unique" /\ pc'[t] = "tag"
  BY Moved
<1>2. /\ TypeInv' /\ local'[t].unique = iUnique + 1 /\ local'[t].new = local[t].new
      /\ local'[t].copy = local[t].copy /\ iUnique' = iUnique + 1
      /\ \A u \in Threads \ {t} : local'[u] = local[u]
      /\ UNCHANGED <<top, Data, pNextNode, lUseSize, live, result>>
  <2>1. iUnique \in Nat /\ iUnique + 1 \in Nat /\ local \in [Threads -> Locals]
    BY DEF TypeInv
  <2>2. local' = [local EXCEPT ![t].unique = iUnique + 1] /\ iUnique' = iUnique + 1
        /\ UNCHANGED <<top, Data, pNextNode, lUseSize, live, result, calls>>
    OBVIOUS
  <2>3. local' \in [Threads -> Locals]
    BY <2>1, <2>2 DEF Locals
  <2>4. TypeInv'
    BY <2>1, <2>2, <2>3 DEF TypeInv
  <2> QED
    BY <2>1, <2>2, <2>4 DEF Locals
<1>3. OwnInv' /\ ListInv' /\ CountInv' /\ Stack' = Stack
  BY <1>1, <1>2, Quiet DEF Pushing, Popping, Freeing, Counting, Undoing, Owning, Own
<1>4. TagInv'
  <2>1. /\ top.tag \in Nat /\ iUnique \in Nat
        /\ \A u \in Threads : local[u].unique \in Nat /\ local[u].copy.tag \in Nat
    BY DEF TypeInv, Locals
  <2>2. Armed(t)' /\ ~Copied(t)' /\ ~Copied(t)
    BY <1>1 DEF Armed, Copied, PopCopied, PushCopied
  <2>3. \A u \in Threads \ {t} : (Armed(u)' <=> Armed(u)) /\ (Copied(u)' <=> Copied(u))
    BY <1>1 DEF Armed, Copied
  <2> QED
    BY <1>2, <2>1, <2>2, <2>3 DEF TagInv
<1>5. EpochInv' /\ ReadInv'
  BY <1>1, <1>2 DEF EpochInv, ReadInv, Copied, PopCopied, PushCopied
<1> QED
  BY <1>1, <1>2, <1>3, <1>4, <1>5

LEMMA TagStep ==
    ASSUME SafeInv, NEW t \in Threads, PushTag(t) \/ PopTag(t)
    PROVE  SafeInv' /\ UNCHANGED <<Stack, result>>
<1> USE DEF SafeInv, PushTag, PopTag, Moves, CopyTag
<1>1. /\ PcOK' /\ \A u \in Threads \ {t} : pc'[u] = pc[u]
      /\ \/ pc[t] = "ptag" /\ pc'[t] = "ptop"
         \/ pc[t] = "tag" /\ pc'[t] = "top"
  BY Moved DEF PopCopied, PushCopied
<1>2. /\ TypeInv' /\ local'[t].copy.tag = top.tag /\ local'[t].new = local[t].new
      /\ local'[t].unique = local[t].unique
      /\ \A u \in Threads \ {t} : local'[u] = local[u]
      /\ UNCHANGED <<top, Data, pNextNode, iUnique, lUseSize, live, result>>
  BY DEF TypeInv, Locals
<1>3. OwnInv' /\ ListInv' /\ CountInv' /\ Stack' = Stack
  BY <1>1, <1>2, Quiet DEF Pushing, Popping, Freeing, Counting, Undoing, Owning, Own
<1>4. TagInv'
  BY <1>1, <1>2 DEF TagInv, Copied, Armed, PopCopied, PushCopied
<1>5. EpochInv' /\ ReadInv'
  BY <1>1, <1>2 DEF EpochInv, ReadInv, Copied, PopCopied, PushCopied
<1> QED
  BY <1>1, <1>2, <1>3, <1>4, <1>5

LEMMA TopStep ==
    ASSUME SafeInv, NEW t \in Threads, PushTop(t) \/ PopTop(t)
    PROVE  SafeInv' /\ UNCHANGED <<Stack, result>>
<1> USE DEF SafeInv, PushTop, PopTop, Moves, CopyTop
<1>1. /\ PcOK' /\ \A u \in Threads \ {t} : pc'[u] = pc[u]
      /\ \/ pc[t] = "ptop" /\ pc'[t] = "plink"
         \/ pc[t] = "top" /\ pc'[t] = "next" /\ top.node \in Nodes
  BY Moved, PopFinds DEF PopCopied, PushCopied, Popping
<1>2. /\ TypeInv' /\ local'[t].copy.node = top.node /\ local'[t].copy.tag = local[t].copy.tag
      /\ local'[t].new = local[t].new /\ local'[t].unique = local[t].unique
      /\ \A u \in Threads \ {t} : local'[u] = local[u]
      /\ UNCHANGED <<top, Data, pNextNode, iUnique, lUseSize, live, result>>
  BY DEF TypeInv, Locals
<1>3. OwnInv' /\ ListInv' /\ CountInv' /\ Stack' = Stack
  BY <1>1, <1>2, Quiet DEF Pushing, Popping, Freeing, Counting, Undoing, Owning, Own
<1>4. TagInv'
  BY <1>1, <1>2 DEF TagInv, Copied, Armed, PopCopied, PushCopied
<1>5. EpochInv' /\ ReadInv'
  BY <1>1, <1>2 DEF EpochInv, ReadInv, Copied, PopCopied, PushCopied
<1> QED
  BY <1>1, <1>2, <1>3, <1>4, <1>5

\* The fields of a node that may have left the stack.
LEMMA ReadStep ==
    ASSUME SafeInv, NEW t \in Threads, PopNext(t) \/ PopData(t)
    PROVE  SafeInv' /\ UNCHANGED <<Stack, result>>
<1> USE DEF SafeInv, PopNext, PopData, Moves
<1>1. /\ PcOK' /\ \A u \in Threads \ {t} : pc'[u] = pc[u]
      /\ \/ pc[t] = "next" /\ pc'[t] = "data" /\ PopNext(t)
         \/ pc[t] = "data" /\ pc'[t] = "cas" /\ PopData(t)
  BY Moved DEF PopCopied
<1>2. PICK n : n = local[t].copy.node
  OBVIOUS
<1>3. n \in Nodes /\ pNextNode[n] \in Nodes \cup {NoNode} /\ Data[n] \in Nat
  BY <1>1, <1>2 DEF ReadInv, TypeInv
<1>4. /\ TypeInv' /\ local'[t].copy = local[t].copy /\ local'[t].new = local[t].new
      /\ local'[t].unique = local[t].unique
      /\ pc'[t] = "data" => local'[t].next = pNextNode[n]
      /\ pc'[t] = "cas" => local'[t].next = local[t].next /\ local'[t].data = Data[n]
      /\ \A u \in Threads \ {t} : local'[u] = local[u]
      /\ UNCHANGED <<top, Data, pNextNode, iUnique, lUseSize, live, result>>
  <2>1. CASE PopNext(t)
    <3>1. local' = [local EXCEPT ![t].next = pNextNode[n]]
      BY <1>2, <2>1
    <3> QED
      BY <1>1, <1>3, <2>1, <3>1 DEF TypeInv, Locals
  <2>2. CASE PopData(t)
    <3>1. local' = [local EXCEPT ![t].data = Data[n]]
      BY <1>2, <2>2
    <3> QED
      BY <1>1, <1>3, <2>2, <3>1 DEF TypeInv, Locals
  <2> QED
    BY <1>1, <2>1, <2>2
<1>5. OwnInv' /\ ListInv' /\ CountInv' /\ Stack' = Stack
  BY <1>1, <1>4, Quiet DEF Pushing, Popping, Freeing, Counting, Undoing, Owning, Own
<1>6. TagInv'
  BY <1>1, <1>4 DEF TagInv, Copied, Armed, PopCopied, PushCopied
<1>7. EpochInv' /\ ReadInv'
  BY <1>1, <1>2, <1>4 DEF EpochInv, ReadInv, Copied, PopCopied, PushCopied
<1> QED
  BY <1>1, <1>4, <1>5, <1>6, <1>7

LEMMA PopCallStep ==
    ASSUME SafeInv, NEW t \in Threads, PopCall(t)
    PROVE  SafeInv' /\ UNCHANGED <<Stack, result>>
<1> USE DEF SafeInv, PopCall, Moves
<1>1. PcOK' /\ pc[t] = "idle" /\ pc'[t] = "count" /\ \A u \in Threads \ {t} : pc'[u] = pc[u]
  BY Moved
<1>2. TypeInv' /\ UNCHANGED <<top, Data, pNextNode, iUnique, lUseSize, live, local, result>>
  BY DEF TypeInv
<1>3. OwnInv' /\ ListInv' /\ CountInv' /\ Stack' = Stack
  BY <1>1, <1>2, Quiet DEF Pushing, Popping, Freeing, Counting, Undoing, Owning
<1>4. TagInv' /\ EpochInv' /\ ReadInv'
  BY <1>1, <1>2 DEF TagInv, EpochInv, ReadInv, Copied, Armed, PopCopied, PushCopied
<1> QED
  BY <1>1, <1>2, <1>3, <1>4

---------------------------------------------------------------------------
(* Steps on the count *)

LEMMA Others ==
    ASSUME NEW t \in Threads, \A u \in Threads \ {t} : pc'[u] = pc[u] /\ local'[u] = local[u]
    PROVE  /\ Pushing' \ {t} = Pushing \ {t} /\ Popping' \ {t} = Popping \ {t}
           /\ Freeing' \ {t} = Freeing \ {t} /\ Counting' \ {t} = Counting \ {t}
           /\ Undoing' \ {t} = Undoing \ {t} /\ Owning' \ {t} = Owning \ {t}
           /\ \A u \in Owning \ {t} : Own(u)' = Own(u)
<1>1. /\ Pushing' \ {t} = Pushing \ {t} /\ Popping' \ {t} = Popping \ {t}
      /\ Freeing' \ {t} = Freeing \ {t} /\ Counting' \ {t} = Counting \ {t}
      /\ Undoing' \ {t} = Undoing \ {t}
  BY DEF Pushing, Popping, Freeing, Counting, Undoing
<1>2. Owning' \ {t} = Owning \ {t} /\ Owning \subseteq Threads
  BY <1>1 DEF Owning, Pushing, Freeing
<1>3. \A u \in Owning \ {t} : Own(u)' = Own(u)
  BY <1>2 DEF Own
<1> QED
  BY <1>1, <1>2, <1>3

\* A step of a thread that owns no node, outside the exchange.
LEMMA CountStep ==
    ASSUME SafeInv, NEW t \in Threads, PushCount(t) \/ PopCount(t) \/ PopUndo(t)
    PROVE  SafeInv' /\ UNCHANGED <<Stack, result>>
<1> USE DEF SafeInv, PushCount, PopCount, PopUndo
<1>1. /\ UNCHANGED <<top, Data, pNextNode, iUnique, live, result, calls>>
      /\ \A u \in Threads \ {t} : local'[u] = local[u]
      /\ TypeInv'
  <2>1. Fresh \in Locals
    BY DEF Fresh, Locals
  <2> QED
    BY <2>1 DEF Return, TypeInv
<1>2. /\ PcOK' /\ \A u \in Threads \ {t} : pc'[u] = pc[u]
      /\ \/ pc[t] = "pcount" /\ pc'[t] = "idle" /\ lUseSize' = lUseSize + 1
         \/ pc[t] = "undo" /\ pc'[t] = "idle" /\ lUseSize' = lUseSize + 1
         \/ pc[t] = "count" /\ pc'[t] = "undo" /\ lUseSize' = lUseSize - 1
         \/ pc[t] = "count" /\ pc'[t] = "unique" /\ lUseSize' = lUseSize - 1 /\ lUseSize' >= 0
  <2>1. CASE PushCount(t)
    BY <2>1, Moved DEF Return
  <2>2. CASE PopUndo(t)
    BY <2>2, Moved DEF Return
  <2>3. CASE PopCount(t)
    <3>1. PICK l \in {"undo", "unique"} : Goto(t, l) /\ (l = "unique" => lUseSize - 1 >= 0)
      BY <2>3 DEF TypeInv
    <3> QED
      BY <2>3, <3>1, Moved
  <2> QED
    BY <2>1, <2>2, <2>3
<1>3. Linked' = Linked /\ Stack' = Stack /\ (\E f : Chain(f))'
  BY <1>1, StackKept
<1>4. /\ Pushing' = Pushing /\ Freeing' = Freeing /\ Owning' = Owning /\ t \notin Owning
      /\ \A u \in Owning : Own(u)' = Own(u)
  BY <1>1, <1>2, Others DEF Pushing, Freeing, Owning
<1>5. Held' = Held
  BY <1>4 DEF Held
<1>6. OwnInv'
  BY <1>1, <1>4 DEF OwnInv, Owning
<1>7. ListInv'
  BY <1>1, <1>3, <1>5 DEF ListInv
<1>8. TagInv' /\ EpochInv' /\ ReadInv'
  BY <1>1, <1>2 DEF TagInv, EpochInv, ReadInv, Copied, Armed, PopCopied, PushCopied
<1>9. CountInv'
  <2> USE Sizes DEF CountInv, TypeInv
  <2>1. CASE pc[t] = "pcount" /\ pc'[t] = "idle" /\ lUseSize' = lUseSize + 1
    <3>1. Counting' = Counting \ {t} /\ t \in Counting /\ Popping' = Popping /\ Undoing' = Undoing
      BY <1>1, <1>2, <2>1, Others DEF Counting, Popping, Undoing
    <3>2. Cardinality(Counting') = Cardinality(Counting) - 1
      BY <3>1, FS_RemoveElement
    <3> QED
      BY <1>3, <2>1, <3>1, <3>2
  <2>2. CASE pc[t] = "undo" /\ pc'[t] = "idle" /\ lUseSize' = lUseSize + 1
    <3>1. Undoing' = Undoing \ {t} /\ t \in Undoing /\ Popping' = Popping /\ Counting' = Counting
      BY <1>1, <1>2, <2>2, Others DEF Counting, Popping, Undoing
    <3>2. Cardinality(Undoing') = Cardinality(Undoing) - 1
      BY <3>1, FS_RemoveElement
    <3> QED
      BY <1>3, <2>2, <3>1, <3>2
  <2>3. CASE pc[t] = "count" /\ pc'[t] = "undo" /\ lUseSize' = lUseSize - 1
    <3>1. Undoing' = Undoing \cup {t} /\ t \notin Undoing /\ Popping' = Popping /\ Counting' = Counting
      BY <1>1, <1>2, <2>3, Others DEF Counting, Popping, Undoing
    <3>2. Cardinality(Undoing') = Cardinality(Undoing) + 1
      BY <3>1, FS_AddElement
    <3> QED
      BY <1>3, <2>3, <3>1, <3>2
  <2>4. CASE pc[t] = "count" /\ pc'[t] = "unique" /\ lUseSize' = lUseSize - 1 /\ lUseSize' >= 0
    <3>1. Popping' = Popping \cup {t} /\ t \notin Popping /\ Undoing' = Undoing /\ Counting' = Counting
      BY <1>1, <1>2, <2>4, Others DEF Counting, Popping, Undoing
    <3>2. Cardinality(Popping') = Cardinality(Popping) + 1
      BY <3>1, FS_AddElement
    <3> QED
      BY <1>3, <2>4, <3>1, <3>2
  <2> QED
    BY <1>2, <2>1, <2>2, <2>3, <2>4
<1> QED
  BY <1>1, <1>2, <1>3, <1>6, <1>7, <1>8, <1>9

---------------------------------------------------------------------------
(* Steps on nodes *)

\* A new node: nobody who may still read it is misled, since the tag of what it
\* copied is old.
LEMMA PushCallStep ==
    ASSUME SafeInv, NEW t \in Threads, PushCall(t)
    PROVE  SafeInv' /\ UNCHANGED <<Stack, result>>
<1> USE DEF SafeInv, PushCall, Moves
<1>1. PcOK' /\ pc[t] = "idle" /\ pc'[t] = "punique" /\ \A u \in Threads \ {t} : pc'[u] = pc[u]
  BY Moved
<1>2. PICK n \in Nodes \ live :
          /\ live' = live \cup {n}
          /\ Data' = [Data EXCEPT ![n] = calls + 1]
          /\ pNextNode' = [pNextNode EXCEPT ![n] = NoNode]
          /\ local' = [local EXCEPT ![t].new = n]
  OBVIOUS
<1>3. /\ calls + 1 \in 1..MaxCalls /\ Data'[n] = calls + 1
      /\ \A m \in Nodes \ {n} : Data'[m] = Data[m] /\ pNextNode'[m] = pNextNode[m]
  BY <1>2 DEF TypeInv
<1>4. /\ TypeInv' /\ local'[t].new = n /\ UNCHANGED <<top, iUnique, lUseSize, result>>
      /\ \A u \in Threads \ {t} : local'[u] = local[u]
  <2>1. local' \in [Threads -> Locals] /\ local'[t].new = n
        /\ \A u \in Threads \ {t} : local'[u] = local[u]
    BY <1>2 DEF TypeInv, Locals
  <2>2. Data' \in [Nodes -> Nat] /\ pNextNode' \in [Nodes -> Nodes \cup {NoNode}]
    BY <1>2, <1>3 DEF TypeInv
  <2>3. live' \subseteq Nodes /\ calls' \in Nat /\ UNCHANGED <<top, iUnique, lUseSize, result>>
    BY <1>2 DEF TypeInv
  <2>4. TypeInv'
    BY <2>1, <2>2, <2>3 DEF TypeInv
  <2> QED
    BY <2>1, <2>3, <2>4
<1>5. n \notin Linked /\ n \notin Held /\ Linked \subseteq Nodes /\ Held \subseteq Nodes
  BY <1>2 DEF ListInv, TypeInv
<1>6. Linked' = Linked /\ Stack' = Stack /\ (\E f : Chain(f))'
  BY <1>3, <1>4, <1>5, StackKept
<1>7. /\ Pushing' = Pushing \cup {t} /\ Owning' = Owning \cup {t} /\ t \notin Owning /\ Own(t)' = n
      /\ \A u \in Owning : Own(u)' = Own(u)
      /\ Popping' = Popping /\ Counting' = Counting /\ Undoing' = Undoing
  BY <1>1, <1>4, Others DEF Pushing, Freeing, Owning, Popping, Counting, Undoing, Own
<1>8. Held' = Held \cup {n}
  BY <1>7 DEF Held
<1>9. OwnInv'
  <2>1. \A u \in Owning : Own(u) \in Held
    BY DEF Held
  <2>2. \A u, v \in Owning' : u # v => Own(u)' # Own(v)'
    BY <1>5, <1>7, <2>1 DEF OwnInv
  <2>3. \A u \in Pushing' : Data'[Own(u)'] \in 1..MaxCalls
    BY <1>3, <1>5, <1>7, <2>1 DEF OwnInv, Owning
  <2> QED
    BY <2>2, <2>3 DEF OwnInv
<1>10. ListInv'
  BY <1>2, <1>5, <1>6, <1>8 DEF ListInv
<1>11. CountInv'
  BY <1>4, <1>6, <1>7 DEF CountInv
<1>12. TagInv'
  BY <1>1, <1>2, <1>4 DEF TagInv, Copied, Armed, PopCopied, PushCopied, TypeInv, Locals
<1>13. EpochInv'
  <2>1. ~Copied(t)' /\ \A u \in Threads \ {t} : Copied(u)' => Copied(u)
    BY <1>1 DEF Copied, PopCopied, PushCopied
  <2>2. top.node # n
    <3>1. PICK f : Chain(f)
      BY DEF ListInv
    <3> QED
      BY <1>5, <3>1, LinkedIs, ChainTop
  <2>3. \A u \in Threads \ {t} : pc[u] \in {"data", "cas"} => top.node \in Nodes
    BY PopFinds DEF Popping
  <2>4. \A u \in Threads \ {t} : pc[u] = "pcas" => local[u].new \in Nodes /\ local[u].new # n
    <3>1. ASSUME NEW u \in Threads \ {t}, pc[u] = "pcas" PROVE local[u].new \in Held
      BY <3>1 DEF Held, Own, Owning, Pushing
    <3> QED
      BY <1>5, <3>1
  <2> QED
    BY <1>1, <1>3, <1>4, <2>1, <2>2, <2>3, <2>4 DEF EpochInv
<1>14. ReadInv'
  BY <1>1, <1>4 DEF ReadInv
<1> QED
  BY <1>1, <1>4, <1>6, <1>9, <1>10, <1>11, <1>12, <1>13, <1>14

LEMMA PushLinkStep ==
    ASSUME SafeInv, NEW t \in Threads, PushLink(t)
    PROVE  SafeInv' /\ UNCHANGED <<Stack, result>>
<1> USE DEF SafeInv, PushLink, Moves
<1>1. PcOK' /\ pc[t] = "plink" /\ pc'[t] = "pcas" /\ \A u \in Threads \ {t} : pc'[u] = pc[u]
  BY Moved DEF PushCopied
<1>2. PICK n : n = local[t].new
  OBVIOUS
<1>3. t \in Pushing /\ t \in Owning /\ Own(t) = n /\ n \in Held
  BY <1>1, <1>2 DEF Pushing, Owning, Own, Held
<1>4. n \in Nodes /\ n \notin Linked /\ Linked \subseteq Nodes
  BY <1>3 DEF ListInv, TypeInv
<1>5. /\ pNextNode' = [pNextNode EXCEPT ![n] = top.node]
      /\ UNCHANGED <<top, Data, iUnique, lUseSize, live, local, result, calls>>
  BY <1>2
<1>6. TypeInv' /\ pNextNode'[n] = top.node /\ \A m \in Nodes \ {n} : pNextNode'[m] = pNextNode[m]
  <2>1. /\ pNextNode' \in [Nodes -> Nodes \cup {NoNode}] /\ pNextNode'[n] = top.node
        /\ \A m \in Nodes \ {n} : pNextNode'[m] = pNextNode[m]
    BY <1>4, <1>5 DEF TypeInv
  <2> QED
    BY <1>5, <2>1 DEF TypeInv
<1>7. Linked' = Linked /\ Stack' = Stack /\ (\E f : Chain(f))'
  BY <1>4, <1>5, <1>6, StackKept
<1>8. /\ Pushing' = Pushing /\ Owning' = Owning /\ \A u \in Owning : Own(u)' = Own(u)
      /\ Popping' = Popping /\ Counting' = Counting /\ Undoing' = Undoing
  BY <1>1, <1>5, Others DEF Pushing, Freeing, Owning, Popping, Counting, Undoing, Own
<1>9. Held' = Held
  BY <1>8 DEF Held
<1>10. OwnInv' /\ ListInv' /\ CountInv'
  BY <1>5, <1>7, <1>8, <1>9 DEF OwnInv, ListInv, CountInv, Owning
<1>11. TagInv' /\ ReadInv'
  BY <1>1, <1>5 DEF TagInv, ReadInv, Copied, Armed, PopCopied, PushCopied
<1>12. EpochInv'
  <2>1. Copied(t) /\ \A u \in Threads \ {t} : Copied(u)' <=> Copied(u)
    BY <1>1 DEF Copied, PopCopied, PushCopied
  <2>2. top.node # n
    <3>1. PICK f : Chain(f)
      BY DEF ListInv
    <3> QED
      BY <1>4, <3>1, LinkedIs, ChainTop
  <2>3. \A u \in Threads \ {t} : pc[u] \in {"data", "cas"} => top.node \in Nodes
    BY PopFinds DEF Popping
  <2>4. \A u \in Threads \ {t} : pc[u] = "pcas" => local[u].new \in Nodes /\ local[u].new # n
    <3>1. ASSUME NEW u \in Threads \ {t}, pc[u] = "pcas"
          PROVE  local[u].new \in Nodes /\ local[u].new # n
      <4>1. u \in Owning /\ Own(u) = local[u].new
        BY <3>1 DEF Own, Owning, Pushing
      <4>2. Own(u) \in Held
        BY <4>1 DEF Held
      <4>3. Own(u) # n
        BY <1>3, <3>1, <4>1 DEF OwnInv
      <4> QED
        BY <4>1, <4>2, <4>3 DEF ListInv, TypeInv
    <3> QED
      BY <3>1
  <2> QED
    BY <1>1, <1>2, <1>5, <1>6, <2>1, <2>2, <2>3, <2>4 DEF EpochInv
<1> QED
  BY <1>1, <1>5, <1>6, <1>7, <1>10, <1>11, <1>12

\* Free: the node may be handed out again from here on.
LEMMA PopFreeStep ==
    ASSUME SafeInv, NEW t \in Threads, PopFree(t)
    PROVE  SafeInv' /\ UNCHANGED <<Stack, result>>
<1> USE DEF SafeInv, PopFree, Return
<1>1. PcOK' /\ pc[t] = "free" /\ pc'[t] = "idle" /\ \A u \in Threads \ {t} : pc'[u] = pc[u]
  BY Moved
<1>2. /\ TypeInv' /\ \A u \in Threads \ {t} : local'[u] = local[u]
      /\ UNCHANGED <<top, Data, pNextNode, iUnique, lUseSize, result, calls>>
  <2>1. Fresh \in Locals
    BY DEF Fresh, Locals
  <2> QED
    BY <2>1 DEF TypeInv
<1>3. Linked' = Linked /\ Stack' = Stack /\ (\E f : Chain(f))'
  BY <1>2, StackKept
<1>4. /\ Pushing' = Pushing /\ Owning' = Owning \ {t} /\ t \in Owning
      /\ \A u \in Owning \ {t} : Own(u)' = Own(u)
      /\ Popping' = Popping /\ Counting' = Counting /\ Undoing' = Undoing
  BY <1>1, <1>2, Others DEF Pushing, Freeing, Owning, Popping, Counting, Undoing
<1>5. Own(t) = local[t].copy.node /\ live' = live \ {Own(t)} /\ Own(t) \in Held
  BY <1>1, <1>4 DEF Own, Held
<1>6. Held' = Held \ {Own(t)}
  <2>1. \A u \in Owning \ {t} : Own(u) # Own(t)
    BY <1>4 DEF OwnInv
  <2>2. Held' = {Own(u) : u \in Owning \ {t}}
    BY <1>4 DEF Held
  <2>3. Held = {Own(u) : u \in Owning \ {t}} \cup {Own(t)}
    BY <1>4 DEF Held
  <2>4. Own(t) \notin {Own(u) : u \in Owning \ {t}}
    BY <2>1
  <2> QED
    BY <2>2, <2>3, <2>4
<1>7. ListInv'
  BY <1>3, <1>5, <1>6 DEF ListInv
<1>8. OwnInv'
  BY <1>1, <1>2, <1>4 DEF OwnInv, Owning, Pushing
<1>9. CountInv'
  BY <1>2, <1>3, <1>4 DEF CountInv
<1>10. TagInv' /\ EpochInv' /\ ReadInv'
  BY <1>1, <1>2 DEF TagInv, EpochInv, ReadInv, Copied, Armed, PopCopied, PushCopied
<1> QED
  BY <1>1, <1>2, <1>3, <1>7, <1>8, <1>9, <1>10

---------------------------------------------------------------------------
(* The exchanges *)

LEMMA RetryStep ==
    ASSUME SafeInv, NEW t \in Threads, PushCAS(t) \/ PopCAS(t), ~Unchanged(t)
    PROVE  SafeInv' /\ UNCHANGED <<Stack, result>>
<1> USE DEF SafeInv, PushCAS, PopCAS
<1>1. /\ PcOK' /\ \A u \in Threads \ {t} : pc'[u] = pc[u]
      /\ \/ pc[t] = "pcas" /\ pc'[t] = "ptag"
         \/ pc[t] = "cas" /\ pc'[t] = "tag"
  BY Moved
<1>2. UNCHANGED <<top, Data, pNextNode, iUnique, lUseSize, live, local, result, calls>>
  OBVIOUS
<1>3. OwnInv' /\ ListInv' /\ CountInv' /\ Stack' = Stack
  BY <1>1, <1>2, Quiet DEF Pushing, Popping, Freeing, Counting, Undoing, Owning, Own
<1>4. TypeInv' /\ TagInv' /\ EpochInv' /\ ReadInv'
  BY <1>1, <1>2 DEF TypeInv, TagInv, EpochInv, ReadInv, Copied, Armed, PopCopied, PushCopied
<1> QED
  BY <1>1, <1>2, <1>3, <1>4

\* The tag of an exchange that succeeds is new to everybody.
LEMMA NewEpoch ==
    ASSUME SafeInv, NEW t \in Threads, Armed(t), ~Armed(t)', top'.tag = local[t].unique,
           UNCHANGED <<iUnique, local>>, \A u \in Threads \ {t} : pc'[u] = pc[u]
    PROVE  TagInv' /\ EpochInv'
<1> USE DEF SafeInv
<1>1. ~Copied(t)' /\ \A u \in Threads \ {t} : (Armed(u)' <=> Armed(u)) /\ (Copied(u)' <=> Copied(u))
  BY DEF Armed, Copied
<1>2. TagInv'
  BY <1>1 DEF TagInv
<1>3. \A u \in Threads : Copied(u)' => local'[u].copy.tag # top'.tag
  BY <1>1 DEF TagInv
<1> QED
  BY <1>2, <1>3 DEF EpochInv

\* A push takes effect at its exchange.
LEMMA PushCASStep ==
    ASSUME SafeInv, NEW t \in Threads, PushCAS(t), Unchanged(t)
    PROVE  SafeInv' /\ Lifo!Next
<1> USE DEF SafeInv, PushCAS
<1>1. PcOK' /\ pc[t] = "pcas" /\ pc'[t] = "pcount" /\ \A u \in Threads \ {t} : pc'[u] = pc[u]
  BY Moved
<1>2. PICK n : n = local[t].new
  OBVIOUS
<1>3. /\ top' = [node |-> n, tag |-> local[t].unique]
      /\ UNCHANGED <<Data, pNextNode, iUnique, lUseSize, live, local, result, calls>>
  BY <1>2 DEF Exchange
<1>4. pNextNode[n] = top.node
  BY <1>1, <1>2 DEF EpochInv, Unchanged, Copied, PushCopied
<1>5. t \in Pushing /\ t \in Owning /\ t \notin Freeing /\ Own(t) = n /\ n \in Held
  BY <1>1, <1>2 DEF Pushing, Freeing, Owning, Own, Held
<1>6. n \in Nodes /\ n \notin Linked /\ Data[n] \in 1..MaxCalls
  BY <1>5 DEF ListInv, TypeInv, OwnInv
<1>7. TypeInv'
  BY <1>3, <1>6 DEF TypeInv, Locals
<1>8. TagInv' /\ EpochInv'
  BY <1>1, <1>3, NewEpoch DEF Armed, PopCopied, PushCopied
<1>9. PICK f : Chain(f)
  BY DEF ListInv
<1>10. Linked = In(f) /\ Cardinality(Linked) = Len(f) /\ Stack = [i \in 1..Len(f) |-> Data[f[i]]]
       /\ Len(f) \in Nat
  BY <1>9, LinkedIs, StackIs, ChainCount
<1>11. PICK g : /\ Chain(g)' /\ Len(g) = Len(f) + 1 /\ In(g) = In(f) \cup {n}
                /\ g[1] = n /\ \A i \in 1..Len(f) : g[i + 1] = f[i]
  BY <1>3, <1>4, <1>6, <1>9, <1>10, ChainPush
<1>12. Linked' = Linked \cup {n} /\ Cardinality(Linked') = Cardinality(Linked) + 1
  BY <1>10, <1>11, LinkedNext
<1>13. /\ Pushing' = Pushing \ {t} /\ Owning' = Owning \ {t}
       /\ \A u \in Owning \ {t} : Own(u)' = Own(u)
       /\ Popping' = Popping /\ Counting' = Counting \cup {t} /\ t \notin Counting /\ Undoing' = Undoing
  BY <1>1, <1>3, Others DEF Pushing, Freeing, Owning, Popping, Counting, Undoing
<1>14. Held' = Held \ {n}
  <2>1. \A u \in Owning \ {t} : Own(u) # n
    BY <1>5 DEF OwnInv
  <2>2. Held' = {Own(u) : u \in Owning \ {t}}
    BY <1>13 DEF Held
  <2>3. Held = {Own(u) : u \in Owning \ {t}} \cup {n}
    BY <1>5 DEF Held
  <2>4. n \notin {Own(u) : u \in Owning \ {t}}
    BY <2>1
  <2> QED
    BY <2>2, <2>3, <2>4
<1>15. ListInv'
  BY <1>3, <1>5, <1>11, <1>12, <1>14 DEF ListInv
<1>16. OwnInv'
  BY <1>3, <1>13 DEF OwnInv, Owning
<1>17. CountInv'
  <2>1. Cardinality(Counting') = Cardinality(Counting) + 1
    BY <1>13, Sizes, FS_AddElement
  <2> QED
    <3>1. Cardinality(Linked') = Cardinality(Linked) + 1 /\ Cardinality(Linked) \in Nat
      BY <1>10, <1>12
    <3>2. lUseSize' = lUseSize /\ Popping' = Popping /\ Undoing' = Undoing /\ lUseSize \in Int
      BY <1>3, <1>13 DEF TypeInv
    <3> QED
      BY <2>1, <3>1, <3>2, Sizes DEF CountInv
<1>18. ReadInv'
  BY <1>1, <1>3 DEF ReadInv
<1>19. Lifo!Push(Data[n])
  <2>1. Stack' = [i \in 1..Len(f) + 1 |-> Data[g[i]]]
    BY <1>3, <1>11, StackNext
  <2>2. Len(Stack) = Len(f) /\ Stack \in Seq(Nat)
    <3>1. \A i \in 1..Len(f) : Data[f[i]] \in Nat
      BY <1>9 DEF Chain, TypeInv
    <3> QED
      BY <1>10, <3>1
  <2>3. <<Data[n]>> \o Stack = [i \in 1..Len(f) + 1 |-> IF i = 1 THEN Data[n] ELSE Stack[i - 1]]
    <3>1. PICK s \in Seq(Nat) : s = Stack
      BY <2>2
    <3>2. PICK v \in Nat : v = Data[n]
      BY <1>6
    <3>3. PICK r : r = <<v>> \o s
      OBVIOUS
    <3>4. r \in Seq(Nat) /\ Len(r) = Len(s) + 1
          /\ \A i \in 1..Len(s) + 1 : r[i] = IF i = 1 THEN v ELSE s[i - 1]
      BY <3>3
    <3>5. r = [i \in 1..Len(s) + 1 |-> IF i = 1 THEN v ELSE s[i - 1]]
      BY <3>4
    <3> QED
      BY <2>2, <3>1, <3>2, <3>3, <3>5
  <2>4. ASSUME NEW i \in 1..Len(f) + 1 PROVE Data[g[i]] = IF i = 1 THEN Data[n] ELSE Stack[i - 1]
    <3>1. CASE i = 1
      BY <1>11, <3>1
    <3>2. CASE i # 1
      <4>1. i - 1 \in 1..Len(f)
        BY <1>10, <3>2
      <4>2. g[(i - 1) + 1] = f[i - 1]
        BY <1>11, <4>1
      <4>3. (i - 1) + 1 = i
        BY <1>10
      <4> QED
        BY <1>10, <3>2, <4>1, <4>2, <4>3
    <3> QED
      BY <3>1, <3>2
  <2>5. Stack' = <<Data[n]>> \o Stack
    BY <2>1, <2>3, <2>4
  <2> QED
    BY <1>3, <2>5 DEF Lifo!Push
<1>20. Lifo!Next
  BY <1>6, <1>19 DEF Lifo!Next
<1> QED
  BY <1>1, <1>7, <1>8, <1>15, <1>16, <1>17, <1>18, <1>20

\* A pop takes effect at its exchange, with the value read before.
LEMMA PopCASStep ==
    ASSUME SafeInv, NEW t \in Threads, PopCAS(t), Unchanged(t)
    PROVE  SafeInv' /\ Lifo!Next
<1> USE DEF SafeInv, PopCAS
<1>1. PcOK' /\ pc[t] = "cas" /\ pc'[t] = "free" /\ \A u \in Threads \ {t} : pc'[u] = pc[u]
  BY Moved
<1>2. PICK n : n = top.node
  OBVIOUS
<1>3. /\ n \in Nodes /\ local[t].copy.node = n /\ local[t].next = pNextNode[n] /\ local[t].data = Data[n]
  <2>1. t \in Popping
    BY <1>1 DEF Popping
  <2> QED
    BY <1>1, <1>2, <2>1, PopFinds DEF EpochInv, Unchanged, Copied, PopCopied
<1>4. /\ top' = [node |-> pNextNode[n], tag |-> local[t].unique] /\ result' = Data[n]
      /\ UNCHANGED <<Data, pNextNode, iUnique, lUseSize, live, local, calls>>
  BY <1>3 DEF Exchange
<1>5. TypeInv'
  BY <1>3, <1>4 DEF TypeInv, Locals
<1>6. TagInv' /\ EpochInv'
  BY <1>1, <1>4, NewEpoch DEF Armed, PopCopied, PushCopied
<1>7. PICK f : Chain(f)
  BY DEF ListInv
<1>8. /\ Linked = In(f) /\ Cardinality(Linked) = Len(f) /\ Stack = [i \in 1..Len(f) |-> Data[f[i]]]
      /\ Len(f) \in Nat \ {0} /\ n = f[1] /\ n \in In(f)
  BY <1>2, <1>3, <1>7, LinkedIs, StackIs, ChainTop
<1>9. PICK g : /\ Chain(g)' /\ Len(g) = Len(f) - 1 /\ In(g) = In(f) \ {n}
               /\ \A i \in 1..Len(g) : g[i] = f[i + 1]
  BY <1>2, <1>3, <1>4, <1>7, ChainPop
<1>10. Linked' = Linked \ {n} /\ Cardinality(Linked') = Cardinality(Linked) - 1
  BY <1>8, <1>9, LinkedNext
<1>11. /\ Pushing' = Pushing /\ Owning' = Owning \cup {t} /\ t \notin Owning /\ Own(t)' = n
       /\ \A u \in Owning : Own(u)' = Own(u)
       /\ Popping' = Popping \ {t} /\ t \in Popping /\ Counting' = Counting /\ Undoing' = Undoing
  BY <1>1, <1>3, <1>4, Others DEF Pushing, Freeing, Owning, Popping, Counting, Undoing, Own
<1>12. Held' = Held \cup {n}
  BY <1>11 DEF Held
<1>13. ListInv'
  BY <1>4, <1>8, <1>9, <1>10, <1>12 DEF ListInv
<1>14. OwnInv'
  <2>1. \A u \in Owning : Own(u) \in Held
    BY DEF Held
  <2>2. n \notin Held
    BY <1>8 DEF ListInv
  <2>3. \A u, v \in Owning' : u # v => Own(u)' # Own(v)'
    BY <1>11, <2>1, <2>2 DEF OwnInv
  <2>4. \A u \in Pushing' : Data'[Own(u)'] \in 1..MaxCalls
    BY <1>4, <1>11 DEF OwnInv, Owning
  <2> QED
    BY <2>3, <2>4 DEF OwnInv
<1>15. CountInv'
  <2>1. Cardinality(Popping') = Cardinality(Popping) - 1
    BY <1>11, Sizes, FS_RemoveElement
  <2> QED
    <3>1. Cardinality(Linked') = Cardinality(Linked) - 1 /\ Cardinality(Linked) \in Nat
      BY <1>8, <1>10
    <3>2. lUseSize' = lUseSize /\ Counting' = Counting /\ Undoing' = Undoing /\ lUseSize \in Int
      BY <1>4, <1>11 DEF TypeInv
    <3> QED
      BY <2>1, <3>1, <3>2, Sizes DEF CountInv
<1>16. ReadInv'
  BY <1>1, <1>4 DEF ReadInv
<1>17. Lifo!Pop
  <2>1. Stack' = [i \in 1..Len(f) - 1 |-> Data[g[i]]]
    BY <1>4, <1>9, StackNext
  <2>2. Len(Stack) = Len(f) /\ Stack \in Seq(Nat) /\ Stack # <<>> /\ Len(Stack) # 0
    <3>1. \A i \in 1..Len(f) : Data[f[i]] \in Nat
      BY <1>7 DEF Chain, TypeInv
    <3>2. Len(Stack) = Len(f) /\ Stack \in Seq(Nat)
      BY <1>8, <3>1
    <3> QED
      BY <1>8, <3>2
  <2>3. Tail(Stack) = [i \in 1..Len(f) - 1 |-> Stack[i + 1]]
    <3>1. PICK s \in Seq(Nat) : s = Stack
      BY <2>2
    <3>2. PICK r : r = Tail(s)
      OBVIOUS
    <3>3. r \in Seq(Nat) /\ Len(r) = Len(s) - 1 /\ \A i \in 1..Len(s) - 1 : r[i] = s[i + 1]
      <4>1. s # <<>>
        BY <2>2, <3>1
      <4> QED
        BY <3>2, <4>1, HeadTailProperties
    <3>4. r = [i \in 1..Len(r) |-> r[i]] /\ 1..Len(r) = 1..Len(f) - 1
      BY <2>2, <3>1, <3>3
    <3>5. \A i \in 1..Len(f) - 1 : r[i] = Stack[i + 1]
      BY <2>2, <3>1, <3>3
    <3>6. r = [i \in 1..Len(f) - 1 |-> Stack[i + 1]]
      BY <3>4, <3>5
    <3> QED
      BY <3>1, <3>2, <3>6
  <2>4. ASSUME NEW i \in 1..Len(f) - 1 PROVE Data[g[i]] = Stack[i + 1]
    <3>1. i \in 1..Len(g) /\ i + 1 \in 1..Len(f)
      BY <1>8, <1>9
    <3>2. g[i] = f[i + 1]
      BY <1>9, <3>1
    <3> QED
      BY <1>8, <3>1, <3>2
  <2>5. Stack' = Tail(Stack)
    BY <2>1, <2>3, <2>4
  <2>6. Head(Stack) = Data[n]
    <3>1. 1 \in 1..Len(f)
      BY <1>8
    <3>2. Stack[1] = Data[f[1]]
      BY <1>8, <3>1
    <3>3. Head(Stack) = Stack[1]
      OBVIOUS
    <3> QED
      BY <1>8, <3>2, <3>3
  <2> QED
    BY <1>4, <2>2, <2>5, <2>6 DEF Lifo!Pop
<1>18. Lifo!Next
  BY <1>17 DEF Lifo!Next
<1> QED
  BY <1>1, <1>5, <1>6, <1>13, <1>14, <1>15, <1>16, <1>18

---------------------------------------------------------------------------
(* The theorems *)

LEMMA SafeInit == Init => SafeInv /\ Lifo!Init
<1> SUFFICES ASSUME Init PROVE SafeInv /\ Lifo!Init
  OBVIOUS
<1> USE DEF Init
<1>1. TypeInv /\ PcOK
  <2>1. Fresh \in Locals
    BY DEF Fresh, Locals
  <2> QED
    BY <2>1 DEF TypeInv, PcOK
<1>2. Pushing = {} /\ Freeing = {} /\ Popping = {} /\ Counting = {} /\ Undoing = {}
  BY DEF Pushing, Freeing, Popping, Counting, Undoing
<1>3. Owning = {} /\ Held = {}
  BY <1>2 DEF Owning, Held
<1>4. TagInv /\ EpochInv /\ ReadInv /\ OwnInv
  BY <1>2, <1>3 DEF TagInv, EpochInv, ReadInv, OwnInv, Copied, Armed, PopCopied, PushCopied
<1>5. Chain(<<>>)
  BY DEF Chain
<1>6. Linked = {} /\ Cardinality(Linked) = 0 /\ Stack = <<>>
  <2>1. In(<<>>) = {}
    BY DEF In
  <2>2. Stack = [i \in 1..0 |-> Data[<<>>[i]]]
    BY <1>5, StackIs
  <2> QED
    BY <1>5, <2>1, <2>2, LinkedIs
<1>7. ListInv
  BY <1>3, <1>5, <1>6 DEF ListInv
<1>8. CountInv
  <2>1. Cardinality({}) = 0
    BY FS_EmptySet
  <2> QED
    BY <1>2, <1>6, <2>1 DEF CountInv
<1> QED
  BY <1>1, <1>4, <1>6, <1>7, <1>8 DEF SafeInv, Lifo!Init

LEMMA SafeStep == SafeInv /\ [Next]_vars => SafeInv' /\ [Lifo!Next]_<<Stack, result>>
<1> SUFFICES ASSUME SafeInv, [Next]_vars PROVE SafeInv' /\ [Lifo!Next]_<<Stack, result>>
  OBVIOUS
<1>1. CASE UNCHANGED vars
  <2> USE <1>1 DEF vars, SafeInv
  <2>1. Linked' = Linked /\ Stack' = Stack /\ (\E f : Chain(f))'
    BY StackKept
  <2>2. /\ Pushing' = Pushing /\ Freeing' = Freeing /\ Popping' = Popping /\ Counting' = Counting
        /\ Undoing' = Undoing
    BY DEF Pushing, Freeing, Popping, Counting, Undoing
  <2>3. Owning' = Owning /\ Held' = Held /\ \A u : Own(u)' = Own(u)
    BY <2>2 DEF Owning, Held, Own
  <2>4. TypeInv' /\ PcOK'
    BY DEF TypeInv, PcOK
  <2>5. TagInv' /\ EpochInv' /\ ReadInv'
    BY DEF TagInv, EpochInv, ReadInv, Copied, Armed
  <2>6. OwnInv' /\ ListInv' /\ CountInv'
    BY <2>1, <2>2, <2>3 DEF OwnInv, ListInv, CountInv
  <2> QED
    BY <2>1, <2>4, <2>5, <2>6
<1>2. ASSUME NEW t \in Threads,
             PushCall(t) \/ PushUnique(t) \/ PushTag(t) \/ PushTop(t) \/ PushLink(t) \/ PushCount(t)
             \/ PopCall(t) \/ PopCount(t) \/ PopUndo(t) \/ PopUnique(t) \/ PopTag(t)
             \/ PopTop(t) \/ PopNext(t) \/ PopData(t) \/ PopFree(t)
      PROVE  SafeInv' /\ UNCHANGED <<Stack, result>>
  BY <1>2, UniqueStep, TagStep, TopStep, ReadStep, PopCallStep, CountStep, PushCallStep, PushLinkStep,
     PopFreeStep
<1>3. ASSUME NEW t \in Threads, PushCAS(t) \/ PopCAS(t)
      PROVE  SafeInv' /\ [Lifo!Next]_<<Stack, result>>
  BY <1>3, RetryStep, PushCASStep, PopCASStep
<1> QED
  BY <1>1, <1>2, <1>3 DEF Next

\* Tags, links, owners and the count stay as SafeInv says, for any number of
\* threads, nodes and calls.
THEOREM SafeCorrect == Spec => []SafeInv
BY SafeInit, SafeStep, PTL DEF Spec

\* Push and Pop take effect at their exchanges as on a plain stack, whatever
\* nodes are taken, freed and used again meanwhile.
THEOREM StackCorrect == Spec => StackSpec
BY SafeInit, SafeStep, PTL DEF Spec, StackSpec, Lifo!Spec

\* A Pop that got its share of the count finds a node for it.
THEOREM EnoughNodesCorrect == Spec => []EnoughNodes
<1>1. SafeInv => EnoughNodes
  BY PopFinds DEF EnoughNodes
<1> QED
  BY <1>1, SafeCorrect, PTL

\* The links meet every node once and end, and a node has one owner: the stack,
\* a Push that has not linked it, or a Pop that has unlinked it.
THEOREM StackIntactCorrect == Spec => []StackIntact
<1>1. SafeInv => StackIntact
  <2> SUFFICES ASSUME SafeInv PROVE StackIntact
    OBVIOUS
  <2>1. PICK f : Chain(f)
    BY DEF SafeInv, ListInv
  <2>2. Nth = [n \in 0..Cardinality(Nodes) |-> IF n < Len(f) THEN f[n + 1] ELSE NoNode]
    BY <2>1, ChainIsNth
  <2>3. ASSUME NEW i \in DOMAIN Nth, NEW j \in DOMAIN Nth, i < j, Nth[i] # NoNode
        PROVE  Nth[i] # Nth[j]
    <3>1. Len(f) \in Nat /\ Cardinality(Nodes) \in Nat /\ i \in 0..Cardinality(Nodes) /\ j \in 0..Cardinality(Nodes)
      BY <2>1, <2>2, ChainCount
    <3>2. i < Len(f) /\ Nth[i] = f[i + 1] /\ i + 1 \in 1..Len(f)
      BY <2>2, <2>3, <3>1
    <3>3. CASE j < Len(f)
      <4>1. Nth[j] = f[j + 1] /\ j + 1 \in 1..Len(f) /\ i + 1 # j + 1
        BY <2>2, <2>3, <3>1, <3>3
      <4> QED
        BY <2>1, <3>2, <4>1 DEF Chain
    <3>4. CASE ~(j < Len(f))
      <4>1. Nth[j] = NoNode
        BY <2>2, <3>1, <3>4
      <4> QED
        BY <2>3, <4>1
    <3> QED
      BY <3>3, <3>4
  <2>4. {local[t].new : t \in Pushing} \cup {local[t].copy.node : t \in Freeing} = Held
    <3>1. \A t \in Pushing : Own(t) = local[t].new
      BY DEF Own, Pushing
    <3>2. \A t \in Freeing : Own(t) = local[t].copy.node
      BY DEF Own, Freeing
    <3> QED
      BY <3>1, <3>2 DEF Held, Owning
  <2>5. Cardinality(Held) = Cardinality(Pushing) + Cardinality(Freeing)
    <3>1. Cardinality(Owning) = Cardinality(Pushing) + Cardinality(Freeing)
      <4>1. Pushing \cap Freeing = {}
        BY DEF Pushing, Freeing
      <4>2. Cardinality(Owning) = Cardinality(Pushing) + Cardinality(Freeing) - Cardinality({})
        BY <4>1, Sizes, FS_Union DEF Owning
      <4>3. Cardinality({}) = 0 /\ Cardinality(Pushing) \in Nat /\ Cardinality(Freeing) \in Nat
        BY Sizes, FS_EmptySet, FS_CardinalityType
      <4> QED
        BY <4>2, <4>3
    <3> DEFINE h == [t \in Owning |-> Own(t)]
    <3>2. h \in Bijection(Owning, Held)
      BY DEF SafeInv, OwnInv, Held, Bijection, Injection, Surjection, IsInjective
    <3>3. ExistsBijection(Owning, Held)
      BY <3>2 DEF ExistsBijection
    <3>4. Cardinality(Held) = Cardinality(Owning)
      BY <3>3, Sizes, FS_Bijection
    <3> QED
      BY <3>1, <3>4
  <2>6. live = Linked \cup Held /\ Linked \cap Held = {}
    BY DEF SafeInv, ListInv
  <2> QED
    BY <2>3, <2>4, <2>5, <2>6 DEF StackIntact
<1> QED
  BY <1>1, SafeCorrect, PTL

\* A Pop fails only when the stack holds no more values than other calls are in
\* progress.
THEOREM FalseMeansBusyCorrect == Spec => []FalseMeansBusy
<1>1. SafeInv => FalseMeansBusy
  <2> SUFFICES ASSUME SafeInv, NEW t \in Threads, pc[t] = "count", lUseSize <= 0
               PROVE  Cardinality(Linked) <= Cardinality({u \in Threads \ {t} : pc[u] # "idle"})
    BY DEF FalseMeansBusy
  <2> DEFINE Busy == {u \in Threads \ {t} : pc[u] # "idle"}
  <2>1. Counting \cup Popping \cup Undoing \subseteq Busy /\ IsFiniteSet(Busy)
    <3>1. Busy \subseteq Threads
      OBVIOUS
    <3>2. IsFiniteSet(Busy)
      BY <3>1, FS_Subset
    <3> QED
      BY <3>2 DEF Counting, Popping, Undoing
  <2> HIDE DEF Busy
  <2>2. Cardinality(Counting \cup Popping \cup Undoing)
          = Cardinality(Counting) + Cardinality(Popping) + Cardinality(Undoing)
    <3>1. Counting \cap Popping = {} /\ (Counting \cup Popping) \cap Undoing = {}
      BY DEF Counting, Popping, Undoing
    <3>2. Cardinality({}) = 0
      BY FS_EmptySet
    <3>3. ASSUME NEW S, NEW T, IsFiniteSet(S), IsFiniteSet(T), S \cap T = {}
          PROVE  IsFiniteSet(S \cup T) /\ Cardinality(S \cup T) = Cardinality(S) + Cardinality(T)
      <4>1. IsFiniteSet(S \cup T)
            /\ Cardinality(S \cup T) = Cardinality(S) + Cardinality(T) - Cardinality(S \cap T)
        BY <3>3, FS_Union
      <4>2. Cardinality(S) \in Nat /\ Cardinality(T) \in Nat
        BY <3>3, FS_CardinalityType
      <4>3. Cardinality(S \cap T) = 0
        BY <3>2, <3>3
      <4> QED
        BY <4>1, <4>2, <4>3
    <3>4. /\ IsFiniteSet(Counting \cup Popping)
          /\ Cardinality(Counting \cup Popping) = Cardinality(Counting) + Cardinality(Popping)
      BY <3>1, <3>3, Sizes
    <3>5. Cardinality((Counting \cup Popping) \cup Undoing)
            = Cardinality(Counting \cup Popping) + Cardinality(Undoing)
      BY <3>1, <3>3, <3>4, Sizes
    <3> QED
      BY <3>4, <3>5
  <2>3. Cardinality(Counting \cup Popping \cup Undoing) <= Cardinality(Busy) /\ Cardinality(Busy) \in Nat
    BY <2>1, FS_Subset, FS_CardinalityType
  <2>4. Cardinality(Linked) <= Cardinality(Busy)
    BY <2>2, <2>3, Sizes DEF SafeInv, CountInv, TypeInv
  <2> QED
    BY <2>4 DEF Busy
<1> QED
  BY <1>1, SafeCorrect, PTL

\* The count stays within the numbers of nodes and of failing Pops, and is the
\* number of values when no call is in progress.
THEOREM SizeCorrect == Spec => []SizeExact
<1>1. SafeInv => SizeExact
  <2> SUFFICES ASSUME SafeInv PROVE SizeExact
    OBVIOUS
  <2>1. PICK f : Chain(f)
    BY DEF SafeInv, ListInv
  <2>2. /\ Cardinality(Linked) = Len(f) /\ Len(f) <= Cardinality(Nodes)
        /\ Len(f) \in Nat /\ Cardinality(Nodes) \in Nat
    BY <2>1, LinkedIs, ChainCount
  <2>3. Cardinality(Undoing) <= Cardinality(Threads) /\ Cardinality(Threads) \in Nat
    <3>1. Undoing \subseteq Threads
      BY DEF Undoing
    <3> QED
      BY <3>1, FS_Subset, FS_CardinalityType
  <2>4. lUseSize \in -Cardinality(Threads)..Cardinality(Nodes)
    BY <2>2, <2>3, Sizes DEF SafeInv, CountInv, TypeInv
  <2>5. TypeOK
    BY <2>4 DEF TypeOK, SafeInv, TypeInv
  <2>6. ASSUME \A t \in Threads : pc[t] = "idle" PROVE lUseSize = Cardinality(Linked)
    <3>1. Counting = {} /\ Popping = {} /\ Undoing = {}
      BY <2>6 DEF Counting, Popping, Undoing
    <3>2. Cardinality(Counting) = 0 /\ Cardinality(Popping) = 0 /\ Cardinality(Undoing) = 0
      BY <3>1, FS_EmptySet
    <3> QED
      BY <3>2 DEF SafeInv, CountInv, TypeInv
  <2> QED
    BY <2>5, <2>6 DEF SizeExact
<1> QED
  BY <1>1, SafeCorrect, PTL

=============================================================================
