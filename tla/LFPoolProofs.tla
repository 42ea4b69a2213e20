---------------------------- MODULE LFPoolProofs ----------------------------
(***************************************************************************)
(* What CLFMemoryPool keeps for any number of threads, blocks and calls:   *)
(* the list of free blocks stays a list, although its links are read while *)
(* others change them, and the tag catches every exchange that would link  *)
(* a block somebody has.                                                   *)
(***************************************************************************)
EXTENDS LFPool, Sequences, FiniteSetTheorems, WellFoundedInduction, TLAPS

USE BlockAssumption, BoundAssumption DEF BlockAssumption, BoundAssumption

\* f is the list of the free blocks, from the top on.
Chain(f) ==
    /\ f \in Seq(Blocks)
    /\ top.block = IF Len(f) = 0 THEN NoBlock ELSE f[1]
    /\ \A i \in 1..Len(f) : pNextBlock[f[i]] = IF i = Len(f) THEN NoBlock ELSE f[i + 1]
    /\ \A i, j \in 1..Len(f) : i # j => f[i] # f[j]
In(f) == {f[i] : i \in 1..Len(f)}

\* The equation of Nth, for any function.
Follows(g) == g = [n \in 0..Cardinality(Blocks) |->
                    IF n = 0 THEN top.block
                    ELSE IF g[n - 1] = NoBlock THEN NoBlock ELSE pNextBlock[g[n - 1]]]

LEMMA ChainCount ==
    ASSUME NEW f, Chain(f)
    PROVE  /\ IsFiniteSet(In(f)) /\ Cardinality(In(f)) = Len(f)
           /\ Len(f) <= Cardinality(Blocks) /\ Cardinality(Blocks) \in Nat
<1>1. f \in Bijection(1..Len(f), In(f))
  <2>1. f \in [1..Len(f) -> In(f)]
    BY DEF Chain, In
  <2> QED
    BY <2>1 DEF Chain, In, Bijection, Injection, Surjection, IsInjective
<1>2. IsFiniteSet(1..Len(f)) /\ Cardinality(1..Len(f)) = Len(f)
  <2>1. Len(f) \in Nat
    BY DEF Chain
  <2>2. IsFiniteSet(1..Len(f)) /\ Cardinality(1..Len(f)) = IF 1 > Len(f) THEN 0 ELSE Len(f) - 1 + 1
    BY <2>1, FS_Interval
  <2> QED
    BY <2>1, <2>2
<1>3. ExistsBijection(1..Len(f), In(f))
  BY <1>1 DEF ExistsBijection
<1>4. IsFiniteSet(In(f)) /\ Cardinality(In(f)) = Len(f)
  BY <1>2, <1>3, FS_Bijection
<1>5. In(f) \subseteq Blocks
  BY DEF Chain, In
<1>6. Cardinality(In(f)) <= Cardinality(Blocks) /\ Cardinality(Blocks) \in Nat
  BY <1>5, FS_Subset, FS_CardinalityType
<1> QED
  BY <1>4, <1>6

LEMMA ChainIsNth ==
    ASSUME NEW f, Chain(f)
    PROVE  Nth = [n \in 0..Cardinality(Blocks) |-> IF n < Len(f) THEN f[n + 1] ELSE NoBlock]
<1> DEFINE g == [n \in 0..Cardinality(Blocks) |-> IF n < Len(f) THEN f[n + 1] ELSE NoBlock]
<1>1. Len(f) \in Nat /\ \A i \in 1..Len(f) : f[i] \in Blocks /\ f[i] # NoBlock
  BY DEF Chain
<1>2. Follows(g)
  <2>1. ASSUME NEW n \in 0..Cardinality(Blocks)
        PROVE  g[n] = IF n = 0 THEN top.block
                      ELSE IF g[n - 1] = NoBlock THEN NoBlock ELSE pNextBlock[g[n - 1]]
    <3>1. Cardinality(Blocks) \in Nat
      BY FS_CardinalityType
    <3>2. CASE n = 0
      BY <1>1, <3>1, <3>2 DEF Chain
    <3>3. CASE n # 0
      <4>1. n - 1 \in 0..Cardinality(Blocks)
        BY <3>1, <3>3
      <4>2. g[n - 1] = IF n - 1 < Len(f) THEN f[n] ELSE NoBlock
        BY <4>1, <3>1, <3>3
      <4>3. n \in 1..Len(f) => pNextBlock[f[n]] = IF n = Len(f) THEN NoBlock ELSE f[n + 1]
        BY <3>1 DEF Chain
      <4> QED
        BY <1>1, <3>1, <3>3, <4>2, <4>3
    <3> QED
      BY <3>2, <3>3
  <2> QED
    BY <2>1 DEF Follows
<1>3. Follows(Nth)
  BY <1>2 DEF Nth, Follows
<1>4. \A n \in 0..Cardinality(Blocks) : Nth[n] = g[n]
  <2> DEFINE Bad == {n \in 0..Cardinality(Blocks) : Nth[n] # g[n]}
  <2> SUFFICES ASSUME Bad # {} PROVE FALSE
    OBVIOUS
  <2>1. Cardinality(Blocks) \in Nat
    BY FS_CardinalityType
  <2>2. Bad \subseteq Nat
    BY <2>1
  <2>3. PICK n \in Bad : \A m \in Bad : <<m, n>> \notin OpToRel(<, Nat)
    BY <2>2, WFMin, NatLessThanWellFounded
  <2>4. \A m \in Bad : ~(m < n)
    BY <2>2, <2>3 DEF OpToRel
  <2>5. n # 0
    BY <1>2, <1>3, <2>1 DEF Follows
  <2>6. n - 1 \in 0..Cardinality(Blocks) /\ n - 1 \notin Bad
    BY <2>1, <2>4, <2>5
  <2>7. Nth[n - 1] = g[n - 1]
    BY <2>6
  <2>8. n \in 0..Cardinality(Blocks) /\ Nth[n] # g[n]
    OBVIOUS
  <2>9. Nth[n] = IF Nth[n - 1] = NoBlock THEN NoBlock ELSE pNextBlock[Nth[n - 1]]
    BY <1>3, <2>5, <2>8 DEF Follows
  <2>10. g[n] = IF g[n - 1] = NoBlock THEN NoBlock ELSE pNextBlock[g[n - 1]]
    <3> HIDE DEF g
    <3> QED
      BY <1>2, <2>5, <2>8 DEF Follows
  <2> QED
    BY <2>7, <2>8, <2>9, <2>10
<1> QED
  BY <1>3, <1>4 DEF Follows

---------------------------------------------------------------------------
(* The inductive invariant *)

AllocCopied == {"atop", "aptr", "anext", "acas"}
FreeCopied  == {"ftop", "flink", "fcas"}
\* A thread that has copied the tag of the top, and one with a tag not used yet.
Copied(t) == pc[t] \in AllocCopied \cup FreeCopied
Armed(t)  == pc[t] \in {"atag", "ftag"} \cup AllocCopied \cup FreeCopied

PcOK == pc \in [Threads -> {"idle", "use", "new", "unique", "atag", "ftag", "fuse"}
                           \cup AllocCopied \cup FreeCopied]

\* A tag is given to one exchange, and nobody copies it before that one.
TagInv ==
    /\ top.tag <= iUnique
    /\ \A t \in Threads : Copied(t) => local[t].copy.tag <= iUnique
    /\ \A t \in Threads : Armed(t) =>
          /\ local[t].unique <= iUnique
          /\ local[t].unique # top.tag
          /\ \A u \in Threads : Copied(u) => local[u].copy.tag # local[t].unique
          /\ \A u \in Threads \ {t} : Armed(u) => local[u].unique # local[t].unique

\* While the tag is the one a thread copied, what it read since then is still so.
EpochInv ==
    \A t \in Threads : Copied(t) /\ local[t].copy.tag = top.tag =>
        /\ pc[t] \in {"aptr", "anext", "acas", "flink", "fcas"} => local[t].copy.block = top.block
        /\ pc[t] = "anext" => local[t].next = top.block
        /\ pc[t] = "acas" => local[t].next = pNextBlock[top.block]
        /\ pc[t] = "fcas" => pNextBlock[local[t].node] = top.block

\* Every block malloc() returned is in the list, with one caller, or being freed;
\* and the list is at least as long as the number of threads taking from it.
ListInv ==
    \E f : /\ Chain(f)
           /\ known = In(f) \cup Given \cup {local[t].node : t \in Pushing}
           /\ In(f) \cap Given = {}
           /\ \A t \in Pushing : local[t].node \notin In(f) \cup Given
           /\ Cardinality(known) = Len(f) + Cardinality(Given) + Cardinality(Pushing)
           /\ Cardinality(Popping) <= Len(f)

HoldInv ==
    /\ \A b \in Given : given[b] = 1
    /\ \A t, u \in Pushing : t # u => local[t].node # local[u].node
    /\ \A t \in Threads : pc[t] = "anext" => local[t].next \in Blocks

\* _lUseSize counts the blocks with callers and the calls that have counted.
Using == {t \in Threads : pc[t] \notin {"idle", "use"}}

CountInv ==
    /\ IsFiniteSet(Using)
    /\ lUseSize = Cardinality(Given) + Cardinality(Using)
    /\ lAllocSize = Cardinality(known)
    /\ \A t \in Threads : pc[t] = "use" => local[t].count <= lAllocSize

SafeInv == TypeOK /\ PcOK /\ TagInv /\ EpochInv /\ ListInv /\ HoldInv /\ CountInv

---------------------------------------------------------------------------
(* Steps that leave the list alone *)

LEMMA Moved ==
    ASSUME PcOK, NEW t \in Threads, NEW l, Goto(t, l),
           l \in {"idle", "use", "new", "unique", "atag", "ftag", "fuse"} \cup AllocCopied \cup FreeCopied
    PROVE  PcOK' /\ pc'[t] = l /\ \A u \in Threads \ {t} : pc'[u] = pc[u]
BY DEF PcOK, Goto

LEMMA ListFrame ==
    ASSUME ListInv, UNCHANGED <<top, pNextBlock, known, given>>,
           Pushing' = Pushing, Popping' = Popping,
           \A t \in Pushing : local'[t].node = local[t].node
    PROVE  ListInv'
<1>1. Given' = Given
  BY DEF Given
<1>2. {local[t].node : t \in Pushing}' = {local[t].node : t \in Pushing}
  OBVIOUS
<1> QED
  BY <1>1, <1>2 DEF ListInv, Chain, In

\* A thread that takes a block from the list finds one there.
LEMMA PoppingFinds ==
    ASSUME SafeInv, NEW t \in Popping PROVE top.block \in Blocks
<1>1. PICK f : Chain(f) /\ Cardinality(Popping) <= Len(f)
  BY DEF SafeInv, ListInv
<1>2. Popping \subseteq Using
  BY DEF Popping, Using
<1>3. IsFiniteSet(Popping)
  BY <1>2, FS_Subset DEF SafeInv, CountInv
<1>4. Cardinality(Popping) # 0 /\ Cardinality(Popping) \in Nat
  BY <1>3, FS_EmptySet, FS_CardinalityType
<1> QED
  BY <1>1, <1>4 DEF Chain

LEMMA AllocCallStep == ASSUME SafeInv, NEW t \in Threads, AllocCall(t) PROVE SafeInv'
<1> USE DEF SafeInv, AllocCall, Call, Moves, size
<1>1. PcOK' /\ pc[t] = "idle" /\ pc'[t] = "use" /\ \A u \in Threads \ {t} : pc'[u] = pc[u]
  BY Moved
<1>2. TypeOK' /\ local'[t].count = lAllocSize /\ \A u \in Threads \ {t} : local'[u] = local[u]
  BY DEF TypeOK, Locals
<1>3. Pushing' = Pushing /\ Popping' = Popping /\ Using' = Using /\ Given' = Given
  BY <1>1 DEF Pushing, Popping, Using, Given
<1>4. TagInv' /\ EpochInv'
  BY <1>1, <1>2 DEF TagInv, EpochInv, Copied, Armed, AllocCopied, FreeCopied
<1>5. ListInv'
  BY <1>1, <1>2, <1>3, ListFrame DEF Pushing
<1>6. HoldInv' /\ CountInv'
  BY <1>1, <1>2, <1>3 DEF HoldInv, CountInv, Pushing, TypeOK
<1> QED
  BY <1>1, <1>2, <1>4, <1>5, <1>6

LEMMA AllocUseStep == ASSUME SafeInv, NEW t \in Threads, AllocUse(t) PROVE SafeInv'
<1> USE DEF SafeInv, AllocUse
<1>1. PICK l \in {"new", "unique"} : Goto(t, l) /\ (l = "unique" <=> lUseSize + 1 <= local[t].count)
  BY DEF TypeOK, Locals
<1>2. PcOK' /\ pc[t] = "use" /\ pc'[t] = l /\ \A u \in Threads \ {t} : pc'[u] = pc[u]
  BY <1>1, Moved
<1>3. TypeOK' /\ lUseSize \in Nat
  BY DEF TypeOK
<1>4. Pushing' = Pushing /\ Using' = Using \cup {t} /\ t \notin Using /\ Given' = Given
      /\ Popping' = (IF l = "unique" THEN Popping \cup {t} ELSE Popping) /\ t \notin Popping
  BY <1>2 DEF Pushing, Popping, Using, Given
<1>5. TagInv' /\ EpochInv'
  BY <1>2 DEF TagInv, EpochInv, Copied, Armed, AllocCopied, FreeCopied
<1>6. CountInv'
  <2>1. IsFiniteSet(Using') /\ Cardinality(Using') = Cardinality(Using) + 1
    BY <1>4, FS_AddElement DEF CountInv
  <2>2. Cardinality(Using) \in Nat /\ Cardinality(Given) \in Nat
    <3>1. IsFiniteSet(Given)
      BY FS_Subset DEF Given
    <3> QED
      BY <3>1, FS_CardinalityType DEF CountInv
  <2> QED
    BY <1>2, <1>4, <2>1, <2>2 DEF CountInv
<1>7. ListInv'
  <2>1. CASE l = "new"
    BY <1>4, <2>1, ListFrame
  <2>2. CASE l = "unique"
    <3>1. PICK f : /\ Chain(f)
                   /\ known = In(f) \cup Given \cup {local[u].node : u \in Pushing}
                   /\ In(f) \cap Given = {}
                   /\ \A u \in Pushing : local[u].node \notin In(f) \cup Given
                   /\ Cardinality(known) = Len(f) + Cardinality(Given) + Cardinality(Pushing)
                   /\ Cardinality(Popping) <= Len(f)
      BY DEF ListInv
    <3>2. lUseSize + 1 <= Cardinality(known)
      BY <1>1, <1>2, <1>3, <2>2 DEF CountInv, TypeOK, Locals
    <3>3. Cardinality(Given) + Cardinality(Using) + 1 <= Len(f) + Cardinality(Given) + Cardinality(Pushing)
      BY <3>1, <3>2 DEF CountInv
    <3>4. Pushing \subseteq Using /\ Popping \subseteq Using /\ Pushing \cap Popping = {}
      BY DEF Pushing, Popping, Using
    <3>5. IsFiniteSet(Pushing) /\ IsFiniteSet(Popping) /\ IsFiniteSet(Given)
      BY <3>4, FS_Subset DEF CountInv, Given
    <3>6. IsFiniteSet(Pushing \cup Popping) /\ Cardinality(Pushing \cup Popping) = Cardinality(Pushing) + Cardinality(Popping)
      <4>1. IsFiniteSet(Pushing \cup Popping)
            /\ Cardinality(Pushing \cup Popping) = Cardinality(Pushing) + Cardinality(Popping) - Cardinality({})
        BY <3>4, <3>5, FS_Union
      <4>2. Cardinality({}) = 0 /\ Cardinality(Pushing) \in Nat /\ Cardinality(Popping) \in Nat
        BY <3>5, FS_EmptySet, FS_CardinalityType
      <4> QED
        BY <4>1, <4>2
    <3>7. Cardinality(Pushing \cup Popping) <= Cardinality(Using)
      BY <3>4, FS_Subset DEF CountInv
    <3>8. /\ Cardinality(Pushing) \in Nat /\ Cardinality(Popping) \in Nat
          /\ Cardinality(Given) \in Nat /\ Cardinality(Using) \in Nat
      BY <3>5, FS_CardinalityType DEF CountInv
    <3>9. Len(f) \in Nat
      BY <3>1 DEF Chain
    <3>10. Cardinality(Popping) + 1 <= Len(f)
      BY <3>3, <3>6, <3>7, <3>8, <3>9
    <3>11. Cardinality(Popping') = Cardinality(Popping) + 1
      BY <1>4, <2>2, <3>5, FS_AddElement
    <3>12. {local[u].node : u \in Pushing}' = {local[u].node : u \in Pushing}
      BY <1>4
    <3>13. Chain(f)'
      BY <3>1 DEF Chain
    <3> QED
      BY <1>4, <3>1, <3>10, <3>11, <3>12, <3>13 DEF ListInv
  <2> QED
    BY <2>1, <2>2
<1>8. HoldInv'
  BY <1>2, <1>4 DEF HoldInv, AllocCopied
<1> QED
  BY <1>2, <1>3, <1>5, <1>6, <1>7, <1>8

LEMMA AllocUniqueStep == ASSUME SafeInv, NEW t \in Threads, AllocUnique(t) PROVE SafeInv'
<1> USE DEF SafeInv, AllocUnique, Moves, NewTag, size
<1>1. PcOK' /\ pc[t] = "unique" /\ pc'[t] = "atag" /\ \A u \in Threads \ {t} : pc'[u] = pc[u]
  BY Moved
<1>2. /\ TypeOK' /\ local'[t].unique = iUnique + 1 /\ local'[t].node = local[t].node
      /\ local'[t].copy = local[t].copy
      /\ \A u \in Threads \ {t} : local'[u] = local[u]
  BY DEF TypeOK, Locals
<1>3. Pushing' = Pushing /\ Popping' = Popping /\ Using' = Using /\ Given' = Given
  BY <1>1 DEF Pushing, Popping, Using, Given
<1>4. TagInv'
  BY <1>1, <1>2 DEF TagInv, Copied, Armed, AllocCopied, FreeCopied, TypeOK, Locals
<1>5. EpochInv'
  BY <1>1, <1>2 DEF EpochInv, Copied, AllocCopied, FreeCopied
<1>6. ListInv'
  BY <1>1, <1>2, <1>3, ListFrame DEF Pushing
<1>7. HoldInv' /\ CountInv'
  BY <1>1, <1>2, <1>3 DEF HoldInv, CountInv, Pushing
<1> QED
  BY <1>1, <1>2, <1>4, <1>5, <1>6, <1>7

LEMMA AllocTagStep == ASSUME SafeInv, NEW t \in Threads, AllocTag(t) PROVE SafeInv'
<1> USE DEF SafeInv, AllocTag, Moves, size
<1>1. PcOK' /\ pc[t] = "atag" /\ pc'[t] = "atop" /\ \A u \in Threads \ {t} : pc'[u] = pc[u]
  BY Moved DEF AllocCopied
<1>2. /\ TypeOK' /\ local'[t].copy.tag = top.tag /\ local'[t].node = local[t].node
      /\ local'[t].unique = local[t].unique
      /\ \A u \in Threads \ {t} : local'[u] = local[u]
  BY DEF TypeOK, Locals
<1>3. Pushing' = Pushing /\ Popping' = Popping /\ Using' = Using /\ Given' = Given
  BY <1>1 DEF Pushing, Popping, Using, Given
<1>4. TagInv'
  BY <1>1, <1>2 DEF TagInv, Copied, Armed, AllocCopied, FreeCopied
<1>5. EpochInv'
  BY <1>1, <1>2 DEF EpochInv, Copied, AllocCopied, FreeCopied
<1>6. ListInv'
  BY <1>1, <1>2, <1>3, ListFrame DEF Pushing
<1>7. HoldInv' /\ CountInv'
  BY <1>1, <1>2, <1>3 DEF HoldInv, CountInv, Pushing
<1> QED
  BY <1>1, <1>2, <1>4, <1>5, <1>6, <1>7

LEMMA AllocTopStep == ASSUME SafeInv, NEW t \in Threads, AllocTop(t) PROVE SafeInv'
<1> USE DEF SafeInv, AllocTop, Moves, size
<1>1. PcOK' /\ pc[t] = "atop" /\ pc'[t] = "aptr" /\ \A u \in Threads \ {t} : pc'[u] = pc[u]
  BY Moved DEF AllocCopied
<1>2. /\ TypeOK' /\ local'[t].copy.block = top.block /\ local'[t].copy.tag = local[t].copy.tag
      /\ local'[t].node = local[t].node /\ local'[t].unique = local[t].unique
      /\ \A u \in Threads \ {t} : local'[u] = local[u]
  BY DEF TypeOK, Locals
<1>3. Pushing' = Pushing /\ Popping' = Popping /\ Using' = Using /\ Given' = Given
  BY <1>1 DEF Pushing, Popping, Using, Given
<1>4. TagInv'
  BY <1>1, <1>2 DEF TagInv, Copied, Armed, AllocCopied, FreeCopied
<1>5. EpochInv'
  BY <1>1, <1>2 DEF EpochInv, Copied, AllocCopied, FreeCopied
<1>6. ListInv'
  BY <1>1, <1>2, <1>3, ListFrame DEF Pushing
<1>7. HoldInv' /\ CountInv'
  BY <1>1, <1>2, <1>3 DEF HoldInv, CountInv, Pushing
<1> QED
  BY <1>1, <1>2, <1>4, <1>5, <1>6, <1>7

LEMMA AllocPtrStep == ASSUME SafeInv, NEW t \in Threads, AllocPtr(t) PROVE SafeInv'
<1> USE DEF SafeInv, AllocPtr, Moves, size
<1>1. PcOK' /\ pc[t] = "aptr" /\ pc'[t] = "anext" /\ \A u \in Threads \ {t} : pc'[u] = pc[u]
  BY Moved DEF AllocCopied
<1>2. /\ TypeOK' /\ local'[t].next = top.block /\ local'[t].copy = local[t].copy
      /\ local'[t].node = local[t].node /\ local'[t].unique = local[t].unique
      /\ \A u \in Threads \ {t} : local'[u] = local[u]
  BY DEF TypeOK, Locals
<1>3. Pushing' = Pushing /\ Popping' = Popping /\ Using' = Using /\ Given' = Given /\ t \in Popping
  BY <1>1 DEF Pushing, Popping, Using, Given
<1>4. TagInv'
  BY <1>1, <1>2 DEF TagInv, Copied, Armed, AllocCopied, FreeCopied
<1>5. EpochInv'
  BY <1>1, <1>2 DEF EpochInv, Copied, AllocCopied, FreeCopied
<1>6. ListInv'
  BY <1>1, <1>2, <1>3, ListFrame DEF Pushing
<1>7. HoldInv' /\ CountInv'
  BY <1>1, <1>2, <1>3, PoppingFinds DEF HoldInv, CountInv, Pushing
<1> QED
  BY <1>1, <1>2, <1>4, <1>5, <1>6, <1>7

LEMMA AllocNextStep == ASSUME SafeInv, NEW t \in Threads, AllocNext(t) PROVE SafeInv'
<1> USE DEF SafeInv, AllocNext, Moves, size
<1>1. PcOK' /\ pc[t] = "anext" /\ pc'[t] = "acas" /\ \A u \in Threads \ {t} : pc'[u] = pc[u]
  BY Moved DEF AllocCopied
<1>2. local[t].next \in Blocks
  BY <1>1 DEF HoldInv
<1>3. /\ TypeOK' /\ local'[t].next = pNextBlock[local[t].next] /\ local'[t].copy = local[t].copy
      /\ local'[t].node = local[t].node /\ local'[t].unique = local[t].unique
      /\ \A u \in Threads \ {t} : local'[u] = local[u]
  BY <1>2 DEF TypeOK, Locals
<1>4. Pushing' = Pushing /\ Popping' = Popping /\ Using' = Using /\ Given' = Given
  BY <1>1 DEF Pushing, Popping, Using, Given
<1>5. TagInv'
  BY <1>1, <1>3 DEF TagInv, Copied, Armed, AllocCopied, FreeCopied
<1>6. EpochInv'
  BY <1>1, <1>3 DEF EpochInv, Copied, AllocCopied, FreeCopied
<1>7. ListInv'
  BY <1>1, <1>3, <1>4, ListFrame DEF Pushing
<1>8. HoldInv' /\ CountInv'
  BY <1>1, <1>3, <1>4 DEF HoldInv, CountInv, Pushing
<1> QED
  BY <1>1, <1>3, <1>5, <1>6, <1>7, <1>8

LEMMA FreeTagStep == ASSUME SafeInv, NEW t \in Threads, FreeTag(t) PROVE SafeInv'
<1> USE DEF SafeInv, FreeTag, Moves, size
<1>1. PcOK' /\ pc[t] = "ftag" /\ pc'[t] = "ftop" /\ \A u \in Threads \ {t} : pc'[u] = pc[u]
  BY Moved DEF FreeCopied
<1>2. /\ TypeOK' /\ local'[t].copy.tag = top.tag /\ local'[t].node = local[t].node
      /\ local'[t].unique = local[t].unique
      /\ \A u \in Threads \ {t} : local'[u] = local[u]
  BY DEF TypeOK, Locals
<1>3. Pushing' = Pushing /\ Popping' = Popping /\ Using' = Using /\ Given' = Given
  BY <1>1 DEF Pushing, Popping, Using, Given
<1>4. TagInv'
  BY <1>1, <1>2 DEF TagInv, Copied, Armed, AllocCopied, FreeCopied
<1>5. EpochInv'
  BY <1>1, <1>2 DEF EpochInv, Copied, AllocCopied, FreeCopied
<1>6. ListInv'
  BY <1>1, <1>2, <1>3, ListFrame DEF Pushing
<1>7. HoldInv' /\ CountInv'
  BY <1>1, <1>2, <1>3 DEF HoldInv, CountInv, Pushing
<1> QED
  BY <1>1, <1>2, <1>4, <1>5, <1>6, <1>7

LEMMA FreeTopStep == ASSUME SafeInv, NEW t \in Threads, FreeTop(t) PROVE SafeInv'
<1> USE DEF SafeInv, FreeTop, Moves, size
<1>1. PcOK' /\ pc[t] = "ftop" /\ pc'[t] = "flink" /\ \A u \in Threads \ {t} : pc'[u] = pc[u]
  BY Moved DEF FreeCopied
<1>2. /\ TypeOK' /\ local'[t].copy.block = top.block /\ local'[t].copy.tag = local[t].copy.tag
      /\ local'[t].node = local[t].node /\ local'[t].unique = local[t].unique
      /\ \A u \in Threads \ {t} : local'[u] = local[u]
  BY DEF TypeOK, Locals
<1>3. Pushing' = Pushing /\ Popping' = Popping /\ Using' = Using /\ Given' = Given
  BY <1>1 DEF Pushing, Popping, Using, Given
<1>4. TagInv'
  BY <1>1, <1>2 DEF TagInv, Copied, Armed, AllocCopied, FreeCopied
<1>5. EpochInv'
  BY <1>1, <1>2 DEF EpochInv, Copied, AllocCopied, FreeCopied
<1>6. ListInv'
  BY <1>1, <1>2, <1>3, ListFrame DEF Pushing
<1>7. HoldInv' /\ CountInv'
  BY <1>1, <1>2, <1>3 DEF HoldInv, CountInv, Pushing
<1> QED
  BY <1>1, <1>2, <1>4, <1>5, <1>6, <1>7

\* The link of a block that is not in the list yet.
LEMMA FreeLinkStep == ASSUME SafeInv, NEW t \in Threads, FreeLink(t) PROVE SafeInv'
<1> USE DEF SafeInv, FreeLink, Moves, size
<1>1. PcOK' /\ pc[t] = "flink" /\ pc'[t] = "fcas" /\ \A u \in Threads \ {t} : pc'[u] = pc[u]
  BY Moved DEF FreeCopied
<1>2. Pushing' = Pushing /\ Popping' = Popping /\ Using' = Using /\ Given' = Given /\ t \in Pushing
  BY <1>1 DEF Pushing, Popping, Using, Given
<1>3. PICK f : /\ Chain(f)
               /\ known = In(f) \cup Given \cup {local[u].node : u \in Pushing}
               /\ In(f) \cap Given = {}
               /\ \A u \in Pushing : local[u].node \notin In(f) \cup Given
               /\ Cardinality(known) = Len(f) + Cardinality(Given) + Cardinality(Pushing)
               /\ Cardinality(Popping) <= Len(f)
  BY DEF ListInv
<1>4. PICK n : n = local[t].node
  OBVIOUS
<1>5. n \in Blocks /\ n \notin In(f) /\ \A u \in Pushing \ {t} : local[u].node # n
  BY <1>2, <1>3, <1>4 DEF HoldInv, TypeOK
<1>6. pNextBlock'[n] = top.block /\ \A b \in Blocks \ {n} : pNextBlock'[b] = pNextBlock[b]
  BY <1>4, <1>5 DEF TypeOK
<1>7. TypeOK'
  BY DEF TypeOK
<1>8. TagInv'
  BY <1>1 DEF TagInv, Copied, Armed, AllocCopied, FreeCopied
<1>9. EpochInv'
  <2>1. \A u \in Threads \ {t} : pc[u] = "acas" => top.block \in Blocks
    BY PoppingFinds DEF Popping
  <2>2. top.block # n
    BY <1>3, <1>5 DEF Chain, In
  <2>3. \A u \in Threads \ {t} : pc[u] = "fcas" => local[u].node # n /\ local[u].node \in Blocks
    BY <1>3, <1>5 DEF Pushing, TypeOK
  <2> QED
    BY <1>1, <1>4, <1>6, <2>1, <2>2, <2>3 DEF EpochInv, Copied, AllocCopied, FreeCopied
<1>10. ListInv'
  <2>1. Chain(f)'
    BY <1>3, <1>5, <1>6 DEF Chain, In
  <2>2. {local[u].node : u \in Pushing}' = {local[u].node : u \in Pushing}
    BY <1>2
  <2> QED
    BY <1>2, <1>3, <2>1, <2>2 DEF ListInv
<1>11. HoldInv' /\ CountInv'
  BY <1>1, <1>2 DEF HoldInv, CountInv
<1> QED
  BY <1>1, <1>7, <1>8, <1>9, <1>10, <1>11

---------------------------------------------------------------------------
(* Steps that move a block *)

LEMMA SetsFinite ==
    ASSUME SafeInv
    PROVE  /\ IsFiniteSet(Given) /\ IsFiniteSet(known) /\ IsFiniteSet(Pushing)
           /\ IsFiniteSet(Popping) /\ IsFiniteSet(Using)
           /\ Cardinality(Given) \in Nat /\ Cardinality(known) \in Nat /\ Cardinality(Pushing) \in Nat
           /\ Cardinality(Popping) \in Nat /\ Cardinality(Using) \in Nat
<1>1. Given \subseteq Blocks /\ known \subseteq Blocks /\ Pushing \subseteq Using /\ Popping \subseteq Using
  BY DEF SafeInv, TypeOK, Given, Pushing, Popping, Using
<1>2. /\ IsFiniteSet(Given) /\ IsFiniteSet(known) /\ IsFiniteSet(Pushing)
      /\ IsFiniteSet(Popping) /\ IsFiniteSet(Using)
  BY <1>1, FS_Subset DEF SafeInv, CountInv
<1> QED
  BY <1>2, FS_CardinalityType

LEMMA FreshTyped == Fresh \in Locals
BY DEF Fresh, Locals

\* A block nobody has gets a caller.
LEMMA HandedOut ==
    ASSUME TypeOK, NEW b \in Blocks, given[b] = 0, HandOut(b)
    PROVE  /\ given' \in [Blocks -> Nat] /\ given'[b] = 1
           /\ \A c \in Blocks \ {b} : given'[c] = given[c]
           /\ Given' = Given \cup {b}
<1>1. given' = [given EXCEPT ![b] = given[b] + 1]
  BY DEF HandOut
<1>2. given' \in [Blocks -> Nat] /\ given'[b] = 1 /\ \A c \in Blocks \ {b} : given'[c] = given[c]
  BY <1>1 DEF TypeOK
<1>3. \A c \in Blocks : c \in Given' <=> c \in Given \cup {b}
  BY <1>2 DEF Given
<1>4. Given \subseteq Blocks /\ Given' \subseteq Blocks
  BY DEF Given
<1> QED
  BY <1>2, <1>3, <1>4

LEMMA AllocNewStep == ASSUME SafeInv, NEW t \in Threads, AllocNew(t) PROVE SafeInv'
<1> USE DEF SafeInv, AllocNew, Return
<1>1. PcOK' /\ pc[t] = "new" /\ pc'[t] = "idle" /\ \A u \in Threads \ {t} : pc'[u] = pc[u]
  BY Moved
<1>2. PICK b \in Blocks \ known : known' = known \cup {b} /\ HandOut(b)
  OBVIOUS
<1>3. PICK f : /\ Chain(f)
               /\ known = In(f) \cup Given \cup {local[u].node : u \in Pushing}
               /\ In(f) \cap Given = {}
               /\ \A u \in Pushing : local[u].node \notin In(f) \cup Given
               /\ Cardinality(known) = Len(f) + Cardinality(Given) + Cardinality(Pushing)
               /\ Cardinality(Popping) <= Len(f)
  BY DEF ListInv
<1>4. b \notin Given /\ given[b] = 0 /\ b \notin In(f) /\ \A u \in Pushing : local[u].node # b
  BY <1>2, <1>3 DEF Given, TypeOK
<1>5. /\ given' \in [Blocks -> Nat] /\ given'[b] = 1
      /\ \A c \in Blocks \ {b} : given'[c] = given[c]
      /\ Given' = Given \cup {b}
  BY <1>2, <1>4, HandedOut
<1>6. TypeOK' /\ \A u \in Threads \ {t} : local'[u] = local[u]
  BY <1>2, <1>5, FreshTyped DEF TypeOK
<1>7. Pushing' = Pushing /\ Popping' = Popping /\ Using' = Using \ {t} /\ t \in Using
      /\ t \notin Pushing
  BY <1>1 DEF Pushing, Popping, Using
<1>8. TagInv'
  BY <1>1, <1>6 DEF TagInv, Copied, Armed, AllocCopied, FreeCopied
<1>9. EpochInv'
  BY <1>1, <1>6 DEF EpochInv, Copied, AllocCopied, FreeCopied
<1>10. /\ Cardinality(Given') = Cardinality(Given) + 1 /\ Cardinality(known') = Cardinality(known) + 1
       /\ IsFiniteSet(Using') /\ Cardinality(Using') = Cardinality(Using) - 1
  <2>1. Cardinality(Given') = Cardinality(Given) + 1
    BY <1>4, <1>5, SetsFinite, FS_AddElement
  <2>2. Cardinality(known') = Cardinality(known) + 1
    BY <1>2, SetsFinite, FS_AddElement
  <2>3. IsFiniteSet(Using') /\ Cardinality(Using') = Cardinality(Using) - 1
    BY <1>7, SetsFinite, FS_RemoveElement
  <2> QED
    BY <2>1, <2>2, <2>3
<1>11. ListInv'
  <2>1. Chain(f)'
    BY <1>3 DEF Chain
  <2>2. {local[u].node : u \in Pushing}' = {local[u].node : u \in Pushing}
    BY <1>6, <1>7 DEF Pushing
  <2>3. \A u \in Pushing : local'[u] = local[u]
    BY <1>6, <1>7 DEF Pushing
  <2>4. Cardinality(known') = Len(f) + Cardinality(Given') + Cardinality(Pushing')
    <3>1. Len(f) \in Nat
      BY <1>3 DEF Chain
    <3> QED
      BY <1>3, <1>7, <1>10, <3>1, SetsFinite
  <2>5. known' = In(f) \cup Given' \cup {local[u].node : u \in Pushing}'
    BY <1>2, <1>3, <1>5, <2>2
  <2>6. \A u \in Pushing' : local'[u].node \notin In(f) \cup Given'
    BY <1>3, <1>4, <1>5, <1>7, <2>3
  <2>7. In(f) \cap Given' = {} /\ Cardinality(Popping') <= Len(f)
    BY <1>3, <1>4, <1>5, <1>7
  <2> QED
    BY <2>1, <2>4, <2>5, <2>6, <2>7 DEF ListInv
<1>12. HoldInv'
  <2>1. \A c \in Given' : given'[c] = 1
    BY <1>5 DEF HoldInv, Given
  <2>2. \A u \in Pushing : local'[u].node = local[u].node
    BY <1>6, <1>7 DEF Pushing
  <2>3. \A u \in Threads : pc'[u] = "anext" => local'[u].next \in Blocks
    BY <1>1, <1>6 DEF HoldInv
  <2> QED
    BY <1>7, <2>1, <2>2, <2>3 DEF HoldInv
<1>13. CountInv'
  BY <1>1, <1>6, <1>10, SetsFinite DEF CountInv, TypeOK, Locals
<1> QED
  BY <1>1, <1>6, <1>8, <1>9, <1>11, <1>12, <1>13

\* The exchange of Alloc takes the first block of the list, and links the second.
LEMMA AllocCASStep == ASSUME SafeInv, NEW t \in Threads, AllocCAS(t) PROVE SafeInv'
<1> USE DEF SafeInv, AllocCAS, size
<1>1. CASE ~Unchanged(t)
  <2>1. PcOK' /\ pc[t] = "acas" /\ pc'[t] = "atag" /\ \A u \in Threads \ {t} : pc'[u] = pc[u]
    BY <1>1, Moved
  <2>2. UNCHANGED <<top, pNextBlock, iUnique, lUseSize, lAllocSize, local, given, known, calls>>
    BY <1>1
  <2>3. Pushing' = Pushing /\ Popping' = Popping /\ Using' = Using /\ Given' = Given
    BY <2>1, <2>2 DEF Pushing, Popping, Using, Given
  <2>4. TagInv'
    BY <2>1, <2>2 DEF TagInv, Copied, Armed, AllocCopied, FreeCopied
  <2>5. EpochInv'
    BY <2>1, <2>2 DEF EpochInv, Copied, AllocCopied, FreeCopied
  <2>6. ListInv'
    BY <2>2, <2>3, ListFrame
  <2>7. TypeOK' /\ HoldInv' /\ CountInv'
    BY <2>1, <2>2, <2>3 DEF TypeOK, HoldInv, CountInv
  <2> QED
    BY <2>1, <2>4, <2>5, <2>6, <2>7
<1>2. CASE Unchanged(t)
  <2>1. PcOK' /\ pc[t] = "acas" /\ pc'[t] = "idle" /\ \A u \in Threads \ {t} : pc'[u] = pc[u]
    BY <1>2, Moved DEF Return
  <2>2. PICK b : b = top.block
    OBVIOUS
  <2>3. /\ b \in Blocks /\ b = local[t].copy.block /\ local[t].next = pNextBlock[b]
        /\ local[t].copy.tag = top.tag
    BY <1>2, <2>1, <2>2, PoppingFinds DEF Unchanged, EpochInv, Copied, AllocCopied, Popping, TypeOK, Locals
  <2>4. /\ top' = [block |-> pNextBlock[b], tag |-> local[t].unique]
        /\ HandOut(b)
        /\ local' = [local EXCEPT ![t] = Fresh]
        /\ UNCHANGED <<pNextBlock, iUnique, lUseSize, lAllocSize, known, calls>>
    BY <1>2, <2>3 DEF Exchange, Return, Unchanged
  <2>5. PICK f : /\ Chain(f)
                 /\ known = In(f) \cup Given \cup {local[u].node : u \in Pushing}
                 /\ In(f) \cap Given = {}
                 /\ \A u \in Pushing : local[u].node \notin In(f) \cup Given
                 /\ Cardinality(known) = Len(f) + Cardinality(Given) + Cardinality(Pushing)
                 /\ Cardinality(Popping) <= Len(f)
    BY DEF ListInv
  <2>6. Len(f) \in Nat /\ Len(f) # 0 /\ b = f[1] /\ b \in In(f)
    <3>1. Len(f) \in Nat /\ Len(f) # 0 /\ b = f[1]
      <4>1. f \in Seq(Blocks) /\ top.block = IF Len(f) = 0 THEN NoBlock ELSE f[1]
        BY <2>5 DEF Chain
      <4>2. Len(f) \in Nat
        BY <4>1
      <4> QED
        BY <2>2, <2>3, <4>1, <4>2
    <3>2. 1 \in 1..Len(f)
      BY <3>1
    <3> QED
      BY <3>1, <3>2 DEF In
  <2>7. b \notin Given /\ given[b] = 0 /\ \A u \in Pushing : local[u].node # b
    BY <2>3, <2>5, <2>6 DEF Given, TypeOK
  <2>8. /\ given' \in [Blocks -> Nat] /\ given'[b] = 1
        /\ \A c \in Blocks \ {b} : given'[c] = given[c]
        /\ Given' = Given \cup {b}
    BY <2>3, <2>4, <2>7, HandedOut
  <2>9. \A u \in Threads \ {t} : local'[u] = local[u]
    BY <2>4 DEF TypeOK
  <2>10. TypeOK'
    BY <2>3, <2>4, <2>8, FreshTyped DEF TypeOK, Locals
  <2>11. Pushing' = Pushing /\ Popping' = Popping \ {t} /\ Using' = Using \ {t}
         /\ t \in Using /\ t \in Popping /\ t \notin Pushing
    BY <2>1 DEF Pushing, Popping, Using
  <2>12. TagInv'
    <3>1. Armed(t) /\ ~Armed(t)' /\ ~Copied(t)' /\ top'.tag = local[t].unique
      BY <2>1, <2>4 DEF Armed, Copied, AllocCopied, FreeCopied
    <3>2. \A u \in Threads \ {t} : (Armed(u)' <=> Armed(u)) /\ (Copied(u)' <=> Copied(u))
      BY <2>1 DEF Armed, Copied
    <3> QED
      BY <2>4, <2>9, <3>1, <3>2 DEF TagInv
  <2>13. EpochInv'
    <3>1. \A u \in Threads : Copied(u)' => u # t /\ Copied(u) /\ local'[u].copy.tag # top'.tag
      BY <2>1, <2>4, <2>9 DEF TagInv, Armed, Copied, AllocCopied, FreeCopied
    <3> QED
      BY <3>1 DEF EpochInv
  <2>14. ListInv'
    <3> DEFINE g == [i \in 1..Len(f) - 1 |-> f[i + 1]]
    <3>1. g \in Seq(Blocks) /\ Len(g) = Len(f) - 1
      BY <2>5, <2>6 DEF Chain
    <3>2. In(g) = In(f) \ {b}
      <4>1. \A i \in 1..Len(g) : g[i] = f[i + 1] /\ i + 1 \in 1..Len(f) /\ i + 1 # 1
        BY <2>6, <3>1
      <4>2. \A i \in 1..Len(f) : i # 1 => i - 1 \in 1..Len(g) /\ g[i - 1] = f[i]
        BY <2>6, <3>1
      <4> HIDE DEF g
      <4>3. In(g) \subseteq In(f) \ {b}
        BY <2>5, <2>6, <4>1 DEF Chain, In
      <4>4. In(f) \ {b} \subseteq In(g)
        BY <2>6, <4>2 DEF In
      <4> QED
        BY <4>3, <4>4
    <3>3. Chain(g)'
      <4>0. g = [i \in 1..Len(f) - 1 |-> f[i + 1]]
        OBVIOUS
      <4> HIDE DEF g
      <4>1. top'.block = IF Len(g) = 0 THEN NoBlock ELSE g[1]
        <5>1. 1 \in 1..Len(f)
          BY <2>6
        <5>2. top'.block = pNextBlock[f[1]]
          BY <2>4, <2>6
        <5>3. pNextBlock[f[1]] = IF 1 = Len(f) THEN NoBlock ELSE f[1 + 1]
          <6>1. \A i \in 1..Len(f) : pNextBlock[f[i]] = IF i = Len(f) THEN NoBlock ELSE f[i + 1]
            BY <2>5 DEF Chain
          <6> QED
            BY <5>1, <6>1
        <5>4. Len(g) # 0 => g[1] = f[1 + 1]
          <6>1. Len(g) # 0 => 1 \in 1..Len(f) - 1
            BY <2>6, <3>1
          <6>2. 1 \in 1..Len(f) - 1 => g[1] = f[1 + 1]
            BY <4>0
          <6> QED
            BY <6>1, <6>2
        <5>5. Len(f) # 1 <=> Len(g) # 0
          BY <2>6, <3>1
        <5> QED
          BY <5>2, <5>3, <5>4, <5>5
      <4>2. \A i \in 1..Len(g) : pNextBlock'[g[i]] = IF i = Len(g) THEN NoBlock ELSE g[i + 1]
        BY <2>4, <2>5, <2>6, <3>1, <4>0 DEF Chain
      <4>3. \A i, j \in 1..Len(g) : i # j => g[i] # g[j]
        BY <2>5, <2>6, <3>1, <4>0 DEF Chain
      <4> QED
        BY <3>1, <4>1, <4>2, <4>3 DEF Chain
    <3> HIDE DEF g
    <3>4. \A u \in Pushing : local'[u] = local[u]
      BY <2>9, <2>11 DEF Pushing
    <3>5. {local[u].node : u \in Pushing}' = {local[u].node : u \in Pushing}
      BY <2>11, <3>4
    <3>6. known' = In(g) \cup Given' \cup {local[u].node : u \in Pushing}'
      BY <2>4, <2>5, <2>6, <2>8, <3>2, <3>5
    <3>7. In(g) \cap Given' = {} /\ \A u \in Pushing' : local'[u].node \notin In(g) \cup Given'
      BY <2>5, <2>7, <2>8, <2>11, <3>2, <3>4
    <3>8. Cardinality(Given') = Cardinality(Given) + 1
      BY <2>7, <2>8, SetsFinite, FS_AddElement
    <3>9. Cardinality(Popping') = Cardinality(Popping) - 1
      BY <2>11, SetsFinite, FS_RemoveElement
    <3>10. Cardinality(known') = Len(g) + Cardinality(Given') + Cardinality(Pushing')
           /\ Cardinality(Popping') <= Len(g)
      <4>1. Cardinality(known) = Len(f) + Cardinality(Given) + Cardinality(Pushing)
            /\ Cardinality(Popping) <= Len(f)
        BY <2>5
      <4>2. known' = known /\ Pushing' = Pushing /\ Len(f) \in Nat /\ Len(g) = Len(f) - 1
        BY <2>4, <2>6, <2>11, <3>1
      <4> QED
        BY <3>8, <3>9, <4>1, <4>2, SetsFinite
    <3> QED
      BY <3>3, <3>6, <3>7, <3>10 DEF ListInv
  <2>15. HoldInv'
    <3>1. \A c \in Given' : given'[c] = 1
      <4>1. Given \subseteq Blocks /\ \A c \in Given : given[c] = 1
        BY DEF HoldInv, Given
      <4> QED
        BY <2>7, <2>8, <4>1
    <3>2. \A u \in Pushing : local'[u].node = local[u].node
      BY <2>9, <2>11 DEF Pushing
    <3>3. \A u \in Threads : pc'[u] = "anext" => local'[u].next \in Blocks
      BY <2>1, <2>9 DEF HoldInv
    <3> QED
      BY <2>11, <3>1, <3>2, <3>3 DEF HoldInv
  <2>16. CountInv'
    <3>1. Cardinality(Given') = Cardinality(Given) + 1
      BY <2>7, <2>8, SetsFinite, FS_AddElement
    <3>2. IsFiniteSet(Using') /\ Cardinality(Using') = Cardinality(Using) - 1
      BY <2>11, SetsFinite, FS_RemoveElement
    <3> QED
      BY <2>1, <2>4, <2>9, <3>1, <3>2, SetsFinite DEF CountInv
  <2> QED
    BY <2>1, <2>10, <2>12, <2>13, <2>14, <2>15, <2>16
<1> QED
  BY <1>1, <1>2

\* A caller gives a block back: from here to the exchange it is the call's.
LEMMA FreeCallStep == ASSUME SafeInv, NEW t \in Threads, FreeCall(t) PROVE SafeInv'
<1> USE DEF SafeInv, FreeCall, Call, Moves, size
<1>1. PcOK' /\ pc[t] = "idle" /\ pc'[t] = "ftag" /\ \A u \in Threads \ {t} : pc'[u] = pc[u]
  BY Moved
<1>2. PICK b \in Given : /\ given' = [given EXCEPT ![b] = @ - 1]
                         /\ local' = [local EXCEPT ![t].unique = iUnique + 1, ![t].node = b]
  OBVIOUS
<1>3. b \in Blocks /\ given[b] = 1
  BY DEF HoldInv, Given
<1>4. given' \in [Blocks -> Nat] /\ given'[b] = 0 /\ \A c \in Blocks \ {b} : given'[c] = given[c]
  <2>1. given' = [given EXCEPT ![b] = given[b] - 1]
    BY <1>2
  <2> QED
    BY <1>3, <2>1 DEF TypeOK
<1>5. Given' = Given \ {b}
  <2>1. \A c \in Blocks : c \in Given' <=> c \in Given \ {b}
    BY <1>4 DEF Given
  <2> QED
    BY <2>1 DEF Given
<1>6. /\ local' \in [Threads -> Locals] /\ iUnique' = iUnique + 1 /\ iUnique \in Nat /\ calls' \in Nat
      /\ local'[t].unique = iUnique + 1 /\ local'[t].node = b /\ local'[t].copy = local[t].copy
      /\ \A u \in Threads \ {t} : local'[u] = local[u]
  <2>1. local[t] \in Locals /\ local \in [Threads -> Locals] /\ iUnique \in Nat /\ calls \in Nat
    BY DEF TypeOK
  <2>2. local' = [local EXCEPT ![t] = [local[t] EXCEPT !.unique = iUnique + 1, !.node = b]]
    BY <1>2, <2>1 DEF Locals
  <2>3. [local[t] EXCEPT !.unique = iUnique + 1, !.node = b] \in Locals
    <3>1. iUnique + 1 \in Nat /\ b \in Blocks \cup {NoBlock}
      BY <1>3, <2>1
    <3>2. PICK l : l = local[t]
      OBVIOUS
    <3>3. [l EXCEPT !.unique = iUnique + 1] \in Locals
      BY <2>1, <3>1, <3>2 DEF Locals
    <3>4. [[l EXCEPT !.unique = iUnique + 1] EXCEPT !.node = b] \in Locals
      BY <3>1, <3>3 DEF Locals
    <3>5. [l EXCEPT !.unique = iUnique + 1, !.node = b] \in Locals
      BY <3>4
    <3> QED
      BY <3>2, <3>5
  <2>4. local' \in [Threads -> Locals]
    BY <2>1, <2>2, <2>3
  <2>5. local'[t].unique = iUnique + 1 /\ local'[t].node = b /\ local'[t].copy = local[t].copy
    BY <2>1, <2>2 DEF Locals
  <2>6. \A u \in Threads \ {t} : local'[u] = local[u]
    BY <2>1, <2>2
  <2> QED
    BY <2>1, <2>4, <2>5, <2>6
<1>7. TypeOK'
  BY <1>4, <1>6 DEF TypeOK
<1>8. Pushing' = Pushing \cup {t} /\ t \notin Pushing /\ Popping' = Popping
      /\ Using' = Using \cup {t} /\ t \notin Using
  BY <1>1 DEF Pushing, Popping, Using
<1>9. TagInv'
  <2>1. top.tag \in Nat /\ \A u \in Threads : local[u].unique \in Nat /\ local[u].copy.tag \in Nat
    BY DEF TypeOK, Locals
  <2>2. Armed(t)' /\ ~Copied(t)' /\ ~Copied(t)
    BY <1>1 DEF Armed, Copied, AllocCopied, FreeCopied
  <2>3. \A u \in Threads \ {t} : (Armed(u)' <=> Armed(u)) /\ (Copied(u)' <=> Copied(u))
    BY <1>1 DEF Armed, Copied
  <2> QED
    BY <1>6, <2>1, <2>2, <2>3 DEF TagInv
<1>10. EpochInv'
  BY <1>1, <1>6 DEF EpochInv, Copied, AllocCopied, FreeCopied
<1>11. PICK f : /\ Chain(f)
                /\ known = In(f) \cup Given \cup {local[u].node : u \in Pushing}
                /\ In(f) \cap Given = {}
                /\ \A u \in Pushing : local[u].node \notin In(f) \cup Given
                /\ Cardinality(known) = Len(f) + Cardinality(Given) + Cardinality(Pushing)
                /\ Cardinality(Popping) <= Len(f)
  BY DEF ListInv
<1>12. Cardinality(Given') = Cardinality(Given) - 1 /\ Cardinality(Pushing') = Cardinality(Pushing) + 1
  <2>1. Cardinality(Given') = Cardinality(Given) - 1
    BY <1>5, SetsFinite, FS_RemoveElement
  <2>2. Cardinality(Pushing') = Cardinality(Pushing) + 1
    BY <1>8, SetsFinite, FS_AddElement
  <2> QED
    BY <2>1, <2>2
<1>13. \A u \in Pushing : local'[u] = local[u]
  BY <1>6, <1>8 DEF Pushing
<1>14. ListInv'
  <2>1. Chain(f)'
    BY <1>11 DEF Chain
  <2>2. {local[u].node : u \in Pushing}' = {local[u].node : u \in Pushing} \cup {b}
    <3>1. \A u \in Pushing' : local'[u].node \in {local[v].node : v \in Pushing} \cup {b}
      <4>1. \A u \in Pushing' : u = t \/ u \in Pushing
        BY <1>8
      <4> QED
        BY <1>6, <1>13, <4>1
    <3>2. \A u \in Pushing : u \in Pushing' /\ local[u].node = local'[u].node
      BY <1>8, <1>13
    <3>3. t \in Pushing' /\ b = local'[t].node
      BY <1>6, <1>8
    <3>4. {local[u].node : u \in Pushing}' \subseteq {local[u].node : u \in Pushing} \cup {b}
      BY <3>1
    <3>5. {local[u].node : u \in Pushing} \cup {b} \subseteq {local[u].node : u \in Pushing}'
      <4>1. b \in {local[u].node : u \in Pushing}'
        BY <3>3
      <4>2. {local[u].node : u \in Pushing} \subseteq {local[u].node : u \in Pushing}'
        BY <3>2
      <4> QED
        BY <4>1, <4>2
    <3> QED
      BY <3>4, <3>5
  <2>3. known' = In(f) \cup Given' \cup {local[u].node : u \in Pushing}'
    BY <1>5, <1>11, <2>2
  <2>4. \A u \in Pushing' : local'[u].node \notin In(f) \cup Given'
    BY <1>5, <1>6, <1>8, <1>11, <1>13
  <2>5. In(f) \cap Given' = {} /\ Cardinality(Popping') <= Len(f)
    BY <1>5, <1>8, <1>11
  <2>6. Cardinality(known') = Len(f) + Cardinality(Given') + Cardinality(Pushing')
    <3>1. Len(f) \in Nat
      BY <1>11 DEF Chain
    <3>2. Cardinality(known') = Len(f) + Cardinality(Given) + Cardinality(Pushing)
      BY <1>11
    <3> QED
      BY <1>12, <3>1, <3>2, SetsFinite
  <2> QED
    BY <2>1, <2>3, <2>4, <2>5, <2>6 DEF ListInv
<1>15. HoldInv'
  <2>1. \A c \in Given' : given'[c] = 1
    <3>1. Given \subseteq Blocks /\ \A c \in Given : given[c] = 1
      BY DEF HoldInv, Given
    <3> QED
      BY <1>4, <1>5, <3>1
  <2>2. \A u \in Pushing : local'[u].node # b
    BY <1>11, <1>13
  <2>3. \A u, v \in Pushing' : u # v => local'[u].node # local'[v].node
    <3>1. \A u, v \in Pushing : u # v => local[u].node # local[v].node
      BY DEF HoldInv
    <3>2. \A u \in Pushing' : u \in Pushing \/ (u = t /\ local'[u].node = b)
      BY <1>6, <1>8
    <3> QED
      BY <1>13, <2>2, <3>1, <3>2
  <2>4. \A u \in Threads : pc'[u] = "anext" => local'[u].next \in Blocks
    BY <1>1, <1>6 DEF HoldInv
  <2> QED
    BY <2>1, <2>3, <2>4 DEF HoldInv
<1>16. CountInv'
  <2>1. IsFiniteSet(Using') /\ Cardinality(Using') = Cardinality(Using) + 1
    BY <1>8, SetsFinite, FS_AddElement
  <2>2. lUseSize' = Cardinality(Given') + Cardinality(Using') /\ lAllocSize' = Cardinality(known')
    BY <1>12, <2>1, SetsFinite DEF CountInv
  <2>3. \A u \in Threads : pc'[u] = "use" => local'[u].count <= lAllocSize'
    BY <1>1, <1>6 DEF CountInv
  <2> QED
    BY <2>1, <2>2, <2>3 DEF CountInv
<1> QED
  BY <1>1, <1>7, <1>9, <1>10, <1>14, <1>15, <1>16

\* The exchange of Free puts the block in front of the list it linked.
LEMMA FreeCASStep == ASSUME SafeInv, NEW t \in Threads, FreeCAS(t) PROVE SafeInv'
<1> USE DEF SafeInv, FreeCAS, size
<1>1. CASE ~Unchanged(t)
  <2>1. PcOK' /\ pc[t] = "fcas" /\ pc'[t] = "ftag" /\ \A u \in Threads \ {t} : pc'[u] = pc[u]
    BY <1>1, Moved
  <2>2. UNCHANGED <<top, pNextBlock, iUnique, lUseSize, lAllocSize, local, given, known, calls>>
    BY <1>1
  <2>3. Pushing' = Pushing /\ Popping' = Popping /\ Using' = Using /\ Given' = Given
    BY <2>1, <2>2 DEF Pushing, Popping, Using, Given
  <2>4. TagInv'
    BY <2>1, <2>2 DEF TagInv, Copied, Armed, AllocCopied, FreeCopied
  <2>5. EpochInv'
    BY <2>1, <2>2 DEF EpochInv, Copied, AllocCopied, FreeCopied
  <2>6. ListInv'
    BY <2>2, <2>3, ListFrame
  <2>7. TypeOK' /\ HoldInv' /\ CountInv'
    BY <2>1, <2>2, <2>3 DEF TypeOK, HoldInv, CountInv
  <2> QED
    BY <2>1, <2>4, <2>5, <2>6, <2>7
<1>2. CASE Unchanged(t)
  <2>1. PcOK' /\ pc[t] = "fcas" /\ pc'[t] = "fuse" /\ \A u \in Threads \ {t} : pc'[u] = pc[u]
    BY <1>2, Moved
  <2>2. PICK n : n = local[t].node
    OBVIOUS
  <2>3. t \in Pushing /\ pNextBlock[n] = top.block
    BY <1>2, <2>1, <2>2 DEF Pushing, Unchanged, EpochInv, Copied, FreeCopied
  <2>4. /\ top' = [block |-> n, tag |-> local[t].unique]
        /\ UNCHANGED <<pNextBlock, iUnique, lUseSize, lAllocSize, local, given, known, calls>>
    BY <1>2, <2>2 DEF Exchange, Unchanged
  <2>5. PICK f : /\ Chain(f)
                 /\ known = In(f) \cup Given \cup {local[u].node : u \in Pushing}
                 /\ In(f) \cap Given = {}
                 /\ \A u \in Pushing : local[u].node \notin In(f) \cup Given
                 /\ Cardinality(known) = Len(f) + Cardinality(Given) + Cardinality(Pushing)
                 /\ Cardinality(Popping) <= Len(f)
    BY DEF ListInv
  <2>6. n \in Blocks /\ n \notin In(f) /\ n \notin Given
    BY <2>2, <2>3, <2>5 DEF TypeOK
  <2>7. TypeOK'
    BY <2>4, <2>6 DEF TypeOK, Locals
  <2>8. Pushing' = Pushing \ {t} /\ Popping' = Popping /\ Using' = Using /\ Given' = Given
    BY <2>1, <2>4 DEF Pushing, Popping, Using, Given
  <2>9. TagInv'
    <3>1. Armed(t) /\ ~Armed(t)' /\ ~Copied(t)' /\ top'.tag = local[t].unique
      BY <2>1, <2>4 DEF Armed, Copied, AllocCopied, FreeCopied
    <3>2. \A u \in Threads \ {t} : (Armed(u)' <=> Armed(u)) /\ (Copied(u)' <=> Copied(u))
      BY <2>1 DEF Armed, Copied
    <3> QED
      BY <2>4, <3>1, <3>2 DEF TagInv
  <2>10. EpochInv'
    <3>1. \A u \in Threads : Copied(u)' => u # t /\ Copied(u) /\ local'[u].copy.tag # top'.tag
      BY <2>1, <2>4 DEF TagInv, Armed, Copied, AllocCopied, FreeCopied
    <3> QED
      BY <3>1 DEF EpochInv
  <2>11. ListInv'
    <3> DEFINE g == [i \in 1..Len(f) + 1 |-> IF i = 1 THEN n ELSE f[i - 1]]
    <3>1. Len(f) \in Nat /\ \A i \in 1..Len(f) : f[i] \in Blocks
      BY <2>5 DEF Chain
    <3>2. g \in Seq(Blocks) /\ Len(g) = Len(f) + 1
      <4>1. \A i \in 1..Len(f) + 1 : i = 1 \/ i - 1 \in 1..Len(f)
        BY <3>1
      <4> QED
        BY <2>6, <3>1, <4>1
    <3>3. g[1] = n /\ \A i \in 1..Len(f) : g[i + 1] = f[i] /\ i + 1 \in 1..Len(g)
      BY <3>1, <3>2
    <3>4. \A i \in 1..Len(g) : i = 1 \/ \E j \in 1..Len(f) : i = j + 1
      <4>1. \A i \in 1..Len(g) : i # 1 => i - 1 \in 1..Len(f) /\ i = (i - 1) + 1
        BY <3>1, <3>2
      <4> QED
        BY <4>1
    <3> HIDE DEF g
    <3>5. In(g) = In(f) \cup {n}
      <4>1. In(g) \subseteq In(f) \cup {n}
        BY <3>3, <3>4 DEF In
      <4>2. In(f) \subseteq In(g)
        BY <3>3 DEF In
      <4>3. 1 \in 1..Len(g)
        BY <3>1, <3>2
      <4>4. n \in In(g)
        BY <3>3, <4>3 DEF In
      <4> QED
        BY <4>1, <4>2, <4>4
    <3>6. Chain(g)'
      <4>1. top'.block = IF Len(g) = 0 THEN NoBlock ELSE g[1]
        BY <2>4, <3>1, <3>2, <3>3
      <4>2. ASSUME NEW i \in 1..Len(g)
            PROVE  pNextBlock[g[i]] = IF i = Len(g) THEN NoBlock ELSE g[i + 1]
        <5>1. CASE i = 1
          <6>1. pNextBlock[g[i]] = IF Len(f) = 0 THEN NoBlock ELSE f[1]
            BY <2>3, <2>5, <3>3, <5>1 DEF Chain
          <6>2. CASE Len(f) = 0
            BY <3>2, <5>1, <6>1, <6>2
          <6>3. CASE Len(f) # 0
            <7>1. 1 \in 1..Len(f)
              BY <3>1, <6>3
            <7>2. g[1 + 1] = f[1]
              BY <3>3, <7>1
            <7> QED
              BY <3>1, <3>2, <5>1, <6>1, <6>3, <7>2
          <6> QED
            BY <6>2, <6>3
        <5>2. CASE i # 1
          <6>1. PICK j \in 1..Len(f) : i = j + 1
            BY <3>4, <5>2
          <6>2. pNextBlock[f[j]] = IF j = Len(f) THEN NoBlock ELSE f[j + 1]
            BY <2>5 DEF Chain
          <6>3. g[i] = f[j]
            BY <3>3, <6>1
          <6>4. j # Len(f) => j + 1 \in 1..Len(f)
            BY <3>1
          <6>5. j # Len(f) => g[i + 1] = f[j + 1]
            BY <3>3, <6>1, <6>4
          <6> QED
            BY <3>1, <3>2, <6>1, <6>2, <6>3, <6>5
        <5> QED
          BY <5>1, <5>2
      <4>3. \A i, j \in 1..Len(g) : i # j => g[i] # g[j]
        <5>1. \A i \in 1..Len(f) : g[i + 1] # n
          BY <2>6, <3>3 DEF In
        <5>2. \A i, j \in 1..Len(f) : i # j => f[i] # f[j]
          BY <2>5 DEF Chain
        <5> QED
          BY <3>3, <3>4, <5>1, <5>2
      <4> QED
        BY <2>4, <3>2, <4>1, <4>2, <4>3 DEF Chain
    <3>7. {local[u].node : u \in Pushing} = {local[u].node : u \in Pushing}' \cup {n}
      BY <2>2, <2>3, <2>4, <2>8
    <3>8. known' = In(g) \cup Given' \cup {local[u].node : u \in Pushing}'
      BY <2>4, <2>5, <2>8, <3>5, <3>7
    <3>9. In(g) \cap Given' = {}
      BY <2>5, <2>6, <2>8, <3>5
    <3>10. \A u \in Pushing' : local'[u].node # n
      BY <2>2, <2>3, <2>4, <2>8 DEF HoldInv
    <3>11. \A u \in Pushing' : local'[u].node \notin In(g) \cup Given'
      BY <2>4, <2>5, <2>8, <3>5, <3>10
    <3>12. Cardinality(Pushing') = Cardinality(Pushing) - 1
      BY <2>3, <2>8, SetsFinite, FS_RemoveElement
    <3>13. Cardinality(known') = Len(g) + Cardinality(Given') + Cardinality(Pushing')
           /\ Cardinality(Popping') <= Len(g)
      <4>1. Cardinality(known) = Len(f) + Cardinality(Given) + Cardinality(Pushing)
            /\ Cardinality(Popping) <= Len(f)
        BY <2>5
      <4>2. known' = known /\ Popping' = Popping /\ Given' = Given
        BY <2>4, <2>8
      <4> QED
        <5>1. Cardinality(Given) \in Nat /\ Cardinality(Pushing) \in Nat /\ Cardinality(Popping) \in Nat
          BY SetsFinite
        <5>2. Cardinality(known') = Len(f) + 1 + Cardinality(Given) + (Cardinality(Pushing) - 1)
          BY <3>1, <4>1, <4>2, <5>1
        <5>3. Cardinality(Popping') <= Len(f) + 1
          BY <3>1, <4>1, <4>2, <5>1
        <5> QED
          BY <3>2, <3>12, <4>2, <5>2, <5>3
    <3> QED
      BY <3>6, <3>8, <3>9, <3>11, <3>13 DEF ListInv
  <2>12. HoldInv'
    BY <2>1, <2>4, <2>8 DEF HoldInv
  <2>13. CountInv'
    BY <2>1, <2>4, <2>8 DEF CountInv
  <2> QED
    BY <2>1, <2>7, <2>9, <2>10, <2>11, <2>12, <2>13
<1> QED
  BY <1>1, <1>2

LEMMA FreeUseStep == ASSUME SafeInv, NEW t \in Threads, FreeUse(t) PROVE SafeInv'
<1> USE DEF SafeInv, FreeUse, Return
<1>1. PcOK' /\ pc[t] = "fuse" /\ pc'[t] = "idle" /\ \A u \in Threads \ {t} : pc'[u] = pc[u]
  BY Moved
<1>2. local' \in [Threads -> Locals] /\ \A u \in Threads \ {t} : local'[u] = local[u]
  BY FreshTyped DEF TypeOK
<1>3. Pushing' = Pushing /\ t \notin Pushing /\ Popping' = Popping /\ Given' = Given
      /\ Using' = Using \ {t} /\ t \in Using
  BY <1>1 DEF Pushing, Popping, Using, Given
<1>4. IsFiniteSet(Using') /\ Cardinality(Using') = Cardinality(Using) - 1
  BY <1>3, SetsFinite, FS_RemoveElement
<1>5. Cardinality(Using') \in Nat
  BY <1>4, FS_CardinalityType
<1>6. lUseSize' = Cardinality(Given') + Cardinality(Using') /\ lUseSize' \in Nat
  BY <1>3, <1>4, <1>5, SetsFinite DEF CountInv
<1>7. TypeOK'
  BY <1>2, <1>6 DEF TypeOK
<1>8. TagInv'
  BY <1>1, <1>2 DEF TagInv, Copied, Armed, AllocCopied, FreeCopied
<1>9. EpochInv'
  BY <1>1, <1>2 DEF EpochInv, Copied, AllocCopied, FreeCopied
<1>10. ListInv'
  BY <1>2, <1>3, ListFrame DEF Pushing
<1>11. HoldInv'
  BY <1>1, <1>2, <1>3 DEF HoldInv, Pushing
<1>12. CountInv'
  BY <1>1, <1>2, <1>4, <1>6 DEF CountInv
<1> QED
  BY <1>1, <1>7, <1>8, <1>9, <1>10, <1>11, <1>12

---------------------------------------------------------------------------
(* The theorems *)

LEMMA SafeInit == Init => SafeInv
<1> SUFFICES ASSUME Init PROVE SafeInv
  OBVIOUS
<1> USE DEF Init
<1>1. TypeOK
  BY FreshTyped DEF TypeOK
<1>2. Given = {} /\ Pushing = {} /\ Popping = {} /\ Using = {} /\ known = {}
  BY DEF Given, Pushing, Popping, Using
<1>3. PcOK /\ TagInv /\ EpochInv /\ HoldInv
  BY <1>2 DEF PcOK, TagInv, EpochInv, HoldInv, Copied, Armed, AllocCopied, FreeCopied
<1>4. IsFiniteSet({}) /\ Cardinality({}) = 0
  BY FS_EmptySet
<1>5. CountInv
  BY <1>2, <1>4 DEF CountInv
<1>6. ListInv
  <2>1. Chain(<<>>)
    BY DEF Chain
  <2>2. In(<<>>) = {}
    BY DEF In
  <2>3. {local[t].node : t \in Pushing} = {}
    BY <1>2
  <2> QED
    BY <1>2, <1>4, <2>1, <2>2, <2>3 DEF ListInv
<1> QED
  BY <1>1, <1>3, <1>5, <1>6 DEF SafeInv

LEMMA SafeStep == SafeInv /\ [Next]_vars => SafeInv'
<1> SUFFICES ASSUME SafeInv, [Next]_vars PROVE SafeInv'
  OBVIOUS
<1>1. CASE UNCHANGED vars
  <2> USE <1>1 DEF vars, size, SafeInv
  <2>1. Given' = Given /\ Pushing' = Pushing /\ Popping' = Popping /\ Using' = Using
    BY DEF Given, Pushing, Popping, Using
  <2>2. TypeOK' /\ PcOK'
    BY DEF TypeOK, PcOK
  <2>3. TagInv' /\ EpochInv'
    BY DEF TagInv, EpochInv, Copied, Armed
  <2>4. ListInv'
    BY <2>1, ListFrame
  <2>5. HoldInv' /\ CountInv'
    BY <2>1 DEF HoldInv, CountInv
  <2> QED
    BY <2>2, <2>3, <2>4, <2>5
<1>2. ASSUME NEW t \in Threads, AllocCall(t) \/ FreeCall(t) PROVE SafeInv'
  BY <1>2, AllocCallStep, FreeCallStep
<1>3. ASSUME NEW t \in Threads, Step(t) PROVE SafeInv'
  BY <1>3, AllocUseStep, AllocNewStep, AllocUniqueStep, AllocTagStep, AllocTopStep, AllocPtrStep,
     AllocNextStep, AllocCASStep, FreeTagStep, FreeTopStep, FreeLinkStep, FreeCASStep, FreeUseStep
     DEF Step
<1> QED
  BY <1>1, <1>2, <1>3 DEF Next

\* Tags, links and counts stay as SafeInv says, for any number of threads,
\* blocks and calls.
THEOREM SafeCorrect == Spec => []SafeInv
BY SafeInit, SafeStep, PTL DEF Spec

LEMMA FreeBlocksAre == ASSUME NEW f, Chain(f) PROVE FreeBlocks = In(f)
<1>1. Nth = [n \in 0..Cardinality(Blocks) |-> IF n < Len(f) THEN f[n + 1] ELSE NoBlock]
  BY ChainIsNth
<1>2. Len(f) \in Nat /\ Cardinality(Blocks) \in Nat /\ Len(f) <= Cardinality(Blocks)
  BY ChainCount DEF Chain
<1>3. \A i \in 1..Len(f) : f[i] \in Blocks
  BY DEF Chain
<1>4. ASSUME NEW b \in FreeBlocks PROVE b \in In(f)
  <2>1. PICK n \in 0..Cardinality(Blocks) : b = Nth[n] /\ b # NoBlock
    BY <1>1 DEF FreeBlocks
  <2>2. n < Len(f) /\ b = f[n + 1]
    BY <1>1, <2>1
  <2>3. n + 1 \in 1..Len(f)
    BY <1>2, <2>2
  <2> QED
    BY <2>2, <2>3 DEF In
<1>5. ASSUME NEW b \in In(f) PROVE b \in FreeBlocks
  <2>1. PICK i \in 1..Len(f) : b = f[i]
    BY DEF In
  <2>2. i - 1 \in 0..Cardinality(Blocks) /\ i - 1 < Len(f)
    BY <1>2
  <2>3. Nth[i - 1] = f[(i - 1) + 1]
    BY <1>1, <2>2
  <2>4. Nth[i - 1] = b /\ i - 1 \in DOMAIN Nth
    BY <1>1, <1>2, <2>1, <2>2, <2>3
  <2>5. b # NoBlock
    BY <1>3, <2>1
  <2> QED
    BY <2>4, <2>5 DEF FreeBlocks
<1> QED
  BY <1>4, <1>5

\* The list is never shorter than the number of threads that have decided to
\* take from it by two counters read at different moments.
THEOREM EnoughFreeCorrect == Spec => []EnoughFree
<1>1. SafeInv => EnoughFree
  <2> SUFFICES ASSUME SafeInv PROVE EnoughFree
    OBVIOUS
  <2>1. PICK f : Chain(f) /\ Cardinality(Popping) <= Len(f)
    BY DEF SafeInv, ListInv
  <2>2. FreeBlocks = In(f) /\ Cardinality(In(f)) = Len(f)
    BY <2>1, FreeBlocksAre, ChainCount
  <2> QED
    BY <2>1, <2>2 DEF EnoughFree
<1> QED
  BY <1>1, SafeCorrect, PTL

\* The links from the top meet every free block once and end, and a block is in
\* one place: the list, a caller's hands, or a call that gives it back.
THEOREM FreeListCorrect == Spec => []FreeListIntact
<1>1. SafeInv => FreeListIntact
  <2> SUFFICES ASSUME SafeInv PROVE FreeListIntact
    OBVIOUS
  <2>1. PICK f : /\ Chain(f)
                 /\ known = In(f) \cup Given \cup {local[t].node : t \in Pushing}
                 /\ In(f) \cap Given = {}
                 /\ \A t \in Pushing : local[t].node \notin In(f) \cup Given
    BY DEF SafeInv, ListInv
  <2>2. FreeBlocks = In(f)
    BY <2>1, FreeBlocksAre
  <2>3. Nth = [n \in 0..Cardinality(Blocks) |-> IF n < Len(f) THEN f[n + 1] ELSE NoBlock]
    BY <2>1, ChainIsNth
  <2>4. ASSUME NEW i \in DOMAIN Nth, NEW j \in DOMAIN Nth, i < j, Nth[i] # NoBlock
        PROVE  Nth[i] # Nth[j]
    <3>1. Len(f) \in Nat /\ Cardinality(Blocks) \in Nat /\ i \in 0..Cardinality(Blocks) /\ j \in 0..Cardinality(Blocks)
      BY <2>1, <2>3, ChainCount DEF Chain
    <3>2. i < Len(f) /\ Nth[i] = f[i + 1] /\ i + 1 \in 1..Len(f)
      BY <2>3, <2>4, <3>1
    <3>3. CASE j < Len(f)
      <4>1. Nth[j] = f[j + 1] /\ j + 1 \in 1..Len(f) /\ i + 1 # j + 1
        BY <2>3, <2>4, <3>1, <3>3
      <4> QED
        BY <2>1, <3>2, <4>1 DEF Chain
    <3>4. CASE ~(j < Len(f))
      <4>1. Nth[j] = NoBlock
        BY <2>3, <3>1, <3>4
      <4> QED
        BY <2>4, <4>1
    <3> QED
      BY <3>3, <3>4
  <2>5. \A t, u \in Pushing : t # u => local[t].node # local[u].node
    BY DEF SafeInv, HoldInv
  <2> QED
    BY <2>1, <2>2, <2>4, <2>5 DEF FreeListIntact
<1> QED
  BY <1>1, SafeCorrect, PTL

\* With no call in progress the counters are exact, and no counter is negative.
THEOREM CountersCorrect == Spec => []CountersExact
<1>1. SafeInv => CountersExact
  <2> SUFFICES ASSUME SafeInv PROVE CountersExact
    OBVIOUS
  <2>1. ASSUME \A t \in Threads : pc[t] = "idle"
        PROVE  lUseSize = Cardinality(Given) /\ lAllocSize = Cardinality(known)
    <3>1. Using = {}
      BY <2>1 DEF Using
    <3>2. Cardinality(Using) = 0
      BY <3>1, FS_EmptySet
    <3> QED
      BY <3>2, SetsFinite DEF SafeInv, CountInv
  <2> QED
    BY <2>1 DEF CountersExact, SafeInv
<1> QED
  BY <1>1, SafeCorrect, PTL

\* Alloc hands out a block nobody has and Free takes it from the one caller who
\* has it, whatever the interleaving of the exchanges.
THEOREM PoolCorrect == Spec => PoolSpec
<1>1. Init => Pool!Init
  BY DEF Init, Pool!Init
<1>2. SafeInv /\ [Next]_vars => [Pool!Next]_given
  <2> SUFFICES ASSUME SafeInv, [Next]_vars PROVE Pool!Next \/ UNCHANGED given
    OBVIOUS
  <2> USE DEF Pool!Next, Pool!Alloc, Pool!Free
  <2>1. ASSUME NEW b \in Blocks, b \notin Given, HandOut(b) PROVE Pool!Next
    <3>1. given[b] = 0
      BY <2>1 DEF Given, SafeInv, TypeOK
    <3>2. Pool!Alloc(b)
      BY <2>1, <3>1 DEF HandOut
    <3> QED
      BY <3>2
  <2>2. ASSUME NEW t \in Threads, AllocNew(t) PROVE Pool!Next
    <3>1. PICK b \in Blocks \ known : HandOut(b)
      BY <2>2 DEF AllocNew
    <3>2. b \notin Given
      BY DEF SafeInv, ListInv
    <3> QED
      BY <2>1, <3>1, <3>2
  <2>3. ASSUME NEW t \in Threads, AllocCAS(t) PROVE Pool!Next \/ UNCHANGED given
    <3>1. CASE ~Unchanged(t)
      BY <2>3, <3>1 DEF AllocCAS
    <3>2. CASE Unchanged(t)
      <4>1. HandOut(top.block)
        BY <2>3, <3>2 DEF AllocCAS, Unchanged
      <4>2. top.block \in Blocks
        BY <2>3, PoppingFinds DEF AllocCAS, Popping
      <4>3. PICK f : Chain(f) /\ In(f) \cap Given = {}
        BY DEF SafeInv, ListInv
      <4>4. top.block \in In(f)
        <5>1. f \in Seq(Blocks) /\ top.block = IF Len(f) = 0 THEN NoBlock ELSE f[1]
          BY <4>3 DEF Chain
        <5>2. 1 \in 1..Len(f) /\ top.block = f[1]
          BY <4>2, <5>1
        <5> QED
          BY <5>2 DEF In
      <4> QED
        BY <2>1, <4>1, <4>2, <4>3, <4>4
    <3> QED
      BY <3>1, <3>2
  <2>4. ASSUME NEW t \in Threads, FreeCall(t) PROVE Pool!Next
    <3>1. PICK b \in Given : given' = [given EXCEPT ![b] = @ - 1]
      BY <2>4 DEF FreeCall
    <3>2. b \in Blocks /\ given[b] = 1
      BY DEF Given, SafeInv, HoldInv
    <3>3. Pool!Free(b)
      BY <3>1, <3>2
    <3> QED
      BY <3>2, <3>3
  <2>5. ASSUME NEW t \in Threads, AllocCall(t) PROVE UNCHANGED given
    BY <2>5 DEF AllocCall
  <2>6. ASSUME NEW t \in Threads, Step(t) PROVE Pool!Next \/ UNCHANGED given
    BY <2>2, <2>3, <2>6 DEF Step, AllocUse, AllocUnique, AllocTag, AllocTop, AllocPtr, AllocNext,
       FreeTag, FreeTop, FreeLink, FreeCAS, FreeUse
  <2> QED
    BY <2>4, <2>5, <2>6 DEF Next, vars
<1> QED
  BY <1>1, <1>2, SafeCorrect, PTL DEF Spec, PoolSpec, Pool!Spec

=============================================================================
