-------------------------- MODULE ChunkPoolProofs --------------------------
(***************************************************************************)
(* What CLFMemoryPool_TLS keeps for any set of threads and any number and  *)
(* size of chunks: who owns a chunk and an item, when a chunk goes back,   *)
(* and that the pool never hands out an item somebody has.                 *)
(***************************************************************************)
EXTENDS ChunkPool, FiniteSetTheorems, TLAPS

\* A chunk between ChunkAlloc and Clear.
Clearing(c) == \E t \in Threads : tls[t] = c /\ pc[t] = "clear"

PcOK == pc \in [Threads -> {"idle", "get", "clear", "use", "take", "drop", "recycle"}]

\* Where a thread's slot and its item are set.
SlotInv ==
    \A t \in Threads :
        /\ pc[t] \in {"use", "take", "clear"} => tls[t] # None
        /\ pc[t] = "get" /\ item[t] = None => tls[t] = None
        /\ pc[t] = "get" /\ item[t] # None => tls[t] = item[t][1]
        /\ pc[t] \in {"idle", "use", "take"} => item[t] = None
        /\ pc[t] \in {"drop", "recycle"} => item[t] # None

\* Every item handed out has one holder, lies below the index of its chunk,
\* and its chunk is in use.
Below(i) == i[1] \in live /\ ~Clearing(i[1]) /\ i[2] < lAllocIndex[i[1]]

HoldInv ==
    /\ \A i \in Given : given[i] = 1 /\ Below(i)
    /\ \A t \in Threads : item[t] # None => item[t] \notin Given /\ Below(item[t])
    /\ \A t, u \in Threads : t # u /\ item[t] # None => item[t] # item[u]

CountInv == \A c \in live : ~Clearing(c) => iFreeCount[c] = Cardinality(Owed(c))

\* One thread recycles a chunk, with nothing owed.
RecycleInv ==
    /\ \A t \in Threads : pc[t] = "recycle" => iFreeCount[item[t][1]] = 0
    /\ \A t, u \in Threads :
          pc[t] = "recycle" /\ pc[u] = "recycle" /\ t # u => item[t][1] # item[u][1]

\* _lUseCnt counts the items with callers and those of calls that counted and
\* have not returned.
Using == {t \in Threads : pc[t] = "take" \/ (pc[t] \in {"get", "clear"} /\ item[t] # None)}

UseInv ==
    /\ IsFiniteSet(Given) /\ IsFiniteSet(Using)
    /\ lUseCnt = Cardinality(Given) + Cardinality(Using)

SafeInv ==
    /\ TypeOK /\ PcOK /\ ChunkOwned /\ SlotInv /\ HoldInv /\ CountInv /\ RecycleInv
    /\ UseInv

USE ChunkAssumption, BoundAssumption DEF ChunkAssumption, BoundAssumption

---------------------------------------------------------------------------
(* What is owed *)

LEMMA OwedFinite ==
    ASSUME NEW c PROVE IsFiniteSet(Owed(c)) /\ Cardinality(Owed(c)) \in Nat
<1>1. IsFiniteSet(0..ChunkSize - 1)
  BY FS_Interval
<1>2. IsFiniteSet(Owed(c))
  BY <1>1, FS_Subset DEF Owed
<1> QED
  BY <1>2, FS_CardinalityType

\* Nothing of a chunk that is being recycled is owed.
LEMMA RecycledOwesNothing ==
    ASSUME SafeInv, NEW t \in Threads, pc[t] = "recycle"
    PROVE  /\ item[t] \in Items /\ item[t][1] \in live
           /\ Owed(item[t][1]) = {}
           /\ \A u \in Threads : tls[u] # item[t][1]
           /\ \A i \in Given : i[1] # item[t][1]
           /\ \A u \in Threads \ {t} : item[u] # None => item[u][1] # item[t][1]
<1> DEFINE c == item[t][1]
<1>1. item[t] # None /\ item[t] \in Items /\ c \in Chunks /\ Below(item[t])
  BY DEF SafeInv, TypeOK, SlotInv, HoldInv, Items
<1>2. c \in live /\ ~Clearing(c) /\ iFreeCount[c] = 0
  BY <1>1 DEF Below, SafeInv, RecycleInv
<1>3. Owed(c) = {}
  BY <1>2, OwedFinite, FS_EmptySet DEF SafeInv, CountInv
<1>4. \A i \in Given : i[1] # c
  <2> SUFFICES ASSUME NEW i \in Given, i[1] = c PROVE FALSE
    OBVIOUS
  <2>1. i \in Items /\ i = <<c, i[2]>> /\ i[2] \in 0..ChunkSize - 1
    BY DEF Given, Items
  <2> QED
    BY <2>1, <1>3 DEF Owed
<1>5. \A u \in Threads \ {t} : item[u] # None => item[u][1] # c
  <2> SUFFICES ASSUME NEW u \in Threads \ {t}, item[u] # None, item[u][1] = c PROVE FALSE
    OBVIOUS
  <2>1. item[u] = <<c, item[u][2]>> /\ item[u][2] \in 0..ChunkSize - 1
    BY DEF SafeInv, TypeOK, Items
  <2>2. pc[u] \in {"get", "clear", "drop"}
    BY DEF SafeInv, PcOK, SlotInv, RecycleInv
  <2>3. item[u] \in Moving(c)
    BY <2>2 DEF Moving
  <2> QED
    BY <2>1, <2>3, <1>3 DEF Owed
<1>6. \A u \in Threads : tls[u] # c
  <2> SUFFICES ASSUME NEW u \in Threads, tls[u] = c PROVE FALSE
    OBVIOUS
  <2>1. c # None
    BY <1>1
  <2>2. lAllocIndex[c] >= ChunkSize
    <3>1. lAllocIndex[c] \in 0..ChunkSize
      BY <1>1 DEF SafeInv, TypeOK
    <3>2. CASE lAllocIndex[c] < ChunkSize
      <4>1. lAllocIndex[c] \in 0..ChunkSize - 1 /\ lAllocIndex[c] >= lAllocIndex[c]
        BY <3>1, <3>2
      <4>2. lAllocIndex[c] \in Owed(c)
        BY <4>1 DEF Owed
      <4> QED
        BY <4>2, <1>3
    <3> QED
      BY <3>1, <3>2
  <2>3. pc[u] \in {"get", "clear"}
    BY <2>1, <2>2, <1>1 DEF SafeInv, PcOK, ChunkOwned, TypeOK
  <2>4. pc[u] = "get"
    BY <2>3, <1>2 DEF Clearing
  <2>5. item[u] # None /\ item[u][1] = c
    BY <2>4, <2>1 DEF SafeInv, SlotInv
  <2> QED
    BY <2>5, <2>4, <1>5
<1> QED
  BY <1>1, <1>2, <1>3, <1>4, <1>5, <1>6

---------------------------------------------------------------------------
(* The steps *)

LEMMA InitSafe == Init => SafeInv
<1> SUFFICES ASSUME Init PROVE SafeInv
  OBVIOUS
<1> USE DEF Init
<1>1. Given = {} /\ Using = {}
  BY DEF Given, Using
<1>2. TypeOK /\ PcOK
  BY DEF TypeOK, PcOK, Items
<1>3. ChunkOwned /\ SlotInv /\ HoldInv /\ CountInv /\ RecycleInv
  BY <1>1 DEF ChunkOwned, SlotInv, HoldInv, CountInv, RecycleInv
<1>4. UseInv
  BY <1>1, FS_EmptySet DEF UseInv
<1> QED
  BY <1>2, <1>3, <1>4 DEF SafeInv

LEMMA AllocCallStep ==
    ASSUME SafeInv, NEW t \in Threads, AllocCall(t) PROVE SafeInv'
<1> USE DEF SafeInv, AllocCall, Call, Goto
<1>1. TypeOK' /\ PcOK'
  BY DEF TypeOK, PcOK
<1>2. pc[t] = "idle" /\ item[t] = None /\ pc'[t] \in {"get", "use"}
  BY DEF SlotInv, PcOK
<1>3. \A u \in Threads \ {t} : pc'[u] = pc[u]
  BY DEF PcOK
<1>4. Given' = Given /\ Using' = Using
  BY <1>2, <1>3 DEF Given, Using
<1>5. \A c : Owed(c)' = Owed(c) /\ (Clearing(c)' <=> Clearing(c))
  BY <1>2, <1>3, <1>4 DEF Owed, Moving, Clearing
<1>6. ChunkOwned' /\ SlotInv' /\ RecycleInv'
  BY <1>2, <1>3 DEF ChunkOwned, SlotInv, RecycleInv, PcOK
<1>7. HoldInv'
  BY <1>4, <1>5 DEF HoldInv, Below
<1>8. CountInv' /\ UseInv'
  BY <1>4, <1>5 DEF CountInv, UseInv
<1> QED
  BY <1>1, <1>6, <1>7, <1>8

LEMMA ChunkAllocStep ==
    ASSUME SafeInv, NEW t \in Threads, ChunkAlloc(t) PROVE SafeInv'
<1> USE DEF SafeInv, ChunkAlloc, Moves, Goto
<1>1. PICK c \in Chunks \ live : live' = live \cup {c} /\ tls' = [tls EXCEPT ![t] = c]
  OBVIOUS
<1>2. TypeOK' /\ PcOK'
  BY <1>1 DEF TypeOK, PcOK
<1>3. pc[t] = "get" /\ pc'[t] = "clear" /\ tls'[t] = c /\ c # None
  BY <1>1 DEF TypeOK, PcOK
<1>4. \A u \in Threads \ {t} : pc'[u] = pc[u] /\ tls'[u] = tls[u] /\ tls[u] # c
  BY <1>1, <1>3 DEF TypeOK, PcOK, ChunkOwned
<1>5. Given' = Given /\ Using' = Using
  BY <1>3, <1>4 DEF Given, Using
<1>6. \A d : Owed(d)' = Owed(d)
  BY <1>3, <1>4, <1>5 DEF Owed, Moving
<1>7. \A d \in live : Clearing(d)' <=> Clearing(d)
  BY <1>3, <1>4 DEF Clearing
<1>8. Clearing(c)'
  BY <1>3 DEF Clearing
<1>9. ChunkOwned'
  BY <1>1, <1>3, <1>4 DEF ChunkOwned
<1>10. SlotInv' /\ RecycleInv'
  BY <1>3, <1>4 DEF SlotInv, RecycleInv, PcOK
<1>11. HoldInv'
  BY <1>1, <1>5, <1>7 DEF HoldInv, Below
<1>12. CountInv' /\ UseInv'
  BY <1>1, <1>5, <1>6, <1>7, <1>8 DEF CountInv, UseInv
<1> QED
  BY <1>2, <1>9, <1>10, <1>11, <1>12

LEMMA AllocUseStep ==
    ASSUME SafeInv, NEW t \in Threads, AllocUse(t) PROVE SafeInv'
<1> USE DEF SafeInv, AllocUse, Moves, Goto
<1>1. TypeOK' /\ PcOK'
  BY DEF TypeOK, PcOK
<1>2. pc[t] = "use" /\ pc'[t] = "take" /\ item[t] = None
  BY DEF PcOK, SlotInv
<1>3. \A u \in Threads \ {t} : pc'[u] = pc[u]
  BY DEF PcOK
<1>4. Given' = Given /\ Using' = Using \cup {t} /\ t \notin Using
  BY <1>2, <1>3 DEF Given, Using
<1>5. \A c : Owed(c)' = Owed(c) /\ (Clearing(c)' <=> Clearing(c))
  BY <1>2, <1>3, <1>4 DEF Owed, Moving, Clearing
<1>6. ChunkOwned' /\ SlotInv' /\ RecycleInv'
  BY <1>2, <1>3 DEF ChunkOwned, SlotInv, RecycleInv, PcOK
<1>7. HoldInv' /\ CountInv'
  BY <1>4, <1>5 DEF HoldInv, Below, CountInv
<1>8. UseInv'
  <2>1. IsFiniteSet(Using') /\ Cardinality(Using') = Cardinality(Using) + 1
    BY <1>4, FS_AddElement DEF UseInv
  <2>2. Cardinality(Using) \in Nat /\ Cardinality(Given) \in Nat
    BY FS_CardinalityType DEF UseInv
  <2> QED
    BY <1>4, <2>1, <2>2 DEF UseInv
<1> QED
  BY <1>1, <1>6, <1>7, <1>8

LEMMA ClearStep ==
    ASSUME SafeInv, NEW t \in Threads, Clear(t) PROVE SafeInv'
<1>0. PICK c : c = tls[t]
  OBVIOUS
<1> USE <1>0 DEF SafeInv, Clear, Goto
<1>1. pc[t] = "clear" /\ c \in Chunks /\ c \in live /\ Clearing(c)
  BY DEF SlotInv, TypeOK, Clearing, ChunkOwned
<1>2. TypeOK' /\ PcOK'
  <2>1. lAllocIndex' \in [Chunks -> 0..ChunkSize] /\ iFreeCount' \in [Chunks -> 0..ChunkSize]
    BY <1>1 DEF TypeOK
  <2>2. item' \in [Threads -> Items \cup {None}] /\ given' \in [Items -> Nat] /\ PcOK'
    BY DEF TypeOK, PcOK, AfterChunk, ReturnItem
  <2> QED
    BY <2>1, <2>2 DEF TypeOK
<1>3. pc'[t] \in {"use", "idle"} /\ item'[t] = None
  BY DEF AfterChunk, ReturnItem, PcOK, TypeOK
<1>4. \A u \in Threads \ {t} : pc'[u] = pc[u] /\ item'[u] = item[u] /\ tls[u] # c
  BY <1>1 DEF AfterChunk, ReturnItem, PcOK, TypeOK, ChunkOwned
<1>5. \/ item[t] = None /\ Given' = Given /\ given' = given
      \/ /\ item[t] # None /\ Given' = Given \cup {item[t]} /\ item[t] \notin Given
         /\ item[t] \in Items /\ given' = [given EXCEPT ![item[t]] = 1]
  <2>1. CASE item[t] = None
    BY <2>1 DEF AfterChunk, Given
  <2>2. CASE item[t] # None
    <3>1. item[t] \in Items /\ item[t] \notin Given /\ given[item[t]] = 0
      BY <2>2 DEF TypeOK, HoldInv, Given
    <3>2. given' = [given EXCEPT ![item[t]] = 1]
      BY <2>2, <3>1 DEF AfterChunk, ReturnItem, TypeOK
    <3>3. Given' = Given \cup {item[t]}
      BY <3>1, <3>2 DEF Given, TypeOK
    <3> QED
      BY <2>2, <3>1, <3>2, <3>3
  <2> QED
    BY <2>1, <2>2
<1>6. \A d : (Clearing(d)' <=> Clearing(d) /\ d # c)
  BY <1>1, <1>3, <1>4 DEF Clearing
<1>7. lAllocIndex'[c] = 0 /\ iFreeCount'[c] = ChunkSize
      /\ \A d \in Chunks \ {c} : lAllocIndex'[d] = lAllocIndex[d] /\ iFreeCount'[d] = iFreeCount[d]
  BY <1>1 DEF TypeOK
<1>8. HoldInv'
  <2>1. \A i \in Items : Below(i) => Below(i)'
    BY <1>1, <1>6, <1>7 DEF Below, Items
  <2>2. \A i \in Given' : given'[i] = 1 /\ Below(i)'
    <3>1. \A i \in Given : given[i] = 1 /\ Below(i)' /\ i \in Items
      BY <2>1 DEF HoldInv, Given
    <3>2. item[t] # None => Below(item[t]) /\ item[t] \in Items
      BY DEF HoldInv, TypeOK
    <3> QED
      BY <1>5, <2>1, <3>1, <3>2 DEF TypeOK
  <2>3. (\A u \in Threads : item[u] # None => item[u] \notin Given /\ Below(item[u]))'
    BY <1>3, <1>4, <1>5, <2>1 DEF HoldInv, TypeOK, Below
  <2> QED
    BY <1>3, <1>4, <2>2, <2>3 DEF HoldInv
<1>9. CountInv'
  <2>1. Owed(c)' = 0..ChunkSize - 1
    BY <1>7 DEF Owed
  <2>2. Cardinality(Owed(c)') = ChunkSize
    BY <2>1, FS_Interval
  <2>3. \A d \in live \ {c} : Owed(d)' = Owed(d)
    <3> SUFFICES ASSUME NEW d \in live \ {c} PROVE Owed(d)' = Owed(d)
      OBVIOUS
    <3>1. \A k : <<d, k>> \in Given' \cup Moving(d)' <=> <<d, k>> \in Given \cup Moving(d)
      <4>1. CASE item[t] = None
        BY <1>3, <1>4, <1>5, <4>1 DEF Moving
      <4>2. CASE item[t] # None /\ item[t][1] = d
        <5>1. Moving(d) = Moving(d)' \cup {item[t]}
          <6>1. item[t] \in Moving(d)
            BY <1>1, <4>2 DEF Moving
          <6>2. \A i \in Moving(d)' : i \in Moving(d)
            BY <1>3, <1>4 DEF Moving
          <6>3. \A i \in Moving(d) : i = item[t] \/ i \in Moving(d)'
            BY <1>3, <1>4 DEF Moving
          <6> QED
            BY <6>1, <6>2, <6>3
        <5>2. Given' = Given \cup {item[t]}
          BY <1>5, <4>2
        <5> QED
          BY <5>1, <5>2
      <4>3. CASE item[t] # None /\ item[t][1] # d
        <5>1. Moving(d)' = Moving(d)
          BY <1>3, <1>4, <4>3 DEF Moving
        <5>2. Given' = Given \cup {item[t]} /\ \A k : <<d, k>> # item[t]
          BY <1>5, <4>3
        <5> QED
          BY <5>1, <5>2
      <4> QED
        BY <4>1, <4>2, <4>3
    <3> QED
      BY <3>1, <1>7 DEF Owed, TypeOK
  <2> QED
    BY <1>6, <1>7, <2>2, <2>3 DEF CountInv, TypeOK
<1>10. ChunkOwned' /\ SlotInv'
  BY <1>1, <1>3, <1>4, <1>7 DEF ChunkOwned, SlotInv, TypeOK, PcOK
<1>11. RecycleInv'
  <2>1. \A u \in Threads : pc'[u] = "recycle" => pc[u] = "recycle" /\ item[u][1] \in Chunks /\ item[u][1] # c
                                              /\ item'[u] = item[u]
    BY <1>1, <1>3, <1>4 DEF HoldInv, SlotInv, Below, TypeOK, Items
  <2> QED
    BY <2>1, <1>7 DEF RecycleInv
<1>12. UseInv'
  <2>1. CASE item[t] = None
    BY <1>1, <1>3, <1>4, <1>5, <2>1 DEF UseInv, Using
  <2>2. CASE item[t] # None
    <3>1. Using' = Using \ {t} /\ t \in Using
      BY <1>1, <1>3, <1>4, <2>2 DEF Using
    <3>2. IsFiniteSet(Using') /\ Cardinality(Using') = Cardinality(Using) - 1
      BY <3>1, FS_RemoveElement DEF UseInv
    <3>3. IsFiniteSet(Given') /\ Cardinality(Given') = Cardinality(Given) + 1
      BY <1>5, <2>2, FS_AddElement DEF UseInv
    <3>4. Cardinality(Using) \in Nat /\ Cardinality(Given) \in Nat
      BY FS_CardinalityType DEF UseInv
    <3> QED
      BY <3>2, <3>3, <3>4 DEF UseInv
  <2> QED
    BY <2>1, <2>2
<1> QED
  BY <1>2, <1>8, <1>9, <1>10, <1>11, <1>12

LEMMA AllocTakeStep ==
    ASSUME SafeInv, NEW t \in Threads, AllocTake(t) PROVE SafeInv'
<1>0. PICK c, i : c = tls[t] /\ i = <<c, lAllocIndex[c]>>
  OBVIOUS
<1> USE <1>0 DEF SafeInv, AllocTake, Goto
<1>1. /\ pc[t] = "take" /\ item[t] = None /\ c \in Chunks /\ c \in live /\ ~Clearing(c)
      /\ lAllocIndex[c] \in 0..ChunkSize - 1 /\ i \in Items /\ i # None
  BY DEF SlotInv, TypeOK, Clearing, ChunkOwned, Items
<1>2. \A u \in Threads \ {t} : tls[u] # c /\ pc'[u] = pc[u] /\ item'[u] = item[u]
  BY <1>1 DEF ChunkOwned, PcOK, TypeOK, ReturnItem
<1>3. i \notin Given /\ given[i] = 0 /\ \A u \in Threads : item[u] # i
  BY <1>1 DEF HoldInv, Below, Given, TypeOK
<1>4. \/ /\ lAllocIndex[c] + 1 = ChunkSize /\ pc'[t] = "get" /\ item'[t] = i
         /\ given' = given /\ Given' = Given
      \/ /\ lAllocIndex[c] + 1 # ChunkSize /\ pc'[t] = "idle" /\ item'[t] = None
         /\ given' = [given EXCEPT ![i] = 1] /\ Given' = Given \cup {i}
  <2>1. CASE lAllocIndex[c] + 1 = ChunkSize
    BY <2>1 DEF PcOK, TypeOK, Given
  <2>2. CASE lAllocIndex[c] + 1 # ChunkSize
    <3>1. given' = [given EXCEPT ![i] = 1]
      BY <1>1, <1>3, <2>2 DEF ReturnItem, TypeOK
    <3>2. Given' = Given \cup {i}
      BY <1>1, <1>3, <3>1 DEF Given, TypeOK
    <3> QED
      BY <2>2, <3>1, <3>2 DEF ReturnItem, PcOK, TypeOK
  <2> QED
    BY <2>1, <2>2
<1>5. /\ lAllocIndex' = [lAllocIndex EXCEPT ![c] = lAllocIndex[c] + 1]
      /\ lAllocIndex'[c] = lAllocIndex[c] + 1
      /\ \A d \in Chunks \ {c} : lAllocIndex'[d] = lAllocIndex[d]
  BY <1>1 DEF TypeOK
<1>6. TypeOK' /\ PcOK'
  <2>1. lAllocIndex' \in [Chunks -> 0..ChunkSize]
    BY <1>1, <1>5 DEF TypeOK
  <2>2. item' \in [Threads -> Items \cup {None}] /\ given' \in [Items -> Nat] /\ PcOK'
    BY <1>1 DEF TypeOK, PcOK, ReturnItem
  <2> QED
    BY <2>1, <2>2 DEF TypeOK
<1>7. \A d : Clearing(d)' <=> Clearing(d)
  BY <1>1, <1>2, <1>4 DEF Clearing
<1>8. HoldInv'
  <2>1. \A j \in Items : Below(j) => Below(j)'
    BY <1>1, <1>5, <1>7 DEF Below, Items, TypeOK
  <2>2. Below(i)'
    BY <1>1, <1>5, <1>7 DEF Below
  <2>3. (\A j \in Given : given[j] = 1 /\ Below(j))'
    <3>1. \A j \in Given : given[j] = 1 /\ Below(j)' /\ j \in Items
      BY <2>1 DEF HoldInv, Given
    <3> QED
      BY <1>1, <1>4, <2>2, <3>1 DEF TypeOK
  <2>4. (\A u \in Threads : item[u] # None => item[u] \notin Given /\ Below(item[u]))'
    <3>1. \A u \in Threads : item[u] # None =>
              item[u] \in Items /\ item[u] \notin Given /\ Below(item[u])
      BY DEF HoldInv, TypeOK
    <3> QED
      BY <1>1, <1>2, <1>3, <1>4, <2>1, <2>2, <3>1 DEF Below
  <2> QED
    BY <1>2, <1>3, <1>4, <2>3, <2>4 DEF HoldInv
<1>9. CountInv'
  <2> SUFFICES ASSUME NEW d \in live PROVE Owed(d)' = Owed(d)
    BY <1>7 DEF CountInv
  <2>1. CASE d # c
    <3>1. Moving(d)' = Moving(d)
      BY <1>1, <1>2, <1>4, <2>1 DEF Moving
    <3>2. \A k : <<d, k>> \in Given' <=> <<d, k>> \in Given
      BY <1>4, <2>1
    <3> QED
      BY <1>5, <2>1, <3>1, <3>2 DEF Owed, TypeOK
  <2>2. CASE d = c
    <3>1. (Given \cup Moving(c))' = Given \cup Moving(c) \cup {i}
      <4>1. CASE pc'[t] = "get"
        <5>1. Moving(c)' = Moving(c) \cup {i}
          <6>1. i \in Moving(c)'
            BY <1>1, <1>4, <4>1 DEF Moving
          <6>2. \A j \in Moving(c) : j \in Moving(c)'
            BY <1>1, <1>2 DEF Moving
          <6>3. \A j \in Moving(c)' : j = i \/ j \in Moving(c)
            BY <1>2, <1>4, <4>1 DEF Moving
          <6> QED
            BY <6>1, <6>2, <6>3
        <5> QED
          BY <1>4, <4>1, <5>1
      <4>2. CASE pc'[t] = "idle"
        <5>1. Moving(c)' = Moving(c)
          BY <1>1, <1>2, <1>4, <4>2 DEF Moving
        <5> QED
          BY <1>4, <4>2, <5>1
      <4> QED
        BY <1>4, <4>1, <4>2
    <3>2. \A k \in 0..ChunkSize - 1 : k >= lAllocIndex[c] <=> k >= lAllocIndex'[c] \/ k = lAllocIndex[c]
      BY <1>1, <1>5
    <3>3. \A k : <<c, k>> = i <=> k = lAllocIndex[c]
      OBVIOUS
    <3>4. \A k \in 0..ChunkSize - 1 : k \in Owed(c)' <=> k \in Owed(c)
      BY <3>1, <3>2, <3>3 DEF Owed
    <3>5. Owed(c)' \subseteq 0..ChunkSize - 1 /\ Owed(c) \subseteq 0..ChunkSize - 1
      BY DEF Owed
    <3> QED
      BY <2>2, <3>4, <3>5
  <2> QED
    BY <2>1, <2>2
<1>10. ChunkOwned' /\ SlotInv'
  BY <1>1, <1>2, <1>4, <1>5 DEF ChunkOwned, SlotInv, TypeOK, PcOK
<1>11. RecycleInv'
  BY <1>2, <1>4 DEF RecycleInv
<1>12. UseInv'
  <2>1. CASE pc'[t] = "get"
    BY <1>1, <1>2, <1>4, <2>1 DEF UseInv, Using
  <2>2. CASE pc'[t] = "idle"
    <3>1. Using' = Using \ {t} /\ t \in Using
      BY <1>1, <1>2, <1>4, <2>2 DEF Using
    <3>2. IsFiniteSet(Using') /\ Cardinality(Using') = Cardinality(Using) - 1
      BY <3>1, FS_RemoveElement DEF UseInv
    <3>3. IsFiniteSet(Given') /\ Cardinality(Given') = Cardinality(Given) + 1
      BY <1>3, <1>4, <2>2, FS_AddElement DEF UseInv
    <3>4. Cardinality(Using) \in Nat /\ Cardinality(Given) \in Nat
      BY FS_CardinalityType DEF UseInv
    <3> QED
      BY <3>2, <3>3, <3>4 DEF UseInv
  <2> QED
    BY <1>4, <2>1, <2>2
<1> QED
  BY <1>6, <1>8, <1>9, <1>10, <1>11, <1>12

LEMMA FreeCallStep ==
    ASSUME SafeInv, NEW t \in Threads, FreeCall(t) PROVE SafeInv'
<1>0. PICK i \in Given : given' = [given EXCEPT ![i] = @ - 1] /\ item' = [item EXCEPT ![t] = i]
  BY DEF FreeCall
<1> USE DEF SafeInv, FreeCall, Call, Goto
<1>1. /\ i \in Items /\ i # None /\ given[i] = 1 /\ given'[i] = 0
      /\ pc[t] = "idle" /\ item[t] = None /\ pc'[t] = "drop" /\ item'[t] = i
  BY <1>0 DEF Given, HoldInv, TypeOK, PcOK, SlotInv
<1>2. \A u \in Threads \ {t} : pc'[u] = pc[u] /\ item'[u] = item[u]
  BY <1>0 DEF PcOK, TypeOK
<1>3. Given' = Given \ {i} /\ \A j \in Given' : given'[j] = given[j]
  BY <1>0, <1>1 DEF Given, TypeOK
<1>4. Using' = Using /\ t \notin Using
  BY <1>1, <1>2 DEF Using
<1>5. lUseCnt \in Nat /\ lUseCnt - 1 \in Nat /\ UseInv'
  <2>1. IsFiniteSet(Given') /\ Cardinality(Given') = Cardinality(Given) - 1
    BY <1>3, FS_RemoveElement DEF UseInv
  <2>2. Cardinality(Given') \in Nat /\ Cardinality(Given) \in Nat /\ Cardinality(Using) \in Nat
    BY <2>1, FS_CardinalityType DEF UseInv
  <2> QED
    BY <1>4, <2>1, <2>2 DEF UseInv
<1>6. TypeOK' /\ PcOK'
  <2>1. given' \in [Items -> Nat] /\ item' \in [Threads -> Items \cup {None}]
    BY <1>0, <1>1 DEF TypeOK
  <2> QED
    BY <1>5, <2>1 DEF TypeOK, PcOK
<1>7. \A d : Clearing(d)' <=> Clearing(d)
  BY <1>1, <1>2 DEF Clearing
<1>8. HoldInv'
  <2>1. \A j : Below(j)' <=> Below(j)
    BY <1>7 DEF Below
  <2>2. (\A j \in Given : given[j] = 1 /\ Below(j))'
    BY <1>3, <2>1 DEF HoldInv
  <2>3. (\A u \in Threads : item[u] # None => item[u] \notin Given /\ Below(item[u]))'
    BY <1>1, <1>2, <1>3, <1>7 DEF HoldInv, Below
  <2> QED
    BY <1>1, <1>2, <2>2, <2>3 DEF HoldInv
<1>9. CountInv'
  <2> SUFFICES ASSUME NEW d \in live PROVE Owed(d)' = Owed(d)
    BY <1>7 DEF CountInv
  <2>1. CASE i[1] # d
    <3>1. Moving(d)' = Moving(d)
      BY <1>1, <1>2, <2>1 DEF Moving
    <3>2. \A k : <<d, k>> \in Given' <=> <<d, k>> \in Given
      BY <1>3, <2>1
    <3> QED
      BY <3>1, <3>2 DEF Owed
  <2>2. CASE i[1] = d
    <3>1. Moving(d)' = Moving(d) \cup {i}
      <4>1. i \in Moving(d)'
        BY <1>1, <2>2 DEF Moving
      <4>2. \A j \in Moving(d) : j \in Moving(d)'
        BY <1>1, <1>2 DEF Moving
      <4>3. \A j \in Moving(d)' : j = i \/ j \in Moving(d)
        BY <1>1, <1>2 DEF Moving
      <4> QED
        BY <4>1, <4>2, <4>3
    <3>2. \A j : j \in (Given \cup Moving(d))' <=> j \in Given \cup Moving(d)
      BY <1>3, <3>1
    <3> QED
      BY <3>2 DEF Owed
  <2> QED
    BY <2>1, <2>2
<1>10. ChunkOwned' /\ SlotInv'
  BY <1>1, <1>2 DEF ChunkOwned, SlotInv, PcOK
<1>11. RecycleInv'
  BY <1>1, <1>2 DEF RecycleInv
<1> QED
  BY <1>5, <1>6, <1>8, <1>9, <1>10, <1>11

LEMMA FreeDropStep ==
    ASSUME SafeInv, NEW t \in Threads, FreeDrop(t) PROVE SafeInv'
<1>0. PICK i, c : i = item[t] /\ c = i[1]
  OBVIOUS
<1> USE <1>0 DEF SafeInv, FreeDrop, Moves, Goto
<1>1. /\ pc[t] = "drop" /\ i \in Items /\ i # None /\ c \in Chunks /\ c \in live
      /\ ~Clearing(c) /\ i[2] \in 0..ChunkSize - 1 /\ i[2] < lAllocIndex[c] /\ i = <<c, i[2]>>
  BY DEF SlotInv, TypeOK, HoldInv, Below, Items
<1>2. i[2] \in Owed(c) /\ iFreeCount[c] = Cardinality(Owed(c))
  <2>1. i \in Moving(c)
    BY <1>1 DEF Moving
  <2> QED
    BY <1>1, <2>1 DEF Owed, CountInv
<1>3. iFreeCount[c] - 1 \in 0..ChunkSize /\ iFreeCount[c] # 0
  <2>1. Cardinality(Owed(c)) # 0
    BY <1>2, OwedFinite, FS_EmptySet
  <2> QED
    BY <1>1, <1>2, <2>1 DEF TypeOK
<1>4. \/ iFreeCount[c] = 1 /\ pc'[t] = "recycle" /\ item' = item
      \/ iFreeCount[c] # 1 /\ pc'[t] = "idle" /\ item' = [item EXCEPT ![t] = None]
  BY <1>1, <1>3 DEF PcOK, TypeOK
<1>5. \A u \in Threads \ {t} : pc'[u] = pc[u] /\ item'[u] = item[u]
  BY <1>4 DEF PcOK, TypeOK
<1>6. iFreeCount'[c] = iFreeCount[c] - 1 /\ \A d \in Chunks \ {c} : iFreeCount'[d] = iFreeCount[d]
  BY <1>1 DEF TypeOK
<1>7. Given' = Given /\ Using' = Using
  BY <1>1, <1>4, <1>5 DEF Given, Using
<1>8. TypeOK' /\ PcOK'
  BY <1>1, <1>3, <1>4 DEF TypeOK, PcOK
<1>9. \A d : Clearing(d)' <=> Clearing(d)
  BY <1>1, <1>4, <1>5 DEF Clearing
<1>10. item'[t] # None => item'[t] = item[t]
  BY <1>4 DEF TypeOK
<1>11. HoldInv'
  <2>1. (\A j \in Given : given[j] = 1 /\ Below(j))'
    BY <1>7, <1>9 DEF HoldInv, Below
  <2>2. (\A u \in Threads : item[u] # None => item[u] \notin Given /\ Below(item[u]))'
    BY <1>5, <1>7, <1>9, <1>10 DEF HoldInv, Below
  <2> QED
    BY <1>5, <1>10, <2>1, <2>2 DEF HoldInv
<1>12. CountInv'
  <2>1. \A d \in live \ {c} : Owed(d)' = Owed(d)
    BY <1>1, <1>4, <1>5, <1>7 DEF Owed, Moving
  <2>2. Owed(c)' = Owed(c) \ {i[2]}
    <3>1. Moving(c)' = Moving(c) \ {i}
      <4>1. i \notin Moving(c)'
        BY <1>1, <1>4, <1>5 DEF Moving, HoldInv
      <4>2. \A j \in Moving(c)' : j \in Moving(c)
        BY <1>1, <1>4, <1>5 DEF Moving
      <4>3. \A j \in Moving(c) : j = i \/ j \in Moving(c)'
        BY <1>1, <1>4, <1>5 DEF Moving
      <4> QED
        BY <4>1, <4>2, <4>3
    <3>2. i \notin Given
      BY <1>1 DEF HoldInv
    <3>3. \A k \in 0..ChunkSize - 1 : <<c, k>> = i <=> k = i[2]
      BY <1>1
    <3>4. \A k \in 0..ChunkSize - 1 : k >= lAllocIndex[c] => k # i[2]
      BY <1>1 DEF TypeOK
    <3>5. \A k \in 0..ChunkSize - 1 : k \in Owed(c)' <=> k \in Owed(c) /\ k # i[2]
      BY <1>7, <3>1, <3>2, <3>3, <3>4 DEF Owed
    <3>6. Owed(c)' \subseteq 0..ChunkSize - 1 /\ Owed(c) \subseteq 0..ChunkSize - 1
      BY DEF Owed
    <3> QED
      BY <3>5, <3>6
  <2>3. IsFiniteSet(Owed(c))
    BY OwedFinite
  <2>4. Cardinality(Owed(c) \ {i[2]}) = Cardinality(Owed(c)) - 1
    BY <1>2, <2>3, FS_RemoveElement
  <2> QED
    BY <1>2, <1>6, <1>9, <2>1, <2>2, <2>4 DEF CountInv, TypeOK
<1>13. ChunkOwned' /\ SlotInv'
  BY <1>1, <1>4, <1>5 DEF ChunkOwned, SlotInv, PcOK, TypeOK
<1>14. RecycleInv'
  <2>1. \A u \in Threads \ {t} : pc[u] = "recycle" =>
            item[u][1] # c /\ item[u][1] \in Chunks /\ iFreeCount[item[u][1]] = 0
    BY <1>3 DEF RecycleInv, SlotInv, TypeOK, Items
  <2> QED
    BY <1>4, <1>5, <1>6, <2>1 DEF RecycleInv
<1>15. UseInv'
  BY <1>7 DEF UseInv
<1> QED
  BY <1>8, <1>11, <1>12, <1>13, <1>14, <1>15

LEMMA RecycleStep ==
    ASSUME SafeInv, NEW t \in Threads, Recycle(t) PROVE SafeInv'
<1>0. PICK c : c = item[t][1]
  OBVIOUS
<1>1. pc[t] = "recycle"
  BY DEF Recycle, Moves
<1>2. /\ \A u \in Threads : tls[u] # c
      /\ \A i \in Given : i[1] # c
      /\ \A u \in Threads \ {t} : item[u] # None => item[u][1] # c
  BY <1>0, <1>1, RecycledOwesNothing
<1> USE <1>0 DEF SafeInv, Recycle, Moves, Goto
<1>3. pc'[t] = "idle" /\ item'[t] = None
      /\ \A u \in Threads \ {t} : pc'[u] = pc[u] /\ item'[u] = item[u]
  BY DEF PcOK, TypeOK
<1>4. Given' = Given /\ Using' = Using
  BY <1>1, <1>3 DEF Given, Using
<1>5. TypeOK' /\ PcOK'
  BY DEF TypeOK, PcOK
<1>6. \A d : Owed(d)' = Owed(d) /\ (Clearing(d)' <=> Clearing(d))
  BY <1>1, <1>3, <1>4 DEF Owed, Moving, Clearing
<1>7. HoldInv'
  BY <1>2, <1>3, <1>4, <1>6 DEF HoldInv, Below
<1>8. CountInv' /\ UseInv'
  BY <1>4, <1>6 DEF CountInv, UseInv
<1>9. ChunkOwned' /\ SlotInv' /\ RecycleInv'
  BY <1>1, <1>2, <1>3 DEF ChunkOwned, SlotInv, RecycleInv, PcOK
<1> QED
  BY <1>5, <1>7, <1>8, <1>9

LEMMA SafeStep == SafeInv /\ [Next]_vars => SafeInv'
<1> SUFFICES ASSUME SafeInv, [Next]_vars PROVE SafeInv'
  OBVIOUS
<1>1. CASE Next
  <2>1. PICK t \in Threads :
            \/ AllocCall(t) \/ ChunkAlloc(t) \/ Clear(t) \/ AllocUse(t) \/ AllocTake(t)
            \/ FreeCall(t) \/ FreeDrop(t) \/ Recycle(t)
    BY <1>1 DEF Next
  <2> QED
    BY <2>1, AllocCallStep, ChunkAllocStep, ClearStep, AllocUseStep, AllocTakeStep,
       FreeCallStep, FreeDropStep, RecycleStep
<1>2. CASE UNCHANGED vars
  <2> USE <1>2 DEF vars, SafeInv
  <2>1. Given' = Given /\ Using' = Using /\ \A c : Moving(c)' = Moving(c)
    BY DEF Given, Using, Moving
  <2>2. \A c : Owed(c)' = Owed(c) /\ (Clearing(c)' <=> Clearing(c))
    BY <2>1 DEF Owed, Clearing
  <2>3. \A i : Below(i)' <=> Below(i)
    BY <2>2 DEF Below
  <2>4. TypeOK' /\ PcOK' /\ ChunkOwned' /\ SlotInv' /\ RecycleInv'
    BY DEF TypeOK, PcOK, ChunkOwned, SlotInv, RecycleInv
  <2>5. HoldInv' /\ CountInv' /\ UseInv'
    BY <2>1, <2>2, <2>3 DEF HoldInv, CountInv, UseInv
  <2> QED
    BY <2>4, <2>5
<1> QED
  BY <1>1, <1>2

LEMMA SafeCorrect == Spec => []SafeInv
BY InitSafe, SafeStep, PTL DEF Spec

---------------------------------------------------------------------------

\* A thread takes items from a chunk of its own, which nobody recycles
\* meanwhile (CLFMemoryPool_TLS.h:221-241).
THEOREM ChunkOwnedCorrect == Spec => []ChunkOwned
<1>1. SafeInv => ChunkOwned
  BY DEF SafeInv
<1> QED
  BY SafeCorrect, <1>1, PTL

LEMMA FreeCountFact == SafeInv => FreeCountExact
<1> SUFFICES ASSUME SafeInv PROVE FreeCountExact
  OBVIOUS
<1> USE DEF SafeInv, HoldInv
<1>1. \A c \in live : Given \cap Moving(c) = {}
  BY DEF Moving
<1>2. \A c : \A i \in Given \cup Moving(c) : i[1] = c => i[2] < lAllocIndex[c]
  BY DEF Moving, Below
<1>3. \A c \in live : (\A t \in Threads : ~(tls[t] = c /\ pc[t] = "clear")) =>
          iFreeCount[c] = Cardinality(Owed(c))
  BY DEF CountInv, Clearing
<1> QED
  BY <1>1, <1>2, <1>3 DEF FreeCountExact

LEMMA UseCountFact == SafeInv => UseCountExact
<1> SUFFICES ASSUME SafeInv, \A t \in Threads : pc[t] = "idle"
             PROVE  lUseCnt = Cardinality(Given)
  BY DEF UseCountExact
<1>1. Using = {}
  BY DEF Using
<1>2. Cardinality(Using) = 0 /\ Cardinality(Given) \in Nat
  BY <1>1, FS_EmptySet, FS_CardinalityType DEF SafeInv, UseInv
<1> QED
  BY <1>2 DEF SafeInv, UseInv

\* iFreeCount is what a chunk still has to get back, so the Free that counts to
\* zero is the last one (CLFMemoryPool_TLS.h:232-239), and _lUseCnt is exact.
THEOREM CountsCorrect == Spec => []CountsExact
<1>1. SafeInv => CountsExact
  BY FreeCountFact, UseCountFact DEF SafeInv, CountsExact
<1> QED
  BY SafeCorrect, <1>1, PTL

\* Alloc hands out an item nobody has and Free takes it from the one caller who
\* has it: CLFMemoryPool_TLS keeps the promise of a pool of items.
THEOREM PoolCorrect == Spec => PoolSpec
<1>1. Init => Pool!Init
  BY DEF Init, Pool!Init
<1>2. SafeInv /\ [Next]_vars => [Pool!Next]_given
  <2> SUFFICES ASSUME SafeInv, [Next]_vars PROVE Pool!Next \/ UNCHANGED given
    OBVIOUS
  <2> USE DEF Pool!Next, Pool!Alloc, Pool!Free
  <2>1. ASSUME NEW t \in Threads, AllocCall(t) \/ ChunkAlloc(t) \/ AllocUse(t) \/ FreeDrop(t) \/ Recycle(t)
        PROVE  UNCHANGED given
    BY <2>1 DEF AllocCall, ChunkAlloc, AllocUse, FreeDrop, Recycle
  <2>2. ASSUME NEW i \in Items, i \notin Given, given' = [given EXCEPT ![i] = @ + 1] PROVE Pool!Next
    <3>1. given[i] = 0
      BY <2>2 DEF Given, SafeInv, TypeOK
    <3>2. Pool!Alloc(i)
      BY <2>2, <3>1
    <3> QED
      BY <3>2
  <2>3. ASSUME NEW t \in Threads, Clear(t) PROVE Pool!Next \/ UNCHANGED given
    <3>1. item[t] # None => item[t] \in Items /\ item[t] \notin Given
      BY DEF SafeInv, TypeOK, HoldInv
    <3> QED
      BY <2>2, <2>3, <3>1 DEF Clear, AfterChunk, ReturnItem
  <2>4. ASSUME NEW t \in Threads, AllocTake(t) PROVE Pool!Next \/ UNCHANGED given
    <3>1. PICK i : i = <<tls[t], lAllocIndex[tls[t]]>>
      OBVIOUS
    <3>2. i \in Items /\ i \notin Given
      BY <2>4, <3>1 DEF AllocTake, SafeInv, TypeOK, SlotInv, ChunkOwned, HoldInv, Below, Items
    <3> QED
      BY <2>2, <2>4, <3>1, <3>2 DEF AllocTake, ReturnItem
  <2>5. ASSUME NEW t \in Threads, FreeCall(t) PROVE Pool!Next
    <3>1. PICK i \in Given : given' = [given EXCEPT ![i] = @ - 1]
      BY <2>5 DEF FreeCall
    <3>2. i \in Items /\ given[i] = 1
      BY DEF Given, SafeInv, HoldInv
    <3>3. Pool!Free(i)
      BY <3>1, <3>2
    <3> QED
      BY <3>2, <3>3
  <2> QED
    BY <2>1, <2>3, <2>4, <2>5 DEF Next, vars
<1> QED
  BY <1>1, <1>2, SafeCorrect, PTL DEF Spec, PoolSpec, Pool!Spec

=============================================================================
