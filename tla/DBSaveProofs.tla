---------------------------- MODULE DBSaveProofs ----------------------------
(***************************************************************************)
(* What the pipeline of Thread_DBSave keeps for any number of updaters and *)
(* headers and any size of the ring, although DBWriterThread takes         *)
(* pointers out without the ring's lock: every header has one owner, the   *)
(* rows reach the database in order, each number is given once, the writer *)
(* never sleeps over a pointer and the shutdown leaves none behind.        *)
(***************************************************************************)
EXTENDS DBSave, FiniteSetTheorems, SequenceTheorems, TLAPS

Rows == [no : Nat, again : Nat]

---------------------------------------------------------------------------
(* The inductive invariant *)

\* Where an UpdateThread has a header, a numbered row, a finished row, the lock,
\* and room in the ring.
Rooming  == {"ecmp", "etake", "ecopy", "emove"}
Locking  == {"room"} \cup Rooming
Finished == {"lock"} \cup Locking
Numbered == {"reread"} \cup Finished
Holding  == {"incr"} \cup Numbered

PcOK ==
    /\ DOMAIN pc = Threads
    /\ \A u \in Updaters : pc[u] \in Holding \cup {"top", "alloc", "set", "done"}
    /\ pc[Writer] \in {"wait", "test", "enough", "cmp", "take", "copy", "move", "format",
                       "free", "query", "done"}
    /\ pc[Main] \in {"keys", "join", "exit", "joinwriter", "done"}

\* Who has the lock and who has a header.
HoldInv ==
    /\ \A u \in Updaters : pc[u] \in Locking <=> owner = u
    /\ \A u \in Updaters : pc[u] \in Holding <=> hdr[u] # NoHeader
    /\ pc[Writer] \in {"format", "free"} => hdr[Writer] # NoHeader
    /\ pc[Writer] = "move" => hdr[Writer] = slot[iRead]
    /\ \A u \in Updaters : pc[u] = "emove" => slot[iWrite] = hdr[u]

\* What a size call may rely on when the other side has moved since its
\* comparison, and what its caller then knows about the ring.
RingInv ==
    /\ \A t \in Users : ahead[t] # None => pc[t] \in SizeSites
    /\ \A u \in Updaters : pc[u] = "room" =>
          /\ ahead[u] = "yes" => iWrite >= iRead
          /\ ahead[u] = "no" => iWrite < Slots - 1
    /\ \A u \in Updaters : pc[u] \in Rooming => NextPos(iWrite) # iRead
    /\ pc[Writer] \in {"enough", "cmp", "take", "copy", "move"} => iRead # iWrite
    /\ pc[Writer] = "test" /\ ahead[Writer] = "no" => iRead # iWrite

\* The writer leaves last and leaves the ring empty.
ExitInv ==
    /\ pc[Main] \in {"exit", "joinwriter", "done"} => \A u \in Updaters : pc[u] = "done"
    /\ exitEvent => pc[Main] \in {"joinwriter", "done"}
    /\ byExit => exitEvent
    /\ pc[Writer] = "done" => byExit /\ iRead = iWrite
    /\ pc[Main] = "done" => pc[Writer] = "done"

\* The rows taken out of the ring.
Taken  == Len(queried) + (IF pc[Writer] \in {"format", "free", "query"} THEN 1 ELSE 0)

OrderInv ==
    /\ accepted \in Seq(Rows) /\ queried \in Seq(Rows)
    /\ Len(accepted) = Taken + Off(iWrite)
    /\ \A i \in 1..Len(queried) : queried[i] = accepted[i]
    /\ \A p \in Waiting : row[slot[p]] = accepted[Taken + Off(p) + 1]
    /\ pc[Writer] = "format" => row[hdr[Writer]] = accepted[Taken]
    /\ pc[Writer] \in {"free", "query"} => szQuery = accepted[Taken]

\* Every number was given out once.
NumberInv ==
    /\ \A i \in 1..Len(accepted) : accepted[i].no <= counter
    /\ \A u \in Updaters : pc[u] \in Numbered =>
          /\ row[hdr[u]].no \in 1..counter
          /\ \A i \in 1..Len(accepted) : accepted[i].no # row[hdr[u]].no
          /\ \A v \in Updaters \ {u} : pc[v] \in Numbered => row[hdr[v]].no # row[hdr[u]].no
    /\ \A u \in Updaters : pc[u] \in Finished => row[hdr[u]].again >= row[hdr[u]].no

SafeInv ==
    /\ TypeOK /\ PcOK /\ HoldInv /\ RingInv /\ ExitInv /\ NoLostWakeup
    /\ HeaderOwnership /\ OrderInv /\ NumberInv /\ RowNumbers

USE RingAssumption, HeaderAssumption, BoundAssumption, ThreadAssumption
    DEF RingAssumption, HeaderAssumption, BoundAssumption, ThreadAssumption

---------------------------------------------------------------------------
(* Positions and sizes *)

LEMMA NextPosFact ==
    \A p \in 0..Slots - 1 :
        /\ NextPos(p) \in 0..Slots - 1
        /\ NextPos(p) = IF p = Slots - 1 THEN 0 ELSE p + 1
<1> SUFFICES ASSUME NEW p \in 0..Slots - 1
             PROVE  NextPos(p) = IF p = Slots - 1 THEN 0 ELSE p + 1
  OBVIOUS
<1>1. CASE p = Slots - 1
  BY <1>1 DEF NextPos
<1>2. CASE p # Slots - 1
  BY <1>2 DEF NextPos
<1> QED
  BY <1>1, <1>2

\* Multiples of the pointer size compare like the numbers of pointers.
LEMMA PtrFact ==
    \A n \in Int : /\ PtrSize * n = 0 => n = 0
                   /\ PtrSize * n - 1 >= PtrSize => n > 1
                   /\ PtrSize * n - 1 < 0 => n <= 0
<1> SUFFICES ASSUME NEW n \in Int
             PROVE  /\ PtrSize * n = 0 => n = 0
                    /\ PtrSize * n - 1 >= PtrSize => n > 1
                    /\ PtrSize * n - 1 < 0 => n <= 0
  OBVIOUS
<1>1. CASE n <= 0
  BY <1>1
<1>2. CASE n = 1
  BY <1>2
<1>3. CASE n > 1
  BY <1>3
<1> QED
  BY <1>1, <1>2, <1>3

LEMMA FreeSizeFact ==
    ASSUME TypeOK, NEW u \in Updaters
    PROVE  /\ ahead[u] = "yes" => FreeSize(u) = PtrSize * (Slots - (iWrite - iRead)) - 1
           /\ ahead[u] = "no" => FreeSize(u) = PtrSize * (iRead - iWrite) - 1
BY DEF TypeOK, FreeSize, UseSize

\* One pointer more: nobody's place in the ring changes.
LEMMA EnqueuedFact ==
    ASSUME TypeOK, NextPos(iWrite) # iRead, iRead' = iRead, iWrite' = NextPos(iWrite)
    PROVE  /\ Waiting' = Waiting \cup {iWrite} /\ iWrite \notin Waiting
           /\ \A p : Off(p)' = Off(p)
           /\ Off(iWrite') = Off(iWrite) + 1
           /\ iRead # iWrite'
<1>1. iRead \in 0..Slots - 1 /\ iWrite \in 0..Slots - 1
  BY DEF TypeOK
<1>2. iWrite' = IF iWrite = Slots - 1 THEN 0 ELSE iWrite + 1
  BY <1>1, NextPosFact
<1>3. Off(iWrite') = Off(iWrite) + 1
  BY <1>1, <1>2 DEF Off
<1>4. Waiting' = Waiting \cup {iWrite} /\ iWrite \notin Waiting
  BY <1>1, <1>2 DEF Waiting
<1> QED
  BY <1>3, <1>4 DEF Off

\* One pointer less: the others move up.
LEMMA DequeuedFact ==
    ASSUME TypeOK, iRead # iWrite, iRead' = NextPos(iRead), iWrite' = iWrite
    PROVE  /\ Waiting' = Waiting \ {iRead} /\ iRead \in Waiting
           /\ Off(iRead) = 0
           /\ \A p \in Waiting' : Off(p)' = Off(p) - 1
           /\ Off(iWrite)' = Off(iWrite) - 1
<1>1. iRead \in 0..Slots - 1 /\ iWrite \in 0..Slots - 1
  BY DEF TypeOK
<1>2. iRead' = IF iRead = Slots - 1 THEN 0 ELSE iRead + 1
  BY <1>1, NextPosFact
<1>3. Waiting' = Waiting \ {iRead} /\ iRead \in Waiting
  BY <1>1, <1>2 DEF Waiting
<1>4. \A p \in Waiting' : Off(p)' = Off(p) - 1
  <2> SUFFICES ASSUME NEW p \in Waiting' PROVE Off(p)' = Off(p) - 1
    OBVIOUS
  <2>1. p \in 0..Slots - 1 /\ p # iRead
    BY <1>3 DEF Waiting
  <2> QED
    BY <1>1, <1>2, <2>1 DEF Off
<1>5. Off(iRead) = 0 /\ Off(iWrite)' = Off(iWrite) - 1
  BY <1>1, <1>2 DEF Off
<1> QED
  BY <1>3, <1>4, <1>5

LEMMA WaitingLive ==
    ASSUME HeaderOwnership, TypeOK PROVE \A p \in Waiting : slot[p] \in live /\ slot[p] \in Headers
BY DEF HeaderOwnership, TypeOK

LEMMA RowsTyped ==
    ASSUME OrderInv PROVE \A i \in 1..Len(accepted) : accepted[i] \in Rows
BY DEF OrderInv

\* A step of the control flow alone leaves headers, rows and numbers as they are.
LEMMA ControlFrame ==
    ASSUME SafeInv,
           UNCHANGED <<slot, iRead, iWrite, row, live, hdr, szQuery, counter, accepted, queried, leaked>>,
           \A u \in Updaters : /\ pc'[u] \in Numbered => pc[u] \in Numbered
                               /\ pc'[u] \in Finished => pc[u] \in Finished,
           \/ pc'[Writer] = pc[Writer]
           \/ {pc[Writer], pc'[Writer]} \cap {"format", "free", "query"} = {}
    PROVE  HeaderOwnership' /\ OrderInv' /\ NumberInv' /\ RowNumbers'
<1>1. (pc'[Writer] \in {"format", "free"}) <=> (pc[Writer] \in {"format", "free"})
  OBVIOUS
<1>2. HeaderOwnership'
  BY <1>1 DEF SafeInv, HeaderOwnership, Hands, Waiting
<1>3. OrderInv'
  BY DEF SafeInv, OrderInv, Taken, Off, Waiting
<1>4. NumberInv' /\ RowNumbers'
  BY DEF SafeInv, NumberInv, RowNumbers
<1> QED
  BY <1>2, <1>3, <1>4

---------------------------------------------------------------------------
(* UpdateThread *)

\* Where the threads are after a step of one of them.
LEMMA UpdaterMoved ==
    ASSUME PcOK, NEW u \in Updaters, NEW l, Goto(u, l),
           l \in Holding \cup {"top", "alloc", "set", "done"}
    PROVE  /\ PcOK'
           /\ pc'[u] = l /\ \A v \in Updaters \ {u} : pc'[v] = pc[v]
           /\ pc'[Writer] = pc[Writer] /\ pc'[Main] = pc[Main]
<1>1. u \in Threads /\ u # Writer /\ u # Main /\ Writer \in Threads /\ Main \in Threads
      /\ Updaters \subseteq Threads
  BY DEF Threads, Users
<1>2. DOMAIN pc' = Threads /\ pc'[u] = l /\ \A v \in Threads \ {u} : pc'[v] = pc[v]
  BY <1>1 DEF PcOK, Goto
<1> QED
  BY <1>1, <1>2 DEF PcOK

LEMMA UpdateTopStep == ASSUME SafeInv, NEW u \in Updaters, UpdateTop(u) PROVE SafeInv'
<1> USE DEF SafeInv, UpdateTop, ring, sync, data, hist
<1>1. PICK l \in {"alloc", "done"} : Goto(u, l) /\ (l = "done" <=> bShutdown)
  OBVIOUS
<1>2. /\ PcOK' /\ pc'[u] = l /\ \A v \in Updaters \ {u} : pc'[v] = pc[v]
      /\ pc'[Writer] = pc[Writer] /\ pc'[Main] = pc[Main]
  BY <1>1, UpdaterMoved
<1>3. TypeOK'
  BY DEF TypeOK
<1>4. HoldInv' /\ RingInv'
  <2>1. HoldInv'
    BY <1>2 DEF HoldInv, Holding, Numbered, Finished, Locking, Rooming
  <2>2. RingInv'
    BY <1>2 DEF RingInv, Locking, Rooming, SizeSites, Users
  <2> QED
    BY <2>1, <2>2
<1>5. ExitInv' /\ NoLostWakeup'
  BY <1>2 DEF ExitInv, NoLostWakeup
<1>6. HeaderOwnership' /\ OrderInv' /\ NumberInv' /\ RowNumbers'
  BY <1>2, ControlFrame DEF Numbered, Finished, Locking, Rooming
<1> QED
  BY <1>2, <1>3, <1>4, <1>5, <1>6

LEMMA UpdateAllocStep == ASSUME SafeInv, NEW u \in Updaters, UpdateAlloc(u) PROVE SafeInv'
<1> USE DEF SafeInv, UpdateAlloc, Moves, ring, sync, data, hist
<1>1. PICK h \in Headers \ live : live' = live \cup {h} /\ hdr' = [hdr EXCEPT ![u] = h]
  OBVIOUS
<1>2. /\ PcOK' /\ pc[u] = "alloc" /\ pc'[u] = "incr" /\ \A v \in Updaters \ {u} : pc'[v] = pc[v]
      /\ pc'[Writer] = pc[Writer] /\ pc'[Main] = pc[Main]
  BY UpdaterMoved DEF Holding
<1>3. u \in Users /\ u # Writer /\ h # NoHeader /\ hdr'[u] = h /\ hdr[u] = NoHeader
      /\ \A v \in Users \ {u} : hdr'[v] = hdr[v]
  BY <1>1, <1>2 DEF Users, TypeOK, HoldInv, Holding, Numbered, Finished, Locking, Rooming
<1>4. TypeOK'
  BY <1>1, <1>3 DEF TypeOK
<1>5. HoldInv' /\ RingInv'
  <2>1. HoldInv'
    BY <1>2, <1>3 DEF HoldInv, Holding, Numbered, Finished, Locking, Rooming, Users
  <2>2. RingInv'
    BY <1>2 DEF RingInv, Locking, Rooming, SizeSites, Users
  <2> QED
    BY <2>1, <2>2
<1>6. ExitInv' /\ NoLostWakeup'
  BY <1>2 DEF ExitInv, NoLostWakeup
<1>7. HeaderOwnership'
  <2>1. Hands' = Hands \cup {u} /\ u \notin Hands
    BY <1>2, <1>3 DEF Hands
  <2>2. Waiting' = Waiting
    BY DEF Waiting
  <2>3. {hdr[t] : t \in Hands}' = {hdr[t] : t \in Hands} \cup {h}
    BY <1>3, <2>1 DEF Hands
  <2>4. \A t \in Hands : hdr[t] \in live /\ hdr[t] # h /\ hdr'[t] = hdr[t]
    BY <1>1, <1>3, <2>1 DEF HeaderOwnership, Hands
  <2>5. \A p \in Waiting : slot[p] # h
    BY WaitingLive
  <2>6. h \notin leaked
    BY DEF HeaderOwnership
  <2>7. live' = {slot[p] : p \in Waiting}' \cup {hdr[t] : t \in Hands}' \cup leaked'
    BY <1>1, <2>2, <2>3 DEF HeaderOwnership
  <2>8. (\A t, v \in Hands : t # v => hdr[t] # hdr[v])'
    BY <1>3, <2>1, <2>4 DEF HeaderOwnership
  <2> QED
    BY <1>3, <2>1, <2>2, <2>4, <2>5, <2>6, <2>7, <2>8 DEF HeaderOwnership
<1>8. OrderInv' /\ NumberInv' /\ RowNumbers'
  <2>1. OrderInv'
    BY <1>2, <1>3 DEF OrderInv, Taken, Off, Waiting, Users
  <2>2. NumberInv' /\ RowNumbers'
    BY <1>2, <1>3 DEF NumberInv, RowNumbers, Numbered, Finished, Locking, Rooming, Users
  <2> QED
    BY <2>1, <2>2
<1> QED
  BY <1>2, <1>4, <1>5, <1>6, <1>7, <1>8

\* Nobody else works on a thread's header.
LEMMA OwnHeader ==
    ASSUME SafeInv, NEW u \in Updaters, pc[u] \in Holding
    PROVE  /\ u \in Users /\ u # Writer /\ u \in Hands
           /\ hdr[u] \in Headers /\ hdr[u] # NoHeader /\ hdr[u] \in live /\ hdr[u] \notin leaked
           /\ \A p \in Waiting : slot[p] # hdr[u]
           /\ \A v \in Updaters \ {u} : pc[v] \in Holding => hdr[v] # hdr[u]
           /\ pc[Writer] \in {"format", "free"} => hdr[Writer] # hdr[u]
<1> USE DEF SafeInv
<1>1. u \in Users /\ u # Writer /\ hdr[u] # NoHeader /\ hdr[u] \in Headers
  BY DEF HoldInv, Users, TypeOK
<1>2. u \in Hands
  BY <1>1 DEF Hands
<1>3. \A v \in Updaters \ {u} : pc[v] \in Holding => v \in Hands
  BY DEF Hands, HoldInv, Users
<1>4. pc[Writer] \in {"format", "free"} => Writer \in Hands
  BY DEF Hands, HoldInv, Users
<1> QED
  BY <1>1, <1>2, <1>3, <1>4 DEF HeaderOwnership

\* A thread that writes into its header changes no other row.
LEMMA OwnRow ==
    ASSUME SafeInv, NEW u \in Updaters, pc[u] \in Holding,
           NEW r \in Rows, row' = [row EXCEPT ![hdr[u]] = r],
           UNCHANGED <<slot, iRead, iWrite, hdr, szQuery, accepted, queried>>,
           pc'[Writer] = pc[Writer]
    PROVE  /\ row' \in [Headers -> Rows] /\ row'[hdr[u]] = r
           /\ \A v \in Updaters \ {u} : pc[v] \in Numbered =>
                 row'[hdr[v]] = row[hdr[v]] /\ row[hdr[v]] \in Rows
           /\ OrderInv'
<1>0. PICK h : h = hdr[u]
  OBVIOUS
<1>1. /\ h \in Headers
      /\ \A p \in Waiting : slot[p] # h
      /\ \A v \in Updaters \ {u} : pc[v] \in Holding => hdr[v] # h
      /\ pc[Writer] \in {"format", "free"} => hdr[Writer] # h
  BY <1>0, OwnHeader
<1>2. row \in [Headers -> Rows]
  BY DEF SafeInv, TypeOK, Rows
<1>3. row' \in [Headers -> Rows] /\ row'[h] = r /\ \A g \in Headers \ {h} : row'[g] = row[g]
  BY <1>0, <1>1, <1>2
<1>4. ASSUME NEW v \in Updaters \ {u}, pc[v] \in Numbered
      PROVE  row'[hdr[v]] = row[hdr[v]] /\ row[hdr[v]] \in Rows
  <2>1. pc[v] \in Holding /\ hdr[v] \in Headers
    BY <1>4 DEF Holding, SafeInv, TypeOK, HoldInv, Users
  <2>2. hdr[v] # h
    BY <1>1, <1>4, <2>1
  <2> QED
    BY <1>2, <1>3, <2>1, <2>2
<1>5. OrderInv'
  <2>1. \A p \in Waiting : row'[slot[p]] = row[slot[p]]
    BY <1>1, <1>3, WaitingLive DEF SafeInv
  <2>2. pc[Writer] = "format" => row'[hdr[Writer]] = row[hdr[Writer]]
    BY <1>1, <1>3 DEF SafeInv, HoldInv, TypeOK, Users
  <2> QED
    BY <2>1, <2>2 DEF SafeInv, OrderInv, Taken, Off, Waiting
<1> QED
  BY <1>0, <1>3, <1>4, <1>5

LEMMA UpdateIncrementStep == ASSUME SafeInv, NEW u \in Updaters, UpdateIncrement(u) PROVE SafeInv'
<1> USE DEF SafeInv, UpdateIncrement, Moves, ring, sync, hist
<1>1. /\ PcOK' /\ pc[u] = "incr" /\ pc'[u] = "reread" /\ \A v \in Updaters \ {u} : pc'[v] = pc[v]
      /\ pc'[Writer] = pc[Writer] /\ pc'[Main] = pc[Main]
  BY UpdaterMoved DEF Holding, Numbered
<1>2. hdr[u] \in Headers /\ pc[u] \in Holding
  BY <1>1, OwnHeader DEF Holding
<1>3. PICK r \in Rows : row' = [row EXCEPT ![hdr[u]] = r] /\ r.no = counter + 1
  <2>1. row[hdr[u]] \in Rows /\ counter + 1 \in Nat
    BY <1>2 DEF TypeOK, Rows
  <2>2. [row[hdr[u]] EXCEPT !.no = counter + 1] \in Rows
        /\ [row[hdr[u]] EXCEPT !.no = counter + 1].no = counter + 1
    BY <2>1 DEF Rows
  <2> QED
    BY <2>2
<1>4. /\ row' \in [Headers -> Rows] /\ row'[hdr[u]] = r
      /\ \A v \in Updaters \ {u} : pc[v] \in Numbered =>
            row'[hdr[v]] = row[hdr[v]] /\ row[hdr[v]] \in Rows
      /\ OrderInv'
  BY <1>1, <1>2, <1>3, OwnRow
<1>5. TypeOK'
  BY <1>4 DEF TypeOK, Rows
<1>6. HoldInv' /\ RingInv'
  <2>1. HoldInv'
    BY <1>1 DEF HoldInv, Holding, Numbered, Finished, Locking, Rooming
  <2>2. RingInv'
    BY <1>1 DEF RingInv, Locking, Rooming, SizeSites, Users
  <2> QED
    BY <2>1, <2>2
<1>7. ExitInv' /\ NoLostWakeup' /\ HeaderOwnership'
  BY <1>1 DEF ExitInv, NoLostWakeup, HeaderOwnership, Hands, Waiting
<1>8. NumberInv' /\ RowNumbers'
  <2>1. \A i \in 1..Len(accepted) : accepted[i].no \in Nat /\ accepted[i].no <= counter
    BY RowsTyped DEF NumberInv, Rows
  <2>2. \A v \in Updaters \ {u} : pc[v] \in Numbered => row[hdr[v]].no \in 1..counter
    BY <1>4 DEF NumberInv, Rows
  <2>3. r.no = counter + 1 /\ counter' = counter + 1 /\ counter \in Nat
    BY <1>3 DEF TypeOK
  <2>4. (\A i \in 1..Len(accepted) : accepted[i].no <= counter)'
    BY <2>1, <2>3
  <2>5. ASSUME NEW v \in Updaters, pc'[v] \in Numbered
        PROVE  /\ row'[hdr[v]].no \in 1..counter'
               /\ \A i \in 1..Len(accepted) : accepted[i].no # row'[hdr[v]].no
               /\ \A w \in Updaters \ {v} : pc'[w] \in Numbered => row'[hdr[w]].no # row'[hdr[v]].no
    <3>1. CASE v = u
      BY <1>1, <1>4, <2>1, <2>2, <2>3, <3>1
    <3>2. CASE v # u
      BY <1>1, <1>4, <2>2, <2>3, <2>5, <3>2 DEF NumberInv
    <3> QED
      BY <3>1, <3>2
  <2>6. ASSUME NEW v \in Updaters, pc'[v] \in Finished PROVE row'[hdr[v]].again >= row'[hdr[v]].no
    <3>1. v # u
      BY <1>1, <2>6 DEF Finished, Locking, Rooming
    <3> QED
      BY <1>1, <1>4, <2>6, <3>1 DEF NumberInv, Numbered
  <2> QED
    BY <2>4, <2>5, <2>6 DEF NumberInv, RowNumbers
<1> QED
  BY <1>1, <1>4, <1>5, <1>6, <1>7, <1>8

LEMMA UpdateRereadStep == ASSUME SafeInv, NEW u \in Updaters, UpdateReread(u) PROVE SafeInv'
<1> USE DEF SafeInv, UpdateReread, Moves, ring, sync, hist
<1>1. /\ PcOK' /\ pc[u] = "reread" /\ pc'[u] = "lock" /\ \A v \in Updaters \ {u} : pc'[v] = pc[v]
      /\ pc'[Writer] = pc[Writer] /\ pc'[Main] = pc[Main]
  BY UpdaterMoved DEF Holding, Numbered, Finished
<1>2. hdr[u] \in Headers /\ pc[u] \in Holding /\ pc[u] \in Numbered
  BY <1>1, OwnHeader DEF Holding, Numbered
<1>3. PICK r \in Rows : row' = [row EXCEPT ![hdr[u]] = r] /\ r.no = row[hdr[u]].no /\ r.again = counter
  <2>1. row[hdr[u]] \in Rows /\ counter \in Nat
    BY <1>2 DEF TypeOK, Rows
  <2>2. [row[hdr[u]] EXCEPT !.again = counter] \in Rows
        /\ [row[hdr[u]] EXCEPT !.again = counter].no = row[hdr[u]].no
        /\ [row[hdr[u]] EXCEPT !.again = counter].again = counter
    BY <2>1 DEF Rows
  <2> QED
    BY <2>2
<1>4. /\ row' \in [Headers -> Rows] /\ row'[hdr[u]] = r
      /\ \A v \in Updaters \ {u} : pc[v] \in Numbered =>
            row'[hdr[v]] = row[hdr[v]] /\ row[hdr[v]] \in Rows
      /\ OrderInv'
  BY <1>1, <1>2, <1>3, OwnRow
<1>5. TypeOK'
  BY <1>4 DEF TypeOK, Rows
<1>6. HoldInv' /\ RingInv'
  <2>1. HoldInv'
    BY <1>1 DEF HoldInv, Holding, Numbered, Finished, Locking, Rooming
  <2>2. RingInv'
    BY <1>1 DEF RingInv, Locking, Rooming, SizeSites, Users
  <2> QED
    BY <2>1, <2>2
<1>7. ExitInv' /\ NoLostWakeup' /\ HeaderOwnership'
  BY <1>1 DEF ExitInv, NoLostWakeup, HeaderOwnership, Hands, Waiting
<1>8. NumberInv' /\ RowNumbers'
  <2>1. \A v \in Updaters : pc'[v] \in Numbered => pc[v] \in Numbered /\ row'[hdr[v]].no = row[hdr[v]].no
    BY <1>1, <1>2, <1>3, <1>4
  <2>2. ASSUME NEW v \in Updaters, pc'[v] \in Finished PROVE row'[hdr[v]].again >= row'[hdr[v]].no
    <3>1. CASE v = u
      BY <1>2, <1>3, <1>4, <3>1 DEF NumberInv, TypeOK, Rows
    <3>2. CASE v # u
      BY <1>1, <1>4, <2>2, <3>2 DEF NumberInv, Numbered
    <3> QED
      BY <3>1, <3>2
  <2> QED
    BY <2>1, <2>2 DEF NumberInv, RowNumbers
<1> QED
  BY <1>1, <1>4, <1>5, <1>6, <1>7, <1>8

LEMMA UpdateLockStep == ASSUME SafeInv, NEW u \in Updaters, UpdateLock(u) PROVE SafeInv'
<1> USE DEF SafeInv, UpdateLock, Moves, ring, sync, data, hist
<1>1. /\ PcOK' /\ pc[u] = "lock" /\ pc'[u] = "room" /\ \A v \in Updaters \ {u} : pc'[v] = pc[v]
      /\ pc'[Writer] = pc[Writer] /\ pc'[Main] = pc[Main]
  BY UpdaterMoved DEF Holding, Numbered, Finished, Locking
<1>2. TypeOK' /\ ahead[u] = None
  BY <1>1 DEF TypeOK, RingInv, SizeSites, Users
<1>3. HoldInv'
  BY <1>1 DEF HoldInv, Holding, Numbered, Finished, Locking, Rooming
<1>4. RingInv'
  BY <1>1, <1>2 DEF RingInv, Rooming, SizeSites, Users, None
<1>5. ExitInv' /\ NoLostWakeup'
  BY <1>1 DEF ExitInv, NoLostWakeup
<1>6. HeaderOwnership' /\ OrderInv' /\ NumberInv' /\ RowNumbers'
  BY <1>1, ControlFrame DEF Numbered, Finished, Locking
<1> QED
  BY <1>1, <1>2, <1>3, <1>4, <1>5, <1>6

\* The comparison of a size call.
LEMMA CompareStep == ASSUME SafeInv, NEW t \in Users, Compare(t) PROVE SafeInv'
<1> USE DEF SafeInv, Compare, ring, sync, data, hist
<1>1. /\ pc' = pc /\ pc[t] \in SizeSites
      /\ ahead'[t] \in {"yes", "no"} /\ \A v \in Users \ {t} : ahead'[v] = ahead[v]
      /\ pc[t] # "ecopy" => (ahead'[t] = "yes" <=> iWrite >= iRead)
  BY DEF TypeOK
<1>2. TypeOK' /\ PcOK'
  BY <1>1 DEF TypeOK, PcOK
<1>3. HoldInv'
  BY <1>1 DEF HoldInv
<1>4. RingInv'
  <2>1. iRead \in 0..Slots - 1 /\ iWrite \in 0..Slots - 1
    BY DEF TypeOK
  <2> QED
    BY <1>1, <2>1 DEF RingInv, Users
<1>5. ExitInv' /\ NoLostWakeup'
  BY <1>1 DEF ExitInv, NoLostWakeup
<1>6. HeaderOwnership' /\ OrderInv' /\ NumberInv' /\ RowNumbers'
  BY <1>1, ControlFrame
<1> QED
  BY <1>2, <1>3, <1>4, <1>5, <1>6

\* A test that finds room is right, also when the writer has moved on inside it.
LEMMA RoomFact ==
    ASSUME TypeOK, RingInv, NEW u \in Updaters, pc[u] = "room", ahead[u] # None,
           AtLeast(FreeSize(u), PtrSize)
    PROVE  NextPos(iWrite) # iRead
<1>1. iRead \in 0..Slots - 1 /\ iWrite \in 0..Slots - 1 /\ ahead[u] \in {"yes", "no"}
  BY DEF TypeOK, Users
<1>2. NextPos(iWrite) = IF iWrite = Slots - 1 THEN 0 ELSE iWrite + 1
  BY <1>1, NextPosFact
<1>3. CASE ahead[u] = "yes"
  <2>1. FreeSize(u) = PtrSize * (Slots - (iWrite - iRead)) - 1 /\ iWrite >= iRead
    BY <1>3, FreeSizeFact DEF RingInv
  <2>2. Slots - (iWrite - iRead) \in Int /\ Slots - (iWrite - iRead) > 0
    BY <1>1
  <2>3. Slots - (iWrite - iRead) > 1
    BY <2>1, <2>2, PtrFact DEF AtLeast
  <2> QED
    BY <1>1, <1>2, <2>1, <2>3
<1>4. CASE ahead[u] = "no"
  <2>1. FreeSize(u) = PtrSize * (iRead - iWrite) - 1 /\ iWrite < Slots - 1
    BY <1>4, FreeSizeFact DEF RingInv
  <2>2. iRead - iWrite \in Int
    BY <1>1
  <2>3. iRead - iWrite > 1 \/ iRead - iWrite <= 0
    BY <2>1, <2>2, PtrFact DEF AtLeast
  <2> QED
    BY <1>1, <1>2, <2>1, <2>3
<1> QED
  BY <1>1, <1>3, <1>4

LEMMA UpdateRoomStep == ASSUME SafeInv, NEW u \in Updaters, UpdateRoom(u) PROVE SafeInv'
<1> USE DEF SafeInv, UpdateRoom, Called, sync
<1>1. CASE AtLeast(FreeSize(u), PtrSize)
  <2>1. Goto(u, "ecmp") /\ UNCHANGED <<owner, hdr, leaked>>
    BY <1>1
  <2>2. /\ PcOK' /\ pc[u] = "room" /\ pc'[u] = "ecmp" /\ \A v \in Updaters \ {u} : pc'[v] = pc[v]
        /\ pc'[Writer] = pc[Writer] /\ pc'[Main] = pc[Main]
    BY <2>1, UpdaterMoved DEF Holding, Numbered, Finished, Locking, Rooming
  <2>3. NextPos(iWrite) # iRead
    BY <1>1, <2>2, RoomFact
  <2>4. /\ ahead'[u] = None /\ \A v \in Users \ {u} : ahead'[v] = ahead[v]
        /\ TypeOK'
    BY <2>1 DEF TypeOK, Users
  <2>5. HoldInv'
    BY <2>1, <2>2 DEF HoldInv, Holding, Numbered, Finished, Locking, Rooming
  <2>6. RingInv'
    BY <2>2, <2>3, <2>4 DEF RingInv, Users
  <2>7. ExitInv' /\ NoLostWakeup'
    BY <2>2 DEF ExitInv, NoLostWakeup
  <2>8. HeaderOwnership' /\ OrderInv' /\ NumberInv' /\ RowNumbers'
    BY <2>1, <2>2, ControlFrame DEF Numbered, Finished, Locking, Rooming
  <2> QED
    BY <2>2, <2>4, <2>5, <2>6, <2>7, <2>8
<1>2. CASE ~AtLeast(FreeSize(u), PtrSize)
  <2>1. Goto(u, "set") /\ owner' = None /\ hdr' = [hdr EXCEPT ![u] = NoHeader]
        /\ leaked' = leaked \cup {hdr[u]}
    BY <1>2
  <2>2. /\ PcOK' /\ pc[u] = "room" /\ pc'[u] = "set" /\ \A v \in Updaters \ {u} : pc'[v] = pc[v]
        /\ pc'[Writer] = pc[Writer] /\ pc'[Main] = pc[Main]
    BY <2>1, UpdaterMoved
  <2>3. /\ u \in Hands /\ hdr[u] \in Headers /\ hdr[u] # NoHeader
        /\ \A p \in Waiting : slot[p] # hdr[u]
        /\ u \in Users /\ u # Writer
    BY <2>2, OwnHeader DEF Holding, Numbered, Finished, Locking
  <2>4. hdr'[u] = NoHeader /\ \A v \in Users \ {u} : hdr'[v] = hdr[v]
    BY <2>1, <2>3 DEF TypeOK
  <2>5. /\ ahead'[u] = None /\ \A v \in Users \ {u} : ahead'[v] = ahead[v]
        /\ TypeOK'
    BY <2>1, <2>3 DEF TypeOK
  <2>6. HoldInv'
    <3>1. \A v \in Updaters \ {u} : pc[v] \notin Locking /\ v \in Users
      BY <2>2 DEF HoldInv, Locking, Users
    <3>2. (\A v \in Updaters : pc[v] \in Locking <=> owner = v)'
      BY <2>1, <2>2, <3>1 DEF Locking, Rooming
    <3>3. (\A v \in Updaters : pc[v] \in Holding <=> hdr[v] # NoHeader)'
      BY <2>2, <2>4, <3>1 DEF HoldInv, Holding, Numbered, Finished, Locking, Rooming
    <3>4. (\A v \in Updaters : pc[v] = "emove" => slot[iWrite] = hdr[v])'
      BY <2>2, <3>1 DEF Locking, Rooming
    <3> QED
      BY <2>2, <2>3, <2>4, <3>2, <3>3, <3>4 DEF HoldInv, Users
  <2>7. RingInv'
    BY <2>2, <2>5 DEF RingInv, Users, Rooming
  <2>8. ExitInv' /\ NoLostWakeup'
    BY <2>2 DEF ExitInv, NoLostWakeup
  <2>9. HeaderOwnership'
    <3>1. Hands' = Hands \ {u} /\ Waiting' = Waiting
      BY <2>2, <2>3, <2>4 DEF Hands, Waiting
    <3>2. {hdr[t] : t \in Hands} = {hdr[t] : t \in Hands}' \cup {hdr[u]}
      BY <2>3, <2>4, <3>1 DEF Hands
    <3>3. \A t \in Hands' : hdr'[t] = hdr[t] /\ hdr[t] # hdr[u]
      BY <2>3, <2>4, <3>1 DEF HeaderOwnership, Hands
    <3>4. live' = {slot[p] : p \in Waiting}' \cup {hdr[t] : t \in Hands}' \cup leaked'
      BY <2>1, <3>1, <3>2 DEF HeaderOwnership
    <3> QED
      BY <2>1, <2>3, <3>1, <3>3, <3>4 DEF HeaderOwnership
  <2>10. OrderInv'
    BY <2>2, <2>3, <2>4 DEF OrderInv, Taken, Off, Waiting, Users
  <2>11. NumberInv' /\ RowNumbers'
    BY <2>2, <2>4 DEF NumberInv, RowNumbers, Numbered, Finished, Locking, Rooming, Users
  <2> QED
    BY <2>2, <2>5, <2>6, <2>7, <2>8, <2>9, <2>10, <2>11
<1> QED
  BY <1>1, <1>2

LEMMA EnqueueCompareStep == ASSUME SafeInv, NEW u \in Updaters, EnqueueCompare(u) PROVE SafeInv'
<1> USE DEF SafeInv, EnqueueCompare, Called, ring, sync, data, hist
<1>1. PICK l \in {"etake", "ecopy"} : Goto(u, l)
  OBVIOUS
<1>2. /\ PcOK' /\ pc[u] = "ecmp" /\ pc'[u] = l /\ \A v \in Updaters \ {u} : pc'[v] = pc[v]
      /\ pc'[Writer] = pc[Writer] /\ pc'[Main] = pc[Main]
  BY <1>1, UpdaterMoved DEF Holding, Numbered, Finished, Locking, Rooming
<1>3. /\ ahead'[u] = None /\ \A v \in Users \ {u} : ahead'[v] = ahead[v]
      /\ TypeOK'
  BY DEF TypeOK, Users
<1>4. HoldInv'
  BY <1>2 DEF HoldInv, Holding, Numbered, Finished, Locking, Rooming
<1>5. RingInv'
  BY <1>2, <1>3 DEF RingInv, Users, Rooming
<1>6. ExitInv' /\ NoLostWakeup'
  BY <1>2 DEF ExitInv, NoLostWakeup
<1>7. HeaderOwnership' /\ OrderInv' /\ NumberInv' /\ RowNumbers'
  BY <1>2, ControlFrame DEF Numbered, Finished, Locking, Rooming
<1> QED
  BY <1>2, <1>3, <1>4, <1>5, <1>6, <1>7

LEMMA EnqueueTakeStep == ASSUME SafeInv, NEW u \in Updaters, EnqueueTake(u) PROVE SafeInv'
<1> USE DEF SafeInv, EnqueueTake, Moves, Called, ring, sync, data, hist
<1>1. /\ PcOK' /\ pc[u] = "etake" /\ pc'[u] = "ecopy" /\ \A v \in Updaters \ {u} : pc'[v] = pc[v]
      /\ pc'[Writer] = pc[Writer] /\ pc'[Main] = pc[Main]
  BY UpdaterMoved DEF Holding, Numbered, Finished, Locking, Rooming
<1>2. /\ ahead'[u] = None /\ \A v \in Users \ {u} : ahead'[v] = ahead[v]
      /\ TypeOK'
  BY DEF TypeOK, Users
<1>3. HoldInv'
  BY <1>1 DEF HoldInv, Holding, Numbered, Finished, Locking, Rooming
<1>4. RingInv'
  BY <1>1, <1>2 DEF RingInv, Users, Rooming
<1>5. ExitInv' /\ NoLostWakeup'
  BY <1>1 DEF ExitInv, NoLostWakeup
<1>6. HeaderOwnership' /\ OrderInv' /\ NumberInv' /\ RowNumbers'
  BY <1>1, ControlFrame DEF Numbered, Finished, Locking, Rooming
<1> QED
  BY <1>1, <1>2, <1>3, <1>4, <1>5, <1>6

\* The pointer goes into a slot that nobody reads.
LEMMA EnqueueCopyStep == ASSUME SafeInv, NEW u \in Updaters, EnqueueCopy(u) PROVE SafeInv'
<1> USE DEF SafeInv, EnqueueCopy, Moves, Called, sync, data, hist
<1>1. /\ PcOK' /\ pc[u] = "ecopy" /\ pc'[u] = "emove" /\ \A v \in Updaters \ {u} : pc'[v] = pc[v]
      /\ pc'[Writer] = pc[Writer] /\ pc'[Main] = pc[Main]
  BY UpdaterMoved DEF Holding, Numbered, Finished, Locking, Rooming
<1>2. /\ iRead \in 0..Slots - 1 /\ iWrite \in 0..Slots - 1
      /\ slot'[iWrite] = hdr[u] /\ \A p \in 0..Slots - 1 : p # iWrite => slot'[p] = slot[p]
      /\ iWrite \notin Waiting /\ Waiting \subseteq 0..Slots - 1
  BY DEF TypeOK, Waiting
<1>3. \A p \in Waiting : slot'[p] = slot[p]
  BY <1>2
<1>4. /\ ahead'[u] = None /\ \A v \in Users \ {u} : ahead'[v] = ahead[v]
      /\ hdr[u] \in Headers \cup {NoHeader}
  BY DEF TypeOK, Users
<1>5. NegativeRoom(u) \in BOOLEAN
  BY DEF NegativeRoom, BelowRead
<1>6. TypeOK'
  BY <1>4, <1>5 DEF TypeOK
<1>7. HoldInv'
  <2>1. \A v \in Updaters \ {u} : pc[v] \notin Locking
    BY <1>1 DEF HoldInv, Locking, Rooming
  <2>2. pc[Writer] = "move" => slot'[iRead] = slot[iRead]
    BY <1>2 DEF RingInv
  <2>3. (\A v \in Updaters : pc[v] = "emove" => slot[iWrite] = hdr[v])'
    BY <1>1, <1>2, <2>1 DEF Locking, Rooming
  <2> QED
    BY <1>1, <2>2, <2>3 DEF HoldInv, Holding, Numbered, Finished, Locking, Rooming
<1>8. RingInv'
  BY <1>1, <1>4 DEF RingInv, Users, Rooming
<1>9. ExitInv' /\ NoLostWakeup'
  BY <1>1 DEF ExitInv, NoLostWakeup
<1>10. HeaderOwnership'
  <2>1. Hands' = Hands /\ Waiting' = Waiting
    BY <1>1 DEF Hands, Waiting
  <2>2. {slot[p] : p \in Waiting}' = {slot[p] : p \in Waiting}
    BY <1>3, <2>1
  <2> QED
    BY <1>3, <2>1, <2>2 DEF HeaderOwnership
<1>11. OrderInv'
  BY <1>1, <1>3 DEF OrderInv, Taken, Off, Waiting
<1>12. NumberInv' /\ RowNumbers'
  BY <1>1 DEF NumberInv, RowNumbers, Numbered, Finished, Locking, Rooming
<1> QED
  BY <1>1, <1>6, <1>7, <1>8, <1>9, <1>10, <1>11, <1>12

LEMMA EnqueueMoveStep == ASSUME SafeInv, NEW u \in Updaters, EnqueueMove(u) PROVE SafeInv'
<1> USE DEF SafeInv, EnqueueMove, Moves, sync
<1>1. /\ PcOK' /\ pc[u] = "emove" /\ pc'[u] = "set" /\ \A v \in Updaters \ {u} : pc'[v] = pc[v]
      /\ pc'[Writer] = pc[Writer] /\ pc'[Main] = pc[Main]
  BY UpdaterMoved
<1>2. PICK h : h = hdr[u]
  OBVIOUS
<1>3. /\ u \in Hands /\ h \in Headers /\ h # NoHeader /\ h \notin leaked
      /\ \A p \in Waiting : slot[p] # h
      /\ u \in Users /\ u # Writer
      /\ pc[u] \in Holding /\ pc[u] \in Numbered /\ pc[u] \in Finished
  BY <1>1, <1>2, OwnHeader DEF Holding, Numbered, Finished, Locking, Rooming
<1>4. hdr'[u] = NoHeader /\ \A v \in Users \ {u} : hdr'[v] = hdr[v]
  BY <1>3 DEF TypeOK
<1>5. /\ NextPos(iWrite) # iRead /\ slot[iWrite] = h /\ row[h] \in Rows
      /\ iWrite \in 0..Slots - 1 /\ NextPos(iWrite) \in 0..Slots - 1
  BY <1>1, <1>2, <1>3, NextPosFact DEF RingInv, HoldInv, Rooming, TypeOK, Rows
<1>6. /\ Waiting' = Waiting \cup {iWrite} /\ iWrite \notin Waiting
      /\ \A p : Off(p)' = Off(p)
      /\ Off(iWrite') = Off(iWrite) + 1
      /\ iRead # iWrite'
  BY <1>5, EnqueuedFact
<1>7. \A v \in Updaters \ {u} : pc[v] \notin Locking /\ v \in Users
  BY <1>1 DEF HoldInv, Locking, Rooming, Users
<1>8. TypeOK'
  BY <1>4, <1>5 DEF TypeOK
<1>9. HoldInv'
  <2>1. (\A v \in Updaters : pc[v] \in Locking <=> owner = v)'
    BY <1>1, <1>7 DEF Locking, Rooming
  <2>2. (\A v \in Updaters : pc[v] \in Holding <=> hdr[v] # NoHeader)'
    BY <1>1, <1>4, <1>7 DEF HoldInv, Holding, Numbered, Finished, Locking, Rooming
  <2>3. (\A v \in Updaters : pc[v] = "emove" => slot[iWrite] = hdr[v])'
    BY <1>1, <1>7 DEF Locking, Rooming
  <2> QED
    BY <1>1, <1>3, <1>4, <2>1, <2>2, <2>3 DEF HoldInv, Users
<1>10. RingInv'
  <2>1. \A v \in Updaters : pc'[v] \notin Locking
    BY <1>1, <1>7 DEF Locking, Rooming
  <2>2. ahead[u] = None
    BY <1>1, <1>3 DEF RingInv, SizeSites
  <2> QED
    BY <1>1, <1>6, <2>1, <2>2 DEF RingInv, Users, Locking, Rooming
<1>11. ExitInv' /\ NoLostWakeup'
  BY <1>1 DEF ExitInv, NoLostWakeup
<1>12. HeaderOwnership'
  <2>1. Hands' = Hands \ {u}
    BY <1>1, <1>3, <1>4 DEF Hands
  <2>2. {hdr[t] : t \in Hands} = {hdr[t] : t \in Hands}' \cup {h}
    BY <1>2, <1>3, <1>4, <2>1 DEF Hands
  <2>3. {slot[p] : p \in Waiting}' = {slot[p] : p \in Waiting} \cup {h}
    BY <1>5, <1>6
  <2>4. \A t \in Hands' : hdr'[t] = hdr[t] /\ hdr[t] # h
    BY <1>2, <1>3, <1>4, <2>1 DEF HeaderOwnership, Hands
  <2>5. live' = {slot[p] : p \in Waiting}' \cup {hdr[t] : t \in Hands}' \cup leaked'
    BY <2>2, <2>3 DEF HeaderOwnership
  <2> QED
    BY <1>3, <1>5, <1>6, <2>1, <2>4, <2>5 DEF HeaderOwnership
<1>13. accepted \in Seq(Rows) /\ accepted' \in Seq(Rows) /\ Len(accepted') = Len(accepted) + 1
       /\ accepted'[Len(accepted) + 1] = row[h]
       /\ \A i \in 1..Len(accepted) : accepted'[i] = accepted[i]
  BY <1>2, <1>5 DEF OrderInv
<1>14. OrderInv'
  <2>1. Taken' = Taken /\ Taken \in Nat
    BY <1>1 DEF Taken, OrderInv
  <2>2. Len(accepted)' = Taken' + Off(iWrite)'
    <3>1. Off(iWrite)' = Off(iWrite) + 1 /\ Off(iWrite) \in Nat
      BY <1>5, <1>6 DEF Off, TypeOK
    <3> QED
      BY <1>13, <2>1, <3>1 DEF OrderInv
  <2>3. Off(iWrite) \in Nat /\ \A p \in Waiting : Off(p) \in Nat /\ Off(p) < Off(iWrite)
    BY <1>5 DEF Waiting, Off, TypeOK
  <2>4. \A p \in Waiting' : row'[slot'[p]] = accepted'[Taken' + Off(p)' + 1]
    <3> SUFFICES ASSUME NEW p \in Waiting' PROVE row[slot[p]] = accepted'[Taken + Off(p) + 1]
      BY <1>6, <2>1
    <3>1. CASE p = iWrite
      <4>1. Taken + Off(p) + 1 = Len(accepted) + 1
        BY <3>1 DEF OrderInv
      <4> QED
        BY <1>5, <1>13, <3>1, <4>1
    <3>2. CASE p \in Waiting
      <4>1. Taken + Off(p) + 1 \in 1..Len(accepted)
        BY <2>1, <2>3, <3>2, <1>13 DEF OrderInv
      <4> QED
        BY <1>13, <3>2, <4>1 DEF OrderInv
    <3> QED
      BY <1>6, <3>1, <3>2
  <2>5. Len(queried) <= Len(accepted) /\ (pc[Writer] \in {"format", "free", "query"} => Taken \in 1..Len(accepted))
    <3>1. Off(iWrite) \in Nat
      BY <1>5 DEF Off, TypeOK
    <3> QED
      BY <3>1 DEF OrderInv, Taken
  <2>6. \A i \in 1..Len(queried) : queried'[i] = accepted'[i]
    BY <1>13, <2>5 DEF OrderInv
  <2> QED
    BY <1>1, <1>3, <1>4, <1>13, <2>1, <2>2, <2>4, <2>5, <2>6 DEF OrderInv, Users
<1>15. NumberInv' /\ RowNumbers'
  <2>1. \A v \in Updaters : pc'[v] \in Numbered => v # u /\ pc[v] \in Numbered /\ hdr'[v] = hdr[v]
    BY <1>1, <1>4, <1>7 DEF Numbered, Finished, Locking, Rooming
  <2>2. \A v \in Updaters : pc'[v] \in Finished => v # u /\ pc[v] \in Finished /\ hdr'[v] = hdr[v]
    BY <1>1, <1>4, <1>7 DEF Finished, Locking, Rooming
  <2>3. NumberInv'
    BY <1>2, <1>3, <1>13, <2>1, <2>2 DEF NumberInv
  <2>4. RowNumbers'
    BY <1>2, <1>3, <1>13 DEF NumberInv, RowNumbers
  <2> QED
    BY <2>3, <2>4
<1> QED
  BY <1>1, <1>8, <1>9, <1>10, <1>11, <1>12, <1>14, <1>15

LEMMA UpdateSetStep == ASSUME SafeInv, NEW u \in Updaters, UpdateSet(u) PROVE SafeInv'
<1> USE DEF SafeInv, UpdateSet, Moves, ring, data, hist
<1>1. /\ PcOK' /\ pc[u] = "set" /\ pc'[u] = "top" /\ \A v \in Updaters \ {u} : pc'[v] = pc[v]
      /\ pc'[Writer] = pc[Writer] /\ pc'[Main] = pc[Main]
  BY UpdaterMoved
<1>2. TypeOK'
  BY DEF TypeOK
<1>3. HoldInv'
  BY <1>1 DEF HoldInv, Holding, Numbered, Finished, Locking, Rooming
<1>4. RingInv'
  BY <1>1 DEF RingInv, Users, SizeSites, Rooming
<1>5. ExitInv' /\ NoLostWakeup'
  BY <1>1 DEF ExitInv, NoLostWakeup
<1>6. HeaderOwnership' /\ OrderInv' /\ NumberInv' /\ RowNumbers'
  BY <1>1, ControlFrame DEF Numbered, Finished, Locking, Rooming
<1> QED
  BY <1>1, <1>2, <1>3, <1>4, <1>5, <1>6

---------------------------------------------------------------------------
(* DBWriterThread *)

LEMMA WriterMoved ==
    ASSUME PcOK, NEW l, Goto(Writer, l),
           l \in {"wait", "test", "enough", "cmp", "take", "copy", "move", "format", "free",
                  "query", "done"}
    PROVE  PcOK' /\ pc'[Writer] = l /\ pc'[Main] = pc[Main] /\ \A u \in Updaters : pc'[u] = pc[u]
<1>1. Writer \in Threads /\ Main \in Threads /\ Writer # Main /\ Updaters \subseteq Threads \ {Writer}
  BY DEF Threads, Users, Writer, Main
<1>2. DOMAIN pc' = Threads /\ pc'[Writer] = l /\ \A v \in Threads \ {Writer} : pc'[v] = pc[v]
  BY <1>1 DEF PcOK, Goto
<1> QED
  BY <1>1, <1>2 DEF PcOK

LEMMA WriterWaitStep == ASSUME SafeInv, WriterWait PROVE SafeInv'
<1> USE DEF SafeInv, WriterWait, Moves, ring, data, hist
<1>1. PcOK' /\ pc[Writer] = "wait" /\ pc'[Writer] = "test" /\ pc'[Main] = pc[Main] /\ \A u \in Updaters : pc'[u] = pc[u]
  BY WriterMoved
<1>2. TypeOK' /\ ahead[Writer] = None
  BY <1>1 DEF TypeOK, RingInv, SizeSites, Users
<1>3. HoldInv'
  BY <1>1 DEF HoldInv
<1>4. RingInv'
  BY <1>1, <1>2 DEF RingInv, Users, None
<1>5. ExitInv' /\ NoLostWakeup'
  BY <1>1 DEF ExitInv, NoLostWakeup
<1>6. HeaderOwnership' /\ OrderInv' /\ NumberInv' /\ RowNumbers'
  BY <1>1, ControlFrame
<1> QED
  BY <1>1, <1>2, <1>3, <1>4, <1>5, <1>6

\* A size of zero is right: only the writer can empty the ring.
LEMMA UseSizeFact ==
    ASSUME TypeOK, RingInv, pc[Writer] = "test", ahead[Writer] # None
    PROVE  UseSize(Writer) = 0 <=> iRead = iWrite
<1>1. iRead \in 0..Slots - 1 /\ iWrite \in 0..Slots - 1 /\ ahead[Writer] \in {"yes", "no"}
  BY DEF TypeOK, Users
<1>2. CASE ahead[Writer] = "yes"
  <2>1. UseSize(Writer) = PtrSize * (iWrite - iRead) /\ iWrite - iRead \in Int
    BY <1>1, <1>2 DEF UseSize
  <2>2. iWrite - iRead = 0 => PtrSize * (iWrite - iRead) = 0
    OBVIOUS
  <2> QED
    BY <1>1, <2>1, <2>2, PtrFact
<1>3. CASE ahead[Writer] = "no"
  <2>1. UseSize(Writer) = PtrSize * ((Slots - iRead) + iWrite) /\ (Slots - iRead) + iWrite \in Int
        /\ (Slots - iRead) + iWrite # 0
    BY <1>1, <1>3 DEF UseSize
  <2> QED
    BY <1>3, <2>1, PtrFact DEF RingInv
<1> QED
  BY <1>1, <1>2, <1>3

LEMMA WriterTestStep == ASSUME SafeInv, WriterTest PROVE SafeInv'
<1> USE DEF SafeInv, WriterTest, Called, ring, data, hist
<1>1. /\ ahead'[Writer] = None /\ \A v \in Users \ {Writer} : ahead'[v] = ahead[v]
      /\ pc[Writer] = "test" /\ TypeOK'
  BY DEF TypeOK, Users
<1>2. UseSize(Writer) = 0 <=> iRead = iWrite
  BY UseSizeFact
<1>3. PICK l \in {"enough", "done", "wait"} :
          /\ Goto(Writer, l)
          /\ l = "enough" => iRead # iWrite
          /\ l \in {"done", "wait"} => iRead = iWrite
          /\ l = "done" => byExit
  BY <1>2
<1>4. PcOK' /\ pc'[Writer] = l /\ pc'[Main] = pc[Main] /\ \A u \in Updaters : pc'[u] = pc[u]
  BY <1>3, WriterMoved
<1>5. HoldInv'
  BY <1>3, <1>4 DEF HoldInv
<1>6. RingInv'
  BY <1>1, <1>3, <1>4 DEF RingInv, Users
<1>7. ExitInv' /\ NoLostWakeup'
  BY <1>1, <1>3, <1>4 DEF ExitInv, NoLostWakeup
<1>8. HeaderOwnership' /\ OrderInv' /\ NumberInv' /\ RowNumbers'
  BY <1>1, <1>4, ControlFrame
<1> QED
  BY <1>1, <1>4, <1>5, <1>6, <1>7, <1>8

LEMMA WriterEnoughStep == ASSUME SafeInv, WriterEnough PROVE SafeInv'
<1> USE DEF SafeInv, WriterEnough, Called, ring, sync, data, hist
<1>1. PcOK' /\ pc[Writer] = "enough" /\ pc'[Writer] \in {"cmp", "test"} /\ pc'[Main] = pc[Main] /\ \A u \in Updaters : pc'[u] = pc[u]
  <2>1. PICK l \in {"cmp", "test"} : Goto(Writer, l)
    OBVIOUS
  <2> QED
    BY <2>1, WriterMoved
<1>2. /\ ahead'[Writer] = None /\ \A v \in Users \ {Writer} : ahead'[v] = ahead[v]
      /\ TypeOK'
  BY DEF TypeOK, Users
<1>3. HoldInv'
  BY <1>1 DEF HoldInv
<1>4. RingInv'
  BY <1>1, <1>2 DEF RingInv, Users, None
<1>5. ExitInv' /\ NoLostWakeup'
  BY <1>1 DEF ExitInv, NoLostWakeup
<1>6. HeaderOwnership' /\ OrderInv' /\ NumberInv' /\ RowNumbers'
  BY <1>1, ControlFrame
<1> QED
  BY <1>1, <1>2, <1>3, <1>4, <1>5, <1>6

LEMMA DequeueCompareStep == ASSUME SafeInv, DequeueCompare PROVE SafeInv'
<1> USE DEF SafeInv, DequeueCompare, Called, ring, sync, data, hist
<1>1. PcOK' /\ pc[Writer] = "cmp" /\ pc'[Writer] \in {"take", "copy"} /\ pc'[Main] = pc[Main] /\ \A u \in Updaters : pc'[u] = pc[u]
  <2>1. PICK l \in {"take", "copy"} : Goto(Writer, l)
    OBVIOUS
  <2> QED
    BY <2>1, WriterMoved
<1>2. /\ ahead'[Writer] = None /\ \A v \in Users \ {Writer} : ahead'[v] = ahead[v]
      /\ TypeOK'
  BY DEF TypeOK, Users
<1>3. HoldInv'
  BY <1>1 DEF HoldInv
<1>4. RingInv'
  BY <1>1, <1>2 DEF RingInv, Users, None
<1>5. ExitInv' /\ NoLostWakeup'
  BY <1>1 DEF ExitInv, NoLostWakeup
<1>6. HeaderOwnership' /\ OrderInv' /\ NumberInv' /\ RowNumbers'
  BY <1>1, ControlFrame
<1> QED
  BY <1>1, <1>2, <1>3, <1>4, <1>5, <1>6

LEMMA DequeueTakeStep == ASSUME SafeInv, DequeueTake PROVE SafeInv'
<1> USE DEF SafeInv, DequeueTake, Moves, Called, ring, sync, data, hist
<1>1. PcOK' /\ pc[Writer] = "take" /\ pc'[Writer] = "copy" /\ pc'[Main] = pc[Main] /\ \A u \in Updaters : pc'[u] = pc[u]
  BY WriterMoved
<1>2. /\ ahead'[Writer] = None /\ \A v \in Users \ {Writer} : ahead'[v] = ahead[v]
      /\ TypeOK'
  BY DEF TypeOK, Users
<1>3. HoldInv'
  BY <1>1 DEF HoldInv
<1>4. RingInv'
  BY <1>1, <1>2 DEF RingInv, Users, None
<1>5. ExitInv' /\ NoLostWakeup'
  BY <1>1 DEF ExitInv, NoLostWakeup
<1>6. HeaderOwnership' /\ OrderInv' /\ NumberInv' /\ RowNumbers'
  BY <1>1, ControlFrame
<1> QED
  BY <1>1, <1>2, <1>3, <1>4, <1>5, <1>6

\* The writer takes the pointer before it frees the slot.
LEMMA DequeueCopyStep == ASSUME SafeInv, DequeueCopy PROVE SafeInv'
<1> USE DEF SafeInv, DequeueCopy, Moves, Called, ring, sync, hist
<1>1. PcOK' /\ pc[Writer] = "copy" /\ pc'[Writer] = "move" /\ pc'[Main] = pc[Main] /\ \A u \in Updaters : pc'[u] = pc[u]
  BY WriterMoved
<1>2. /\ Writer \in Users /\ Writer \notin Updaters
      /\ hdr'[Writer] = slot[iRead] /\ \A t \in Users \ {Writer} : hdr'[t] = hdr[t]
      /\ ahead'[Writer] = None /\ \A v \in Users \ {Writer} : ahead'[v] = ahead[v]
      /\ TypeOK'
  BY DEF TypeOK, Users
<1>3. \A u \in Updaters : hdr'[u] = hdr[u] /\ u \in Users
  BY <1>2 DEF Users
<1>4. HoldInv'
  BY <1>1, <1>2, <1>3 DEF HoldInv
<1>5. RingInv'
  BY <1>1, <1>2 DEF RingInv, Users, None
<1>6. ExitInv' /\ NoLostWakeup'
  BY <1>1 DEF ExitInv, NoLostWakeup
<1>7. HeaderOwnership'
  <2>1. Hands' = Hands /\ Waiting' = Waiting
    BY <1>1, <1>2 DEF Hands, Waiting
  <2>2. \A t \in Hands : hdr'[t] = hdr[t]
    BY <1>1, <1>2 DEF Hands
  <2>3. {hdr[t] : t \in Hands}' = {hdr[t] : t \in Hands}
    BY <2>1, <2>2
  <2> QED
    BY <2>1, <2>2, <2>3 DEF HeaderOwnership
<1>8. OrderInv'
  BY <1>1 DEF OrderInv, Taken, Off, Waiting
<1>9. NumberInv' /\ RowNumbers'
  BY <1>1, <1>3 DEF NumberInv, RowNumbers
<1> QED
  BY <1>1, <1>2, <1>4, <1>5, <1>6, <1>7, <1>8, <1>9

\* The slot is free for the updaters, and the header is the writer's.
LEMMA DequeueMoveStep == ASSUME SafeInv, DequeueMove PROVE SafeInv'
<1> USE DEF SafeInv, DequeueMove, Moves, sync, data, hist
<1>1. PcOK' /\ pc[Writer] = "move" /\ pc'[Writer] = "format" /\ pc'[Main] = pc[Main] /\ \A u \in Updaters : pc'[u] = pc[u]
  BY WriterMoved
<1>2. PICK h : h = hdr[Writer]
  OBVIOUS
<1>3. /\ iRead # iWrite /\ slot[iRead] = h
      /\ iRead \in 0..Slots - 1 /\ iWrite \in 0..Slots - 1 /\ NextPos(iRead) \in 0..Slots - 1
  BY <1>1, <1>2, NextPosFact DEF RingInv, HoldInv, TypeOK
<1>4. /\ Waiting' = Waiting \ {iRead} /\ iRead \in Waiting
      /\ Off(iRead) = 0
      /\ \A p \in Waiting' : Off(p)' = Off(p) - 1
      /\ Off(iWrite)' = Off(iWrite) - 1
  BY <1>3, DequeuedFact
<1>5. h \in Headers /\ h # NoHeader /\ Writer \in Users /\ Writer \notin Updaters
  BY <1>3, <1>4, WaitingLive DEF Users
<1>6. TypeOK'
  BY <1>3 DEF TypeOK
<1>7. HoldInv'
  BY <1>1, <1>2, <1>5 DEF HoldInv
<1>8. RingInv'
  <2>1. iRead' = IF iRead = Slots - 1 THEN 0 ELSE iRead + 1
    BY <1>3, NextPosFact
  <2>2. NextPos(iWrite) # iRead'
    BY <1>3, NextPosFact
  <2>3. ahead[Writer] = None
    BY <1>1, <1>5 DEF RingInv, SizeSites
  <2>4. iWrite >= iRead => iWrite' >= iRead'
    BY <1>3, <2>1
  <2> QED
    BY <1>1, <2>2, <2>3, <2>4 DEF RingInv, Users
<1>9. ExitInv' /\ NoLostWakeup'
  BY <1>1 DEF ExitInv, NoLostWakeup
<1>10. HeaderOwnership'
  <2>1. Hands' = Hands \cup {Writer} /\ Writer \notin Hands
    BY <1>1, <1>2, <1>5 DEF Hands
  <2>2. {hdr[t] : t \in Hands}' = {hdr[t] : t \in Hands} \cup {h}
    BY <1>2, <2>1
  <2>3. {slot[p] : p \in Waiting} = {slot[p] : p \in Waiting}' \cup {h}
    BY <1>3, <1>4
  <2>4. live' = {slot[p] : p \in Waiting}' \cup {hdr[t] : t \in Hands}' \cup leaked'
    BY <2>2, <2>3 DEF HeaderOwnership
  <2> QED
    BY <1>2, <1>3, <1>4, <2>1, <2>4 DEF HeaderOwnership
<1>11. OrderInv'
  <2>1. Taken' = Taken + 1 /\ Taken = Len(queried) /\ Taken \in Nat
    BY <1>1 DEF Taken, OrderInv
  <2>2. Off(iWrite) \in Nat /\ \A p \in Waiting : Off(p) \in Nat
    BY <1>3 DEF Waiting, Off
  <2>3. Len(accepted)' = Taken' + Off(iWrite)'
    BY <1>4, <2>1, <2>2 DEF OrderInv
  <2>4. \A p \in Waiting' : row'[slot'[p]] = accepted'[Taken' + Off(p)' + 1]
    <3> SUFFICES ASSUME NEW p \in Waiting' PROVE row[slot[p]] = accepted[Taken' + Off(p)' + 1]
      OBVIOUS
    <3>1. p \in Waiting /\ Off(p) \in Nat /\ Off(p)' = Off(p) - 1
      BY <1>4, <2>2
    <3>2. Taken' + Off(p)' + 1 = Taken + Off(p) + 1
      BY <2>1, <3>1
    <3> QED
      BY <3>1, <3>2 DEF OrderInv
  <2>5. row'[hdr'[Writer]] = accepted'[Taken']
    BY <1>2, <1>3, <1>4, <2>1 DEF OrderInv
  <2> QED
    BY <1>1, <2>3, <2>4, <2>5 DEF OrderInv
<1>12. NumberInv' /\ RowNumbers'
  BY <1>1 DEF NumberInv, RowNumbers
<1> QED
  BY <1>1, <1>6, <1>7, <1>8, <1>9, <1>10, <1>11, <1>12

LEMMA WriterFormatStep == ASSUME SafeInv, WriterFormat PROVE SafeInv'
<1> USE DEF SafeInv, WriterFormat, Moves, ring, sync, hist
<1>1. PcOK' /\ pc[Writer] = "format" /\ pc'[Writer] = "free" /\ pc'[Main] = pc[Main] /\ \A u \in Updaters : pc'[u] = pc[u]
  BY WriterMoved
<1>2. ahead[Writer] = None /\ row[hdr[Writer]] \in Rows
  BY <1>1 DEF RingInv, SizeSites, HoldInv, TypeOK, Users, Rows
<1>3. TypeOK'
  BY <1>2 DEF TypeOK, Rows
<1>4. HoldInv'
  BY <1>1 DEF HoldInv
<1>5. RingInv'
  BY <1>1, <1>2 DEF RingInv, Users
<1>6. ExitInv' /\ NoLostWakeup'
  BY <1>1 DEF ExitInv, NoLostWakeup
<1>7. HeaderOwnership'
  BY <1>1 DEF HeaderOwnership, Hands, Waiting
<1>8. OrderInv'
  BY <1>1 DEF OrderInv, Taken, Off, Waiting
<1>9. NumberInv' /\ RowNumbers'
  BY <1>1 DEF NumberInv, RowNumbers
<1> QED
  BY <1>1, <1>3, <1>4, <1>5, <1>6, <1>7, <1>8, <1>9

\* The header goes back to the pool when nobody else knows it.
LEMMA WriterFreeStep == ASSUME SafeInv, WriterFree PROVE SafeInv'
<1> USE DEF SafeInv, WriterFree, Moves, ring, sync, hist
<1>1. PcOK' /\ pc[Writer] = "free" /\ pc'[Writer] = "query" /\ pc'[Main] = pc[Main] /\ \A u \in Updaters : pc'[u] = pc[u]
  BY WriterMoved
<1>2. PICK h : h = hdr[Writer]
  OBVIOUS
<1>3. /\ Writer \in Users /\ Writer \notin Updaters /\ Writer \in Hands
      /\ hdr'[Writer] = NoHeader /\ \A t \in Users \ {Writer} : hdr'[t] = hdr[t]
      /\ TypeOK'
  BY <1>1 DEF TypeOK, Users, Hands, HoldInv
<1>4. \A u \in Updaters : hdr'[u] = hdr[u] /\ u \in Users
  BY <1>3 DEF Users
<1>5. HoldInv'
  BY <1>1, <1>3, <1>4 DEF HoldInv
<1>6. RingInv'
  BY <1>1 DEF RingInv, Users, SizeSites
<1>7. ExitInv' /\ NoLostWakeup'
  BY <1>1 DEF ExitInv, NoLostWakeup
<1>8. HeaderOwnership'
  <2>1. Hands' = Hands \ {Writer} /\ Waiting' = Waiting
    BY <1>1, <1>3 DEF Hands, Waiting
  <2>2. \A t \in Hands' : hdr'[t] = hdr[t] /\ hdr[t] # h /\ t \in Hands
    BY <1>2, <1>3, <2>1 DEF HeaderOwnership, Hands
  <2>3. {hdr[t] : t \in Hands} = {hdr[t] : t \in Hands}' \cup {h}
    BY <1>2, <1>3, <2>1, <2>2
  <2>4. \A p \in Waiting : slot[p] # h
    BY <1>2, <1>3 DEF HeaderOwnership
  <2>5. h \notin leaked
    BY <1>2, <1>3 DEF HeaderOwnership
  <2>6. h \notin {hdr[t] : t \in Hands}'
    BY <2>2
  <2>7. live' = {slot[p] : p \in Waiting}' \cup {hdr[t] : t \in Hands}' \cup leaked'
    BY <1>2, <2>1, <2>3, <2>4, <2>5, <2>6 DEF HeaderOwnership
  <2> QED
    BY <2>1, <2>2, <2>7 DEF HeaderOwnership
<1>9. OrderInv'
  BY <1>1 DEF OrderInv, Taken, Off, Waiting
<1>10. NumberInv' /\ RowNumbers'
  BY <1>1, <1>4 DEF NumberInv, RowNumbers
<1> QED
  BY <1>1, <1>3, <1>5, <1>6, <1>7, <1>8, <1>9, <1>10

LEMMA WriterQueryStep == ASSUME SafeInv, WriterQuery PROVE SafeInv'
<1> USE DEF SafeInv, WriterQuery, Moves, ring, sync, data
<1>1. PcOK' /\ pc[Writer] = "query" /\ pc'[Writer] = "test" /\ pc'[Main] = pc[Main] /\ \A u \in Updaters : pc'[u] = pc[u]
  BY WriterMoved
<1>2. ahead[Writer] = None /\ szQuery \in Rows
  BY <1>1 DEF RingInv, SizeSites, TypeOK, Users, Rows
<1>3. TypeOK'
  BY DEF TypeOK
<1>4. HoldInv'
  BY <1>1 DEF HoldInv
<1>5. RingInv'
  BY <1>1, <1>2 DEF RingInv, Users, None
<1>6. ExitInv' /\ NoLostWakeup'
  BY <1>1 DEF ExitInv, NoLostWakeup
<1>7. HeaderOwnership'
  BY <1>1 DEF HeaderOwnership, Hands, Waiting
<1>8. OrderInv'
  <2>1. /\ queried' \in Seq(Rows) /\ Len(queried') = Len(queried) + 1
        /\ queried'[Len(queried) + 1] = szQuery
        /\ \A i \in 1..Len(queried) : queried'[i] = queried[i]
    BY <1>2 DEF OrderInv
  <2>2. Taken' = Taken /\ Taken = Len(queried) + 1
    BY <1>1, <2>1 DEF Taken
  <2>3. (\A i \in 1..Len(queried) : queried[i] = accepted[i])'
    BY <1>1, <2>1, <2>2 DEF OrderInv
  <2> QED
    BY <1>1, <2>1, <2>2, <2>3 DEF OrderInv, Off, Waiting
<1>9. NumberInv' /\ RowNumbers'
  BY <1>1 DEF NumberInv, RowNumbers
<1> QED
  BY <1>1, <1>3, <1>4, <1>5, <1>6, <1>7, <1>8, <1>9

---------------------------------------------------------------------------
(* main() *)

LEMMA ServerControlStep == ASSUME SafeInv, ServerControl PROVE SafeInv'
<1> USE DEF SafeInv, ServerControl, ring, data, hist
<1>1. TypeOK' /\ PcOK'
  BY DEF TypeOK, PcOK
<1>2. HoldInv' /\ RingInv'
  BY DEF HoldInv, RingInv
<1>3. ExitInv' /\ NoLostWakeup'
  BY DEF ExitInv, NoLostWakeup
<1>4. HeaderOwnership' /\ OrderInv' /\ NumberInv' /\ RowNumbers'
  BY ControlFrame
<1> QED
  BY <1>1, <1>2, <1>3, <1>4

LEMMA MainStepStep == ASSUME SafeInv, MainStep PROVE SafeInv'
<1> USE DEF SafeInv, MainStep, MainLeave, MainJoin, MainExitEvent, MainJoinWriter, Moves,
            ring, sync, data, hist
<1>1. PICK l \in {"join", "exit", "joinwriter", "done"} :
          /\ Goto(Main, l)
          /\ \/ pc[Main] = "keys" /\ l = "join" /\ UNCHANGED exitEvent
             \/ pc[Main] = "join" /\ l = "exit" /\ (\A u \in Updaters : pc[u] = "done") /\ UNCHANGED exitEvent
             \/ pc[Main] = "exit" /\ l = "joinwriter" /\ exitEvent' = TRUE
             \/ pc[Main] = "joinwriter" /\ l = "done" /\ pc[Writer] = "done" /\ UNCHANGED exitEvent
  OBVIOUS
<1>2. pc'[Main] = l /\ pc'[Writer] = pc[Writer] /\ (\A u \in Updaters : pc'[u] = pc[u]) /\ PcOK'
  <2>1. Writer \in Threads /\ Main \in Threads /\ Writer # Main /\ Updaters \subseteq Threads \ {Main}
    BY DEF Threads, Users, Writer, Main
  <2>2. DOMAIN pc' = Threads /\ pc'[Main] = l /\ \A v \in Threads \ {Main} : pc'[v] = pc[v]
    BY <1>1, <2>1 DEF PcOK, Goto
  <2> QED
    BY <2>1, <2>2 DEF PcOK
<1>3. TypeOK' /\ HoldInv' /\ RingInv'
  <2>1. TypeOK'
    BY DEF TypeOK
  <2>2. HoldInv'
    BY <1>2 DEF HoldInv
  <2>3. RingInv'
    BY <1>2 DEF RingInv, Users
  <2> QED
    BY <2>1, <2>2, <2>3
<1>4. ExitInv' /\ NoLostWakeup'
  BY <1>1, <1>2 DEF ExitInv, NoLostWakeup
<1>5. HeaderOwnership' /\ OrderInv' /\ NumberInv' /\ RowNumbers'
  BY <1>2, ControlFrame
<1> QED
  BY <1>2, <1>3, <1>4, <1>5

---------------------------------------------------------------------------
(* The invariant holds *)

LEMMA InitSafe == Init => SafeInv
<1> SUFFICES ASSUME Init PROVE SafeInv
  OBVIOUS
<1> USE DEF Init
<1>1. Writer \in Threads /\ Main \in Threads /\ Writer # Main /\ Updaters \subseteq Threads \ {Main, Writer}
  BY DEF Threads, Users, Writer, Main
<1>2. pc[Main] = "keys" /\ pc[Writer] = "wait" /\ \A u \in Updaters : pc[u] = "top"
  BY <1>1
<1>3. TypeOK
  <2>1. iRead \in 0..Slots - 1 /\ iWrite \in 0..Slots - 1 /\ counter \in Nat
    OBVIOUS
  <2>2. slot \in [0..Slots - 1 -> Headers \cup {NoHeader}] /\ hdr \in [Users -> Headers \cup {NoHeader}]
    OBVIOUS
  <2>3. NoRow \in [no : Nat, again : Nat]
    BY DEF NoRow
  <2>4. row \in [Headers -> [no : Nat, again : Nat]] /\ szQuery \in [no : Nat, again : Nat]
    BY <2>3
  <2>5. ahead \in [Users -> {None, "yes", "no"}]
    OBVIOUS
  <2> QED
    BY <2>1, <2>2, <2>4, <2>5 DEF TypeOK
<1>4. PcOK
  BY <1>1, <1>2 DEF PcOK
<1>5. HoldInv
  BY <1>2 DEF HoldInv, Holding, Numbered, Finished, Locking, Rooming, Users
<1>6. RingInv
  BY <1>2 DEF RingInv, Rooming
<1>7. ExitInv /\ NoLostWakeup
  BY <1>2 DEF ExitInv, NoLostWakeup
<1>8. Waiting = {} /\ Hands = {} /\ Off(iWrite) = 0 /\ Taken = 0
  BY <1>2 DEF Waiting, Hands, Off, Taken
<1>9. HeaderOwnership
  BY <1>8 DEF HeaderOwnership
<1>10. OrderInv
  BY <1>2, <1>8 DEF OrderInv
<1>11. NumberInv /\ RowNumbers
  <2>1. \A u \in Updaters : pc[u] \notin Numbered /\ pc[u] \notin Finished
    BY <1>2 DEF Numbered, Finished, Locking, Rooming
  <2>2. 1..Len(accepted) = {}
    OBVIOUS
  <2> QED
    BY <2>1, <2>2 DEF NumberInv, RowNumbers
<1> QED
  BY <1>3, <1>4, <1>5, <1>6, <1>7, <1>9, <1>10, <1>11

LEMMA StutterStep == ASSUME SafeInv, UNCHANGED vars PROVE SafeInv'
<1> USE DEF SafeInv, vars
<1>1. TypeOK' /\ PcOK'
  BY DEF TypeOK, PcOK
<1>2. HoldInv' /\ RingInv'
  BY DEF HoldInv, RingInv
<1>3. ExitInv' /\ NoLostWakeup'
  BY DEF ExitInv, NoLostWakeup
<1>4. HeaderOwnership' /\ OrderInv' /\ NumberInv' /\ RowNumbers'
  BY ControlFrame
<1> QED
  BY <1>1, <1>2, <1>3, <1>4

LEMMA SafeStep == SafeInv /\ [Next]_vars => SafeInv'
<1> SUFFICES ASSUME SafeInv, [Next]_vars PROVE SafeInv'
  OBVIOUS
<1>1. CASE \E u \in Updaters : UpdateThread(u)
  <2>1. PICK u \in Updaters : UpdateThread(u)
    BY <1>1
  <2>2. u \in Users
    BY DEF Users
  <2> QED
    BY <2>1, <2>2, UpdateTopStep, UpdateAllocStep, UpdateIncrementStep, UpdateRereadStep,
       UpdateLockStep, CompareStep, UpdateRoomStep, EnqueueCompareStep, EnqueueTakeStep,
       EnqueueCopyStep, EnqueueMoveStep, UpdateSetStep DEF UpdateThread
<1>2. CASE DBWriterThread
  <2>1. Writer \in Users
    BY DEF Users
  <2> QED
    BY <1>2, <2>1, WriterWaitStep, CompareStep, WriterTestStep, WriterEnoughStep,
       DequeueCompareStep, DequeueTakeStep, DequeueCopyStep, DequeueMoveStep,
       WriterFormatStep, WriterFreeStep, WriterQueryStep DEF DBWriterThread
<1>3. CASE ServerControl
  BY <1>3, ServerControlStep
<1>4. CASE MainStep
  BY <1>4, MainStepStep
<1>5. CASE UNCHANGED vars
  BY <1>5, StutterStep
<1> QED
  BY <1>1, <1>2, <1>3, <1>4, <1>5 DEF Next

LEMMA SafeCorrect == Spec => []SafeInv
BY InitSafe, SafeStep, PTL DEF Spec

---------------------------------------------------------------------------

\* The types hold, and both positions stay inside the ring.
THEOREM TypeCorrect == Spec => []TypeOK
<1>1. SafeInv => TypeOK
  BY DEF SafeInv
<1> QED
  BY SafeCorrect, <1>1, PTL

\* For any number of UpdateThreads and headers and any size of the ring a
\* header has one owner, or nobody knows it, from Alloc to Free (_main.cpp:254,
\* 200-226), although the writer uses the ring without its lock; as long as no
\* copy with a torn size has run over its destination.
THEOREM HeaderOwnershipCorrect == Spec => []HeaderOwnership
<1>1. SafeInv => HeaderOwnership
  BY DEF SafeInv
<1> QED
  BY SafeCorrect, <1>1, PTL

\* The database gets the rows in the order in which they entered the ring.
THEOREM RowsInOrderCorrect == Spec => []RowsInOrder
<1>1. SafeInv => RowsInOrder
  <2> SUFFICES ASSUME SafeInv PROVE RowsInOrder
    OBVIOUS
  <2>1. Off(iWrite) \in Nat
    BY DEF SafeInv, TypeOK, Off
  <2>2. Len(queried) <= Len(accepted)
    BY <2>1 DEF SafeInv, OrderInv, Taken
  <2> QED
    BY <2>2 DEF SafeInv, OrderInv, RowsInOrder
<1> QED
  BY SafeCorrect, <1>1, PTL

\* InterlockedIncrement gives every row its own number, and the fields read
\* from the counter later never lie behind it (_main.cpp:257-285).
THEOREM RowNumbersCorrect == Spec => []RowNumbers
<1>1. SafeInv => RowNumbers
  BY DEF SafeInv
<1> QED
  BY SafeCorrect, <1>1, PTL

\* The writer never sleeps over a pointer with no event set and nobody about to
\* set one: a size of zero read without the lock is right.
THEOREM NoLostWakeupCorrect == Spec => []NoLostWakeup
<1>1. SafeInv => NoLostWakeup
  BY DEF SafeInv
<1> QED
  BY SafeCorrect, <1>1, PTL

\* main() past its joins has left no row behind (_main.cpp:90-103).
THEOREM ShutdownDrainsCorrect == Spec => []ShutdownDrains
<1>1. SafeInv => ShutdownDrains
  <2> SUFFICES ASSUME SafeInv, pc[Main] = "done"
               PROVE  queried = accepted /\ \A t \in Users : pc[t] = "done"
    BY DEF ShutdownDrains
  <2>1. pc[Writer] = "done" /\ iRead = iWrite /\ \A t \in Users : pc[t] = "done"
    BY DEF SafeInv, ExitInv, Users
  <2>2. Len(queried) = Len(accepted)
    BY <2>1 DEF SafeInv, TypeOK, OrderInv, Taken, Off
  <2>3. queried \in Seq(Rows) /\ accepted \in Seq(Rows)
        /\ \A i \in 1..Len(queried) : queried[i] = accepted[i]
    BY DEF SafeInv, OrderInv
  <2>4. queried = accepted
    BY <2>2, <2>3
  <2> QED
    BY <2>1, <2>4
<1> QED
  BY SafeCorrect, <1>1, PTL

---------------------------------------------------------------------------
(* How far the numbers go *)

\* An updater that has looked at the counter increments it once.
Coming == {u \in Updaters : pc[u] \in {"alloc", "incr"}}

CountInv == counter + Cardinality(Coming) <= MaxMsgs + Cardinality(Updaters)

LEMMA ComingFact ==
    /\ IsFiniteSet(Coming) /\ Cardinality(Coming) \in Nat /\ Cardinality(Updaters) \in Nat
    /\ Cardinality(Coming) <= Cardinality(Updaters)
<1>1. IsFiniteSet(Updaters) /\ Coming \in SUBSET Updaters
  BY UpdatersAssumption DEF UpdatersAssumption, Coming
<1> QED
  BY <1>1, FS_Subset, FS_CardinalityType

\* A step that sends nobody to the counter and increments it no further.
LEMMA CountFrame ==
    ASSUME TypeOK, CountInv, counter' = counter, Coming' \subseteq Coming
    PROVE  CountInv'
<1>1. IsFiniteSet(Coming) /\ Coming' \in SUBSET Coming
  BY ComingFact
<1>2. Cardinality(Coming') <= Cardinality(Coming) /\ Cardinality(Coming') \in Nat
  BY <1>1, FS_Subset, FS_CardinalityType
<1> QED
  BY <1>2, ComingFact DEF CountInv, TypeOK

LEMMA CountStep == SafeInv /\ CountInv /\ [Next]_vars => CountInv'
<1> SUFFICES ASSUME SafeInv, CountInv, [Next]_vars PROVE CountInv'
  OBVIOUS
<1> USE DEF SafeInv
<1>1. ASSUME NEW u \in Updaters, UpdateTop(u) PROVE CountInv'
  <2>1. counter' = counter /\ counter \in Nat
    BY <1>1 DEF UpdateTop, data, TypeOK
  <2>2. CASE counter < MaxMsgs
    <3>1. IsFiniteSet(Updaters) /\ Coming' \in SUBSET Updaters
      BY UpdatersAssumption DEF UpdatersAssumption, Coming
    <3>2. Cardinality(Coming') <= Cardinality(Updaters) /\ Cardinality(Coming') \in Nat
          /\ Cardinality(Updaters) \in Nat
      BY <3>1, FS_Subset, FS_CardinalityType
    <3> QED
      BY <2>1, <2>2, <3>2 DEF CountInv
  <2>3. CASE ~(counter < MaxMsgs)
    <3>1. Goto(u, "done")
      BY <1>1, <2>3 DEF UpdateTop
    <3>2. pc'[u] = "done" /\ \A v \in Updaters \ {u} : pc'[v] = pc[v]
      BY <3>1, UpdaterMoved
    <3>3. Coming' \subseteq Coming
      BY <3>2 DEF Coming
    <3> QED
      BY <2>1, <3>3, CountFrame
  <2> QED
    BY <2>2, <2>3
<1>2. ASSUME NEW u \in Updaters, UpdateIncrement(u) PROVE CountInv'
  <2>1. pc[u] = "incr" /\ pc'[u] = "reread" /\ \A v \in Updaters \ {u} : pc'[v] = pc[v]
    BY <1>2, UpdaterMoved DEF UpdateIncrement, Moves, Holding, Numbered
  <2>2. Coming' = Coming \ {u} /\ u \in Coming
    BY <2>1 DEF Coming
  <2>3. Cardinality(Coming') = Cardinality(Coming) - 1
    BY <2>2, ComingFact, FS_RemoveElement
  <2>4. counter' = counter + 1 /\ counter \in Nat
    BY <1>2 DEF UpdateIncrement, TypeOK
  <2> QED
    BY <2>3, <2>4, ComingFact DEF CountInv
<1>3. ASSUME NEW u \in Updaters, UpdateThread(u), ~UpdateTop(u), ~UpdateIncrement(u)
      PROVE  CountInv'
  <2>1. counter' = counter
    BY <1>3 DEF UpdateThread, UpdateAlloc, UpdateReread, UpdateLock, Compare, UpdateRoom,
                EnqueueCompare, EnqueueTake, EnqueueCopy, EnqueueMove, UpdateSet, data
  <2>2. \/ pc' = pc
        \/ \E l \in {"reread", "lock", "ecmp", "etake", "ecopy", "emove", "set", "top", "room"} :
              Goto(u, l)
        \/ pc[u] = "alloc" /\ Goto(u, "incr")
    BY <1>3 DEF UpdateThread, UpdateAlloc, UpdateReread, UpdateLock, Compare, UpdateRoom,
                EnqueueCompare, EnqueueTake, EnqueueCopy, EnqueueMove, UpdateSet, Moves
  <2>3. CASE pc' = pc
    BY <2>1, <2>3, CountFrame DEF Coming
  <2>4. ASSUME NEW l \in {"reread", "lock", "ecmp", "etake", "ecopy", "emove", "set", "top", "room"},
               Goto(u, l)
        PROVE  CountInv'
    <3>1. pc'[u] = l /\ \A v \in Updaters \ {u} : pc'[v] = pc[v]
      BY <2>4, UpdaterMoved DEF Holding, Numbered, Finished, Locking, Rooming
    <3>2. Coming' \subseteq Coming
      BY <3>1 DEF Coming
    <3> QED
      BY <2>1, <3>2, CountFrame
  <2>5. CASE pc[u] = "alloc" /\ Goto(u, "incr")
    <3>1. pc'[u] = "incr" /\ \A v \in Updaters \ {u} : pc'[v] = pc[v]
      BY <2>5, UpdaterMoved DEF Holding
    <3>2. Coming' \subseteq Coming
      BY <2>5, <3>1 DEF Coming
    <3> QED
      BY <2>1, <3>2, CountFrame
  <2> QED
    BY <2>2, <2>3, <2>4, <2>5
<1>4. ASSUME counter' = counter, \A u \in Updaters : pc'[u] = pc[u] PROVE CountInv'
  BY <1>4, CountFrame DEF Coming
<1>5. CASE DBWriterThread
  <2>1. counter' = counter
    BY <1>5 DEF DBWriterThread, WriterWait, Compare, WriterTest, WriterEnough, DequeueCompare,
                DequeueTake, DequeueCopy, DequeueMove, WriterFormat, WriterFree, WriterQuery, data
  <2>2. pc' = pc \/ \E l : Goto(Writer, l)
    BY <1>5 DEF DBWriterThread, WriterWait, Compare, WriterTest, WriterEnough, DequeueCompare,
                DequeueTake, DequeueCopy, DequeueMove, WriterFormat, WriterFree, WriterQuery, Moves
  <2>3. \A u \in Updaters : pc'[u] = pc[u]
    BY <2>2 DEF Goto, PcOK, Threads, Users
  <2> QED
    BY <1>4, <2>1, <2>3
<1>6. CASE ServerControl \/ MainStep
  <2>1. counter' = counter /\ (pc' = pc \/ \E l : Goto(Main, l))
    BY <1>6 DEF ServerControl, MainStep, MainLeave, MainJoin, MainExitEvent, MainJoinWriter,
                Moves, data
  <2>2. \A u \in Updaters : pc'[u] = pc[u]
    BY <2>1 DEF Goto, PcOK, Threads, Users
  <2> QED
    BY <1>4, <2>1, <2>2
<1>7. CASE UNCHANGED vars
  BY <1>4, <1>7 DEF vars
<1> QED
  BY <1>1, <1>2, <1>3, <1>5, <1>6, <1>7 DEF Next

LEMMA CountCorrect == Spec => []CountInv
<1>1. Init => CountInv
  <2> SUFFICES ASSUME Init PROVE CountInv
    OBVIOUS
  <2>1. counter = 0
    BY DEF Init
  <2> QED
    BY <2>1, ComingFact DEF CountInv
<1> QED
  BY <1>1, CountStep, SafeCorrect, PTL DEF Spec

---------------------------------------------------------------------------
(* The pipeline is the pipe of MessageDispatch *)

\* The writer has a row that it has not sent.
Took == {"format", "free", "query"}

\* What the mapping shows, said of the rows: those behind the taken ones wait,
\* and the last one taken is the writer's until it is sent.
Behind == [i \in 1..Off(iWrite) |-> accepted[Taken + i].no]

PipeInv ==
    /\ accepted \in Seq(Rows) /\ queried \in Seq(Rows)
    /\ Off(iWrite) \in 0..Slots - 1 /\ Taken \in Nat
    /\ Len(accepted) = Taken + Off(iWrite)
    /\ Backlog = Behind
    /\ InHand = IF pc[Writer] \in Took THEN {accepted[Taken].no} ELSE {}

LEMMA PipeFact == SafeInv => PipeInv
<1> SUFFICES ASSUME SafeInv PROVE PipeInv
  OBVIOUS
<1> USE DEF SafeInv
<1>1. iRead \in 0..Slots - 1 /\ iWrite \in 0..Slots - 1
  BY DEF TypeOK
<1>2. Off(iWrite) \in 0..Slots - 1
  BY <1>1 DEF Off
<1>3. accepted \in Seq(Rows) /\ queried \in Seq(Rows) /\ Taken \in Nat
      /\ Len(accepted) = Taken + Off(iWrite)
  BY DEF OrderInv, Taken
<1>4. Backlog = Behind
  <2> SUFFICES ASSUME NEW i \in 1..Off(iWrite)
               PROVE  row[slot[(iRead + i - 1) % Slots]].no = accepted[Taken + i].no
    BY DEF Backlog, Behind
  <2> DEFINE p == (iRead + i - 1) % Slots
  <2>1. i \in Int /\ 1 <= i /\ i <= Off(iWrite)
    BY <1>2
  <2>2. p = IF iRead + i - 1 < Slots THEN iRead + i - 1 ELSE iRead + i - 1 - Slots
    <3>1. CASE iRead + i - 1 < Slots
      BY <1>1, <2>1, <3>1
    <3>2. CASE iRead + i - 1 >= Slots
      <4>1. PICK q \in 0..Slots - 1 : iRead + i - 1 = Slots + q
        BY <1>1, <1>2, <2>1, <3>2
      <4>2. (Slots + q) % Slots = q
        BY <4>1
      <4>3. p = q
        BY <4>1, <4>2
      <4> QED
        BY <1>1, <2>1, <3>2, <4>1, <4>3
    <3> QED
      BY <1>1, <2>1, <3>1, <3>2
  <2>3. p \in Waiting /\ Off(p) = i - 1
    BY <1>1, <2>1, <2>2 DEF Waiting, Off
  <2>4. row[slot[p]] = accepted[Taken + (i - 1) + 1]
    BY <2>3 DEF OrderInv
  <2>5. Taken + (i - 1) + 1 = Taken + i
    BY <1>3, <2>1
  <2> QED
    BY <2>4, <2>5
<1>5. InHand = IF pc[Writer] \in Took THEN {accepted[Taken].no} ELSE {}
  BY DEF InHand, OrderInv, Took
<1> QED
  BY <1>2, <1>3, <1>4, <1>5 DEF PipeInv

\* A step that neither puts, takes nor sends a row leaves the pipe alone, but
\* for the copy that halts it.
LEMMA PipeFrame ==
    ASSUME SafeInv, SafeInv', PipeInv, PipeInv', ~corrupted,
           UNCHANGED <<accepted, queried, exitEvent>>,
           (pc'[Writer] \in Took) <=> (pc[Writer] \in Took),
           (pc'[Writer] = "done") <=> (pc[Writer] = "done")
    PROVE  [Pipe!Next]_(Pipe!vars)
<1>1. Taken' = Taken
  BY DEF Taken, Took
<1>2. Off(iWrite)' = Off(iWrite)
  <2>1. Len(accepted) = Taken + Off(iWrite) /\ Off(iWrite) \in 0..Slots - 1 /\ Taken \in Nat
    BY DEF PipeInv
  <2>2. Len(accepted') = Taken' + Off(iWrite)' /\ Off(iWrite)' \in 0..Slots - 1
    BY DEF PipeInv
  <2> QED
    BY <1>1, <2>1, <2>2
<1>3. Backlog' = Backlog
  <2>1. Backlog = Behind
    BY DEF PipeInv
  <2>2. Backlog' = Behind'
    BY DEF PipeInv
  <2>3. Behind' = Behind
    BY <1>1, <1>2 DEF Behind
  <2> QED
    BY <2>1, <2>2, <2>3
<1>4. InHand' = InHand
  <2>1. InHand = IF pc[Writer] \in Took THEN {accepted[Taken].no} ELSE {}
    BY DEF PipeInv
  <2>2. InHand' = IF pc'[Writer] \in Took THEN {accepted'[Taken'].no} ELSE {}
    BY DEF PipeInv
  <2> QED
    BY <1>1, <2>1, <2>2
<1>5. Numbers(accepted)' = Numbers(accepted) /\ Numbers(queried)' = Numbers(queried)
  BY DEF Numbers
<1>6. corrupted \in BOOLEAN /\ corrupted' \in BOOLEAN
  BY DEF SafeInv, TypeOK
<1>7. CASE corrupted'
  BY <1>3, <1>4, <1>5, <1>6, <1>7 DEF Pipe!Next, Pipe!Halt
<1>8. CASE ~corrupted'
  BY <1>3, <1>4, <1>5, <1>6, <1>8 DEF Pipe!vars
<1> QED
  BY <1>7, <1>8

\* A pointer moves into the ring.
LEMMA PipePost ==
    ASSUME SafeInv, SafeInv', PipeInv, PipeInv', CountInv, ~corrupted, NEW u \in Updaters, EnqueueMove(u)
    PROVE  Pipe!Next
<1> DEFINE m == row[hdr[u]].no
<1>1. pc[u] = "emove" /\ pc'[u] = "set" /\ pc'[Writer] = pc[Writer]
  BY UpdaterMoved DEF SafeInv, EnqueueMove, Moves
<1>2. hdr[u] \in Headers /\ row[hdr[u]] \in Rows /\ m \in 1..counter
      /\ \A i \in 1..Len(accepted) : accepted[i].no # m
  BY <1>1, OwnHeader DEF SafeInv, NumberInv, TypeOK, Rows, Numbered, Finished, Locking, Rooming, Holding
<1>3. m \in 1..(MaxMsgs + Cardinality(Updaters))
  <2>1. Cardinality(Coming) \in Nat /\ Cardinality(Updaters) \in Nat /\ counter \in Nat
    BY ComingFact DEF SafeInv, TypeOK
  <2> QED
    BY <1>2, <2>1 DEF CountInv
<1>4. /\ accepted \in Seq(Rows) /\ Len(accepted) = Taken + Off(iWrite) /\ Backlog = Behind
      /\ Off(iWrite) \in 0..Slots - 1 /\ Taken \in Nat
      /\ InHand = IF pc[Writer] \in Took THEN {accepted[Taken].no} ELSE {}
  BY DEF PipeInv
<1>5. /\ Len(accepted') = Taken' + Off(iWrite)' /\ Backlog' = Behind'
      /\ InHand' = IF pc'[Writer] \in Took THEN {accepted'[Taken'].no} ELSE {}
      /\ Off(iWrite)' \in 0..Slots - 1
  BY DEF PipeInv
<1>6. accepted' = Append(accepted, row[hdr[u]]) /\ UNCHANGED <<queried, exitEvent, corrupted>>
  BY DEF EnqueueMove, sync
<1>7. /\ Len(accepted') = Len(accepted) + 1 /\ accepted'[Len(accepted) + 1] = row[hdr[u]]
      /\ \A i \in 1..Len(accepted) : accepted'[i] = accepted[i]
  BY <1>2, <1>4, <1>6, AppendProperties
<1>8. Taken' = Taken
  BY <1>1, <1>6 DEF Taken
<1>9. Off(iWrite)' = Off(iWrite) + 1
  BY <1>4, <1>5, <1>7, <1>8
<1>10. Backlog' = Append(Backlog, m) /\ Len(Backlog) = Off(iWrite)
  <2>1. Behind \in Seq(Nat) /\ Len(Behind) = Off(iWrite)
    <3>1. \A i \in 1..Off(iWrite) : accepted[Taken + i].no \in Nat
      <4> SUFFICES ASSUME NEW i \in 1..Off(iWrite) PROVE accepted[Taken + i].no \in Nat
        OBVIOUS
      <4>1. Taken + i \in 1..Len(accepted)
        BY <1>4
      <4>2. accepted[Taken + i] \in Rows
        BY <4>1, RowsTyped DEF SafeInv
      <4> QED
        BY <4>2 DEF Rows
    <3>2. Behind \in [1..Off(iWrite) -> Nat]
      BY <3>1 DEF Behind
    <3>3. Behind \in Seq(Nat)
      BY <1>4, <3>2, SeqDef
    <3> QED
      BY <1>4, <3>2, <3>3, LenProperties
  <2>2. m \in Nat
    BY <1>3
  <2>3. /\ Append(Behind, m) \in Seq(Nat) /\ Len(Append(Behind, m)) = Off(iWrite) + 1
        /\ Append(Behind, m)[Off(iWrite) + 1] = m
        /\ \A i \in 1..Off(iWrite) : Append(Behind, m)[i] = Behind[i]
    BY <2>1, <2>2, AppendProperties
  <2>4. Append(Behind, m) = [i \in 1..Off(iWrite) + 1 |-> Append(Behind, m)[i]]
    BY <2>3, LenProperties
  <2>5. \A i \in 1..Off(iWrite) + 1 : accepted'[Taken + i].no = Append(Behind, m)[i]
    <3> SUFFICES ASSUME NEW i \in 1..Off(iWrite) + 1
                 PROVE  accepted'[Taken + i].no = Append(Behind, m)[i]
      OBVIOUS
    <3>1. CASE i = Off(iWrite) + 1
      <4>1. Taken + i = Len(accepted) + 1
        BY <1>4, <3>1
      <4> QED
        BY <1>7, <2>3, <3>1, <4>1
    <3>2. CASE i # Off(iWrite) + 1
      <4>1. i \in 1..Off(iWrite) /\ Taken + i \in 1..Len(accepted)
        BY <1>4, <3>2
      <4> QED
        BY <1>7, <2>3, <4>1 DEF Behind
    <3> QED
      BY <3>1, <3>2
  <2>6. Behind' = [i \in 1..Off(iWrite) + 1 |-> accepted'[Taken + i].no]
    BY <1>8, <1>9 DEF Behind
  <2> QED
    BY <1>4, <1>5, <2>1, <2>4, <2>5, <2>6
<1>11. Len(Backlog) < Slots - 1
  BY <1>4, <1>5, <1>9, <1>10
<1>12. Numbers(accepted') = Numbers(accepted) \cup {m} /\ m \notin Numbers(accepted)
  <2>1. 1..Len(accepted') = 1..Len(accepted) \cup {Len(accepted) + 1}
    BY <1>4, <1>7
  <2> QED
    BY <1>2, <1>7, <2>1 DEF Numbers
<1>13. InHand' = InHand
  <2>1. pc[Writer] \in Took => Taken \in 1..Len(accepted)
    <3>1. Len(queried) \in Nat
      BY DEF PipeInv
    <3> QED
      BY <1>4, <3>1 DEF Taken, Took
  <2> QED
    BY <1>1, <1>4, <1>5, <1>7, <1>8, <2>1
<1>14. ~exitEvent
  BY <1>1 DEF SafeInv, ExitInv
<1>15. Pipe!Post(m)
  BY <1>1, <1>6, <1>10, <1>11, <1>12, <1>13, <1>14 DEF Pipe!Post
<1> QED
  BY <1>3, <1>15 DEF Pipe!Next

\* A pointer moves out of the ring.
LEMMA PipeTake ==
    ASSUME SafeInv, SafeInv', PipeInv, PipeInv', ~corrupted, DequeueMove
    PROVE  Pipe!Next
<1>1. pc[Writer] = "move" /\ pc'[Writer] = "format"
  BY WriterMoved DEF SafeInv, DequeueMove, Moves
<1>2. UNCHANGED <<accepted, queried, exitEvent, corrupted>>
  BY DEF DequeueMove, sync, hist
<1>3. /\ accepted \in Seq(Rows) /\ Len(accepted) = Taken + Off(iWrite) /\ Backlog = Behind
      /\ Off(iWrite) \in 0..Slots - 1 /\ Taken \in Nat
      /\ InHand = {}
  BY <1>1 DEF PipeInv, Took
<1>4. /\ Len(accepted') = Taken' + Off(iWrite)' /\ Backlog' = Behind'
      /\ InHand' = {accepted'[Taken'].no} /\ Off(iWrite)' \in 0..Slots - 1
  BY <1>1 DEF PipeInv, Took
<1>5. Taken' = Taken + 1 /\ Off(iWrite)' = Off(iWrite) - 1
  <2>1. Taken = Len(queried) /\ Taken' = Len(queried) + 1
    BY <1>1, <1>2 DEF PipeInv, Taken
  <2> QED
    BY <1>2, <1>3, <1>4, <2>1
<1>6. Off(iWrite) >= 1
  BY <1>3, <1>4, <1>5
<1>7. Behind \in Seq(Nat) /\ Len(Behind) = Off(iWrite)
  <2>1. \A i \in 1..Off(iWrite) : accepted[Taken + i].no \in Nat
    <3> SUFFICES ASSUME NEW i \in 1..Off(iWrite) PROVE accepted[Taken + i].no \in Nat
      OBVIOUS
    <3>1. Taken + i \in 1..Len(accepted)
      BY <1>3
    <3>2. accepted[Taken + i] \in Rows
      BY <3>1, RowsTyped DEF SafeInv
    <3> QED
      BY <3>2 DEF Rows
  <2>2. Behind \in [1..Off(iWrite) -> Nat]
    BY <2>1 DEF Behind
  <2>3. Behind \in Seq(Nat)
    BY <1>3, <2>2, SeqDef
  <2> QED
    BY <1>3, <2>2, <2>3, LenProperties
<1>8. Backlog # <<>> /\ Head(Backlog) = accepted[Taken + 1].no
  <2>1. Behind # <<>>
    BY <1>6, <1>7, EmptySeq
  <2>2. Behind[1] = accepted[Taken + 1].no
    BY <1>3, <1>6 DEF Behind
  <2> QED
    BY <1>3, <1>7, <2>1, <2>2, HeadTailProperties
<1>9. Backlog' = Tail(Backlog)
  <2>1. /\ Tail(Behind) \in Seq(Nat) /\ Len(Tail(Behind)) = Off(iWrite) - 1
        /\ \A i \in 1..Off(iWrite) - 1 : Tail(Behind)[i] = Behind[i + 1]
    BY <1>3, <1>7, <1>8, HeadTailProperties
  <2>2. Tail(Behind) = [i \in 1..Off(iWrite) - 1 |-> Tail(Behind)[i]]
    BY <2>1, LenProperties
  <2>3. \A i \in 1..Off(iWrite) - 1 : Tail(Behind)[i] = accepted[(Taken + 1) + i].no
    <3> SUFFICES ASSUME NEW i \in 1..Off(iWrite) - 1
                 PROVE  Tail(Behind)[i] = accepted[(Taken + 1) + i].no
      OBVIOUS
    <3>1. i + 1 \in 1..Off(iWrite) /\ Taken + (i + 1) = (Taken + 1) + i
      BY <1>3
    <3> QED
      BY <2>1, <3>1 DEF Behind
  <2>4. Behind' = [i \in 1..Off(iWrite) - 1 |-> accepted[(Taken + 1) + i].no]
    BY <1>2, <1>5 DEF Behind
  <2> QED
    BY <1>3, <1>4, <2>2, <2>3, <2>4
<1>10. Numbers(accepted)' = Numbers(accepted) /\ Numbers(queried)' = Numbers(queried)
  BY <1>2 DEF Numbers
<1>11. InHand' = {Head(Backlog)}
  BY <1>2, <1>4, <1>5, <1>8
<1>12. Pipe!Take(Writer)
  BY <1>1, <1>2, <1>3, <1>8, <1>9, <1>10, <1>11 DEF Pipe!Take
<1> QED
  BY <1>12 DEF Pipe!Next

\* A row is sent.
LEMMA PipeHandle ==
    ASSUME SafeInv, SafeInv', PipeInv, PipeInv', ~corrupted, WriterQuery
    PROVE  Pipe!Next
<1>1. pc[Writer] = "query" /\ pc'[Writer] = "test"
  BY WriterMoved DEF SafeInv, WriterQuery, Moves
<1>2. UNCHANGED <<accepted, exitEvent, corrupted>> /\ queried' = Append(queried, szQuery)
  BY DEF WriterQuery, sync
<1>3. InHand = {szQuery.no} /\ InHand' = {}
  BY <1>1 DEF InHand
<1>4. queried \in Seq(Rows) /\ szQuery \in Rows
  BY DEF SafeInv, OrderInv, TypeOK, Rows
<1>5. /\ Len(queried') = Len(queried) + 1 /\ queried'[Len(queried) + 1] = szQuery
      /\ \A i \in 1..Len(queried) : queried'[i] = queried[i]
  BY <1>2, <1>4, AppendProperties
<1>6. Backlog' = Backlog
  <2>1. Taken = Len(queried) + 1 /\ Taken' = Taken
    BY <1>1, <1>4, <1>5 DEF Taken
  <2>2. Backlog = Behind /\ Len(accepted) = Taken + Off(iWrite)
        /\ Off(iWrite) \in 0..Slots - 1 /\ Taken \in Nat
    BY DEF PipeInv
  <2>3. Backlog' = Behind' /\ Len(accepted') = Taken' + Off(iWrite)'
        /\ Off(iWrite)' \in 0..Slots - 1
    BY DEF PipeInv
  <2>4. Off(iWrite)' = Off(iWrite)
    BY <1>2, <2>1, <2>2, <2>3
  <2>5. Behind' = Behind
    BY <1>2, <2>1, <2>4 DEF Behind
  <2> QED
    BY <2>2, <2>3, <2>5
<1>7. Numbers(queried') = Numbers(queried) \cup {szQuery.no}
  <2>1. 1..Len(queried') = 1..Len(queried) \cup {Len(queried) + 1}
    BY <1>4, <1>5
  <2> QED
    BY <1>5, <2>1 DEF Numbers
<1>8. Numbers(accepted)' = Numbers(accepted)
  BY <1>2 DEF Numbers
<1>9. Pipe!Handle(Writer)
  BY <1>1, <1>2, <1>3, <1>6, <1>7, <1>8 DEF Pipe!Handle
<1> QED
  BY <1>9 DEF Pipe!Next

LEMMA PipeStep ==
    SafeInv /\ SafeInv' /\ PipeInv /\ PipeInv' /\ CountInv /\ [Next]_vars
        => [Pipe!Next]_(Pipe!vars)
<1> SUFFICES ASSUME SafeInv, SafeInv', PipeInv, PipeInv', CountInv, [Next]_vars
             PROVE  [Pipe!Next]_(Pipe!vars)
  OBVIOUS
<1>1. ASSUME ~corrupted, NEW u \in Updaters, UpdateThread(u) PROVE [Pipe!Next]_(Pipe!vars)
  <2>1. CASE EnqueueMove(u)
    BY <1>1, <2>1, PipePost
  <2>2. CASE ~EnqueueMove(u)
    <3>1. UNCHANGED <<accepted, queried, exitEvent>>
      BY <1>1, <2>2 DEF UpdateThread, UpdateTop, UpdateAlloc, UpdateIncrement, UpdateReread,
                  UpdateLock, Compare, UpdateRoom, EnqueueCompare, EnqueueTake, EnqueueCopy,
                  UpdateSet, sync, hist
    <3>2. pc' = pc \/ \E l : Goto(u, l)
      BY <1>1, <2>2 DEF UpdateThread, UpdateTop, UpdateAlloc, UpdateIncrement, UpdateReread,
                  UpdateLock, Compare, UpdateRoom, EnqueueCompare, EnqueueTake, EnqueueCopy,
                  UpdateSet, Moves
    <3>3. pc'[Writer] = pc[Writer]
      BY <3>2 DEF Goto, SafeInv, PcOK, Threads, Users
    <3> QED
      BY <1>1, <3>1, <3>3, PipeFrame
  <2> QED
    BY <2>1, <2>2
<1>2. ASSUME ~corrupted, DBWriterThread PROVE [Pipe!Next]_(Pipe!vars)
  <2> USE DEF SafeInv
  <2>1. CASE WriterWait
    <3>1. pc[Writer] = "wait" /\ pc'[Writer] = "test"
      BY <2>1, WriterMoved DEF WriterWait, Moves
    <3>2. UNCHANGED <<accepted, queried, exitEvent>>
      BY <2>1 DEF WriterWait, hist
    <3> QED
      BY <1>2, <3>1, <3>2, PipeFrame DEF Took
  <2>2. CASE Compare(Writer)
    BY <1>2, <2>2, PipeFrame DEF Compare, sync, hist
  <2>3. CASE WriterTest /\ UseSize(Writer) = 0 /\ byExit
    <3>1. pc[Writer] = "test" /\ pc'[Writer] = "done"
      BY <2>3, WriterMoved DEF WriterTest
    <3>2. UNCHANGED <<accepted, queried, exitEvent, corrupted, iRead, iWrite>>
      BY <2>3 DEF WriterTest, hist, ring
    <3>3. iRead = iWrite
      BY <2>3, <3>1, UseSizeFact DEF WriterTest, Called
    <3>4. Off(iWrite) = 0 /\ Off(iWrite)' = 0
      BY <3>2, <3>3 DEF Off, TypeOK
    <3>5. Backlog = <<>> /\ Backlog' = <<>>
      BY <3>4 DEF Backlog
    <3>6. InHand = {} /\ InHand' = {}
      BY <3>1 DEF InHand
    <3>7. Numbers(accepted)' = Numbers(accepted) /\ Numbers(queried)' = Numbers(queried)
      BY <3>2 DEF Numbers
    <3>8. exitEvent
      BY <2>3 DEF ExitInv
    <3>9. Pipe!Leave(Writer)
      BY <3>1, <3>2, <3>5, <3>6, <3>7, <3>8 DEF Pipe!Leave
    <3> QED
      BY <1>2, <3>9 DEF Pipe!Next
  <2>4. CASE WriterTest /\ ~(UseSize(Writer) = 0 /\ byExit)
    <3>1. pc[Writer] = "test" /\ \E l \in {"enough", "wait"} : Goto(Writer, l)
      BY <2>4 DEF WriterTest
    <3>2. pc'[Writer] \in {"enough", "wait"}
      BY <3>1, WriterMoved
    <3>3. UNCHANGED <<accepted, queried, exitEvent>>
      BY <2>4 DEF WriterTest, hist
    <3> QED
      BY <1>2, <3>1, <3>2, <3>3, PipeFrame DEF Took
  <2>5. CASE WriterEnough \/ DequeueCompare \/ DequeueTake \/ DequeueCopy
    <3>1. /\ pc[Writer] \in {"enough", "cmp", "take", "copy"}
          /\ \E l \in {"cmp", "test", "take", "copy", "move"} : Goto(Writer, l)
      BY <2>5 DEF WriterEnough, DequeueCompare, DequeueTake, DequeueCopy, Moves
    <3>2. pc'[Writer] \in {"cmp", "test", "take", "copy", "move"}
      BY <3>1, WriterMoved
    <3>3. UNCHANGED <<accepted, queried, exitEvent>>
      BY <2>5 DEF WriterEnough, DequeueCompare, DequeueTake, DequeueCopy, hist, sync
    <3> QED
      BY <1>2, <3>1, <3>2, <3>3, PipeFrame DEF Took
  <2>6. CASE DequeueMove
    BY <1>2, <2>6, PipeTake
  <2>7. CASE WriterFormat \/ WriterFree
    <3>1. /\ pc[Writer] \in {"format", "free"}
          /\ \E l \in {"free", "query"} : Goto(Writer, l)
      BY <2>7 DEF WriterFormat, WriterFree, Moves
    <3>2. pc'[Writer] \in {"free", "query"}
      BY <3>1, WriterMoved
    <3>3. UNCHANGED <<accepted, queried, exitEvent>>
      BY <2>7 DEF WriterFormat, WriterFree, hist, sync
    <3> QED
      BY <1>2, <3>1, <3>2, <3>3, PipeFrame DEF Took
  <2>8. CASE WriterQuery
    BY <1>2, <2>8, PipeHandle
  <2> QED
    BY <1>2, <2>1, <2>2, <2>3, <2>4, <2>5, <2>6, <2>7, <2>8 DEF DBWriterThread
<1>3. ASSUME ~corrupted, ServerControl \/ MainLeave \/ MainJoin \/ MainJoinWriter
      PROVE  [Pipe!Next]_(Pipe!vars)
  <2>1. UNCHANGED <<accepted, queried, exitEvent>> /\ (pc' = pc \/ \E l : Goto(Main, l))
    BY <1>3 DEF ServerControl, MainLeave, MainJoin, MainJoinWriter, Moves, hist, sync
  <2>2. pc'[Writer] = pc[Writer]
    BY <2>1 DEF Goto, SafeInv, PcOK, Threads, Users, Writer, Main
  <2> QED
    BY <1>3, <2>1, <2>2, PipeFrame
<1>4. ASSUME ~corrupted, MainExitEvent PROVE [Pipe!Next]_(Pipe!vars)
  <2>1. ~exitEvent /\ exitEvent' = TRUE /\ UNCHANGED <<accepted, queried, corrupted>>
    BY <1>4 DEF MainExitEvent, Moves, SafeInv, ExitInv, TypeOK, hist
  <2>2. Goto(Main, "joinwriter") /\ UNCHANGED <<slot, iRead, iWrite, row, hdr, szQuery>>
    BY <1>4 DEF MainExitEvent, Moves, ring, data
  <2>3. pc'[Writer] = pc[Writer]
    BY <2>2 DEF Goto, SafeInv, PcOK, Threads, Users, Writer, Main
  <2>4. Backlog' = Backlog /\ InHand' = InHand
    BY <2>2, <2>3 DEF Backlog, InHand, Off
  <2>5. Numbers(accepted)' = Numbers(accepted) /\ Numbers(queried)' = Numbers(queried)
    BY <2>1 DEF Numbers
  <2>6. Pipe!Close
    BY <2>1, <2>3, <2>4, <2>5 DEF Pipe!Close
  <2> QED
    BY <1>4, <2>6 DEF Pipe!Next
<1>5. CASE UNCHANGED vars
  <2>1. Backlog' = Backlog /\ InHand' = InHand
    BY <1>5 DEF vars, Backlog, InHand, Off
  <2>2. Numbers(accepted)' = Numbers(accepted) /\ Numbers(queried)' = Numbers(queried)
    BY <1>5 DEF vars, Numbers
  <2> QED
    BY <1>5, <2>1, <2>2 DEF vars, Pipe!vars
<1> QED
  BY <1>1, <1>2, <1>3, <1>4, <1>5 DEF Next, MainStep

\* For any number of UpdateThreads and headers and any size of the ring the
\* headers, the unlocked ring and the events (_main.cpp:165-232, 240-302) are a
\* bounded pipe: every number is posted once, before the end is announced, taken
\* in order and sent once; the writer leaves an empty pipe.  What a copy with a
\* torn size does to the process is the pipe's halt.
THEOREM PipeCorrect == Spec => PipeSpec
<1>1. Init => Pipe!Init
  <2> SUFFICES ASSUME Init PROVE Pipe!Init
    OBVIOUS
  <2>1. pc[Writer] = "wait" /\ Off(iWrite) = 0
    BY DEF Init, Threads, Users, Off, Writer, Main
  <2>2. Backlog = <<>> /\ InHand = {}
    BY <2>1 DEF Backlog, InHand
  <2>3. Numbers(accepted) = {} /\ Numbers(queried) = {}
    BY DEF Init, Numbers
  <2> QED
    BY <2>1, <2>2, <2>3 DEF Init, Pipe!Init
<1>2. Spec => []PipeInv
  BY SafeCorrect, PipeFact, PTL
<1> QED
  BY <1>1, <1>2, SafeCorrect, CountCorrect, PipeStep, PTL DEF Spec, PipeSpec, Pipe!Spec

=============================================================================
