-------------------------- MODULE RingBufferProofs --------------------------
(***************************************************************************)
(* What CRingBuffer keeps for any size of its array, any bytes and any     *)
(* requests: its sizes describe the array, its split copies stay inside it *)
(* and every call is the call of a plain queue of bytes.                   *)
(***************************************************************************)
EXTENDS RingBuffer, SequenceTheorems, TLAPS

USE BufferSizeAssumption, BoundAssumption
    DEF BufferSizeAssumption, BoundAssumption, Positions

Smaller(a, b) == IF a < b THEN a ELSE b

---------------------------------------------------------------------------
(* Positions and sizes *)

\* Moving a position by no more than the array's size wraps at most once.
LEMMA AdvanceFact ==
    ASSUME NEW p \in Positions, NEW n \in 0..BufferSize
    PROVE  /\ Advance(p, n) = IF p + n < BufferSize THEN p + n ELSE p + n - BufferSize
           /\ Advance(p, n) \in Positions
<1>1. CASE p + n < BufferSize
  BY <1>1 DEF Advance
<1>2. CASE p + n >= BufferSize
  <2>1. PICK q \in 0..BufferSize - 1 : p + n = BufferSize + q
    BY <1>2
  <2>2. (BufferSize + q) % BufferSize = q
    BY <2>1
  <2> QED
    BY <1>2, <2>1, <2>2 DEF Advance
<1> QED
  BY <1>1, <1>2

\* The sizes as functions of the two positions: the unbroken ones are cut at
\* the array's end and nowhere else.
LEMMA SizeFact ==
    ASSUME NEW r \in Positions, NEW w \in Positions
    PROVE  /\ GetUseSize(r, w) \in 0..BufferSize - 1
           /\ GetFreeSize(r, w) = BufferSize - 1 - GetUseSize(r, w)
           /\ GetUseSize(r, w) = 0 <=> r = w
           /\ Full(r, w) <=> GetFreeSize(r, w) = 0
           /\ GetUnbrokenEnqueueSize(r, w) = Smaller(GetFreeSize(r, w), BufferSize - w)
           /\ GetUnbrokenDequeueSize(r, w) = Smaller(GetUseSize(r, w), BufferSize - r)
<1>1. GetUseSize(r, w) = IF w >= r THEN w - r ELSE BufferSize - r + w
  BY DEF GetUseSize
<1>2. GetFreeSize(r, w) = BufferSize - 1 - GetUseSize(r, w)
  BY <1>1 DEF GetFreeSize
<1>3. Full(r, w) <=> (IF w + 1 < BufferSize THEN w + 1 ELSE 0) = r
  <2>1. 1 \in 0..BufferSize
    OBVIOUS
  <2>2. Advance(w, 1) = IF w + 1 < BufferSize THEN w + 1 ELSE w + 1 - BufferSize
    BY <2>1, AdvanceFact
  <2>3. Full(r, w) <=> Advance(w, 1) = r
    BY DEF Full, Advance
  <2> QED
    BY <2>2, <2>3
<1>4. LastWritable(r) = IF r = 0 THEN BufferSize - 1 ELSE r - 1
  <2>1. BufferSize - 1 \in 0..BufferSize
    OBVIOUS
  <2>2. LastWritable(r) = Advance(r, BufferSize - 1)
    BY DEF LastWritable, Advance
  <2> QED
    BY <2>1, <2>2, AdvanceFact
<1>5. GetUnbrokenDequeueSize(r, w) = IF w >= r THEN w - r ELSE BufferSize - r
  BY DEF GetUnbrokenDequeueSize
<1>6. GetUnbrokenEnqueueSize(r, w) = IF Full(r, w) THEN 0
                                     ELSE IF w <= LastWritable(r) THEN LastWritable(r) - w
                                     ELSE BufferSize - w
  BY DEF GetUnbrokenEnqueueSize
<1> QED
  BY <1>1, <1>2, <1>3, <1>4, <1>5, <1>6 DEF Smaller

\* Counted from the read position, the free places follow the used ones.
LEMMA PlaceFact ==
    ASSUME NEW r \in Positions, NEW w \in Positions
    PROVE  /\ w = Advance(r, GetUseSize(r, w))
           /\ \A i \in 1..GetUseSize(r, w) :
                  /\ i - 1 \in 0..BufferSize
                  /\ BufferSize - GetUseSize(r, w) + i - 1 \in 0..BufferSize
                  /\ Advance(r, i - 1) = Advance(w, BufferSize - GetUseSize(r, w) + i - 1)
           /\ \A k \in 1..GetFreeSize(r, w) :
                  Advance(r, GetUseSize(r, w) + k - 1) = Advance(w, k - 1)
<1>1. GetUseSize(r, w) = IF w >= r THEN w - r ELSE BufferSize - r + w
  BY DEF GetUseSize
<1>2. GetFreeSize(r, w) = BufferSize - 1 - GetUseSize(r, w)
  BY <1>1 DEF GetFreeSize
<1> DEFINE u == GetUseSize(r, w)
<1>3. u \in 0..BufferSize - 1
  BY SizeFact
<1>4. w = Advance(r, u)
  <2>1. u \in 0..BufferSize
    BY <1>3
  <2>2. Advance(r, u) = IF r + u < BufferSize THEN r + u ELSE r + u - BufferSize
    BY <2>1, AdvanceFact
  <2> QED
    BY <1>1, <2>2
<1>5. ASSUME NEW i \in 1..u
      PROVE  /\ i - 1 \in 0..BufferSize /\ BufferSize - u + i - 1 \in 0..BufferSize
             /\ Advance(r, i - 1) = Advance(w, BufferSize - u + i - 1)
  <2>1. i - 1 \in 0..BufferSize /\ BufferSize - u + i - 1 \in 0..BufferSize
    BY <1>3
  <2>2. Advance(r, i - 1) = IF r + (i - 1) < BufferSize THEN r + (i - 1)
                                                           ELSE r + (i - 1) - BufferSize
    BY <2>1, AdvanceFact
  <2>3. Advance(w, BufferSize - u + i - 1) =
           IF w + (BufferSize - u + i - 1) < BufferSize THEN w + (BufferSize - u + i - 1)
           ELSE w + (BufferSize - u + i - 1) - BufferSize
    BY <2>1, AdvanceFact
  <2> QED
    BY <1>1, <1>3, <2>1, <2>2, <2>3
<1>6. ASSUME NEW k \in 1..GetFreeSize(r, w) PROVE Advance(r, u + k - 1) = Advance(w, k - 1)
  <2>1. k - 1 \in 0..BufferSize /\ u + k - 1 \in 0..BufferSize
    BY <1>2, <1>3
  <2>2. Advance(r, u + k - 1) =
           IF r + (u + k - 1) < BufferSize THEN r + (u + k - 1) ELSE r + (u + k - 1) - BufferSize
    BY <2>1, AdvanceFact
  <2>3. Advance(w, k - 1) = IF w + (k - 1) < BufferSize THEN w + (k - 1)
                                                           ELSE w + (k - 1) - BufferSize
    BY <2>1, AdvanceFact
  <2> QED
    BY <1>1, <1>2, <1>3, <2>1, <2>2, <2>3
<1> QED
  BY <1>4, <1>5, <1>6

\* A write moves the free places from the front, a read the used ones.
LEMMA MovedFact ==
    ASSUME NEW r \in Positions, NEW w \in Positions
    PROVE  /\ \A n \in 0..GetFreeSize(r, w) :
                  /\ Advance(w, n) \in Positions
                  /\ GetUseSize(r, Advance(w, n)) = GetUseSize(r, w) + n
           /\ \A n \in 0..GetUseSize(r, w) :
                  /\ Advance(r, n) \in Positions
                  /\ GetUseSize(Advance(r, n), w) = GetUseSize(r, w) - n
                  /\ \A i \in 1..GetUseSize(r, w) - n :
                        Advance(Advance(r, n), i - 1) = Advance(r, n + i - 1)
<1>1. GetUseSize(r, w) = IF w >= r THEN w - r ELSE BufferSize - r + w
  BY DEF GetUseSize
<1>2. GetFreeSize(r, w) = BufferSize - 1 - GetUseSize(r, w) /\ GetUseSize(r, w) \in 0..BufferSize - 1
  BY SizeFact
<1>3. ASSUME NEW n \in 0..GetFreeSize(r, w)
      PROVE  Advance(w, n) \in Positions /\ GetUseSize(r, Advance(w, n)) = GetUseSize(r, w) + n
  <2>1. n \in 0..BufferSize
    BY <1>2
  <2>2. /\ Advance(w, n) = IF w + n < BufferSize THEN w + n ELSE w + n - BufferSize
        /\ Advance(w, n) \in Positions
    BY <2>1, AdvanceFact
  <2> QED
    BY <1>1, <1>2, <2>1, <2>2 DEF GetUseSize
<1>4. ASSUME NEW n \in 0..GetUseSize(r, w)
      PROVE  /\ Advance(r, n) \in Positions
             /\ GetUseSize(Advance(r, n), w) = GetUseSize(r, w) - n
             /\ \A i \in 1..GetUseSize(r, w) - n :
                    Advance(Advance(r, n), i - 1) = Advance(r, n + i - 1)
  <2>1. n \in 0..BufferSize
    BY <1>2
  <2>2. /\ Advance(r, n) = IF r + n < BufferSize THEN r + n ELSE r + n - BufferSize
        /\ Advance(r, n) \in Positions
    BY <2>1, AdvanceFact
  <2>3. GetUseSize(Advance(r, n), w) = GetUseSize(r, w) - n
    BY <1>1, <1>2, <2>1, <2>2 DEF GetUseSize
  <2>4. ASSUME NEW i \in 1..GetUseSize(r, w) - n
        PROVE  Advance(Advance(r, n), i - 1) = Advance(r, n + i - 1)
    <3>1. i - 1 \in 0..BufferSize /\ n + i - 1 \in 0..BufferSize
      BY <1>2, <2>1
    <3>2. Advance(r, n + i - 1) =
             IF r + (n + i - 1) < BufferSize THEN r + (n + i - 1) ELSE r + (n + i - 1) - BufferSize
      BY <3>1, AdvanceFact
    <3>3. \A p \in Positions : Advance(p, i - 1) =
             IF p + (i - 1) < BufferSize THEN p + (i - 1) ELSE p + (i - 1) - BufferSize
      BY <3>1, AdvanceFact
    <3> QED
      BY <1>2, <2>1, <2>2, <3>1, <3>2, <3>3
  <2> QED
    BY <2>2, <2>3, <2>4
<1> QED
  BY <1>3, <1>4

---------------------------------------------------------------------------
(* Copies *)

LEMMA FunctionIsSeq ==
    ASSUME NEW S, NEW n \in Nat, NEW f \in [1..n -> S]
    PROVE  f \in Seq(S) /\ Len(f) = n /\ DOMAIN f = 1..n
BY SeqDef

\* The piece before the end of the array, when the request is at most m and the
\* unbroken size is m cut at the end.
LEMMA FirstPieceFact ==
    ASSUME NEW at \in Positions, NEW m \in Nat, NEW n \in 0..m
    PROVE  FirstPiece(n, Smaller(m, BufferSize - at)) = Smaller(n, BufferSize - at)
BY DEF FirstPiece, Smaller

\* A copy into the array puts its bytes at the places from `at` on, around the
\* end, and leaves the others alone.
LEMMA CopyInFact ==
    ASSUME pBuffer \in [Positions -> Bytes],
           NEW at \in Positions, NEW data \in Seq(Bytes), NEW n \in 0..BufferSize - 1,
           n <= Len(data),
           NEW new, new = CopyIn(data, n, at, Smaller(n, BufferSize - at))
    PROVE  /\ new \in [Positions -> Bytes]
           /\ \A k \in 1..n : new[Advance(at, k - 1)] = data[k]
           /\ \A k \in n + 1..BufferSize : new[Advance(at, k - 1)] = pBuffer[Advance(at, k - 1)]
<1> DEFINE first == Smaller(n, BufferSize - at)
<1>1. first \in 0..n /\ at + first <= BufferSize /\ (first < n => at + first = BufferSize)
  BY DEF Smaller
<1>2. \A k \in 1..n : data[k] \in Bytes
  BY ElementOfSeq, LenProperties
<1>3. ASSUME NEW p \in Positions
      PROVE  /\ new[p] = IF p >= at /\ p < at + first THEN data[p - at + 1]
                         ELSE IF p < n - first THEN data[first + p + 1] ELSE pBuffer[p]
             /\ new[p] \in Bytes
  <2>1. new[p] = IF p >= at /\ p < at + first THEN data[p - at + 1]
                 ELSE IF p < n - first THEN data[first + p + 1] ELSE pBuffer[p]
    BY DEF CopyIn
  <2>2. p >= at /\ p < at + first => p - at + 1 \in 1..n
    BY <1>1
  <2>3. p < n - first => first + p + 1 \in 1..n
    BY <1>1
  <2> QED
    BY <1>2, <2>1, <2>2, <2>3
<1>4. new \in [Positions -> Bytes]
  BY <1>3 DEF CopyIn
<1>5. ASSUME NEW k \in 1..BufferSize
      PROVE  /\ Advance(at, k - 1) \in Positions
             /\ Advance(at, k - 1) =
                   IF at + (k - 1) < BufferSize THEN at + (k - 1) ELSE at + (k - 1) - BufferSize
  <2>1. k - 1 \in 0..BufferSize
    OBVIOUS
  <2> QED
    BY <2>1, AdvanceFact
<1>6. ASSUME NEW k \in 1..n PROVE new[Advance(at, k - 1)] = data[k]
  <2>1. CASE at + (k - 1) < BufferSize
    <3>1. Advance(at, k - 1) = at + (k - 1) /\ at + (k - 1) \in Positions
      BY <1>5, <2>1
    <3>2. at + (k - 1) < at + first /\ at + (k - 1) >= at /\ at + (k - 1) - at + 1 = k
      BY <1>1, <2>1
    <3> QED
      BY <1>3, <3>1, <3>2
  <2>2. CASE at + (k - 1) >= BufferSize
    <3> DEFINE p == at + (k - 1) - BufferSize
    <3>1. Advance(at, k - 1) = p /\ p \in Positions
      BY <1>5, <2>2
    <3>2. at + first = BufferSize /\ ~(p >= at) /\ p < n - first /\ first + p + 1 = k
      BY <1>1, <2>2
    <3> QED
      BY <1>3, <3>1, <3>2
  <2> QED
    BY <2>1, <2>2
<1>7. ASSUME NEW k \in n + 1..BufferSize
      PROVE  new[Advance(at, k - 1)] = pBuffer[Advance(at, k - 1)]
  <2> DEFINE p == Advance(at, k - 1)
  <2>1. /\ p \in Positions
        /\ p = IF at + (k - 1) < BufferSize THEN at + (k - 1) ELSE at + (k - 1) - BufferSize
    BY <1>5
  <2>2. ~(p >= at /\ p < at + first) /\ ~(p < n - first)
    BY <1>1, <2>1
  <2> QED
    BY <1>3, <2>1, <2>2
<1> QED
  BY <1>4, <1>6, <1>7

\* A copy out of the array reads the places from `at` on, around the end.
LEMMA CopyOutFact ==
    ASSUME pBuffer \in [Positions -> Bytes], NEW at \in Positions, NEW n \in 0..BufferSize - 1
    PROVE  CopyOut(n, at, Smaller(n, BufferSize - at))
              = [i \in 1..n |-> pBuffer[Advance(at, i - 1)]]
<1> DEFINE first == Smaller(n, BufferSize - at)
<1>1. first \in 0..n /\ at + first <= BufferSize /\ (first < n => at + first = BufferSize)
  BY DEF Smaller
<1>2. ASSUME NEW i \in 1..n
      PROVE  pBuffer[Advance(at, i - 1)] =
                IF i <= first THEN pBuffer[at + i - 1] ELSE pBuffer[i - first - 1]
  <2>1. i - 1 \in 0..BufferSize
    OBVIOUS
  <2>2. Advance(at, i - 1) =
           IF at + (i - 1) < BufferSize THEN at + (i - 1) ELSE at + (i - 1) - BufferSize
    BY <2>1, AdvanceFact
  <2>3. i <= first => Advance(at, i - 1) = at + i - 1
    BY <1>1, <2>2
  <2>4. ~(i <= first) => Advance(at, i - 1) = i - first - 1
    BY <1>1, <2>2
  <2> QED
    BY <2>3, <2>4
<1> QED
  BY <1>2 DEF CopyOut

---------------------------------------------------------------------------
(* The bytes in the ring *)

LEMMA ContentsFact ==
    ASSUME TypeOK
    PROVE  /\ Contents \in Seq(Bytes) /\ Len(Contents) = UseSize
           /\ UseSize \in 0..BufferSize - 1 /\ FreeSize = BufferSize - 1 - UseSize
           /\ \A i \in 1..UseSize : Contents[i] = pBuffer[Advance(iRead, i - 1)]
<1>1. UseSize \in 0..BufferSize - 1 /\ FreeSize = BufferSize - 1 - UseSize
  BY SizeFact DEF TypeOK, UseSize, FreeSize
<1>2. ASSUME NEW i \in 1..UseSize PROVE pBuffer[Advance(iRead, i - 1)] \in Bytes
  <2>1. i - 1 \in 0..BufferSize
    BY <1>1
  <2> QED
    BY <2>1, AdvanceFact DEF TypeOK
<1>3. Contents \in [1..UseSize -> Bytes]
  BY <1>2 DEF Contents
<1> QED
  BY <1>1, <1>3, FunctionIsSeq DEF Contents

\* n bytes of data are put behind the ones in the ring, and no others change.
LEMMA PutFact ==
    ASSUME TypeOK, NEW data \in Seq(Bytes), NEW n \in 0..FreeSize, n <= Len(data),
           pBuffer' = CopyIn(data, n, iWrite, Smaller(n, BufferSize - iWrite)),
           iWrite' = Advance(iWrite, n), iRead' = iRead
    PROVE  /\ pBuffer' \in [Positions -> Bytes] /\ iWrite' \in Positions
           /\ Contents' = Contents \o SubSeq(data, 1, n)
<1>1. /\ UseSize \in 0..BufferSize - 1 /\ FreeSize = BufferSize - 1 - UseSize
      /\ Contents \in Seq(Bytes) /\ Len(Contents) = UseSize
      /\ \A i \in 1..UseSize : Contents[i] = pBuffer[Advance(iRead, i - 1)]
  BY ContentsFact
<1>2. n \in 0..BufferSize - 1
  BY <1>1
<1>3. /\ pBuffer' \in [Positions -> Bytes]
      /\ \A k \in 1..n : pBuffer'[Advance(iWrite, k - 1)] = data[k]
      /\ \A k \in n + 1..BufferSize :
            pBuffer'[Advance(iWrite, k - 1)] = pBuffer[Advance(iWrite, k - 1)]
  BY <1>2, CopyInFact DEF TypeOK
<1>4. iWrite' \in Positions /\ UseSize' = UseSize + n
  BY MovedFact DEF TypeOK, UseSize, FreeSize
<1>5. /\ \A i \in 1..UseSize : Advance(iRead, i - 1) = Advance(iWrite, BufferSize - UseSize + i - 1)
      /\ \A k \in 1..FreeSize : Advance(iRead, UseSize + k - 1) = Advance(iWrite, k - 1)
  BY PlaceFact DEF TypeOK, UseSize, FreeSize
<1> DEFINE put == SubSeq(data, 1, n)
<1>6. put \in Seq(Bytes) /\ Len(put) = n /\ \A k \in 1..n : put[k] = data[k]
  <2>1. \A k \in 1..n : data[k] \in Bytes
    BY ElementOfSeq, LenProperties
  <2> QED
    BY <2>1, SubSeqProperties
<1>7. Contents' \in Seq(Bytes) /\ Len(Contents') = UseSize + n
      /\ \A i \in 1..UseSize + n : Contents'[i] = pBuffer'[Advance(iRead, i - 1)]
  <2>1. Contents' = [i \in 1..UseSize + n |-> pBuffer'[Advance(iRead, i - 1)]]
    BY <1>4 DEF Contents
  <2>2. ASSUME NEW i \in 1..UseSize + n PROVE pBuffer'[Advance(iRead, i - 1)] \in Bytes
    <3>1. i - 1 \in 0..BufferSize
      BY <1>1
    <3> QED
      BY <1>3, <3>1, AdvanceFact DEF TypeOK
  <2>3. Contents' \in [1..UseSize + n -> Bytes] /\ UseSize + n \in Nat
    BY <1>1, <2>1, <2>2
  <2> QED
    BY <2>1, <2>3, FunctionIsSeq
<1>8. ASSUME NEW i \in 1..UseSize + n PROVE Contents'[i] = (Contents \o put)[i]
  <2>1. (Contents \o put)[i] = IF i <= UseSize THEN Contents[i] ELSE put[i - UseSize]
    BY <1>1, <1>6, ConcatProperties
  <2>2. CASE i <= UseSize
    <3> DEFINE k == BufferSize - UseSize + i
    <3>1. k \in n + 1..BufferSize /\ i \in 1..UseSize
      BY <1>1, <2>2
    <3>2. Advance(iRead, i - 1) = Advance(iWrite, k - 1)
      BY <1>1, <1>5, <3>1
    <3>3. pBuffer'[Advance(iWrite, k - 1)] = pBuffer[Advance(iWrite, k - 1)]
      BY <1>3, <3>1
    <3>4. Contents'[i] = pBuffer[Advance(iRead, i - 1)]
      BY <1>7, <3>2, <3>3
    <3> QED
      BY <1>1, <2>1, <2>2, <3>1, <3>4
  <2>3. CASE i > UseSize
    <3>1. PICK k \in 1..n : i = UseSize + k
      <4>1. i - UseSize \in 1..n /\ i = UseSize + (i - UseSize)
        BY <1>1, <2>3
      <4> QED
        BY <4>1
    <3>2. k \in 1..FreeSize /\ i - UseSize = k /\ i - 1 = UseSize + k - 1
      BY <1>1, <3>1
    <3>3. Contents'[i] = data[k]
      BY <1>3, <1>5, <1>7, <3>2
    <3> QED
      BY <1>1, <1>6, <2>1, <2>3, <3>2, <3>3
  <2> QED
    BY <1>1, <2>2, <2>3
<1>9. Contents \o put \in Seq(Bytes) /\ Len(Contents \o put) = UseSize + n
  BY <1>1, <1>6, ConcatProperties
<1> QED
  BY <1>3, <1>4, <1>7, <1>8, <1>9, SeqEqual

\* The first n bytes in the ring are copied out.
LEMMA GetFact ==
    ASSUME TypeOK, NEW n \in 0..UseSize
    PROVE  CopyOut(n, iRead, Smaller(n, BufferSize - iRead)) = SubSeq(Contents, 1, n)
<1>1. /\ UseSize \in 0..BufferSize - 1 /\ n \in 0..BufferSize - 1
      /\ Contents \in Seq(Bytes) /\ Len(Contents) = UseSize
      /\ \A i \in 1..UseSize : Contents[i] = pBuffer[Advance(iRead, i - 1)]
  BY ContentsFact
<1> DEFINE out == [i \in 1..n |-> pBuffer[Advance(iRead, i - 1)]]
<1>2. CopyOut(n, iRead, Smaller(n, BufferSize - iRead)) = out
  BY <1>1, CopyOutFact DEF TypeOK
<1>3. \A i \in 1..n : i \in 1..UseSize /\ out[i] = Contents[i] /\ Contents[i] \in Bytes
  BY <1>1, ElementOfSeq
<1>4. out \in [1..n -> Bytes]
  BY <1>3
<1>5. out \in Seq(Bytes) /\ Len(out) = n
  BY <1>1, <1>4, FunctionIsSeq
<1>6. /\ SubSeq(Contents, 1, n) \in Seq(Bytes) /\ Len(SubSeq(Contents, 1, n)) = n
      /\ \A i \in 1..n : SubSeq(Contents, 1, n)[i] = Contents[i]
  BY <1>1, <1>3, SubSeqProperties
<1> QED
  BY <1>2, <1>3, <1>5, <1>6, SeqEqual

\* Without its first n bytes the ring holds the others.
LEMMA DropFact ==
    ASSUME TypeOK, NEW n \in 0..UseSize,
           iRead' = Advance(iRead, n), UNCHANGED <<pBuffer, iWrite>>
    PROVE  iRead' \in Positions /\ Contents' = SubSeq(Contents, n + 1, Len(Contents))
<1>1. /\ UseSize \in 0..BufferSize - 1
      /\ Contents \in Seq(Bytes) /\ Len(Contents) = UseSize
      /\ \A i \in 1..UseSize : Contents[i] = pBuffer[Advance(iRead, i - 1)]
  BY ContentsFact
<1>2. /\ iRead' \in Positions /\ UseSize' = UseSize - n
      /\ \A i \in 1..UseSize - n : Advance(iRead', i - 1) = Advance(iRead, n + i - 1)
  BY MovedFact DEF TypeOK, UseSize
<1>3. Contents' = [i \in 1..UseSize - n |-> pBuffer[Advance(iRead', i - 1)]]
  BY <1>2 DEF Contents
<1>4. \A i \in 1..UseSize - n :
         n + i \in 1..UseSize /\ Contents'[i] = Contents[n + i] /\ Contents[n + i] \in Bytes
  <2> SUFFICES ASSUME NEW i \in 1..UseSize - n
               PROVE  n + i \in 1..UseSize /\ Contents'[i] = Contents[n + i]
                      /\ Contents[n + i] \in Bytes
    OBVIOUS
  <2>1. n + i \in 1..UseSize
    BY <1>1
  <2>2. Contents[n + i] = pBuffer[Advance(iRead, n + i - 1)]
    BY <1>1, <2>1
  <2>3. Contents'[i] = pBuffer[Advance(iRead', i - 1)]
    BY <1>3
  <2>4. Contents[n + i] \in Bytes
    BY <1>1, <2>1, ElementOfSeq
  <2> QED
    BY <1>2, <2>1, <2>2, <2>3, <2>4
<1>5. Contents' \in [1..UseSize - n -> Bytes] /\ UseSize - n \in Nat
  BY <1>1, <1>3, <1>4
<1>6. Contents' \in Seq(Bytes) /\ Len(Contents') = UseSize - n
  BY <1>5, FunctionIsSeq
<1> DEFINE rest == SubSeq(Contents, n + 1, UseSize)
<1>7. /\ rest \in Seq(Bytes) /\ Len(rest) = UseSize - n
      /\ \A i \in 1..UseSize - n : rest[i] = Contents[n + i]
  <2>1. \A i \in n + 1..UseSize : Contents[i] \in Bytes
    BY <1>1, ElementOfSeq
  <2>2. n + 1 \in Int /\ UseSize \in Int /\ UseSize - (n + 1) + 1 = UseSize - n
    BY <1>1
  <2>3. /\ rest \in Seq(Bytes)
        /\ Len(rest) = IF n + 1 <= UseSize THEN UseSize - (n + 1) + 1 ELSE 0
        /\ \A i \in 1..UseSize - (n + 1) + 1 : rest[i] = Contents[(n + 1) + i - 1]
    BY <2>1, <2>2, SubSeqProperties
  <2>4. Len(rest) = UseSize - n
    BY <1>1, <2>3
  <2>5. \A i \in 1..UseSize - n : rest[i] = Contents[n + i]
    BY <1>1, <2>3
  <2> QED
    BY <2>3, <2>4, <2>5
<1> QED
  BY <1>1, <1>2, <1>4, <1>6, <1>7, SeqEqual

---------------------------------------------------------------------------
(* What each call does *)

\* What a request is cut to, and the pieces of its copy.
LEMMA ServedFact ==
    ASSUME TypeOK, NEW size \in Nat
    PROVE  /\ Served(size, FreeSize) = Smaller(size, FreeSize)
           /\ Served(size, UseSize) = Smaller(size, UseSize)
           /\ \A n \in 0..FreeSize :
                 FirstPiece(n, UnbrokenEnqueue) = Smaller(n, BufferSize - iWrite)
           /\ \A n \in 0..UseSize :
                 FirstPiece(n, UnbrokenDequeue) = Smaller(n, BufferSize - iRead)
<1>1. UseSize \in Nat /\ FreeSize \in Nat
  BY ContentsFact
<1>2. /\ UnbrokenEnqueue = Smaller(FreeSize, BufferSize - iWrite)
      /\ UnbrokenDequeue = Smaller(UseSize, BufferSize - iRead)
  BY SizeFact DEF TypeOK, UnbrokenEnqueue, UnbrokenDequeue, FreeSize, UseSize
<1>3. /\ Served(size, FreeSize) = Smaller(size, FreeSize)
      /\ Served(size, UseSize) = Smaller(size, UseSize)
  BY <1>1 DEF Served, Smaller
<1> QED
  BY <1>1, <1>2, <1>3, FirstPieceFact DEF TypeOK

LEMMA DataFact ==
    \A data \in Data : data \in Seq(Bytes) /\ Len(data) \in 0..MaxRequest
<1> SUFFICES ASSUME NEW data \in Data
             PROVE  data \in Seq(Bytes) /\ Len(data) \in 0..MaxRequest
  OBVIOUS
<1>1. PICK n \in 0..MaxRequest : data \in [1..n -> Bytes]
  BY DEF Data
<1> QED
  BY <1>1, FunctionIsSeq

\* Enqueue and a write through GetWriteBufferPtr() put what fits behind the rest.
LEMMA EnqueueFact ==
    ASSUME TypeOK, NEW data \in Data, Enqueue(data) \/ WriteDirect(data)
    PROVE  /\ TypeOK'
           /\ ret' = Smaller(Len(data), FreeSize) /\ dest' = <<>>
           /\ Contents' = Contents \o SubSeq(data, 1, ret')
<1>1. data \in Seq(Bytes) /\ Len(data) \in Nat
  BY DataFact
<1>2. /\ UseSize \in 0..BufferSize - 1 /\ FreeSize = BufferSize - 1 - UseSize
      /\ Contents \in Seq(Bytes)
      /\ Full(iRead, iWrite) <=> FreeSize = 0
      /\ UnbrokenEnqueue = Smaller(FreeSize, BufferSize - iWrite)
  BY ContentsFact, SizeFact DEF TypeOK, FreeSize, UnbrokenEnqueue
<1>3. <<>> \in Seq(Bytes)
  BY EmptySeq
<1>4. CASE Enqueue(data) /\ Full(iRead, iWrite)
  <2>1. ret' = 0 /\ dest' = <<>> /\ UNCHANGED <<pBuffer, iRead, iWrite>>
    BY <1>4 DEF Enqueue
  <2>2. Smaller(Len(data), FreeSize) = 0
    BY <1>1, <1>2, <1>4 DEF Smaller
  <2>3. Contents' = Contents
    BY <2>1 DEF Contents, UseSize
  <2>4. SubSeq(data, 1, 0) = <<>> /\ Contents \o <<>> = Contents
    BY <1>2, SubSeqEmpty, ConcatEmptySeq
  <2> QED
    BY <1>3, <2>1, <2>2, <2>3, <2>4 DEF TypeOK
<1>5. ASSUME NEW n \in 0..FreeSize, n <= Len(data), ret' = n, dest' = <<>>,
             pBuffer' = CopyIn(data, n, iWrite, Smaller(n, BufferSize - iWrite)),
             iWrite' = Advance(iWrite, n), iRead' = iRead
      PROVE  TypeOK' /\ Contents' = Contents \o SubSeq(data, 1, ret')
  <2>1. /\ pBuffer' \in [Positions -> Bytes] /\ iWrite' \in Positions
        /\ Contents' = Contents \o SubSeq(data, 1, n)
    BY <1>1, <1>5, PutFact
  <2> QED
    BY <1>2, <1>3, <1>5, <2>1 DEF TypeOK
<1>6. CASE Enqueue(data) /\ ~Full(iRead, iWrite)
  <2> DEFINE n == Smaller(Len(data), FreeSize)
  <2>1. n \in 0..FreeSize /\ n <= Len(data)
    BY <1>1, <1>2 DEF Smaller
  <2>2. Served(Len(data), FreeSize) = n
        /\ FirstPiece(n, UnbrokenEnqueue) = Smaller(n, BufferSize - iWrite)
    BY <1>1, <2>1, ServedFact
  <2>3. /\ pBuffer' = CopyIn(data, n, iWrite, Smaller(n, BufferSize - iWrite))
        /\ iWrite' = Advance(iWrite, n) /\ iRead' = iRead /\ ret' = n /\ dest' = <<>>
    BY <1>6, <2>2 DEF Enqueue
  <2> QED
    BY <1>5, <2>1, <2>3
<1>7. CASE WriteDirect(data)
  <2> DEFINE n == Len(data)
  <2>1. n \in 0..FreeSize /\ n <= BufferSize - iWrite
    BY <1>1, <1>2, <1>7 DEF WriteDirect, Smaller, TypeOK
  <2>2. Smaller(n, BufferSize - iWrite) = n /\ Smaller(n, FreeSize) = n
    <3>1. n \in Nat
      BY <1>1
    <3>2. FreeSize \in Nat /\ BufferSize - iWrite \in Int /\ n <= FreeSize
      BY <1>2, <2>1, SizeFact DEF TypeOK, Positions
    <3>3. n <= BufferSize - iWrite
      BY <2>1
    <3> QED
      BY <3>1, <3>2, <3>3 DEF Smaller
  <2>3. /\ pBuffer' = CopyIn(data, n, iWrite, Smaller(n, BufferSize - iWrite))
        /\ iWrite' = Advance(iWrite, n) /\ iRead' = iRead /\ ret' = n /\ dest' = <<>>
    BY <1>7, <2>2 DEF WriteDirect
  <2> QED
    BY <1>1, <1>5, <2>1, <2>2, <2>3
<1> QED
  BY <1>4, <1>6, <1>7

\* What Dequeue and Peek copy out.
LEMMA ReadOutFact ==
    ASSUME TypeOK, NEW size \in Nat, ReadOut(size)
    PROVE  /\ ret' = Smaller(size, UseSize) /\ ret' \in 0..UseSize
           /\ dest' = SubSeq(Contents, 1, ret') /\ dest' \in Seq(Bytes)
<1>1. UseSize \in Nat /\ Contents \in Seq(Bytes) /\ Len(Contents) = UseSize
  BY ContentsFact
<1>2. UseSize = 0 <=> iRead = iWrite
  BY SizeFact DEF TypeOK, UseSize
<1> DEFINE n == Smaller(size, UseSize)
<1>3. n \in 0..UseSize
  BY <1>1 DEF Smaller
<1>4. CASE iRead = iWrite
  <2>1. ret' = 0 /\ dest' = <<>> /\ n = 0
    BY <1>1, <1>2, <1>4 DEF ReadOut, Smaller
  <2>2. SubSeq(Contents, 1, 0) = <<>> /\ <<>> \in Seq(Bytes)
    BY SubSeqEmpty, EmptySeq
  <2> QED
    BY <1>3, <2>1, <2>2
<1>5. CASE iRead # iWrite
  <2>1. ret' = n /\ dest' = CopyOut(n, iRead, Smaller(n, BufferSize - iRead))
    BY <1>3, <1>5, ServedFact DEF ReadOut
  <2>2. dest' = SubSeq(Contents, 1, n)
    BY <1>3, <2>1, GetFact
  <2>3. \A i \in 1..n : Contents[i] \in Bytes
    BY <1>1, <1>3, ElementOfSeq
  <2>4. SubSeq(Contents, 1, n) \in Seq(Bytes)
    BY <1>1, <1>3, <2>3, SubSeqProperties
  <2> QED
    BY <1>3, <2>1, <2>2, <2>4
<1> QED
  BY <1>4, <1>5

\* Dequeue and a read through GetReadBufferPtr() take the oldest bytes.
LEMMA DequeueFact ==
    ASSUME TypeOK, NEW size \in Nat, Dequeue(size) \/ ReadDirect(size)
    PROVE  /\ TypeOK'
           /\ ret' = Smaller(size, UseSize) /\ dest' = SubSeq(Contents, 1, ret')
           /\ Contents' = SubSeq(Contents, ret' + 1, Len(Contents))
<1>1. UseSize \in Nat /\ Contents \in Seq(Bytes) /\ Len(Contents) = UseSize
      /\ UnbrokenDequeue = Smaller(UseSize, BufferSize - iRead)
  <2>1. UseSize \in Nat /\ Contents \in Seq(Bytes) /\ Len(Contents) = UseSize
    BY ContentsFact
  <2>2. UnbrokenDequeue = Smaller(UseSize, BufferSize - iRead)
    BY SizeFact DEF TypeOK, UseSize, UnbrokenDequeue
  <2> QED
    BY <2>1, <2>2
<1>2. /\ ret' = Smaller(size, UseSize) /\ ret' \in 0..UseSize
      /\ dest' = SubSeq(Contents, 1, ret') /\ dest' \in Seq(Bytes)
      /\ iRead' = Advance(iRead, ret') /\ UNCHANGED <<pBuffer, iWrite>>
  <2>1. CASE Dequeue(size)
    BY <2>1, ReadOutFact DEF Dequeue
  <2>2. CASE ReadDirect(size)
    <3>1. size \in 0..UseSize /\ size <= BufferSize - iRead
      BY <1>1, <2>2 DEF ReadDirect, Smaller, TypeOK
    <3>2. Smaller(size, BufferSize - iRead) = size /\ Smaller(size, UseSize) = size
      BY <1>1, <3>1 DEF Smaller, TypeOK
    <3>3. dest' = SubSeq(Contents, 1, size)
      BY <2>2, <3>1, <3>2, GetFact DEF ReadDirect
    <3>4. \A i \in 1..size : Contents[i] \in Bytes
      BY <1>1, <3>1, ElementOfSeq
    <3>5. SubSeq(Contents, 1, size) \in Seq(Bytes)
      BY <1>1, <3>1, <3>4, SubSeqProperties
    <3> QED
      BY <2>2, <3>1, <3>2, <3>3, <3>5 DEF ReadDirect
  <2> QED
    BY <2>1, <2>2
<1>3. iRead' \in Positions /\ Contents' = SubSeq(Contents, ret' + 1, Len(Contents))
  BY <1>2, DropFact
<1> QED
  BY <1>1, <1>2, <1>3 DEF TypeOK

LEMMA PeekFact ==
    ASSUME TypeOK, NEW size \in Nat, Peek(size)
    PROVE  /\ TypeOK'
           /\ ret' = Smaller(size, UseSize) /\ dest' = SubSeq(Contents, 1, ret')
           /\ Contents' = Contents
<1>1. /\ ret' = Smaller(size, UseSize) /\ ret' \in 0..UseSize
      /\ dest' = SubSeq(Contents, 1, ret') /\ dest' \in Seq(Bytes)
      /\ UNCHANGED <<pBuffer, iRead, iWrite>>
  BY ReadOutFact DEF Peek
<1>2. UseSize \in Nat
  BY ContentsFact
<1>3. TypeOK'
  BY <1>1, <1>2 DEF TypeOK
<1>4. Contents' = Contents
  BY <1>1 DEF Contents, UseSize
<1> QED
  BY <1>1, <1>3, <1>4

LEMMA ClearFact ==
    ASSUME TypeOK, Clear
    PROVE  TypeOK' /\ ret' = 0 /\ dest' = <<>> /\ Contents' = <<>>
<1>1. iRead' = 0 /\ iWrite' = 0 /\ ret' = 0 /\ dest' = <<>> /\ pBuffer' = pBuffer
  BY DEF Clear
<1>2. <<>> \in Seq(Bytes)
  BY EmptySeq
<1>3. TypeOK'
  BY <1>1, <1>2 DEF TypeOK
<1>4. UseSize' = 0
  BY <1>1, <1>3, SizeFact DEF TypeOK, UseSize
<1>5. Contents' = <<>>
  BY <1>4 DEF Contents
<1> QED
  BY <1>1, <1>3, <1>5

---------------------------------------------------------------------------

LEMMA InitFact == Init => TypeOK /\ Contents = <<>>
<1> SUFFICES ASSUME Init PROVE TypeOK /\ Contents = <<>>
  OBVIOUS
<1>1. <<>> \in Seq(Bytes)
  BY EmptySeq
<1>2. TypeOK
  BY <1>1 DEF Init, TypeOK
<1>3. UseSize = 0
  BY SizeFact DEF Init, UseSize
<1> QED
  BY <1>2, <1>3 DEF Contents

LEMMA TypeStep == TypeOK /\ [Next]_vars => TypeOK'
<1> SUFFICES ASSUME TypeOK, [Next]_vars PROVE TypeOK'
  OBVIOUS
<1>1. CASE \E data \in Data : Enqueue(data) \/ WriteDirect(data)
  BY <1>1, EnqueueFact
<1>2. CASE \E size \in 0..MaxRequest : Dequeue(size) \/ Peek(size) \/ ReadDirect(size)
  BY <1>2, DequeueFact, PeekFact
<1>3. CASE Clear
  BY <1>3, ClearFact
<1>4. CASE UNCHANGED vars
  BY <1>4 DEF vars, TypeOK
<1> QED
  BY <1>1, <1>2, <1>3, <1>4 DEF Next

LEMMA TypeCorrect == Spec => []TypeOK
BY InitFact, TypeStep, PTL DEF Spec

\* For any size of the array and any positions GetUseSize and GetFreeSize share
\* it out but for one byte, and no piece of a copy of Enqueue, Dequeue or Peek
\* leaves the array or meets a byte of the other side (CRingBuffer.cpp:33-145).
THEOREM PiecesCorrect == Spec => []PiecesInBounds
<1>1. TypeOK => PiecesInBounds
  <2> SUFFICES ASSUME TypeOK PROVE PiecesInBounds
    OBVIOUS
  <2>1. /\ UseSize \in 0..BufferSize - 1 /\ FreeSize = BufferSize - 1 - UseSize
        /\ UnbrokenEnqueue = Smaller(FreeSize, BufferSize - iWrite)
        /\ UnbrokenDequeue = Smaller(UseSize, BufferSize - iRead)
    BY SizeFact DEF TypeOK, UseSize, FreeSize, UnbrokenEnqueue, UnbrokenDequeue
  <2>2. UseSize = IF iWrite >= iRead THEN iWrite - iRead ELSE BufferSize - iRead + iWrite
    BY DEF UseSize, GetUseSize, TypeOK
  <2> QED
    BY <2>1, <2>2 DEF PiecesInBounds, TypeOK, Smaller
<1> QED
  BY TypeCorrect, <1>1, PTL

LEMMA FifoStep == TypeOK /\ [Next]_vars => [Fifo!Next]_(Fifo!vars)
<1> SUFFICES ASSUME TypeOK, [Next]_vars PROVE Fifo!Next \/ UNCHANGED Fifo!vars
  OBVIOUS
<1>1. /\ UseSize \in 0..BufferSize - 1 /\ FreeSize = BufferSize - 1 - UseSize
      /\ Len(Contents) = UseSize
  BY ContentsFact
<1>2. \A a, b \in Nat : Smaller(a, b) = Fifo!Least(a, b)
  BY DEF Smaller, Fifo!Least
<1>3. Fifo!Data = Data
  BY DEF Data, Fifo!Data
<1>4. ASSUME NEW data \in Data, Enqueue(data) \/ WriteDirect(data) PROVE Fifo!Put(data)
  <2>1. Len(data) \in Nat
    BY DataFact
  <2>2. ret' = Fifo!Least(Len(data), (BufferSize - 1) - Len(Contents))
    BY <1>1, <1>2, <1>4, <2>1, EnqueueFact
  <2> QED
    BY <1>4, <2>2, EnqueueFact DEF Fifo!Put
<1>5. ASSUME NEW size \in 0..MaxRequest, Dequeue(size) \/ ReadDirect(size) PROVE Fifo!Get(size)
  <2>1. ret' = Fifo!Least(size, Len(Contents))
    BY <1>1, <1>2, <1>5, DequeueFact
  <2> QED
    BY <1>5, <2>1, DequeueFact DEF Fifo!Get, Fifo!Read
<1>6. ASSUME NEW size \in 0..MaxRequest, Peek(size) PROVE Fifo!Peek(size)
  <2>1. ret' = Fifo!Least(size, Len(Contents))
    BY <1>1, <1>2, <1>6, PeekFact
  <2> QED
    BY <1>6, <2>1, PeekFact DEF Fifo!Peek, Fifo!Read
<1>7. CASE Clear
  BY <1>7, ClearFact DEF Fifo!Next, Fifo!Clear
<1>8. CASE UNCHANGED vars
  BY <1>8 DEF vars, Fifo!vars, Contents, UseSize
<1> QED
  BY <1>3, <1>4, <1>5, <1>6, <1>7, <1>8 DEF Next, Fifo!Next

\* CRingBuffer is a queue of BufferSize - 1 bytes: whatever the positions, each
\* call returns what a plain queue would return and leaves what it would leave
\* (CRingBuffer.cpp:66-161).
THEOREM FifoCorrect == Spec => FifoSpec
<1>1. Init => Fifo!Init
  BY InitFact DEF Init, Fifo!Init
<1> QED
  BY <1>1, FifoStep, TypeCorrect, PTL DEF Spec, FifoSpec, Fifo!Spec

=============================================================================
