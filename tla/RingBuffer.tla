----------------------------- MODULE RingBuffer -----------------------------
(***************************************************************************)
(* CRingBuffer with its bytes, as a caller that holds Lock() uses it: the  *)
(* copies of Enqueue, Dequeue and Peek split at the end of the array, and  *)
(* callers that read or write through GetReadBufferPtr() and               *)
(* GetWriteBufferPtr() and then move the position.                         *)
(***************************************************************************)
EXTENDS RingOps, Sequences

CONSTANTS Bytes,
          MaxRequest   \* bound: the largest size a caller asks for

ASSUME BoundAssumption == MaxRequest \in Nat

VARIABLES pBuffer, iRead, iWrite,
          ret,    \* the size the last call returned
          dest    \* the bytes the last call copied out

vars == <<pBuffer, iRead, iWrite, ret, dest>>

Data == UNION {[1..n -> Bytes] : n \in 0..MaxRequest}

UseSize         == GetUseSize(iRead, iWrite)
FreeSize        == GetFreeSize(iRead, iWrite)
UnbrokenDequeue == GetUnbrokenDequeueSize(iRead, iWrite)
UnbrokenEnqueue == GetUnbrokenEnqueueSize(iRead, iWrite)

\* The memory of new char[] holds anything.
Init ==
    /\ pBuffer \in [Positions -> Bytes]
    /\ iRead = 0
    /\ iWrite = 0
    /\ ret = 0
    /\ dest = <<>>

\* memcpy of the first n bytes of data: up to `first` of them at position at,
\* the others at the start of the array.
CopyIn(data, n, at, first) ==
    [p \in Positions |->
        IF p >= at /\ p < at + first THEN data[p - at + 1]
        ELSE IF p < n - first THEN data[first + p + 1]
        ELSE pBuffer[p]]

\* memcpy of n bytes out of the array: `first` of them from position at, the
\* others from its start.
CopyOut(n, at, first) ==
    [i \in 1..n |-> IF i <= first THEN pBuffer[at + i - 1] ELSE pBuffer[i - first - 1]]

\* How much of a request of size bytes is served, and how much in one piece.
Served(size, available) == IF available <= size THEN available ELSE size
FirstPiece(n, unbroken) == IF unbroken >= n THEN n ELSE unbroken

\* Slip: a request larger than the room is not cut.
EnqueueUncut(data) ==
    LET n == Len(data)
    IN  /\ pBuffer' = CopyIn(data, n, iWrite, FirstPiece(n, UnbrokenEnqueue))
        /\ iWrite' = Advance(iWrite, n)
        /\ ret' = n
        /\ dest' = <<>>
        /\ UNCHANGED iRead

Enqueue(data) ==
    LET n == Served(Len(data), FreeSize)
    IN  /\ IF Full(iRead, iWrite)
             THEN ret' = 0 /\ UNCHANGED <<pBuffer, iWrite>>
             ELSE /\ pBuffer' = CopyIn(data, n, iWrite, FirstPiece(n, UnbrokenEnqueue))
                  /\ iWrite' = Advance(iWrite, n)
                  /\ ret' = n
        /\ dest' = <<>>
        /\ UNCHANGED iRead

\* The part Dequeue and Peek share.
ReadOut(size) ==
    LET n == Served(size, UseSize)
    IN  IF iRead = iWrite
          THEN ret' = 0 /\ dest' = <<>>
          ELSE ret' = n /\ dest' = CopyOut(n, iRead, FirstPiece(n, UnbrokenDequeue))

Dequeue(size) ==
    /\ ReadOut(size)
    /\ iRead' = Advance(iRead, ret')
    /\ UNCHANGED <<pBuffer, iWrite>>

Peek(size) ==
    /\ ReadOut(size)
    /\ UNCHANGED <<pBuffer, iRead, iWrite>>

\* The caller copies into one piece behind GetWriteBufferPtr(), no more than
\* GetUnbrokenEnqueueSize(), and calls MoveWritePos.
WriteDirect(data) ==
    /\ Len(data) <= UnbrokenEnqueue
    /\ pBuffer' = CopyIn(data, Len(data), iWrite, Len(data))
    /\ iWrite' = Advance(iWrite, Len(data))
    /\ ret' = Len(data)
    /\ dest' = <<>>
    /\ UNCHANGED iRead

\* The caller reads behind GetReadBufferPtr(), no more than
\* GetUnbrokenDequeueSize(), and calls MoveReadPos.
ReadDirect(size) ==
    /\ size <= UnbrokenDequeue
    /\ dest' = CopyOut(size, iRead, size)
    /\ ret' = size
    /\ iRead' = Advance(iRead, size)
    /\ UNCHANGED <<pBuffer, iWrite>>

Clear ==
    /\ iRead' = 0
    /\ iWrite' = 0
    /\ ret' = 0
    /\ dest' = <<>>
    /\ UNCHANGED pBuffer

Next ==
    \/ \E data \in Data : Enqueue(data) \/ WriteDirect(data)
    \/ \E size \in 0..MaxRequest : Dequeue(size) \/ Peek(size) \/ ReadDirect(size)
    \/ Clear

Spec == Init /\ [][Next]_vars

---------------------------------------------------------------------------
(* Properties *)

\* Both positions stay inside the array.
TypeOK ==
    /\ pBuffer \in [Positions -> Bytes]
    /\ iRead \in Positions
    /\ iWrite \in Positions
    /\ ret \in Nat
    /\ dest \in Seq(Bytes)

\* Whatever the positions, the two pieces of a copy stay inside the array and
\* cover what is asked for: a put never touches the byte before the read
\* position or unread bytes, a get never touches bytes that were not written.
PiecesInBounds ==
    /\ TypeOK
    /\ UseSize + FreeSize = BufferSize - 1
    /\ iWrite + UnbrokenEnqueue <= BufferSize
    /\ UnbrokenEnqueue <= FreeSize
    /\ UnbrokenEnqueue < FreeSize => iWrite + UnbrokenEnqueue = BufferSize
    /\ FreeSize - UnbrokenEnqueue <= (IF iRead = 0 THEN 0 ELSE iRead - 1)
    /\ iRead + UnbrokenDequeue <= BufferSize
    /\ UnbrokenDequeue <= UseSize
    /\ UnbrokenDequeue < UseSize => iRead + UnbrokenDequeue = BufferSize
    /\ UseSize - UnbrokenDequeue <= iWrite

\* The bytes between the positions, the oldest first.
Contents == [i \in 1..UseSize |-> pBuffer[Advance(iRead, i - 1)]]

\* CRingBuffer implements a queue of BufferSize - 1 bytes.
Fifo == INSTANCE ByteFifo WITH Capacity <- BufferSize - 1, fifo <- Contents
FifoSpec == Fifo!Spec

=============================================================================
