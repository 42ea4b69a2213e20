------------------------------ MODULE RingOps ------------------------------
(* The size arithmetic of CRingBuffer over its read and write positions. *)
EXTENDS Integers

CONSTANT BufferSize   \* _iBufferSize

ASSUME BufferSizeAssumption == BufferSize \in Nat /\ BufferSize > 1

Positions == 0..BufferSize - 1

GetUseSize(iRead, iWrite) ==
    IF iWrite >= iRead THEN iWrite - iRead ELSE (BufferSize - iRead) + iWrite

GetFreeSize(iRead, iWrite) == BufferSize - GetUseSize(iRead, iWrite) - 1

GetUnbrokenDequeueSize(iRead, iWrite) ==
    IF iWrite >= iRead THEN iWrite - iRead ELSE BufferSize - iRead

Full(iRead, iWrite) == (iWrite + 1) % BufferSize = iRead

\* The last position that may be written lies just before the read position.
LastWritable(iRead) == (iRead + BufferSize - 1) % BufferSize

\* Slip: the end of the array instead of the position before iRead.
UnbrokenToEnd(iRead, iWrite) == BufferSize - iWrite
GetUnbrokenEnqueueSize(iRead, iWrite) ==
    IF Full(iRead, iWrite) THEN 0
    ELSE IF iWrite <= LastWritable(iRead) THEN LastWritable(iRead) - iWrite
    ELSE BufferSize - iWrite

Advance(pos, n) == (pos + n) % BufferSize
=============================================================================
