------------------------------ MODULE ByteFifo ------------------------------
(***************************************************************************)
(* What CRingBuffer promises: a queue of at most Capacity bytes.  A put    *)
(* takes as many bytes as fit, a get returns as many as there are, both    *)
(* report how many, and a peek leaves the queue as it is.                  *)
(***************************************************************************)
EXTENDS Integers, Sequences

CONSTANTS Bytes, Capacity,
          MaxRequest   \* bound: the largest size a caller asks for

VARIABLES fifo,   \* the bytes in the queue, oldest first
          ret,    \* the size the last operation returned
          dest    \* the bytes the last operation returned

vars == <<fifo, ret, dest>>

Least(a, b) == IF a < b THEN a ELSE b
Data == UNION {[1..n -> Bytes] : n \in 0..MaxRequest}

Init == fifo = <<>> /\ ret = 0 /\ dest = <<>>

Put(data) ==
    LET n == Least(Len(data), Capacity - Len(fifo))
    IN  /\ fifo' = fifo \o SubSeq(data, 1, n)
        /\ ret' = n
        /\ dest' = <<>>

Read(size) ==
    LET n == Least(size, Len(fifo))
    IN  dest' = SubSeq(fifo, 1, n) /\ ret' = n

Get(size) == Read(size) /\ fifo' = SubSeq(fifo, ret' + 1, Len(fifo))

Peek(size) == Read(size) /\ UNCHANGED fifo

Clear == fifo' = <<>> /\ ret' = 0 /\ dest' = <<>>

Next == \/ \E data \in Data : Put(data)
        \/ \E size \in 0..MaxRequest : Get(size) \/ Peek(size)
        \/ Clear

Spec == Init /\ [][Next]_vars
=============================================================================
