-------------------------- MODULE MessageDispatch --------------------------
(***************************************************************************)
(* What the message queue of Thread_queue and the pipeline of              *)
(* Thread_DBSave promise their users, without locks, events or a ring      *)
(* buffer: producers post messages into a bounded pipe, every message is   *)
(* taken in the order it was posted by exactly one worker, which handles   *)
(* it once, and workers leave only after the pipe is closed and empty.     *)
(***************************************************************************)
EXTENDS Naturals, Sequences

CONSTANTS Workers,   \* the worker threads
          Messages,  \* the messages the producers may post
          Capacity   \* how many messages fit into the pipe

VARIABLES posted,    \* the messages posted so far
          pending,   \* the messages waiting, oldest first
          hand,      \* hand[w]: the message w is handling, {} when there is none
          handled,   \* the messages whose handling is over
          closed,    \* the end has been announced
          left,      \* the workers that are gone
          halted     \* the process has stopped for another reason

vars == <<posted, pending, hand, handled, closed, left, halted>>

Init ==
    /\ posted = {}
    /\ pending = <<>>
    /\ hand = [w \in Workers |-> {}]
    /\ handled = {}
    /\ closed = FALSE
    /\ left = {}
    /\ halted = FALSE

\* A producer adds a new message if there is room.
Post(m) ==
    /\ ~closed
    /\ m \notin posted
    /\ Len(pending) < Capacity
    /\ posted' = posted \cup {m}
    /\ pending' = Append(pending, m)
    /\ UNCHANGED <<hand, handled, closed, left, halted>>

\* A worker that holds nothing takes the oldest message.
Take(w) ==
    /\ w \notin left
    /\ hand[w] = {}
    /\ pending # <<>>
    /\ hand' = [hand EXCEPT ![w] = {Head(pending)}]
    /\ pending' = Tail(pending)
    /\ UNCHANGED <<posted, handled, closed, left, halted>>

\* A worker is done with its message.
Handle(w) ==
    /\ hand[w] # {}
    /\ handled' = handled \cup hand[w]
    /\ hand' = [hand EXCEPT ![w] = {}]
    /\ UNCHANGED <<posted, pending, closed, left, halted>>

\* It is announced that no message follows.
Close ==
    /\ ~closed
    /\ closed' = TRUE
    /\ UNCHANGED <<posted, pending, hand, handled, left, halted>>

\* A worker leaves: nothing waits and it holds nothing.
Leave(w) ==
    /\ closed
    /\ pending = <<>>
    /\ hand[w] = {}
    /\ left' = left \cup {w}
    /\ UNCHANGED <<posted, pending, hand, handled, closed, halted>>

Halt ==
    /\ halted' = TRUE
    /\ UNCHANGED <<posted, pending, hand, handled, closed, left>>

Next ==
    /\ ~halted
    /\ \/ Close
       \/ Halt
       \/ \E m \in Messages : Post(m)
       \/ \E w \in Workers : Take(w) \/ Handle(w) \/ Leave(w)

Spec == Init /\ [][Next]_vars

=============================================================================
