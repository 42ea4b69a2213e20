----------------------------- MODULE LifoStack -----------------------------
(***************************************************************************)
(* What CLFStack promises: the value taken is the one put last among those *)
(* still there.  A Pop may also fail and change nothing; when it may is    *)
(* said where the calls are visible.                                       *)
(***************************************************************************)
EXTENDS Sequences

CONSTANTS Values,
          Nothing   \* no value has been taken yet

VARIABLES stack,   \* the values, last one first
          result   \* the value taken last

Init == stack = <<>> /\ result = Nothing

Push(v) == stack' = <<v>> \o stack /\ UNCHANGED result
Pop     == stack # <<>> /\ result' = Head(stack) /\ stack' = Tail(stack)

Next == Pop \/ \E v \in Values : Push(v)

Spec == Init /\ [][Next]_<<stack, result>>

=============================================================================
