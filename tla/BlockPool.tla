----------------------------- MODULE BlockPool -----------------------------
(***************************************************************************)
(* What the memory pools promise: a block is handed out only while nobody  *)
(* has it, and comes back only from somebody who has it.                   *)
(***************************************************************************)
EXTENDS Naturals

CONSTANT Blocks

VARIABLE given   \* given[b]: how many callers have been handed b and still have it

Init == given = [b \in Blocks |-> 0]

Alloc(b) == given[b] = 0 /\ given' = [given EXCEPT ![b] = 1]
Free(b)  == given[b] = 1 /\ given' = [given EXCEPT ![b] = 0]

Next == \E b \in Blocks : Alloc(b) \/ Free(b)

Spec == Init /\ [][Next]_given

=============================================================================
