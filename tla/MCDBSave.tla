------------------------------ MODULE MCDBSave ------------------------------
(* Small instances of DBSave for TLC. *)
EXTENDS DBSave, TLC

\* Updaters run the same code, and the pool may hand out any free header.
Symmetry == Permutations(Updaters) \cup Permutations(Headers)
=============================================================================
