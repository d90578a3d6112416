---------------------------- MODULE MCDeltaWriter ----------------------------
(***************************************************************************)
(* DeltaWriter for three executions over two natural keys.                 *)
(***************************************************************************)
EXTENDS DeltaWriter, TLC

\* The model does not tell one key or payload from another.
Symmetry == Permutations(Keys) \cup Permutations(Payloads)
=============================================================================
