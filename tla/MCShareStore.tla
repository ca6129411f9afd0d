---------------------------- MODULE MCShareStore ----------------------------
(* Instances of ShareStore for TLC. *)
EXTENDS ShareStore, TLC

\* Every file has size 1: three of them reach a MaxShareSize of 3.
UnitSize == [f \in Files |-> 1]

Symmetry == Permutations(Shares) \cup Permutations(Uploads) \cup Permutations(Workers)
=============================================================================
