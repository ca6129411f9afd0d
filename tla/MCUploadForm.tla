---------------------------- MODULE MCUploadForm ----------------------------
(* Instances of UploadForm for TLC: a and c share a name, and so do b and d. *)
EXTENDS UploadForm, TLC

CONSTANTS a, b, c, d

Names == (a :> "x") @@ (b :> "y") @@ (c :> "x") @@ (d :> "y")

\* a and b together reach a limit of 3, b and c exceed it; d is empty.
Sizes == (a :> 1) @@ (b :> 2) @@ (c :> 2) @@ (d :> 0)
=============================================================================
