---------------------------- MODULE MCResponses ----------------------------
(* Instances of Responses for TLC: a share of one file, or of two. *)
EXTENDS Responses

CONSTANTS f1, f2

TwoFiles == <<f1, f2>>
=============================================================================
