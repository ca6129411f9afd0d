-------------------------- MODULE MCShareDownloads --------------------------
(* Instances of ShareDownloads for TLC: every share has the password "right". *)
EXTENDS ShareDownloads

CONSTANTS right, wrong

PasswordOf == [s \in Shares |-> right]
=============================================================================
