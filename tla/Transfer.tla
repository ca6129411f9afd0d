------------------------------ MODULE Transfer ------------------------------
(***************************************************************************)
(* What a response promises to the client of a download: the pieces of one *)
(* share (the bytes of its file, or its files), in order, none left out    *)
(* and none twice, and all of them if it is complete; each piece whole,    *)
(* unless somebody changed the files.                                      *)
(***************************************************************************)
EXTENDS Integers, Sequences, SequencesExt

CONSTANT Pieces

VARIABLES
    owed,       \* what the response is about to deliver
    got,        \* what it has delivered
    damaged,    \* the positions in got of pieces that are not whole
    end,        \* "going", "refused", "complete", "cut", "stuck" or "aborted"
    disturbed   \* files were changed behind the server's back

vars == <<owed, got, damaged, end, disturbed>>

Init == /\ owed \in Seq(Pieces) /\ got = <<>> /\ damaged = {}
        /\ end = "going" /\ disturbed = FALSE

Disturb == disturbed' = TRUE /\ UNCHANGED <<owed, got, damaged, end>>

\* What is owed is settled with the first piece, and what was delivered stays as it
\* is.  Only a disturbed response has pieces that are not whole, is cut off by the
\* server, or never ends.
Deliver ==
    /\ end = "going"
    /\ owed' \in Seq(Pieces) /\ (got # <<>> => owed' = owed)
    /\ IsPrefix(got, got') /\ IsPrefix(got', owed')
    /\ damaged \subseteq damaged' /\ damaged' \ damaged \subseteq Len(got) + 1..Len(got')
    /\ damaged' # {} => disturbed
    /\ \/ end' = "going"
       \/ end' = "complete" /\ got' = owed'
       \/ end' \in {"cut", "stuck"} /\ disturbed
    /\ UNCHANGED disturbed

Refuse == /\ end = "going" /\ got = <<>>
          /\ end' = "refused" /\ UNCHANGED <<owed, got, damaged, disturbed>>

\* The client goes away.
Abort == end = "going" /\ end' = "aborted" /\ UNCHANGED <<owed, got, damaged, disturbed>>

Next == Disturb \/ Deliver \/ Refuse \/ Abort

Spec == Init /\ [][Next]_vars
=============================================================================
