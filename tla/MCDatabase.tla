----------------------------- MODULE MCDatabase -----------------------------
(* Instances of Database for TLC. *)
EXTENDS Database

CONSTANTS s1, s2

\* list, create, and destroy with two shares.
Scripts ==
    {<<Job("list", Server)>>, <<Job("create", s2)>>, <<Job("destroy", s1), Job("destroy", s2)>>}
=============================================================================
