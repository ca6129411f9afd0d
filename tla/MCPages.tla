------------------------------- MODULE MCPages -------------------------------
(* Instances of Pages for TLC: s1 has a password, s2 has none. *)
EXTENDS Pages, TLC

CONSTANTS s1, s2, secret, upload

\* The list begins with an empty string, and has an element that is no string behind
\* the only password.
PasswordList == <<EmptyString, upload, NotAString, secret>>

PasswordOf == (s1 :> secret) @@ (s2 :> NoPassword)

Symmetry == Permutations(Sessions)
=============================================================================
