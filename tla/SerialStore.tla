----------------------------- MODULE SerialStore -----------------------------
(***************************************************************************)
(* What the transactions on the database promise together: each operation  *)
(* of a thread happens at one moment, as if it ran alone, or is refused    *)
(* and does nothing.  A share is here its download counter.                *)
(***************************************************************************)
EXTENDS Integers

CONSTANTS Shares, Threads

Absent == -1    \* no such share
Unread == -2    \* a share that was not looked at

VARIABLES
    table,   \* the counter of each share, or Absent
    answer   \* what each thread was told last

vars == <<table, answer>>

\* A word, and what was shown of the shares.
Blank      == [s \in Shares |-> Unread]
Tell(w, v) == [word |-> w, view |-> v]

Told(t, w, v) == answer' = [answer EXCEPT ![t] = Tell(w, v)]

Init ==
    /\ table \in [Shares -> Int]
    /\ answer = [t \in Threads |-> Tell("nothing", Blank)]
-----------------------------------------------------------------------------
\* The share as it is now, or "not found".
Describe(t, s) ==
    /\ IF table[s] = Absent THEN Told(t, "not found", Blank)
       ELSE Told(t, "shown", [Blank EXCEPT ![s] = table[s]])
    /\ UNCHANGED table

\* All shares as they are now.
List(t) == Told(t, "shown", table) /\ UNCHANGED table

Create(t, s) ==
    /\ table[s] = Absent
    /\ table' = [table EXCEPT ![s] = 0]
    /\ Told(t, "done", Blank)

\* A share that is gone is not counted, and not complained of.
Count(t, s) ==
    /\ table' = [table EXCEPT ![s] = IF @ = Absent THEN Absent ELSE @ + 1]
    /\ Told(t, "done", Blank)

Destroy(t, s) ==
    /\ table' = [table EXCEPT ![s] = Absent]
    /\ Told(t, IF table[s] = Absent THEN "not found" ELSE "done", Blank)

\* The schema is prepared, or found too old: nobody sees it in the shares.
Prepare(t) ==
    /\ \E word \in {"nothing", "too old"} : Told(t, word, Blank)
    /\ UNCHANGED table

Refuse(t) == Told(t, "refused", Blank) /\ UNCHANGED table

Next ==
    \E t \in Threads :
        \/ List(t) \/ Prepare(t) \/ Refuse(t)
        \/ \E s \in Shares : Describe(t, s) \/ Create(t, s) \/ Count(t, s) \/ Destroy(t, s)

Spec == Init /\ [][Next]_vars
=============================================================================
