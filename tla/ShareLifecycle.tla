--------------------------- MODULE ShareLifecycle ---------------------------
(***************************************************************************)
(* What FileShelter promises about one share, whoever serves, edits or     *)
(* cleans it: a share is created once, stays whole until somebody is       *)
(* entitled to remove it, and never comes back.                            *)
(*                                                                         *)
(* status[s] is                                                            *)
(*   "absent"    not created yet                                           *)
(*   "available" recorded, and all the files it owns are there             *)
(*   "removing"  somebody is removing it                                   *)
(*   "damaged"   a removal was interrupted: recorded, but files are missing*)
(*   "gone"      not recorded any more, and none of its own files is left  *)
(*   "left"      not recorded any more, but the system refused to unlink   *)
(*               some of its files                                         *)
(* The clock counts hours.  ShareStore implements this module.             *)
(***************************************************************************)
EXTENDS Integers

CONSTANTS Shares,        \* the identities of shares
          MaxValidity,   \* max-validity-days, in hours
          Grace          \* hours an expired share is kept for ongoing downloads

VARIABLES now, status, expiry

vars == <<now, status, expiry>>

Statuses == {"absent", "available", "removing", "damaged", "gone", "left"}

Init == /\ now = 0
        /\ status = [s \in Shares |-> "absent"]
        /\ expiry = [s \in Shares |-> 0]

Tick == /\ now' = now + 1
        /\ UNCHANGED <<status, expiry>>

Create(s) ==
    /\ status[s] = "absent"
    /\ status' = [status EXCEPT ![s] = "available"]
    /\ \E v \in 0..MaxValidity : expiry' = [expiry EXCEPT ![s] = now + v]
    /\ UNCHANGED now

\* The holder of the edit link may remove a share that has not expired, the
\* cleaner may remove one that expired more than Grace hours ago; between the
\* two nobody may.
MayRemove(s) == now <= expiry[s] \/ now > expiry[s] + Grace

BeginRemoval(S) ==
    /\ \A s \in S : status[s] \in {"available", "damaged"} /\ MayRemove(s)
    /\ status' = [s \in Shares |-> IF s \in S THEN "removing" ELSE status[s]]
    /\ UNCHANGED <<now, expiry>>

EndRemoval(S) ==
    /\ \A s \in S : status[s] = "removing"
    /\ status' \in [Shares -> Statuses]
    /\ \A s \in Shares : IF s \in S THEN status'[s] \in {"gone", "left"}
                                    ELSE status'[s] = status[s]
    /\ UNCHANGED <<now, expiry>>

\* A scan of the upload directory gets hold of what was left.
Sweep(s) ==
    /\ status[s] = "left"
    /\ status' = [status EXCEPT ![s] = "gone"]
    /\ UNCHANGED <<now, expiry>>

\* The removal fails or its process dies: the share is back, whole or not.
AbandonRemoval(S) ==
    /\ \A s \in S : status[s] = "removing"
    /\ status' \in [Shares -> Statuses]
    /\ \A s \in Shares : IF s \in S THEN status'[s] \in {"available", "damaged"}
                                    ELSE status'[s] = status[s]
    /\ UNCHANGED <<now, expiry>>

Next == \/ Tick
        \/ \E s \in Shares : Create(s) \/ Sweep(s)
        \/ \E S \in SUBSET Shares :
              BeginRemoval(S) \/ EndRemoval(S) \/ AbandonRemoval(S)

Spec == Init /\ [][Next]_vars
=============================================================================
