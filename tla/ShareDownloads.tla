--------------------------- MODULE ShareDownloads ---------------------------
(***************************************************************************)
(* Downloads over the life of the shares: the requests ShareResource       *)
(* answers, each on a thread of its own, while shares are created, expire  *)
(* and are removed as ShareLifecycle says.                                 *)
(*                                                                         *)
(* A request is admitted in one transaction, verifies the password without *)
(* one, counts the download in a second transaction, and then sends chunks *)
(* in calls between which anything may happen.  FileDownload and           *)
(* ArchiveZipper say what the chunks are; here a chunk is sent if the files *)
(* are there.                                                              *)
(***************************************************************************)
EXTENDS ShareLifecycle, FiniteSets

CONSTANTS
    Requests,      \* the download requests
    Passwords,     \* what a client may send as "p"
    NoPassword,    \* no "p" in the request, no password on the share
    Password,      \* Password[s]: the password of share s
    InPlace,       \* shares of fileshelter-cmd: no removal deletes their files
    Chunks,        \* the chunks of a complete response
    MaxTime        \* bound: hours the clock counts

ASSUME DownloadsAssumption ==
    /\ NoPassword \notin Passwords
    /\ Password \in [Shares -> Passwords \cup {NoPassword}]
    /\ InPlace \subseteq Shares
    /\ Chunks \in Nat \ {0}
    /\ Grace \in Nat /\ MaxValidity \in Nat

VARIABLES
    phase,         \* where each request is
    share,         \* the share it asks for
    password,      \* the password it gives
    askedAt,       \* when it was admitted
    sent,          \* the chunks sent
    readCount,     \* _readCount of each share
    withdrawn      \* shares whose removal was begun with the edit link

request == <<phase, share, password, askedAt, sent>>
allVars == <<vars, request, readCount, withdrawn>>

Ended    == {"done", "refused", "broken", "aborted"}
Phases   == {"idle", "verify", "count", "send"} \cup Ended

DownloadsInit ==
    /\ Init
    /\ phase = [r \in Requests |-> "idle"]
    /\ share \in [Requests -> Shares]
    /\ password \in [Requests -> Passwords \cup {NoPassword}]
    /\ askedAt = [r \in Requests |-> 0]
    /\ sent = [r \in Requests |-> 0]
    /\ readCount = [s \in Shares |-> 0]
    /\ withdrawn = {}
-----------------------------------------------------------------------------
IsExpired(s) == expiry[s] < now
Recorded(s)  == status[s] \in {"available", "removing", "damaged"}

Goto(r, p) == phase' = [phase EXCEPT ![r] = p]

\* Bug: a share is served until the cleaner removes it.
MayAskExpired(s, p) ==
    /\ Recorded(s)
    /\ (p = NoPassword) <=> (Password[s] = NoPassword)

\* getShareDesc, its transaction: the share exists, has not expired, and has a
\* password if and only if one is given.
MayAsk(s, p) ==
    /\ Recorded(s) /\ ~IsExpired(s)
    /\ (p = NoPassword) <=> (Password[s] = NoPassword)

Ask(r) ==
    /\ phase[r] = "idle"
    /\ IF MayAsk(share[r], password[r])
       THEN /\ Goto(r, IF password[r] = NoPassword THEN "count" ELSE "verify")
            /\ askedAt' = [askedAt EXCEPT ![r] = now]
       ELSE Goto(r, "refused") /\ UNCHANGED askedAt
    /\ UNCHANGED <<vars, share, password, sent, readCount, withdrawn>>

\* Bug: the download is counted and sent without looking at the password.
VerifyAny(r) ==
    /\ phase[r] = "verify"
    /\ Goto(r, "count")
    /\ UNCHANGED <<vars, share, password, askedAt, sent, readCount, withdrawn>>

\* The password is verified with the hash read in the transaction.
Verify(r) ==
    /\ phase[r] = "verify"
    /\ Goto(r, IF password[r] = Password[share[r]] THEN "count" ELSE "refused")
    /\ UNCHANGED <<vars, share, password, askedAt, sent, readCount, withdrawn>>

\* Bug: a share that expired since is treated as one that was removed.
CountUnexpired(r) ==
    /\ phase[r] = "count" /\ status[share[r]] # "removing"
    /\ Goto(r, "send")
    /\ readCount' = IF Recorded(share[r]) /\ ~IsExpired(share[r])
                    THEN [readCount EXCEPT ![share[r]] = @ + 1]
                    ELSE readCount
    /\ UNCHANGED <<vars, share, password, askedAt, sent, withdrawn>>

\* incrementReadCount: a share removed since is not counted, and not complained of.
Count(r) ==
    /\ phase[r] = "count" /\ status[share[r]] # "removing"
    /\ Goto(r, "send")
    /\ readCount' = IF Recorded(share[r])
                    THEN [readCount EXCEPT ![share[r]] = @ + 1]
                    ELSE readCount
    /\ UNCHANGED <<vars, share, password, askedAt, sent, withdrawn>>

\* The transaction fails, because another process is in one.
CountFails(r) ==
    /\ phase[r] = "count"
    /\ Goto(r, "refused")
    /\ UNCHANGED <<vars, share, password, askedAt, sent, readCount, withdrawn>>

FilesThere(s) == status[s] = "available" \/ s \in InPlace

\* During a removal, after one was interrupted, and where the system refused to
\* unlink, some files may be there.
FilesMayBeThere(s) == FilesThere(s) \/ status[s] \in {"removing", "damaged", "left"}

\* Bug: the end of the last file is seen by a call that has nothing to send.
SendChunkLate(r) ==
    /\ phase[r] = "send" /\ FilesMayBeThere(share[r])
    /\ sent' = [sent EXCEPT ![r] = @ + 1]
    /\ IF sent[r] = Chunks THEN Goto(r, "done") ELSE UNCHANGED phase
    /\ UNCHANGED <<vars, share, password, askedAt, readCount, withdrawn>>

\* One call of processRequest; the last chunk completes the response.
SendChunk(r) ==
    /\ phase[r] = "send" /\ FilesMayBeThere(share[r])
    /\ sent' = [sent EXCEPT ![r] = @ + 1]
    /\ IF sent[r] + 1 = Chunks THEN Goto(r, "done") ELSE UNCHANGED phase
    /\ UNCHANGED <<vars, share, password, askedAt, readCount, withdrawn>>

\* Bug: a missing file does not complete the response.
BreakWaiting(r) ==
    /\ phase[r] = "send" /\ ~FilesThere(share[r])
    /\ UNCHANGED allVars

\* A file cannot be opened any more: the response ends short, or with 404.
Break(r) ==
    /\ phase[r] = "send" /\ ~FilesThere(share[r])
    /\ Goto(r, "broken")
    /\ UNCHANGED <<vars, share, password, askedAt, sent, readCount, withdrawn>>

\* handleAbort: the client has gone.
Abort(r) ==
    /\ phase[r] = "send"
    /\ Goto(r, "aborted")
    /\ UNCHANGED <<vars, share, password, askedAt, sent, readCount, withdrawn>>

\* The life of the shares goes on; a removal of a share that has not expired is one
\* with the edit link.
Lifecycle ==
    /\ \/ /\ now < MaxTime /\ Tick
          /\ UNCHANGED withdrawn
       \/ /\ \E s \in Shares : Create(s) \/ Sweep(s)
          /\ UNCHANGED withdrawn
       \/ \E S \in SUBSET Shares :
             \/ /\ BeginRemoval(S)
                /\ withdrawn' = withdrawn \cup {s \in S : ~IsExpired(s)}
             \/ (EndRemoval(S) \/ AbandonRemoval(S)) /\ UNCHANGED withdrawn
    /\ UNCHANGED <<request, readCount>>

Handle(r) == Verify(r) \/ Count(r) \/ CountFails(r) \/ SendChunk(r) \/ Break(r)

DownloadsNext == Lifecycle \/ \E r \in Requests : Ask(r) \/ Handle(r) \/ Abort(r)

\* A thread goes on with its request; nobody has to ask, abort or remove.
DownloadsFairness == \A r \in Requests : WF_allVars(Handle(r))

DownloadsSpec == DownloadsInit /\ [][DownloadsNext]_allVars /\ DownloadsFairness
-----------------------------------------------------------------------------
TypeOK ==
    /\ phase \in [Requests -> Phases]
    /\ share \in [Requests -> Shares]
    /\ password \in [Requests -> Passwords \cup {NoPassword}]
    /\ askedAt \in [Requests -> Nat]
    /\ sent \in [Requests -> 0..Chunks]
    /\ readCount \in [Shares -> Nat]
    /\ withdrawn \subseteq Shares

\* "To make sure to not interrupt a download in progress": an admitted download is
\* broken only if the share was withdrawn with its edit link, or if it has been
\* running for more than Grace hours.
NotBrokenEarly ==
    \A r \in Requests :
        phase[r] = "broken" => share[r] \in withdrawn \/ now > askedAt[r] + Grace

\* Nobody gets a byte of a share without its password, nor by asking after its
\* expiry, however the calls of the two transactions and the removal interleave.
OnlyEntitledGetBytes ==
    \A r \in Requests : sent[r] > 0 =>
        password[r] = Password[share[r]] /\ askedAt[r] <= expiry[share[r]]

\* The download counter of the edit page: it has counted every response that got
\* bytes as long as the share is there, and no request with a wrong password.
DownloadsCounted ==
    \A s \in Shares :
        LET asking == {r \in Requests : share[r] = s}
        IN  /\ Recorded(s) =>
                  readCount[s] >= Cardinality({r \in asking : sent[r] > 0})
            /\ readCount[s] <= Cardinality({r \in asking : password[r] = Password[s]})

\* Every admitted request comes to an end, also when its share is removed.
RequestsEnd == \A r \in Requests : phase[r] # "idle" ~> phase[r] \in Ended
=============================================================================
