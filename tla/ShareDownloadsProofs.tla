------------------------ MODULE ShareDownloadsProofs ------------------------
(* Theorems about ShareDownloads, for any shares, requests and passwords. *)
EXTENDS ShareDownloads, FiniteSetTheorems, TLAPS

LifecycleType ==
    /\ now \in Nat
    /\ status \in [Shares -> Statuses]
    /\ expiry \in [Shares -> Nat]

\* A share is only missing files once somebody entitled has begun to remove it.
LossIsEntitled ==
    \A s \in Shares :
        status[s] \in {"removing", "damaged", "gone", "left"} =>
            s \in withdrawn \/ now > expiry[s] + Grace

\* Admitted requests asked for a share that existed and had not expired.
AdmittedInTime ==
    \A r \in Requests :
        phase[r] \in {"verify", "count", "send", "done", "broken", "aborted"} =>
            /\ status[share[r]] # "absent"
            /\ askedAt[r] <= expiry[share[r]]

\* Requests that were counted, and only those, have been sent anything, they gave
\* the password, and while they are being sent there is something left to send.
SendingIsVerified ==
    \A r \in Requests :
        /\ sent[r] > 0 => phase[r] \in {"send", "done", "broken", "aborted"}
        /\ phase[r] = "send" => sent[r] < Chunks
        /\ phase[r] \in {"count", "send", "done", "broken", "aborted"} =>
              password[r] = Password[share[r]]

DInv ==
    /\ LifecycleType /\ TypeOK
    /\ LossIsEntitled /\ AdmittedInTime /\ SendingIsVerified /\ NotBrokenEarly

\* The empty system.
LEMMA DownloadsInitInv == DownloadsInit => DInv
<1> SUFFICES ASSUME DownloadsInit PROVE DInv
  OBVIOUS
<1> USE DEF DownloadsInit, Init
<1>1. LifecycleType
  BY DEF LifecycleType, Statuses
<1>2. TypeOK
  BY DownloadsAssumption DEF TypeOK, Phases
<1>3. LossIsEntitled
  BY DEF LossIsEntitled
<1>4. AdmittedInTime /\ SendingIsVerified /\ NotBrokenEarly
  BY DEF AdmittedInTime, SendingIsVerified, NotBrokenEarly
<1> QED BY <1>1, <1>2, <1>3, <1>4 DEF DInv

\* What the steps of the lifecycle have in common: the clock does not go back,
\* shares that exist keep their expiry, and a loss is entitled.
LifecycleKeeps ==
    /\ LifecycleType'
    /\ now <= now' /\ withdrawn \subseteq withdrawn' /\ withdrawn' \subseteq Shares
    /\ \A s \in Shares : status[s] # "absent" => status'[s] # "absent" /\ expiry'[s] = expiry[s]
    /\ LossIsEntitled'
    /\ UNCHANGED <<request, readCount>>

\* Each step of the lifecycle is of that kind.
LEMMA LifecycleStep == DInv /\ Lifecycle => LifecycleKeeps
<1> SUFFICES ASSUME DInv, Lifecycle PROVE LifecycleKeeps
  OBVIOUS
<1>0. /\ LifecycleType /\ LossIsEntitled /\ withdrawn \subseteq Shares
      /\ Grace \in Nat /\ MaxValidity \in Nat /\ UNCHANGED <<request, readCount>>
  BY DownloadsAssumption DEF DInv, TypeOK, Lifecycle
<1>1. CASE Tick /\ UNCHANGED withdrawn
  <2>1. now' = now + 1 /\ UNCHANGED <<status, expiry, withdrawn>>
    BY <1>1 DEF Tick
  <2> QED BY <1>0, <2>1 DEF LifecycleKeeps, LifecycleType, LossIsEntitled
<1>2. ASSUME NEW s \in Shares, Create(s), UNCHANGED withdrawn PROVE LifecycleKeeps
  <2>1. PICK v \in 0..MaxValidity : expiry' = [expiry EXCEPT ![s] = now + v]
    BY <1>2 DEF Create
  <2>2. /\ status[s] = "absent" /\ status' = [status EXCEPT ![s] = "available"]
        /\ UNCHANGED <<now, withdrawn>>
    BY <1>2 DEF Create
  <2>3. LifecycleType'
    BY <1>0, <2>1, <2>2 DEF LifecycleType, Statuses
  <2>4. LossIsEntitled'
    BY <1>0, <2>1, <2>2 DEF LifecycleType, LossIsEntitled
  <2> QED BY <1>0, <2>1, <2>2, <2>3, <2>4 DEF LifecycleKeeps, LifecycleType
<1>3. ASSUME NEW S \in SUBSET Shares, BeginRemoval(S),
             withdrawn' = withdrawn \cup {s \in S : ~IsExpired(s)}
      PROVE  LifecycleKeeps
  <2>1. /\ \A s \in S : status[s] \in {"available", "damaged"} /\ MayRemove(s)
        /\ status' = [s \in Shares |-> IF s \in S THEN "removing" ELSE status[s]]
        /\ UNCHANGED <<now, expiry>>
    BY <1>3 DEF BeginRemoval
  <2>2. LifecycleType'
    BY <1>0, <2>1 DEF LifecycleType, Statuses
  <2>3. ASSUME NEW s \in S PROVE s \in withdrawn' \/ now > expiry[s] + Grace
    <3>1. now \in Int /\ expiry[s] \in Int
      BY <1>0 DEF LifecycleType
    <3>2. ~IsExpired(s) \/ now > expiry[s] + Grace
      BY <1>0, <2>1, <3>1 DEF MayRemove, IsExpired
    <3> QED BY <1>3, <3>2
  <2>4. LossIsEntitled'
    BY <1>0, <1>3, <2>1, <2>3 DEF LossIsEntitled, LifecycleType
  <2> QED BY <1>0, <1>3, <2>1, <2>2, <2>4 DEF LifecycleKeeps, LifecycleType
<1>4. ASSUME NEW S \in SUBSET Shares, EndRemoval(S), UNCHANGED withdrawn
      PROVE  LifecycleKeeps
  <2>1. /\ \A s \in S : status[s] = "removing"
        /\ status' \in [Shares -> Statuses]
        /\ \A s \in Shares : IF s \in S THEN status'[s] \in {"gone", "left"}
                                        ELSE status'[s] = status[s]
        /\ UNCHANGED <<now, expiry, withdrawn>>
    BY <1>4 DEF EndRemoval
  <2> QED BY <1>0, <2>1 DEF LifecycleKeeps, LifecycleType, LossIsEntitled
<1>5. ASSUME NEW S \in SUBSET Shares, AbandonRemoval(S), UNCHANGED withdrawn
      PROVE  LifecycleKeeps
  <2>1. /\ \A s \in S : status[s] = "removing"
        /\ status' \in [Shares -> Statuses]
        /\ \A s \in Shares : IF s \in S THEN status'[s] \in {"available", "damaged"}
                                        ELSE status'[s] = status[s]
        /\ UNCHANGED <<now, expiry, withdrawn>>
    BY <1>5 DEF AbandonRemoval
  <2> QED BY <1>0, <2>1 DEF LifecycleKeeps, LifecycleType, LossIsEntitled
<1>6. ASSUME NEW s \in Shares, Sweep(s), UNCHANGED withdrawn PROVE LifecycleKeeps
  <2>1. /\ status[s] = "left" /\ status' = [status EXCEPT ![s] = "gone"]
        /\ UNCHANGED <<now, expiry, withdrawn>>
    BY <1>6 DEF Sweep
  <2> QED BY <1>0, <2>1 DEF LifecycleKeeps, LifecycleType, LossIsEntitled, Statuses
<1> QED BY <1>1, <1>2, <1>3, <1>4, <1>5, <1>6 DEF Lifecycle

\* A step of the lifecycle leaves the requests in order: it can only make a loss
\* older or more entitled.
LEMMA LifecycleInv == DInv /\ LifecycleKeeps => DInv'
<1> SUFFICES ASSUME DInv, LifecycleKeeps PROVE DInv'
  OBVIOUS
<1> USE DEF request
<1>1. TypeOK'
  BY DEF DInv, TypeOK, LifecycleKeeps
<1>2. AdmittedInTime'
  <2> SUFFICES ASSUME NEW r \in Requests,
                      phase[r] \in {"verify", "count", "send", "done", "broken", "aborted"}
               PROVE  status'[share[r]] # "absent" /\ askedAt[r] <= expiry'[share[r]]
    BY DEF AdmittedInTime, LifecycleKeeps
  <2> QED BY DEF DInv, TypeOK, AdmittedInTime, LifecycleKeeps
<1>3. SendingIsVerified'
  BY DEF DInv, SendingIsVerified, LifecycleKeeps
<1>4. NotBrokenEarly'
  <2> SUFFICES ASSUME NEW r \in Requests, phase[r] = "broken"
               PROVE  share[r] \in withdrawn' \/ now' > askedAt[r] + Grace
    BY DEF NotBrokenEarly, LifecycleKeeps
  <2>1. share[r] \in withdrawn \/ now > askedAt[r] + Grace
    BY DEF DInv, NotBrokenEarly
  <2>2. now \in Int /\ now' \in Int /\ askedAt[r] \in Int /\ Grace \in Int
    BY DownloadsAssumption DEF DInv, LifecycleKeeps, LifecycleType, TypeOK
  <2> QED BY <2>1, <2>2 DEF LifecycleKeeps
<1> QED BY <1>1, <1>2, <1>3, <1>4 DEF DInv, LifecycleKeeps

\* What a step of one request has to show: nothing changes but that request, and it
\* is in order afterwards.
LEMMA RequestInv ==
    ASSUME DInv, NEW r \in Requests, NEW p \in Phases, NEW a \in Nat, NEW n \in 0..Chunks,
           UNCHANGED <<vars, share, password, withdrawn>>,
           phase' = [phase EXCEPT ![r] = p],
           askedAt' = [askedAt EXCEPT ![r] = a],
           sent' = [sent EXCEPT ![r] = n],
           readCount' \in [Shares -> Nat],
           p \in {"verify", "count", "send", "done", "broken", "aborted"} =>
               status[share[r]] # "absent" /\ a <= expiry[share[r]],
           n > 0 => p \in {"send", "done", "broken", "aborted"},
           p = "send" => n < Chunks,
           p \in {"count", "send", "done", "broken", "aborted"} =>
               password[r] = Password[share[r]],
           p = "broken" => share[r] \in withdrawn \/ now > a + Grace
    PROVE  DInv'
<1> USE DEF vars
<1>1. LifecycleType' /\ LossIsEntitled'
  BY DEF DInv, LifecycleType, LossIsEntitled
<1>2. TypeOK'
  BY DEF DInv, TypeOK
<1>3. \A q \in Requests :
        IF q = r THEN phase'[q] = p /\ askedAt'[q] = a /\ sent'[q] = n
        ELSE phase'[q] = phase[q] /\ askedAt'[q] = askedAt[q] /\ sent'[q] = sent[q]
  BY DEF DInv, TypeOK
<1>4. AdmittedInTime'
  BY <1>3 DEF DInv, AdmittedInTime
<1>5. SendingIsVerified'
  BY <1>3 DEF DInv, SendingIsVerified
<1>6. NotBrokenEarly'
  BY <1>3 DEF DInv, NotBrokenEarly
<1> QED BY <1>1, <1>2, <1>4, <1>5, <1>6 DEF DInv

\* Every step keeps the invariant.
LEMMA DownloadsNextInv == DInv /\ [DownloadsNext]_allVars => DInv'
<1> SUFFICES ASSUME DInv, [DownloadsNext]_allVars PROVE DInv'
  OBVIOUS
<1>0. /\ TypeOK /\ LifecycleType /\ LossIsEntitled /\ AdmittedInTime /\ SendingIsVerified
      /\ Grace \in Nat /\ Chunks \in Nat \ {0}
      /\ Password \in [Shares -> Passwords \cup {NoPassword}]
  BY DownloadsAssumption DEF DInv
<1>1. CASE Lifecycle
  BY <1>1, LifecycleStep, LifecycleInv
<1>2. ASSUME NEW r \in Requests, Ask(r) PROVE DInv'
  <2>1. /\ askedAt = [askedAt EXCEPT ![r] = askedAt[r]] /\ askedAt[r] \in Nat
        /\ sent = [sent EXCEPT ![r] = sent[r]] /\ sent[r] \in 0..Chunks
        /\ share[r] \in Shares /\ readCount \in [Shares -> Nat]
    BY <1>0 DEF TypeOK
  <2>2. /\ phase[r] = "idle" /\ UNCHANGED <<vars, share, password, withdrawn>>
        /\ UNCHANGED <<sent, readCount>> /\ ~(sent[r] > 0)
    BY <1>0, <1>2 DEF Ask, SendingIsVerified
  <2>3. CASE MayAsk(share[r], password[r])
    <3> DEFINE p == IF password[r] = NoPassword THEN "count" ELSE "verify"
    <3>1. phase' = [phase EXCEPT ![r] = p] /\ askedAt' = [askedAt EXCEPT ![r] = now]
      BY <1>2, <2>3 DEF Ask, Goto
    <3>2. status[share[r]] # "absent" /\ now \in Nat /\ now <= expiry[share[r]]
      BY <1>0, <2>1, <2>3 DEF MayAsk, Recorded, IsExpired, LifecycleType
    <3>3. p = "count" => password[r] = Password[share[r]]
      BY <2>3 DEF MayAsk
    <3>4. p \in {"count", "verify"} /\ p \in Phases
      BY DEF Phases
    <3> HIDE DEF p
    <3> QED BY <2>1, <2>2, <3>1, <3>2, <3>3, <3>4, RequestInv
  <2>4. CASE ~MayAsk(share[r], password[r])
    <3>1. phase' = [phase EXCEPT ![r] = "refused"] /\ UNCHANGED askedAt
      BY <1>2, <2>4 DEF Ask, Goto
    <3> QED BY <2>1, <2>2, <3>1, RequestInv DEF Phases, Ended
  <2> QED BY <2>3, <2>4
<1>3. ASSUME NEW r \in Requests, Verify(r) PROVE DInv'
  <2>1. /\ askedAt = [askedAt EXCEPT ![r] = askedAt[r]] /\ askedAt[r] \in Nat
        /\ sent = [sent EXCEPT ![r] = sent[r]] /\ sent[r] \in 0..Chunks
        /\ share[r] \in Shares /\ readCount \in [Shares -> Nat]
    BY <1>0 DEF TypeOK
  <2>2. /\ phase[r] = "verify" /\ UNCHANGED <<vars, share, password, withdrawn>>
        /\ UNCHANGED <<askedAt, sent, readCount>> /\ ~(sent[r] > 0)
        /\ status[share[r]] # "absent" /\ askedAt[r] <= expiry[share[r]]
    BY <1>0, <1>3 DEF Verify, SendingIsVerified, AdmittedInTime
  <2>3. CASE password[r] = Password[share[r]]
    <3>1. phase' = [phase EXCEPT ![r] = "count"]
      BY <1>3, <2>3 DEF Verify, Goto
    <3> QED BY <2>1, <2>2, <2>3, <3>1, RequestInv DEF Phases
  <2>4. CASE password[r] # Password[share[r]]
    <3>1. phase' = [phase EXCEPT ![r] = "refused"]
      BY <1>3, <2>4 DEF Verify, Goto
    <3> QED BY <2>1, <2>2, <3>1, RequestInv DEF Phases, Ended
  <2> QED BY <2>3, <2>4
<1>4. ASSUME NEW r \in Requests, Count(r) PROVE DInv'
  <2>1. /\ askedAt = [askedAt EXCEPT ![r] = askedAt[r]] /\ askedAt[r] \in Nat
        /\ sent = [sent EXCEPT ![r] = sent[r]] /\ sent[r] \in 0..Chunks
        /\ share[r] \in Shares /\ readCount \in [Shares -> Nat]
    BY <1>0 DEF TypeOK
  <2>2. /\ phase[r] = "count" /\ UNCHANGED <<vars, share, password, withdrawn>>
        /\ phase' = [phase EXCEPT ![r] = "send"] /\ UNCHANGED <<askedAt, sent>>
        /\ ~(sent[r] > 0)
        /\ status[share[r]] # "absent" /\ askedAt[r] <= expiry[share[r]]
        /\ password[r] = Password[share[r]]
    BY <1>0, <1>4 DEF Count, Goto, SendingIsVerified, AdmittedInTime
  <2>3. readCount' \in [Shares -> Nat]
    BY <1>4, <2>1 DEF Count
  <2>4. sent[r] < Chunks
    BY <1>0, <2>1, <2>2
  <2> QED BY <2>1, <2>2, <2>3, <2>4, RequestInv DEF Phases
<1>5. ASSUME NEW r \in Requests, CountFails(r) PROVE DInv'
  <2>1. /\ askedAt = [askedAt EXCEPT ![r] = askedAt[r]] /\ askedAt[r] \in Nat
        /\ sent = [sent EXCEPT ![r] = sent[r]] /\ sent[r] \in 0..Chunks
        /\ share[r] \in Shares /\ readCount \in [Shares -> Nat]
    BY <1>0 DEF TypeOK
  <2>2. /\ phase[r] = "count" /\ UNCHANGED <<vars, share, password, withdrawn>>
        /\ phase' = [phase EXCEPT ![r] = "refused"]
        /\ UNCHANGED <<askedAt, sent, readCount>> /\ ~(sent[r] > 0)
    BY <1>0, <1>5 DEF CountFails, Goto, SendingIsVerified
  <2> QED BY <2>1, <2>2, RequestInv DEF Phases, Ended
<1>6. ASSUME NEW r \in Requests, SendChunk(r) PROVE DInv'
  <2>1. /\ askedAt = [askedAt EXCEPT ![r] = askedAt[r]] /\ askedAt[r] \in Nat
        /\ sent = [sent EXCEPT ![r] = sent[r]] /\ sent[r] \in 0..Chunks
        /\ share[r] \in Shares /\ readCount \in [Shares -> Nat]
    BY <1>0 DEF TypeOK
  <2>2. /\ phase[r] = "send" /\ UNCHANGED <<vars, share, password, withdrawn>>
        /\ sent' = [sent EXCEPT ![r] = sent[r] + 1] /\ UNCHANGED <<askedAt, readCount>>
        /\ sent[r] < Chunks
        /\ status[share[r]] # "absent" /\ askedAt[r] <= expiry[share[r]]
        /\ password[r] = Password[share[r]]
    BY <1>0, <1>6 DEF SendChunk, SendingIsVerified, AdmittedInTime
  <2>3. CASE sent[r] + 1 = Chunks
    <3>1. phase' = [phase EXCEPT ![r] = "done"]
      BY <1>6, <2>3 DEF SendChunk, Goto
    <3>2. sent[r] + 1 \in 0..Chunks
      BY <1>0, <2>1, <2>2
    <3> QED BY <2>1, <2>2, <3>1, <3>2, RequestInv DEF Phases, Ended
  <2>4. CASE sent[r] + 1 # Chunks
    <3>1. phase' = [phase EXCEPT ![r] = "send"]
      BY <1>0, <1>6, <2>2, <2>4 DEF SendChunk, TypeOK
    <3>2. sent[r] + 1 \in 0..Chunks /\ sent[r] + 1 < Chunks
      BY <1>0, <2>1, <2>2, <2>4
    <3> QED BY <2>1, <2>2, <3>1, <3>2, RequestInv DEF Phases
  <2> QED BY <2>3, <2>4
<1>7. ASSUME NEW r \in Requests, Break(r) PROVE DInv'
  <2>1. /\ askedAt = [askedAt EXCEPT ![r] = askedAt[r]] /\ askedAt[r] \in Nat
        /\ sent = [sent EXCEPT ![r] = sent[r]] /\ sent[r] \in 0..Chunks
        /\ share[r] \in Shares /\ readCount \in [Shares -> Nat]
    BY <1>0 DEF TypeOK
  <2>2. /\ phase[r] = "send" /\ UNCHANGED <<vars, share, password, withdrawn>>
        /\ phase' = [phase EXCEPT ![r] = "broken"] /\ UNCHANGED <<askedAt, sent, readCount>>
        /\ status[share[r]] # "available"
        /\ status[share[r]] # "absent" /\ askedAt[r] <= expiry[share[r]]
        /\ password[r] = Password[share[r]]
    BY <1>0, <1>7 DEF Break, Goto, FilesThere, SendingIsVerified, AdmittedInTime
  <2>3. share[r] \in withdrawn \/ now > askedAt[r] + Grace
    <3>1. share[r] \in withdrawn \/ now > expiry[share[r]] + Grace
      BY <1>0, <2>1, <2>2 DEF LifecycleType, Statuses, LossIsEntitled
    <3>2. now \in Int /\ expiry[share[r]] \in Int
      BY <1>0, <2>1 DEF LifecycleType
    <3> QED BY <1>0, <2>1, <2>2, <3>1, <3>2
  <2> QED BY <2>1, <2>2, <2>3, RequestInv DEF Phases, Ended
<1>8. ASSUME NEW r \in Requests, Abort(r) PROVE DInv'
  <2>1. /\ askedAt = [askedAt EXCEPT ![r] = askedAt[r]] /\ askedAt[r] \in Nat
        /\ sent = [sent EXCEPT ![r] = sent[r]] /\ sent[r] \in 0..Chunks
        /\ share[r] \in Shares /\ readCount \in [Shares -> Nat]
    BY <1>0 DEF TypeOK
  <2>2. /\ phase[r] = "send" /\ UNCHANGED <<vars, share, password, withdrawn>>
        /\ phase' = [phase EXCEPT ![r] = "aborted"] /\ UNCHANGED <<askedAt, sent, readCount>>
        /\ status[share[r]] # "absent" /\ askedAt[r] <= expiry[share[r]]
        /\ password[r] = Password[share[r]]
    BY <1>0, <1>8 DEF Abort, Goto, SendingIsVerified, AdmittedInTime
  <2> QED BY <2>1, <2>2, RequestInv DEF Phases, Ended
<1>9. CASE UNCHANGED allVars
  BY <1>0, <1>9 DEF allVars, vars, request, DInv, TypeOK, LifecycleType, LossIsEntitled,
        AdmittedInTime, SendingIsVerified, NotBrokenEarly
<1> QED BY <1>1, <1>2, <1>3, <1>4, <1>5, <1>6, <1>7, <1>8, <1>9 DEF DownloadsNext, Handle

\* In every reachable state a loss of files is entitled, and the admitted requests
\* are in time and verified.
THEOREM DownloadsInvariant == DownloadsSpec => []DInv
BY DownloadsInitInv, DownloadsNextInv, PTL DEF DownloadsSpec

\* A download in progress is not interrupted for Grace hours, unless the share is
\* withdrawn with its edit link.
THEOREM DownloadsFinish == DownloadsSpec => []NotBrokenEarly
<1>1. DInv => NotBrokenEarly
  BY DEF DInv
<1> QED BY <1>1, DownloadsInvariant, PTL

\* Only requests with the password, admitted before the expiry, get any bytes.
THEOREM BytesForEntitled == DownloadsSpec => []OnlyEntitledGetBytes
<1>1. DInv => OnlyEntitledGetBytes
  BY DEF DInv, AdmittedInTime, SendingIsVerified, OnlyEntitledGetBytes
<1> QED BY <1>1, DownloadsInvariant, PTL

\* The variables stay in their types, the phases of the requests among them.
THEOREM DownloadsTypeCorrect == DownloadsSpec => []TypeOK
<1>1. DInv => TypeOK
  BY DEF DInv
<1> QED BY <1>1, DownloadsInvariant, PTL
-----------------------------------------------------------------------------
\* The requests for share s that have passed incrementReadCount.
Counted  == {"send", "done", "broken", "aborted"}
Served(s) == {r \in Requests : share[r] = s /\ phase[r] \in Counted}

\* Shares that were recorded once and are not any more.
Over == {"gone", "left"}

\* The counter never runs ahead of these requests, and it has all of them until the
\* share is over; a share that is over stays so.
CountInv ==
    \A s \in Shares :
        /\ readCount[s] <= Cardinality(Served(s))
        /\ status[s] \notin Over => readCount[s] = Cardinality(Served(s))

\* A step that serves nobody for the first time and counts nothing.
LEMMA CountKept ==
    ASSUME CountInv, UNCHANGED <<share, readCount>>,
           \A r \in Requests : phase'[r] \in Counted <=> phase[r] \in Counted,
           \A s \in Shares : status[s] \in Over => status'[s] \in Over
    PROVE  CountInv'
<1>1. \A s \in Shares : Served(s)' = Served(s)
  BY DEF Served
<1> QED BY <1>1 DEF CountInv

\* The same for the steps of one request that is not counted by them.
LEMMA CountKeptByRequest ==
    ASSUME CountInv, TypeOK, UNCHANGED <<vars, share, readCount>>,
           NEW r \in Requests, NEW p, Goto(r, p), p \in Counted <=> phase[r] \in Counted
    PROVE  CountInv'
<1>1. \A q \in Requests : phase'[q] = IF q = r THEN p ELSE phase[q]
  BY DEF Goto, TypeOK
<1> QED BY <1>1, CountKept DEF vars

LEMMA CountStep ==
    ASSUME IsFiniteSet(Requests), DInv, CountInv, [DownloadsNext]_allVars
    PROVE  CountInv'
<1>0. TypeOK /\ LifecycleType
  BY DEF DInv
<1>1. CASE Lifecycle
  <2>1. UNCHANGED <<share, phase, readCount>>
    BY <1>1 DEF Lifecycle, request
  <2>2. \A s \in Shares : status[s] \in Over => status'[s] \in Over
    BY <1>0, <1>1 DEF Lifecycle, LifecycleType, Tick, Create, BeginRemoval, EndRemoval,
                      AbandonRemoval, Sweep, Over
  <2> QED BY <2>1, <2>2, CountKept
<1>2. ASSUME NEW r \in Requests, Ask(r) PROVE CountInv'
  <2>1. PICK p \in {"count", "verify", "refused"} : Goto(r, p)
    BY <1>2 DEF Ask
  <2>2. p \notin Counted /\ phase[r] \notin Counted /\ UNCHANGED <<vars, share, readCount>>
    BY <1>2 DEF Ask, Counted
  <2> QED BY <1>0, <2>1, <2>2, CountKeptByRequest
<1>3. ASSUME NEW r \in Requests, Verify(r) PROVE CountInv'
  <2>1. PICK p \in {"count", "refused"} : Goto(r, p)
    BY <1>3 DEF Verify
  <2>2. p \notin Counted /\ phase[r] \notin Counted /\ UNCHANGED <<vars, share, readCount>>
    BY <1>3 DEF Verify, Counted
  <2> QED BY <1>0, <2>1, <2>2, CountKeptByRequest
<1>4. ASSUME NEW r \in Requests, Count(r) PROVE CountInv'
  <2> DEFINE t == share[r]
  <2>1. /\ phase[r] = "count" /\ UNCHANGED <<status, share>> /\ t \in Shares
        /\ \A q \in Requests : phase'[q] = IF q = r THEN "send" ELSE phase[q]
    BY <1>0, <1>4 DEF Count, Goto, vars, TypeOK
  <2>2. Served(t)' = Served(t) \cup {r} /\ r \notin Served(t)
    BY <2>1 DEF Served, Counted
  <2>3. \A s \in Shares : s # t => Served(s)' = Served(s)
    BY <2>1 DEF Served, Counted
  <2>4. IsFiniteSet(Served(t))
    BY FS_Subset DEF Served
  <2>5. Cardinality(Served(t)') = Cardinality(Served(t)) + 1 /\ Cardinality(Served(t)) \in Nat
    BY <2>2, <2>4, FS_AddElement, FS_CardinalityType
  <2>6. CASE Recorded(t)
    <3>1. \A s \in Shares : readCount'[s] = IF s = t THEN readCount[s] + 1 ELSE readCount[s]
      BY <1>0, <1>4, <2>6 DEF Count, TypeOK
    <3>2. status[t] \notin Over /\ readCount[t] \in Nat
      BY <1>0, <2>1, <2>6 DEF Recorded, TypeOK, Over
    <3> QED BY <2>1, <2>3, <2>5, <3>1, <3>2 DEF CountInv
  <2>7. CASE ~Recorded(t)
    <3>1. readCount' = readCount
      BY <1>4, <2>7 DEF Count
    <3>2. status[t] \in Over /\ readCount[t] \in Nat
      <4>1. status[t] # "absent"
        BY <2>1 DEF DInv, AdmittedInTime
      <4> QED BY <1>0, <2>1, <2>7, <4>1 DEF Recorded, LifecycleType, Statuses, TypeOK, Over
    <3> QED BY <2>1, <2>3, <2>5, <3>1, <3>2 DEF CountInv
  <2> QED BY <2>6, <2>7
<1>5. ASSUME NEW r \in Requests, CountFails(r) PROVE CountInv'
  BY <1>0, <1>5, CountKeptByRequest DEF CountFails, Counted
<1>6. ASSUME NEW r \in Requests, SendChunk(r) PROVE CountInv'
  <2>1. CASE Goto(r, "done")
    BY <1>0, <1>6, <2>1, CountKeptByRequest DEF SendChunk, Counted
  <2>2. CASE UNCHANGED phase
    BY <1>6, <2>2, CountKept DEF SendChunk, vars
  <2> QED BY <1>6, <2>1, <2>2 DEF SendChunk
<1>7. ASSUME NEW r \in Requests, Break(r) PROVE CountInv'
  BY <1>0, <1>7, CountKeptByRequest DEF Break, Counted
<1>8. ASSUME NEW r \in Requests, Abort(r) PROVE CountInv'
  BY <1>0, <1>8, CountKeptByRequest DEF Abort, Counted
<1>9. CASE UNCHANGED allVars
  BY <1>9, CountKept DEF allVars, vars, request
<1> QED BY <1>1, <1>2, <1>3, <1>4, <1>5, <1>6, <1>7, <1>8, <1>9 DEF DownloadsNext, Handle

\* The counter of a share has the requests that got bytes while it is there, and only
\* requests with its password.
LEMMA CountsAreRight ==
    ASSUME IsFiniteSet(Requests), DInv, CountInv PROVE DownloadsCounted
<1> SUFFICES ASSUME NEW s \in Shares
             PROVE  /\ Recorded(s) =>
                          readCount[s] >= Cardinality({r \in {q \in Requests : share[q] = s} : sent[r] > 0})
                    /\ readCount[s] <=
                          Cardinality({r \in {q \in Requests : share[q] = s} : password[r] = Password[s]})
  BY DEF DownloadsCounted
<1> DEFINE Got   == {r \in {q \in Requests : share[q] = s} : sent[r] > 0}
           Knows == {r \in {q \in Requests : share[q] = s} : password[r] = Password[s]}
<1>1. Got \subseteq Served(s) /\ Served(s) \subseteq Knows
  BY DEF DInv, SendingIsVerified, Served, Counted
<1>2. IsFiniteSet(Served(s)) /\ IsFiniteSet(Knows)
  BY FS_Subset DEF Served
<1> HIDE DEF Got, Knows
<1>3. /\ Cardinality(Got) <= Cardinality(Served(s)) /\ Cardinality(Served(s)) <= Cardinality(Knows)
      /\ Cardinality(Got) \in Nat /\ Cardinality(Served(s)) \in Nat /\ Cardinality(Knows) \in Nat
  BY <1>1, <1>2, FS_Subset, FS_CardinalityType
<1>4. readCount[s] \in Nat
  BY DEF DInv, TypeOK
<1>5. Recorded(s) => status[s] \notin Over
  BY DEF Recorded, Over
<1>6. (Recorded(s) => readCount[s] >= Cardinality(Got)) /\ readCount[s] <= Cardinality(Knows)
  BY <1>3, <1>4, <1>5 DEF CountInv
<1> QED BY <1>6 DEF Got, Knows

LEMMA CountStart == ASSUME IsFiniteSet(Requests), DownloadsInit PROVE CountInv
<1>1. \A s \in Shares : Served(s) = {} /\ readCount[s] = 0
  BY DEF DownloadsInit, Served, Counted
<1>2. Cardinality({}) = 0
  BY FS_EmptySet
<1>3. \A s \in Shares : Cardinality(Served(s)) = 0
  BY <1>1, <1>2
<1>4. SUFFICES ASSUME NEW s \in Shares
               PROVE  /\ readCount[s] <= Cardinality(Served(s))
                      /\ readCount[s] = Cardinality(Served(s))
  BY DEF CountInv
<1>5. readCount[s] = 0 /\ Cardinality(Served(s)) = 0
  BY <1>1, <1>3
<1> QED BY <1>5

\* The download counter is right for any finite number of requests, however they, the
\* cleaner and the edit page interleave.
THEOREM DownloadsAlwaysCounted ==
    ASSUME IsFiniteSet(Requests) PROVE DownloadsSpec => []DownloadsCounted
<1>1. DownloadsInit => CountInv
  BY CountStart
<1>2. DInv /\ CountInv /\ [DownloadsNext]_allVars => CountInv'
  BY CountStep
<1>3. DInv /\ CountInv => DownloadsCounted
  BY CountsAreRight
<1> QED BY <1>1, <1>2, <1>3, DownloadsInvariant, PTL DEF DownloadsSpec
=============================================================================
