----------------------------- MODULE ShareStore -----------------------------
(***************************************************************************)
(* The store of shares: the database rows, the upload directory, the       *)
(* ShareManager operations of the server's session threads and of          *)
(* fileshelter-cmd, and the ShareCleaner.                                  *)
(*                                                                         *)
(* Processes and threads.  One server process runs Main (startup), Cleaner *)
(* (the io thread of ShareCleaner) and Workers (session threads); each     *)
(* member of Commands is one run of fileshelter-cmd, a process of its own  *)
(* without a cleaner.  A process has a pool of one connection, so at most  *)
(* one of its threads is in a transaction; processes only meet in SQLite,  *)
(* where a commit fails as long as another process is in a transaction.    *)
(*                                                                         *)
(* What is not one step.  Removing a share unlinks its files one by one    *)
(* before the rows are committed away, so other processes, failures and    *)
(* crashes come in between; so they do between taking an upload from Wt    *)
(* and recording it.  A file of the startup scan is examined and unlinked  *)
(* in one step: while the server does not serve, nobody records an upload. *)
(***************************************************************************)
EXTENDS Integers, FiniteSets, FiniteSetsExt

CONSTANTS
    Shares,         \* identities (share uuid and edit uuid) of shares
    Uploads,        \* names of files in <working-dir>/uploaded-files
    Locals,         \* files fileshelter-cmd is given, shared where they are
    Workers,        \* session threads of the server
    Commands,       \* runs of fileshelter-cmd
    Main, Cleaner,  \* the two other threads of the server
    Server,         \* the server process
    Size,           \* Size[f]: the size of file f
    MaxShareSize,   \* max-share-size
    MaxValidity,    \* max-validity-days, in hours
    Grace,          \* addSecs(3600 * 2): two hours
    Period,         \* _checkPeriod: one hour
    InWorkingDir,   \* processes whose current directory is the working-dir
    MaxTime,        \* bound: hours the clock counts
    MaxFaults       \* bound: failed transactions without a conflict, refused
                    \* unlinks, crashes

Files        == Uploads \cup Locals
ServerThread == Workers \cup {Main, Cleaner}
Threads      == ServerThread \cup Commands
Processes    == Commands \cup {Server}
Proc(t)      == IF t \in Commands THEN t ELSE Server

ASSUME StoreAssumption ==
    /\ Uploads \cap Locals = {}
    /\ Main # Cleaner
    /\ {Main, Cleaner} \cap Workers = {}
    /\ ServerThread \cap Commands = {}
    /\ Server \notin Commands
    /\ InWorkingDir \subseteq Processes
    /\ Size \in [Files -> Nat]
    /\ MaxShareSize \in Nat \ {0}
    /\ MaxValidity \in Nat \ {0}
    /\ Grace \in Nat /\ Period \in Nat
    /\ MaxTime \in Nat /\ MaxFaults \in Nat

VARIABLES
    now,        \* the clock
    rows,       \* the shares recorded in the database
    used,       \* the shares ever recorded (generated uuids do not repeat)
    expiry,     \* _expiryTime
    content,    \* the files of each share
    owned,      \* the shares whose files are owned (File::_isOwned)
    disk,       \* the files that exist
    kept,       \* history: files the system refused to unlink when last asked to
    named,      \* upload names handed out (generated names do not repeat)
    spool,      \* uploads Wt still owns: it deletes them with the session
    server,     \* "down", "check", "orphans" or "serving"
    nextCheck,  \* when the cleaner's timer expires
    kind,       \* kind[t]: what thread t is in the middle of
    victims,    \* victims[t]: the shares the transaction of t removes
    todo,       \* todo[t]: the files t still has to unlink, record or examine
    faults      \* failures and crashes so far

vars == <<now, rows, used, expiry, content, owned, disk, kept, named, spool,
          server, nextCheck, kind, victims, todo, faults>>

db     == <<rows, used, expiry, content, owned>>
thread == <<kind, victims, todo>>
-----------------------------------------------------------------------------
OwnedFiles(s) == IF s \in owned THEN content[s] ELSE {}
Referenced    == UNION {content[s] : s \in rows}
ShareSize(F)  == MapThenSumSet(LAMBDA f : Size[f], F)
IsExpired(s)  == expiry[s] < now

InTransaction(t) == kind[t] \in {"destroy", "clean"}

\* The pool has one connection: the other threads of the process wait for it.
ConnectionFree(t) == \A u \in Threads : Proc(u) = Proc(t) => ~InTransaction(u)

\* SQLite: no commit while another process has the database open for reading.
Conflict(t) == \E u \in Threads : Proc(u) # Proc(t) /\ InTransaction(u)

Idle(t) == kind[t] = "idle" /\ (t \in Workers => server = "serving")

\* A command is one process run: it does one thing and exits.
Rest(t) == IF t \in Commands THEN "exited" ELSE "idle"

Release(t) ==
    /\ kind' = [kind EXCEPT ![t] = Rest(t)]
    /\ victims' = [victims EXCEPT ![t] = {}]
    /\ todo' = [todo EXCEPT ![t] = {}]

\* The server process is gone, with everything its threads were doing.
Halt ==
    /\ server' = "down"
    /\ nextCheck' = 0
    /\ spool' = {}
    /\ kind' = [t \in Threads |-> IF t \in ServerThread THEN "idle" ELSE kind[t]]
    /\ victims' = [t \in Threads |-> IF t \in ServerThread THEN {} ELSE victims[t]]
    /\ todo' = [t \in Threads |-> IF t \in ServerThread THEN {} ELSE todo[t]]

Init ==
    /\ now = 0 /\ rows = {} /\ used = {} /\ owned = {}
    /\ expiry = [s \in Shares |-> 0]
    /\ content = [s \in Shares |-> {}]
    /\ disk = Locals /\ kept = {} /\ named = {} /\ spool = {}
    /\ server = "down" /\ nextCheck = 0
    /\ kind = [t \in Threads |-> "idle"]
    /\ victims = [t \in Threads |-> {}]
    /\ todo = [t \in Threads |-> {}]
    /\ faults = 0
-----------------------------------------------------------------------------
(* Time.  The clock does not overtake a check that is due or under way: an *)
(* hour is long for the timer and for one pass of the cleaner.             *)

CheckPending == \/ server = "check"
                \/ kind[Cleaner] = "clean"
                \/ server \in {"orphans", "serving"} /\ now >= nextCheck

Tick == /\ now < MaxTime
        /\ ~CheckPending
        /\ now' = now + 1
        /\ UNCHANGED <<db, disk, kept, named, spool, server, nextCheck, thread, faults>>
-----------------------------------------------------------------------------
(* Transactions that remove shares.                                        *)

Remove(t, k, S) ==
    /\ ConnectionFree(t)
    /\ kind' = [kind EXCEPT ![t] = k]
    /\ victims' = [victims EXCEPT ![t] = S]
    /\ todo' = [todo EXCEPT ![t] = UNION {OwnedFiles(s) : s \in S}]
    /\ UNCHANGED <<now, db, disk, kept, named, spool, nextCheck, faults>>

\* Bug: the cleaner is an hour more patient.
BeginCheckLate(t) == Remove(t, "clean", {s \in rows : now > expiry[s] + Grace + Period})

\* checkExpiredShares reads the clock once; a share goes Grace hours after it
\* expired.
BeginCheck(t) == Remove(t, "clean", {s \in rows : now > expiry[s] + Grace})

\* Bug: an expired share can still be destroyed.
BeginDestroyExpired(t, s) ==
    /\ t \in Workers \cup Commands /\ Idle(t) /\ s \in rows
    /\ Remove(t, "destroy", {s})
    /\ UNCHANGED server

\* destroyShare: by edit uuid, and only as long as the share has not expired.
BeginDestroy(t, s) ==
    /\ t \in Workers \cup Commands /\ Idle(t)
    /\ s \in rows /\ ~IsExpired(s)
    /\ Remove(t, "destroy", {s})
    /\ UNCHANGED server

\* std::filesystem::remove: the file is gone afterwards, or the system refuses and
\* it stays.  The refusal is logged and passed over.
Unlink(f) ==
    \/ disk' = disk \ {f} /\ kept' = kept \ {f} /\ UNCHANGED faults
    \/ /\ f \in disk /\ faults < MaxFaults
       /\ kept' = kept \cup {f} /\ faults' = faults + 1
       /\ UNCHANGED disk

\* The stored path is relative: it names the upload only from the working
\* directory, elsewhere there is nothing to remove, which is no error.
RemoveFile(t, f) ==
    /\ InTransaction(t) /\ f \in todo[t]
    /\ IF Proc(t) \in InWorkingDir THEN Unlink(f) ELSE UNCHANGED <<disk, kept, faults>>
    /\ todo' = [todo EXCEPT ![t] = @ \ {f}]
    /\ UNCHANGED <<now, db, named, spool, server, nextCheck, kind, victims>>

\* Bug: the rows go before the files.
CommitEarly(t) ==
    /\ InTransaction(t) /\ ~Conflict(t)
    /\ rows' = rows \ victims[t]
    /\ UNCHANGED <<now, used, expiry, content, owned, disk, kept, named, spool, faults>>

Commit(t) ==
    /\ InTransaction(t) /\ todo[t] = {} /\ ~Conflict(t)
    /\ rows' = rows \ victims[t]
    /\ UNCHANGED <<now, used, expiry, content, owned, disk, kept, named, spool, faults>>

CommitDestroy(t) ==
    /\ kind[t] = "destroy" /\ Commit(t) /\ Release(t)
    /\ UNCHANGED <<server, nextCheck>>

\* Bug: the check does not set the timer again.
CommitCheckOnce(t) ==
    /\ kind[t] = "clean" /\ Commit(t)
    /\ nextCheck' = now + MaxTime
    /\ IF t = Main
       THEN /\ server' = "orphans"
            /\ kind' = [kind EXCEPT ![t] = "scan"]
            /\ victims' = [victims EXCEPT ![t] = {}]
            /\ todo' = [todo EXCEPT ![t] = disk \cap Uploads]
       ELSE Release(t) /\ UNCHANGED server

\* After a check the timer is set again; the first check is followed by the
\* scan of the upload directory.
CommitCheck(t) ==
    /\ kind[t] = "clean" /\ Commit(t)
    /\ nextCheck' = now + Period
    /\ IF t = Main
       THEN /\ server' = "orphans"
            /\ kind' = [kind EXCEPT ![t] = "scan"]
            /\ victims' = [victims EXCEPT ![t] = {}]
            /\ todo' = [todo EXCEPT ![t] = disk \cap Uploads]
       ELSE Release(t) /\ UNCHANGED server

\* The transaction fails and is rolled back: always possible on a conflict, and
\* at most MaxFaults times for other reasons (a conflict with a transaction that
\* is one step here, an I/O error).  The rows stay, the unlinked files do not
\* come back.  A session survives; an exception in the io thread or in main ends
\* the server.
Fail(t) ==
    /\ InTransaction(t)
    /\ \/ Conflict(t) /\ UNCHANGED faults
       \/ faults < MaxFaults /\ faults' = faults + 1
    /\ IF t \in {Main, Cleaner}
       THEN Halt
       ELSE Release(t) /\ UNCHANGED <<server, nextCheck, spool>>
    /\ UNCHANGED <<now, db, disk, kept, named>>
-----------------------------------------------------------------------------
(* The server process.                                                     *)

Start == /\ server = "down"
         /\ server' = "check"
         /\ BeginCheck(Main)

\* Bug: only the shares that can still be downloaded are consulted.
ScanFileUnexpired(f) ==
    /\ kind[Main] = "scan" /\ f \in todo[Main] /\ ConnectionFree(Main)
    /\ IF \E s \in rows : ~IsExpired(s) /\ f \in content[s]
       THEN UNCHANGED <<disk, kept, faults>>
       ELSE Unlink(f)
    /\ todo' = [todo EXCEPT ![Main] = @ \ {f}]
    /\ UNCHANGED <<now, db, named, spool, server, nextCheck, kind, victims>>

\* The scan examines each file of the upload directory in a transaction of its
\* own and tries to unlink it if no file row has its path, relative or absolute.
ScanFile(f) ==
    /\ kind[Main] = "scan" /\ f \in todo[Main] /\ ConnectionFree(Main)
    /\ IF f \in Referenced THEN UNCHANGED <<disk, kept, faults>> ELSE Unlink(f)
    /\ todo' = [todo EXCEPT ![Main] = @ \ {f}]
    /\ UNCHANGED <<now, db, named, spool, server, nextCheck, kind, victims>>

\* Bug: the server starts before the scan is over.
ScanDoneEarly ==
    /\ kind[Main] = "scan"
    /\ server' = "serving"
    /\ kind' = [kind EXCEPT ![Main] = "idle"]
    /\ todo' = [todo EXCEPT ![Main] = {}]
    /\ UNCHANGED <<now, db, disk, kept, named, spool, nextCheck, victims, faults>>

ScanDone ==
    /\ kind[Main] = "scan" /\ todo[Main] = {}
    /\ server' = "serving"
    /\ kind' = [kind EXCEPT ![Main] = "idle"]
    /\ UNCHANGED <<now, db, disk, kept, named, spool, nextCheck, victims, todo, faults>>

\* The io thread runs from the first check on, also during the scan.
TimerFires ==
    /\ server \in {"orphans", "serving"} /\ kind[Cleaner] = "idle"
    /\ now >= nextCheck
    /\ BeginCheck(Cleaner)
    /\ UNCHANGED server

\* An orderly end: the sessions end, and Wt deletes what they had uploaded.
Stop == /\ server = "serving"
        /\ \A t \in ServerThread : kind[t] = "idle"
        /\ disk' = disk \ spool
        /\ Halt
        /\ UNCHANGED <<now, db, kept, named, faults>>

Crash == /\ server # "down" /\ faults < MaxFaults
         /\ faults' = faults + 1
         /\ Halt
         /\ UNCHANGED <<now, db, disk, kept, named>>
-----------------------------------------------------------------------------
(* Creating shares.                                                        *)

\* Bug: a generated uuid is given out again.
RecordForgotten(s, F, v, own) ==
    /\ rows' = rows \cup {s}
    /\ UNCHANGED used
    /\ expiry' = [expiry EXCEPT ![s] = now + v]
    /\ content' = [content EXCEPT ![s] = F]
    /\ owned' = IF own THEN owned \cup {s} ELSE owned

\* Share::create and File::create.
Record(s, F, v, own) ==
    /\ rows' = rows \cup {s}
    /\ used' = used \cup {s}
    /\ expiry' = [expiry EXCEPT ![s] = now + v]
    /\ content' = [content EXCEPT ![s] = F]
    /\ owned' = IF own THEN owned \cup {s} ELSE owned

\* createShare; the clock must be able to outlive the share.
CanCreate(t, s, F, v) ==
    /\ s \notin used
    /\ ConnectionFree(t) /\ ~Conflict(t)
    /\ F # {} /\ ShareSize(F) < MaxShareSize
    /\ v <= MaxValidity
    /\ now + v + Grace + 2 * Period < MaxTime

\* Wt receives a file into the upload directory.
Upload(f) ==
    /\ server = "serving" /\ f \in Uploads \ named
    /\ disk' = disk \cup {f}
    /\ named' = named \cup {f}
    /\ spool' = spool \cup {f}
    /\ UNCHANGED <<now, db, kept, server, nextCheck, thread, faults>>

\* The upload is taken back, or its session ends before the share is created.
DropUpload(f) ==
    /\ server = "serving" /\ f \in spool
    /\ disk' = disk \ {f}
    /\ spool' = spool \ {f}
    /\ UNCHANGED <<now, db, kept, named, server, nextCheck, thread, faults>>

\* Bug: the uploads are recorded but not taken over.
StealNothing(t, F) ==
    /\ t \in Workers /\ Idle(t)
    /\ F # {} /\ ShareSize(F) <= MaxShareSize
    /\ kind' = [kind EXCEPT ![t] = "create"]
    /\ todo' = [todo EXCEPT ![t] = F]
    /\ UNCHANGED <<now, db, disk, kept, named, spool, server, nextCheck, victims, faults>>

\* emitDone takes the uploads of a complete form over from Wt...
StealSpool(t, F) ==
    /\ t \in Workers /\ Idle(t)
    /\ F # {} /\ ShareSize(F) <= MaxShareSize
    /\ spool' = spool \ F
    /\ kind' = [kind EXCEPT ![t] = "create"]
    /\ todo' = [todo EXCEPT ![t] = F]
    /\ UNCHANGED <<now, db, disk, kept, named, server, nextCheck, victims, faults>>

\* ...and only then is the share created, or not.
CreateShare(t, s, v) ==
    /\ kind[t] = "create"
    /\ CanCreate(t, s, todo[t], v)
    /\ Record(s, todo[t], v, TRUE)
    /\ Release(t)
    /\ UNCHANGED <<now, disk, kept, named, spool, server, nextCheck, faults>>

\* The share is too large, or the transaction fails: the uploads are nobody's.
CreateFails(t) ==
    /\ kind[t] = "create"
    /\ \/ (ShareSize(todo[t]) >= MaxShareSize \/ Conflict(t)) /\ UNCHANGED faults
       \/ faults < MaxFaults /\ faults' = faults + 1
    /\ Release(t)
    /\ UNCHANGED <<now, db, disk, kept, named, spool, server, nextCheck>>

\* Bug: fileshelter-cmd hands its files over.
CmdCreateOwned(c, s, F, v) ==
    /\ c \in Commands /\ Idle(c)
    /\ CanCreate(c, s, F, v)
    /\ Record(s, F, v, TRUE)
    /\ Release(c)
    /\ UNCHANGED <<now, disk, kept, named, spool, server, nextCheck, faults>>

\* fileshelter-cmd create: the files stay the user's.
CmdCreate(c, s, F, v) ==
    /\ c \in Commands /\ Idle(c)
    /\ CanCreate(c, s, F, v)
    /\ Record(s, F, v, FALSE)
    /\ Release(c)
    /\ UNCHANGED <<now, disk, kept, named, spool, server, nextCheck, faults>>
-----------------------------------------------------------------------------
RemovalStep(t) ==
    (\E f \in Files : RemoveFile(t, f)) \/ CommitDestroy(t) \/ CommitCheck(t) \/ Fail(t)

ScanStep == (\E f \in Uploads : ScanFile(f)) \/ ScanDone

CreationStep(t) == (\E s \in Shares, v \in 1..MaxValidity : CreateShare(t, s, v))
                   \/ CreateFails(t)

Next ==
    \/ Tick
    \/ \E t \in Threads : RemovalStep(t)
    \/ \E t \in Threads, s \in Shares : BeginDestroy(t, s)
    \/ Start \/ ScanStep \/ TimerFires \/ Stop \/ Crash
    \/ \E f \in Uploads : Upload(f) \/ DropUpload(f)
    \/ \E t \in Workers : CreationStep(t) \/ \E F \in SUBSET spool : StealSpool(t, F)
    \/ \E c \in Commands, s \in Shares, F \in SUBSET Locals, v \in 0..MaxValidity :
          CmdCreate(c, s, F, v)

Spec == Init /\ [][Next]_vars

\* Time passes, also for a server that is restarted over and over (hence the
\* strong fairness), threads and timers run, and systemd restarts a server that
\* failed; an administrator who stops it (Stop) is taken to start it again.
\* Nobody has to upload, create or destroy anything.
Fairness ==
    /\ SF_vars(Tick) /\ WF_vars(Start) /\ WF_vars(ScanStep) /\ WF_vars(TimerFires)
    /\ \A t \in Threads : WF_vars(RemovalStep(t))

FairSpec == Spec /\ Fairness
-----------------------------------------------------------------------------
(* Properties.                                                             *)

TypeOK ==
    /\ now \in Nat /\ nextCheck \in Nat /\ faults \in Nat
    /\ rows \subseteq used /\ used \subseteq Shares /\ owned \subseteq used
    /\ expiry \in [Shares -> Nat]
    /\ content \in [Shares -> SUBSET Files]
    /\ disk \subseteq Files /\ kept \subseteq Files
    /\ named \subseteq Uploads /\ spool \subseteq named
    /\ server \in {"down", "check", "orphans", "serving"}
    /\ kind \in [Threads -> {"idle", "create", "destroy", "clean", "scan", "exited"}]
    /\ victims \in [Threads -> SUBSET Shares]
    /\ todo \in [Threads -> SUBSET Files]

\* "The files are actually deleted roughly two hours after the share has
\* expired": while the server is up, past its first check and between two
\* checks, no row is older than the two hours plus one period of the timer,
\* whatever sessions, commands, failures and restarts did before.
CleanedInTime ==
    server \in {"orphans", "serving"} /\ kind[Cleaner] = "idle"
        => \A s \in rows : now <= expiry[s] + Grace + Period

\* The same sentence of the documentation, about the files themselves: three
\* hours after a share expired none of its own files is left, but those the
\* system refused to unlink.  It needs the server to run in its working directory.
FilesDeletedInTime ==
    server = "serving" /\ kind[Cleaner] = "idle"
        => \A s \in used : now > expiry[s] + Grace + Period
                           => OwnedFiles(s) \cap disk \subseteq kept

\* A share that is gone left none of its own files behind, however many
\* interrupted removals it took: but those the system refused to unlink when it
\* was last asked to, which Share::destroy passes over.
GoneMeansDeleted == \A s \in used \ rows : OwnedFiles(s) \cap disk \subseteq kept

\* Files shared with fileshelter-cmd stay where they are: no cleaning, no
\* destruction and no scan deletes them.
LocalsUntouched == Locals \subseteq disk

BeingRemoved == {s \in Shares : \E t \in Threads : InTransaction(t) /\ s \in victims[t]}

\* A file of a recorded share disappears only while a transaction removes that
\* share: not by the startup scan, not by a session that ends, not by the
\* removal of another share.
VanishOnlyInRemoval ==
    [][\A s \in rows : OwnedFiles(s) \cap (disk \ disk') # {} => s \in BeingRemoved]_vars

\* As long as nothing failed and no command could conflict with the server, a
\* recorded share nobody is removing is whole: its sessions, its cleaner and its
\* restarts alone do not damage shares.
WholeUnlessFaults ==
    faults = 0 /\ (\A t \in Commands : kind[t] = "idle")
    => \A s \in rows \ BeingRemoved : content[s] \subseteq disk

\* When the server opens to users, the upload directory holds recorded files
\* only: whatever crashes, failed creations and removals left is gone, but what
\* the system refused to unlink, which the scan passes over.
NoOrphanAfterStartup ==
    [][server = "orphans" /\ server' = "serving"
       => disk' \cap Uploads \subseteq Referenced' \cup kept']_vars

\* "std::chrono::seconds validityPeriod; // 0 if infinite": so no share is recorded
\* that expires the moment it is created.
ZeroIsInfinite == [][\A s \in used' \ used : expiry'[s] # now]_vars

\* Every share is eventually removed, although checks and commands may keep
\* each other from committing and the server may crash and be restarted.
ExpiredSharesRemoved == \A s \in Shares : s \in rows ~> s \notin rows

\* The life of each share, as ShareLifecycle tells it.
Status(s) ==
    CASE s \notin used -> "absent"
      [] s \in used \ rows -> IF OwnedFiles(s) \cap disk = {} THEN "gone"
                             ELSE IF OwnedFiles(s) \cap disk \subseteq kept THEN "left"
                             ELSE "leaked"
      [] s \in rows /\ s \in BeingRemoved -> "removing"
      [] OTHER -> IF OwnedFiles(s) \subseteq disk THEN "available" ELSE "damaged"

Lifecycle == INSTANCE ShareLifecycle WITH status <- [s \in Shares |-> Status(s)]

ImplementsLifecycle == Lifecycle!Spec
-----------------------------------------------------------------------------
(* What holds of every reachable state, and makes the above provable.      *)

\* The phase of the server says what its threads can be in the middle of.
Phases ==
    /\ server = "check" <=> kind[Main] = "clean"
    /\ server = "orphans" <=> kind[Main] = "scan"
    /\ kind[Main] \in {"idle", "clean", "scan"}
    /\ kind[Cleaner] \in {"idle", "clean"}
    /\ kind[Cleaner] = "clean" => server \in {"orphans", "serving"}
    /\ \A t \in Workers : kind[t] \in {"idle", "create", "destroy"}
    /\ server # "serving" => spool = {} /\ \A t \in Workers : kind[t] = "idle"
    /\ \A c \in Commands : kind[c] \in {"idle", "destroy", "exited"}

\* An upload is in one hand: Wt's spool, the one session that is about to record
\* it, or the one share that owns it.
OneHolder ==
    /\ \A s \in Shares : OwnedFiles(s) \cap spool = {}
    /\ \A s, r \in Shares : s # r => OwnedFiles(s) \cap OwnedFiles(r) = {}
    /\ \A t \in Workers : kind[t] = "create" =>
          /\ todo[t] \cap spool = {}
          /\ \A s \in Shares : todo[t] \cap OwnedFiles(s) = {}
          /\ \A u \in Workers \ {t} : kind[u] = "create" => todo[t] \cap todo[u] = {}

\* Only uploads are owned or worked on, and each under a name that Wt gave out.
Names ==
    /\ \A s \in used : s \notin owned => content[s] \subseteq Locals
    /\ \A s \in owned : content[s] \subseteq named
    /\ \A t \in Threads : todo[t] \subseteq Uploads
    /\ \A t \in Workers : kind[t] = "create" => todo[t] \subseteq named

\* What Wt holds, and what a session is about to record, exists.
Present ==
    /\ spool \subseteq disk
    /\ \A t \in Workers : kind[t] = "create" => todo[t] \subseteq disk

\* A removal still has to unlink files of its victims only, and all of them that
\* are left, but those it was refused.
RemovalsExact ==
    \A t \in Threads : InTransaction(t) =>
        /\ victims[t] \subseteq used
        /\ \A f \in todo[t] : \E s \in victims[t] : f \in OwnedFiles(s)
        /\ InWorkingDir = Processes
              => \A s \in victims[t] : OwnedFiles(s) \cap disk \subseteq todo[t] \cup kept

\* During the scan every upload is recorded, still to be examined or refused.
ScanCovers ==
    InWorkingDir = Processes /\ kind[Main] = "scan"
        => disk \cap Uploads \subseteq Referenced \cup todo[Main] \cup kept

\* A check under way misses no share that is due, and the next one is in time.
ChecksInTime ==
    /\ \A t \in Threads : kind[t] = "clean"
          => \A s \in rows \ victims[t] : now <= expiry[s] + Grace
    /\ server \in {"orphans", "serving"} =>
          /\ nextCheck <= now + Period
          /\ kind[Cleaner] = "idle" =>
                /\ now <= nextCheck
                /\ \A s \in rows : nextCheck <= expiry[s] + Grace + Period

\* The inductive invariant.
IInv == /\ TypeOK /\ Phases /\ OneHolder /\ Names /\ Present
        /\ RemovalsExact /\ ScanCovers /\ ChecksInTime
        /\ InWorkingDir = Processes => GoneMeansDeleted
=============================================================================
