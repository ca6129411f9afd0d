------------------------------ MODULE Database ------------------------------
(***************************************************************************)
(* The database: several processes on one SQLite file, each with a pool of *)
(* one connection, each preparing the schema when it starts.               *)
(*                                                                         *)
(* A thread works through a script, one transaction per job: the schema    *)
(* when its process starts, then the calls of ShareManager.  An exception  *)
(* ends the script.  SQLite and the pool are modelled from their use: a    *)
(* transaction reads under a shared lock, writes what it has changed at    *)
(* its end under an exclusive lock, and is refused at once if another      *)
(* connection's lock is in the way (no busy timeout is set); a thread      *)
(* waits until its process's connection is free.                           *)
(*                                                                         *)
(* ShareStore takes from here that transactions are serial.                *)
(***************************************************************************)
EXTENDS Integers, Sequences, SequencesExt

CONSTANTS
    Shares,
    Workers, Main,  \* threads of the server
    Commands,       \* runs of fileshelter-cmd: a process and its thread
    Server,
    CommandScripts, \* what a run of fileshelter-cmd is asked to do
    MaxRequests,    \* bound: requests to the server
    MaxCrashes      \* bound: processes that are killed

Threads == Workers \cup {Main} \cup Commands
Proc(t) == IF t \in Commands THEN t ELSE Server

Absent == -1    \* no such share
Unread == -2    \* a row that was not looked at
Blank  == [s \in Shares |-> Unread]

\* The rows a transaction may look at: those of the shares, and as Server the one of
\* version_info.
Rows == Shares \cup {Server}
NothingSeen == [r \in Rows |-> Unread]

Job(op, s) == [op |-> op, share |-> s]

\* ShareManager's calls with a share, and those of Db::prepare and visitShares.
ShareJobs  == [op : {"describe", "create", "count", "destroy"}, share : Shares]
WholeJobs  == [op : {"tables", "indexes", "version", "list"}, share : {Server}]
Preparing  == <<Job("tables", Server), Job("indexes", Server), Job("version", Server)>>

ASSUME DatabaseAssumption ==
    /\ Main \notin Workers /\ Server \notin Commands \cup Shares
    /\ (Workers \cup {Main}) \cap Commands = {}
    /\ CommandScripts \subseteq Seq(ShareJobs \cup WholeJobs)
    \* a generated uuid is a new one
    /\ \A jobs \in CommandScripts : \A i, j \in DOMAIN jobs :
          jobs[i].op = "create" /\ jobs[i] = jobs[j] => i = j
    /\ MaxRequests \in Nat /\ MaxCrashes \in Nat

VARIABLES
    schema,    \* [tables, indexes, versions]: "none", "old" or "there", whether the
               \* indexes are there, the rows of version_info
    table,     \* the share rows: the _readCount of each share, or Absent
    used,      \* the shares ever recorded (generated uuids do not repeat)
    server,    \* "down", "starting" or "ready"
    script,    \* what each command is asked to do
    todo,      \* the jobs each thread has still to do
    lock,      \* "closed": no transaction; else the SQLite lock of the connection:
               \* "none", "shared" or "exclusive"
    seen,      \* what each transaction has read of the share rows
    answer,    \* what each thread was told last: a word, and shares it was shown
    remover,   \* history: who destroyed each share, or Server
    exit,      \* "running", "success" or "failure" of each command
    requests, crashes

vars == <<schema, table, used, server, script, todo, lock, seen, answer, remover, exit, requests,
          crashes>>
-----------------------------------------------------------------------------
InTransaction(t) == lock[t] # "closed"

\* Bug: the pool has a connection for each thread.
ConnectionAlways(t) == TRUE

\* FixedSqlConnectionPool with one connection.
ConnectionFree(t) == \A u \in Threads : Proc(u) = Proc(t) => ~InTransaction(u)

Others(t) == {lock[u] : u \in Threads \ {t}}

MayRead(t)    == "exclusive" \notin Others(t)
MayExclude(t) == Others(t) \subseteq {"closed", "none"}

\* What is in a row: the version row is there or not.
Row(r) == IF r = Server THEN schema.versions ELSE table[r]

\* The rows a job reads.
Reads(job) ==
    {r \in Rows : \/ job.op = "list" /\ r \in Shares
                  \/ job.op \in {"describe", "count", "destroy", "version"} /\ r = job.share}

Unseen(t) == {r \in Reads(Head(todo[t])) : seen[t][r] = Unread}

\* Bug: getOrCreate creates.
WritesAnyVersion(job, view) ==
    \/ job.op = "tables"  /\ schema.tables = "none"
    \/ job.op = "indexes" /\ ~schema.indexes
    \/ job.op = "version" /\ schema.tables = "there"
    \/ job.op \in {"count", "destroy"} /\ view[job.share] # Absent
    \/ job.op = "create"

\* Whether a job has something to write: tables that exist end createTables with the
\* "already exists" that prepare passes over; the indexes and the version are only
\* added if they are not there.
Writes(job, view) ==
    \/ job.op = "tables"  /\ schema.tables = "none"
    \/ job.op = "indexes" /\ ~schema.indexes
    \/ job.op = "version" /\ schema.tables = "there" /\ view[Server] = 0
    \/ job.op \in {"count", "destroy"} /\ view[job.share] # Absent
    \/ job.op = "create"

\* Bug: the "already exists" of createTables is not passed over.
AlreadyExistsThrown(job, view) ==
    \/ job.op \in {"describe", "destroy"} /\ view[job.share] = Absent
    \/ job.op = "version" /\ schema.tables # "there"
    \/ job.op = "tables" /\ schema.tables # "none"

\* The exceptions of the program itself: a share that is not found, and a database
\* without the table of the version.
Throws(job, view) ==
    \/ job.op \in {"describe", "destroy"} /\ view[job.share] = Absent
    \/ job.op = "version" /\ schema.tables # "there"

\* The shares a script names in jobs of one kind.
Named(jobs, op) == {s \in Shares : Job(op, s) \in ToSet(jobs)}
Created(jobs)   == Named(jobs, "create")

Init ==
    /\ schema \in {[tables |-> "none",  indexes |-> FALSE, versions |-> 0],
                   [tables |-> "there", indexes |-> TRUE,  versions |-> 1],
                   [tables |-> "old",   indexes |-> TRUE,  versions |-> 0]}
    /\ table \in [Shares -> {Absent, 0}]
    /\ schema.versions = 0 => table = [s \in Shares |-> Absent]
    /\ script \in [Commands -> CommandScripts]
    /\ \A c, d \in Commands : c # d => Created(script[c]) \cap Created(script[d]) = {}
    /\ used = {s \in Shares : table[s] # Absent} \cup UNION {Created(script[c]) : c \in Commands}
    /\ \A c \in Commands : \A s \in Created(script[c]) : table[s] = Absent
    /\ server = "down"
    /\ todo = [t \in Threads |-> IF t \in Commands THEN Preparing \o script[t] ELSE <<>>]
    /\ lock = [t \in Threads |-> "closed"]
    /\ seen = [t \in Threads |-> NothingSeen]
    /\ answer = [t \in Threads |-> [word |-> "nothing", view |-> Blank]]
    /\ remover = [s \in Shares |-> Server]
    /\ exit = [c \in Commands |-> "running"]
    /\ requests = 0 /\ crashes = 0
-----------------------------------------------------------------------------
\* main builds the share manager, whose Db prepares the database; systemd restarts
\* a server that failed.
Start ==
    /\ server = "down"
    /\ server' = "starting"
    /\ todo' = [todo EXCEPT ![Main] = Preparing]
    /\ UNCHANGED <<schema, table, used, script, lock, seen, answer, remover, exit, requests,
                   crashes>>

\* A download (ShareResource: describe, then count), a page that shows or removes a
\* share, a form that creates one.
RequestScripts ==
    {<<Job("describe", s), Job("count", s)>> : s \in used}
    \cup {<<Job("destroy", s)>> : s \in used}
    \cup {<<Job("create", s)>> : s \in Shares \ used}

Request(w) ==
    /\ server = "ready" /\ todo[w] = <<>>
    /\ requests < MaxRequests /\ requests' = requests + 1
    /\ \E jobs \in RequestScripts :
          /\ todo' = [todo EXCEPT ![w] = jobs]
          /\ used' = used \cup {jobs[1].share}
    /\ UNCHANGED <<schema, table, server, script, lock, seen, answer, remover, exit, crashes>>
-----------------------------------------------------------------------------
(* The steps of a transaction.                                             *)

\* getTLSSession and the Transaction: take the connection.
Begin(t) ==
    /\ todo[t] # <<>> /\ ~InTransaction(t) /\ ConnectionFree(t)
    /\ lock' = [lock EXCEPT ![t] = "none"]
    /\ UNCHANGED <<schema, table, used, server, script, todo, seen, answer, remover, exit, requests,
                   crashes>>

\* Bug: each row is read in a transaction of its own.
ReadAlone(t, r) ==
    /\ InTransaction(t) /\ r \in Unseen(t) /\ MayRead(t)
    /\ seen' = [seen EXCEPT ![t][r] = Row(r)]
    /\ UNCHANGED <<schema, table, used, server, script, todo, lock, answer, remover, exit, requests,
                   crashes>>

\* A query: one row, or the next one of a list.
Read(t, r) ==
    /\ InTransaction(t) /\ r \in Unseen(t) /\ MayRead(t)
    /\ lock' = [lock EXCEPT ![t] = "shared"]
    /\ seen' = [seen EXCEPT ![t][r] = Row(r)]
    /\ UNCHANGED <<schema, table, used, server, script, todo, answer, remover, exit, requests,
                   crashes>>

HasRead(t) == InTransaction(t) /\ Unseen(t) = {}

\* The changed objects are flushed, and the commit that follows at once takes the
\* exclusive lock.
Exclude(t) ==
    /\ HasRead(t) /\ lock[t] \in {"none", "shared"} /\ MayExclude(t)
    /\ Writes(Head(todo[t]), seen[t])
    /\ lock' = [lock EXCEPT ![t] = "exclusive"]
    /\ UNCHANGED <<schema, table, used, server, script, todo, seen, answer, remover, exit, requests,
                   crashes>>

\* The transaction ends, and the script goes on with the jobs kept.
Close(t, kept) ==
    /\ lock' = [lock EXCEPT ![t] = "closed"]
    /\ seen' = [seen EXCEPT ![t] = NothingSeen]
    /\ todo' = [todo EXCEPT ![t] = kept]

\* Bug: a command passes over what fails.
ExceptionIgnored(t, told) ==
    /\ Close(t, Tail(todo[t]))
    /\ answer' = [answer EXCEPT ![t] = [word |-> told, view |-> Blank]]
    /\ server' = IF t = Main THEN "down" ELSE server
    /\ exit' = [c \in Commands |-> IF c = t /\ Len(todo[t]) = 1 THEN "success" ELSE exit[c]]
    /\ UNCHANGED <<schema, table, used, script, remover, requests, crashes>>

\* Bug: what failed is tried again.
ExceptionRetried(t, told) ==
    /\ Close(t, todo[t])
    /\ answer' = [answer EXCEPT ![t] = [word |-> told, view |-> Blank]]
    /\ UNCHANGED <<schema, table, used, server, script, remover, exit, requests, crashes>>

\* An exception: the transaction is rolled back and the script is over.  A request
\* fails, a server that is starting and a command end.
Exception(t, told) ==
    /\ Close(t, <<>>)
    /\ answer' = [answer EXCEPT ![t] = [word |-> told, view |-> Blank]]
    /\ server' = IF t = Main THEN "down" ELSE server
    /\ exit' = [c \in Commands |-> IF c = t THEN "failure" ELSE exit[c]]
    /\ UNCHANGED <<schema, table, used, script, remover, requests, crashes>>

\* SQLite refuses a lock.
Refuse(t) ==
    /\ InTransaction(t) /\ lock[t] \in {"none", "shared"}
    /\ \/ ~MayRead(t)
       \/ HasRead(t) /\ Writes(Head(todo[t]), seen[t]) /\ ~MayExclude(t)
    /\ Exception(t, "refused")

Throw(t) ==
    /\ HasRead(t) /\ lock[t] \in {"none", "shared"} /\ MayRead(t)
    /\ Throws(Head(todo[t]), seen[t])
    /\ Exception(t, IF Head(todo[t]).op = "version" THEN "too old" ELSE "not found")

\* What the job leaves behind in the database.
Effect(job, view) ==
    \/ job.op = "tables"  /\ schema' = [schema EXCEPT !.tables = "there"] /\ UNCHANGED table
    \/ job.op = "indexes" /\ schema' = [schema EXCEPT !.indexes = TRUE] /\ UNCHANGED table
    \/ job.op = "version" /\ schema' = [schema EXCEPT !.versions = @ + 1] /\ UNCHANGED table
    \/ job.op = "create"  /\ table' = [table EXCEPT ![job.share] = 0] /\ UNCHANGED schema
    \/ job.op = "count"   /\ table' = [table EXCEPT ![job.share] = view[job.share] + 1]
                          /\ UNCHANGED schema
    \/ job.op = "destroy" /\ table' = [table EXCEPT ![job.share] = Absent] /\ UNCHANGED schema

\* What the caller is told.
Result(job, view) ==
    CASE job.op \in {"describe", "list"} -> [word |-> "shown", view |-> [s \in Shares |-> view[s]]]
      [] job.op \in {"create", "count", "destroy"} -> [word |-> "done", view |-> Blank]
      [] OTHER -> [word |-> "nothing", view |-> Blank]

\* A transaction is over: it has written under the exclusive lock, or had nothing to
\* write.  With its last job a starting server opens, and a command succeeds.
Finish(t) ==
    LET job  == Head(todo[t])
        last == Len(todo[t]) = 1
    IN  /\ \/ lock[t] = "exclusive" /\ Effect(job, seen[t])
           \/ /\ HasRead(t) /\ lock[t] \in {"none", "shared"} /\ MayRead(t)
              /\ ~Writes(job, seen[t]) /\ ~Throws(job, seen[t])
              /\ UNCHANGED <<schema, table>>
        /\ Close(t, Tail(todo[t]))
        /\ answer' = [answer EXCEPT ![t] = Result(job, seen[t])]
        /\ remover' = IF job.op = "destroy" THEN [remover EXCEPT ![job.share] = t] ELSE remover
        /\ server' = IF t = Main /\ last THEN "ready" ELSE server
        /\ exit' = [c \in Commands |-> IF c = t /\ last THEN "success" ELSE exit[c]]
        /\ UNCHANGED <<used, script, requests, crashes>>

\* A process is killed: SQLite rolls its transaction back.
Crash(p) ==
    /\ crashes < MaxCrashes /\ crashes' = crashes + 1
    /\ IF p = Server THEN server # "down" ELSE exit[p] = "running"
    /\ LET gone == {t \in Threads : Proc(t) = p}
       IN  /\ lock' = [t \in Threads |-> IF t \in gone THEN "closed" ELSE lock[t]]
           /\ seen' = [t \in Threads |-> IF t \in gone THEN NothingSeen ELSE seen[t]]
           /\ todo' = [t \in Threads |-> IF t \in gone THEN <<>> ELSE todo[t]]
    /\ server' = IF p = Server THEN "down" ELSE server
    /\ exit' = [c \in Commands |-> IF c = p THEN "failure" ELSE exit[c]]
    /\ UNCHANGED <<schema, table, used, script, answer, remover, requests>>
-----------------------------------------------------------------------------
Step(t) == Begin(t) \/ (\E r \in Rows : Read(t, r)) \/ Exclude(t)
           \/ Refuse(t) \/ Throw(t) \/ Finish(t)

Next == \/ Start \/ \E t \in Threads : Step(t)
        \/ \E w \in Workers : Request(w)
        \/ \E p \in Commands \cup {Server} : Crash(p)

\* Threads run, and a server that failed is restarted.  The threads that wait for
\* the connection take turns (condition variable), hence the strong fairness.
Fairness == WF_vars(Start) /\ \A t \in Threads : SF_vars(Step(t))

Spec == Init /\ [][Next]_vars /\ Fairness
-----------------------------------------------------------------------------
TypeOK ==
    /\ schema \in [tables : {"none", "old", "there"}, indexes : BOOLEAN, versions : Nat]
    /\ table \in [Shares -> {Absent} \cup Nat] /\ used \subseteq Shares
    /\ server \in {"down", "starting", "ready"}
    /\ script \in [Commands -> CommandScripts]
    /\ todo \in [Threads -> Seq(ShareJobs \cup WholeJobs)]
    /\ lock \in [Threads -> {"closed", "none", "shared", "exclusive"}]
    /\ seen \in [Threads -> [Rows -> {Absent, Unread} \cup Nat]]
    /\ answer \in [Threads -> [word : {"nothing", "shown", "done", "not found", "too old",
                                       "refused"},
                               view : [Shares -> {Absent, Unread} \cup Nat]]]
    /\ remover \in [Shares -> Threads \cup {Server}]
    /\ exit \in [Commands -> {"running", "success", "failure"}]
    /\ requests \in 0..MaxRequests /\ crashes \in 0..MaxCrashes

\* Transactions are serial, however the locks of the processes interleave: each call
\* of the share manager, the list of all shares included, takes effect and sees the
\* rows at one moment, or is refused; no download is lost from a counter.
Serial == INSTANCE SerialStore
ImplementsSerialStore == Serial!Spec

\* Processes that start together prepare one database: a server that is up, and a
\* command that does what it was asked, find the tables, the indexes, and one
\* version; never more than one, whatever starts were interrupted.
IsUp(p) == IF p = Server THEN server = "ready"
           ELSE exit[p] = "running" /\ Len(todo[p]) <= Len(script[p])

PreparedOnce ==
    /\ schema.versions <= 1
    /\ (\E p \in Commands \cup {Server} : IsUp(p)) =>
          schema = [tables |-> "there", indexes |-> TRUE, versions |-> 1]

\* "must have only 1 connection to create implicit locking": the threads of one
\* process never get in each other's way.  A transaction is refused only if another
\* process is in one, and a server that starts fails only for that reason, because
\* it is killed, or because the database is old.
RefusedOnlyByOthers ==
    [][/\ \A t \in Threads :
             answer'[t].word = "refused" /\ answer[t].word # "refused" =>
                \E u \in Threads : Proc(u) # Proc(t) /\ InTransaction(u)
       /\ server = "starting" /\ server' = "down" =>
             \/ crashes' # crashes
             \/ schema.tables = "old"
             \/ \E c \in Commands : InTransaction(c)]_vars

\* "destroy EditUUID...": a run succeeds only if it destroyed all the shares it was
\* given; one that fails destroyed those up to some place in its list, also if a share
\* is named twice.
ExitTellsTruth ==
    \A c \in Commands :
        LET removed == {s \in Shares : remover[s] = c}
        IN  /\ exit[c] = "success" => removed = Named(script[c], "destroy")
            /\ \E n \in 0..Len(script[c]) : removed = Named(SubSeq(script[c], 1, n), "destroy")

\* Every call comes to an end, nobody waits for the connection for ever: as the
\* requests are bounded, all threads are idle again and again.
CallsEnd == []<>(\A t \in Threads : todo[t] = <<>>)

\* A server that is refused at its start by commands, or killed, is up in the end.
ServerGetsReady == schema.tables # "old" ~> server = "ready"
=============================================================================
