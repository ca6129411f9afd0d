---------------------------- MODULE DatabaseProofs ----------------------------
(* Theorems about Database, for any shares, threads, processes, commands and   *)
(* schedules.                                                                  *)
EXTENDS Database, SequenceTheorems, TLAPS

-----------------------------------------------------------------------------
(* The invariant.                                                          *)

\* One transaction in a process, and one process that writes.
Locking ==
    /\ \A t, u \in Threads :
          Proc(t) = Proc(u) /\ InTransaction(t) /\ InTransaction(u) => t = u
    /\ \A t, u \in Threads :
          lock[t] = "exclusive" /\ u # t => lock[u] \in {"closed", "none"}

\* What a transaction has read of the rows of its job is still in the rows: whoever
\* writes has waited until nobody has read.
ReadingOf(t) ==
    /\ lock[t] # "closed" => todo[t] # <<>>
    /\ lock[t] \in {"closed", "none"} => seen[t] = NothingSeen
    /\ \A r \in Rows : seen[t][r] # Unread =>
          r \in Reads(Head(todo[t])) /\ seen[t][r] = Row(r)
    /\ lock[t] = "exclusive" => Unseen(t) = {} /\ Writes(Head(todo[t]), seen[t])

Reading == \A t \in Threads : ReadingOf(t)

\* A share still to be created is nowhere else to be created, and never was.
Creating ==
    /\ \A s \in Shares : table[s] # Absent \/ remover[s] \in Commands => s \in used
    /\ \A t \in Threads : \A i \in 1..Len(todo[t]) : todo[t][i].op = "create" =>
          /\ todo[t][i].share \in used /\ table[todo[t][i].share] = Absent
          /\ remover[todo[t][i].share] \notin Commands
          /\ \A u \in Threads : \A j \in 1..Len(todo[u]) :
                todo[u][j] = todo[t][i] => u = t /\ j = i

\* What is in the database once k transactions of Db::prepare are over.
PreparedUpTo(k) ==
    /\ k >= 1 => schema.tables # "none"
    /\ k >= 2 => schema.indexes
    /\ k >= 3 => schema.tables = "there" /\ schema.versions = 1

\* Jobs are what remains of a script.
Remain(jobs, whole) ==
    /\ Len(jobs) <= Len(whole)
    /\ \A i \in 1..Len(jobs) : jobs[i] = whole[Len(whole) - Len(jobs) + i]

Starting ==
    /\ schema.versions <= 1
    /\ server = "ready" => PreparedUpTo(3)
    /\ IF server = "starting"
       THEN /\ todo[Main] # <<>> /\ Remain(todo[Main], Preparing)
            /\ PreparedUpTo(3 - Len(todo[Main]))
       ELSE todo[Main] = <<>>

\* A command is somewhere in its script, and has removed the shares named so far.
RemovedBy(c)  == {s \in Shares : remover[s] = c}
NamedUpTo(c, n) == {s \in Shares : \E i \in 1..n : script[c][i] = Job("destroy", s)}

CommandingOf(c) ==
    /\ exit[c] = "running" =>
          /\ todo[c] # <<>> /\ Remain(todo[c], Preparing \o script[c])
          /\ PreparedUpTo(3 + Len(script[c]) - Len(todo[c]))
          /\ RemovedBy(c) = NamedUpTo(c, Len(script[c]) - Len(todo[c]))
    /\ exit[c] # "running" => todo[c] = <<>>
    /\ exit[c] = "success" => RemovedBy(c) = NamedUpTo(c, Len(script[c]))
    /\ \E n \in 0..Len(script[c]) : RemovedBy(c) = NamedUpTo(c, n)

Commanding ==
    /\ \A s \in Shares : remover[s] \in Commands => table[s] = Absent
    /\ \A c \in Commands : CommandingOf(c)

DInv == TypeOK /\ Locking /\ Reading /\ Creating /\ Starting /\ Commanding

-----------------------------------------------------------------------------
(* Threads, jobs and what they read and write.                             *)

Jobs == ShareJobs \cup WholeJobs

\* Where a thread belongs.
LEMMA ProcOf ==
    /\ Main \in Threads /\ Commands \subseteq Threads /\ Workers \subseteq Threads
    /\ Proc(Main) = Server /\ \A w \in Workers : Proc(w) = Server
    /\ \A c \in Commands : Proc(c) = c /\ c # Server /\ c # Main
    /\ \A w \in Workers : w # Main /\ w \notin Commands
  BY DatabaseAssumption DEF Threads, Proc

\* A job is given by its kind and its share.
LEMMA JobIs ==
    ASSUME NEW job \in Jobs
    PROVE  /\ job = Job(job.op, job.share) /\ job.share \in Rows
           /\ \/ job.op \in {"describe", "create", "count", "destroy"} /\ job.share \in Shares
              \/ job.op \in {"tables", "indexes", "version", "list"} /\ job.share = Server
  BY DEF Jobs, ShareJobs, WholeJobs, Job, Rows

LEMMA PreparingIs ==
    /\ Preparing \in Seq(Jobs) /\ Len(Preparing) = 3
    /\ Preparing[1].op = "tables" /\ Preparing[2].op = "indexes" /\ Preparing[3].op = "version"
    /\ \A i \in 1..3 : Preparing[i].op \notin {"create", "destroy"}
<1>1. /\ Job("tables", Server) \in Jobs /\ Job("indexes", Server) \in Jobs
      /\ Job("version", Server) \in Jobs
  BY DEF Jobs, WholeJobs, Job
<1>2. Preparing \in Seq(Jobs) /\ Len(Preparing) = 3
  BY <1>1 DEF Preparing
<1>3. /\ Preparing[1].op = "tables" /\ Preparing[2].op = "indexes" /\ Preparing[3].op = "version"
  BY DEF Preparing, Job
<1>4. \A i \in 1..3 : i = 1 \/ i = 2 \/ i = 3
  OBVIOUS
<1> QED BY <1>2, <1>3, <1>4

\* The script of a command, after the preparation.
LEMMA WholeScript ==
    ASSUME script \in [Commands -> CommandScripts], NEW c \in Commands
    PROVE  /\ Preparing \o script[c] \in Seq(Jobs) /\ Len(script[c]) \in Nat
           /\ Len(Preparing \o script[c]) = 3 + Len(script[c])
           /\ \A i \in 1..3 + Len(script[c]) :
                 (Preparing \o script[c])[i] = IF i <= 3 THEN Preparing[i] ELSE script[c][i - 3]
<1> DEFINE x == script[c]
           y == Preparing
<1>1. x \in Seq(Jobs) /\ y \in Seq(Jobs) /\ Len(y) = 3
  BY PreparingIs, DatabaseAssumption DEF Jobs
<1> HIDE DEF x, y
<1>2. y \o x \in Seq(Jobs) /\ Len(y \o x) = 3 + Len(x) /\ Len(x) \in Nat
      /\ \A i \in 1..3 + Len(x) : (y \o x)[i] = IF i <= 3 THEN y[i] ELSE x[i - 3]
  <2>1. Len(x) \in Nat
    BY <1>1, LenProperties
  <2>2. y \o x \in Seq(Jobs) /\ Len(y \o x) = Len(y) + Len(x)
        /\ \A i \in 1..Len(y) + Len(x) : (y \o x)[i] = IF i <= Len(y) THEN y[i] ELSE x[i - Len(y)]
    BY <1>1, ConcatProperties
  <2> QED BY <1>1, <2>1, <2>2
<1> QED BY <1>2 DEF x, y

LEMMA ReadsOf ==
    ASSUME NEW job \in Jobs
    PROVE  /\ job.op = "list" => Reads(job) = Shares
           /\ job.op \in {"describe", "count", "destroy", "version"} => Reads(job) = {job.share}
           /\ job.op \in {"tables", "indexes", "create"} => Reads(job) = {}
  BY JobIs DEF Reads, Rows

LEMMA ResultOf ==
    ASSUME NEW job, NEW view
    PROVE  /\ job.op \in {"describe", "list"} =>
                 Result(job, view) = [word |-> "shown", view |-> [s \in Shares |-> view[s]]]
           /\ job.op \in {"create", "count", "destroy"} =>
                 Result(job, view) = [word |-> "done", view |-> Blank]
           /\ job.op \in {"tables", "indexes", "version"} =>
                 Result(job, view) = [word |-> "nothing", view |-> Blank]
<1>1. CASE job.op \in {"describe", "list"}
  <2>1. job.op \notin {"create", "count", "destroy"} /\ job.op \notin {"tables", "indexes", "version"}
    BY <1>1
  <2> QED BY <1>1, <2>1, Zenon DEF Result
<1>2. CASE job.op \in {"create", "count", "destroy"}
  <2>1. job.op \notin {"describe", "list"} /\ job.op \notin {"tables", "indexes", "version"}
    BY <1>2
  <2> QED BY <1>2, <2>1, Zenon DEF Result
<1>3. CASE job.op \in {"tables", "indexes", "version"}
  <2>1. job.op \notin {"describe", "list"} /\ job.op \notin {"create", "count", "destroy"}
    BY <1>3
  <2> QED BY <1>3, <2>1, Zenon DEF Result
<1> QED BY <1>1, <1>2, <1>3

-----------------------------------------------------------------------------
(* The end of a transaction.                                               *)

\* A thread in a transaction has a job, the first of the rest of its script.
LEMMA AtWork ==
    ASSUME DInv, NEW t \in Threads, InTransaction(t)
    PROVE  /\ todo[t] \in Seq(Jobs) /\ todo[t] # <<>> /\ Head(todo[t]) \in Jobs
           /\ Len(todo[t]) \in Nat \ {0} /\ Head(todo[t]) = todo[t][1]
<1>1. todo[t] \in Seq(Jobs) /\ todo[t] # <<>>
  BY DEF DInv, TypeOK, Reading, ReadingOf, InTransaction, Jobs
<1>2. Head(todo[t]) \in Jobs /\ Len(todo[t]) \in Nat /\ Len(todo[t]) # 0 /\ Head(todo[t]) = todo[t][1]
  BY <1>1, HeadTailProperties, EmptySeq, LenProperties
<1> QED BY <1>1, <1>2

\* A transaction that has read its rows knows what is in them.
LEMMA SeenIsCurrent ==
    ASSUME DInv, NEW t \in Threads, InTransaction(t), Unseen(t) = {}
    PROVE  \A r \in Reads(Head(todo[t])) : r \in Rows /\ seen[t][r] = Row(r)
<1> DEFINE job == Head(todo[t])
<1>1. job \in Jobs
  BY AtWork
<1>2. \A r \in Reads(job) : r \in Rows
  <2>1. Shares \subseteq Rows
    BY DEF Rows
  <2> QED BY <1>1, <2>1, JobIs, ReadsOf
<1>3. \A r \in Reads(job) : seen[t][r] # Unread
  BY DEF Unseen
<1> QED BY <1>2, <1>3 DEF DInv, Reading, ReadingOf

\* What a job that has been done has done.
Grows ==
    /\ schema' \in [tables : {"none", "old", "there"}, indexes : BOOLEAN, versions : Nat]
    /\ schema'.versions <= 1 /\ (schema.versions = 1 => schema'.versions = 1)
    /\ schema.tables # "none" => schema'.tables = schema.tables
    /\ schema.indexes => schema'.indexes

Done(job) ==
    \/ /\ job.op \in {"tables", "indexes", "version"} /\ table' = table /\ Grows
       /\ job.op = "tables"  => schema'.tables # "none"
       /\ job.op = "indexes" => schema'.indexes
       /\ job.op = "version" => schema'.tables = "there" /\ schema'.versions = 1
    \/ job.op = "list" /\ table' = table /\ schema' = schema
    \/ job.op = "describe" /\ table[job.share] # Absent /\ table' = table /\ schema' = schema
    \/ job.op = "create" /\ table' = [table EXCEPT ![job.share] = 0] /\ schema' = schema
    \/ job.op = "count" /\ table[job.share] = Absent /\ table' = table /\ schema' = schema
    \/ /\ job.op = "count" /\ table[job.share] # Absent /\ schema' = schema
       /\ table' = [table EXCEPT ![job.share] = @ + 1]
    \/ /\ job.op = "destroy" /\ table[job.share] # Absent /\ schema' = schema
       /\ table' = [table EXCEPT ![job.share] = Absent]

LEMMA FinishDoes ==
    ASSUME DInv, NEW t \in Threads, Finish(t)
    PROVE  InTransaction(t) /\ Unseen(t) = {} /\ Done(Head(todo[t]))
<1> DEFINE job  == Head(todo[t])
           view == seen[t]
<1>1. InTransaction(t) /\ Unseen(t) = {}
  BY DEF Finish, HasRead, InTransaction, DInv, Reading, ReadingOf
<1>2. job \in Jobs
  BY <1>1, AtWork
<1>3. \/ Writes(job, view) /\ Effect(job, view)
      \/ ~Writes(job, view) /\ ~Throws(job, view) /\ UNCHANGED <<schema, table>>
  BY DEF Finish, DInv, Reading, ReadingOf
<1>4. job.op \in {"describe", "count", "destroy"} => view[job.share] = table[job.share]
  <2>1. job.op \in {"describe", "count", "destroy"} => job.share \in Shares /\ job.share # Server
    BY <1>2, JobIs, DatabaseAssumption
  <2> QED BY <1>1, <1>2, <2>1, SeenIsCurrent, ReadsOf DEF Row
<1>5. job.op = "version" => view[Server] = schema.versions
  <2>1. job.op = "version" => job.share = Server
    BY <1>2, JobIs
  <2> QED BY <1>1, <1>2, <2>1, SeenIsCurrent, ReadsOf DEF Row
<1>6. /\ schema \in [tables : {"none", "old", "there"}, indexes : BOOLEAN, versions : Nat]
      /\ schema.versions \in Nat /\ schema.versions <= 1
  BY DEF DInv, TypeOK, Starting
<1>7. job.op \in {"tables", "indexes", "version", "list", "describe", "create", "count", "destroy"}
  BY <1>2, JobIs
<1> SUFFICES Done(job)
  BY <1>1
<1> HIDE DEF job, view
<1>8. CASE job.op = "tables"
  <2>1. \/ schema.tables = "none" /\ schema' = [schema EXCEPT !.tables = "there"] /\ table' = table
        \/ schema.tables # "none" /\ schema' = schema /\ table' = table
    BY <1>3, <1>8 DEF Writes, Effect
  <2>2. Grows /\ schema'.tables # "none"
    BY <1>6, <2>1 DEF Grows
  <2> QED BY <1>8, <2>1, <2>2 DEF Done
<1>9. CASE job.op = "indexes"
  <2>1. \/ schema' = [schema EXCEPT !.indexes = TRUE] /\ table' = table
        \/ schema.indexes /\ schema' = schema /\ table' = table
    BY <1>3, <1>9 DEF Writes, Effect
  <2>2. Grows /\ schema'.indexes
    BY <1>6, <2>1 DEF Grows
  <2> QED BY <1>9, <2>1, <2>2 DEF Done
<1>10. CASE job.op = "version"
  <2>1. \/ /\ schema.tables = "there" /\ schema.versions = 0 /\ table' = table
           /\ schema' = [schema EXCEPT !.versions = @ + 1]
        \/ /\ schema.tables = "there" /\ schema.versions # 0 /\ table' = table
           /\ schema' = schema
    BY <1>3, <1>5, <1>10 DEF Writes, Effect, Throws
  <2>2. Grows /\ schema'.tables = "there" /\ schema'.versions = 1
    BY <1>6, <2>1 DEF Grows
  <2> QED BY <1>10, <2>1, <2>2 DEF Done
<1>11. CASE job.op \in {"list", "describe"}
  BY <1>3, <1>4, <1>11 DEF Writes, Done, Throws
<1>12. CASE job.op = "create"
  BY <1>3, <1>12 DEF Writes, Effect, Done
<1>13. CASE job.op = "count"
  <2>1. \/ table[job.share] = Absent /\ table' = table /\ schema' = schema
        \/ /\ table[job.share] # Absent /\ schema' = schema
           /\ table' = [table EXCEPT ![job.share] = table[job.share] + 1]
    BY <1>3, <1>4, <1>13 DEF Writes, Effect
  <2> QED BY <1>13, <2>1 DEF Done
<1>14. CASE job.op = "destroy"
  BY <1>3, <1>4, <1>14 DEF Writes, Effect, Done, Throws
<1> QED BY <1>7, <1>8, <1>9, <1>10, <1>11, <1>12, <1>13, <1>14

-----------------------------------------------------------------------------
(* Types, locks and what was read.                                         *)

LEMMA BlankTypes ==
    /\ NothingSeen \in [Rows -> {Absent, Unread} \cup Nat]
    /\ Blank \in [Shares -> {Absent, Unread} \cup Nat]
  BY DEF NothingSeen, Blank

\* Requests are made of jobs.
LEMMA RequestJobs ==
    ASSUME NEW jobs \in RequestScripts, used \subseteq Shares
    PROVE  /\ jobs \in Seq(Jobs) /\ Len(jobs) \in {1, 2}
           /\ jobs[1] \in Jobs /\ jobs[1].share \in Shares
           /\ \A i \in 1..Len(jobs) : jobs[i].op = "create" =>
                 Len(jobs) = 1 /\ jobs[i].share \notin used /\ i = 1
<1>1. CASE \E s \in used : jobs = <<Job("describe", s), Job("count", s)>>
  <2>1. PICK s \in used : jobs = <<Job("describe", s), Job("count", s)>>
    BY <1>1
  <2>2. Job("describe", s) \in Jobs /\ Job("count", s) \in Jobs
    BY DEF Jobs, ShareJobs, Job
  <2>3. jobs \in Seq(Jobs) /\ Len(jobs) = 2 /\ jobs[1] = Job("describe", s) /\ jobs[2] = Job("count", s)
    BY <2>1, <2>2
  <2>4. \A i \in 1..Len(jobs) : i = 1 \/ i = 2
    BY <2>3
  <2>5. jobs[1].share = s /\ jobs[1].op = "describe" /\ jobs[2].op = "count"
    BY <2>3 DEF Job
  <2>6. \A i \in 1..Len(jobs) : jobs[i].op # "create"
    BY <2>4, <2>5
  <2> QED BY <2>2, <2>3, <2>5, <2>6
<1>2. CASE \E s \in used : jobs = <<Job("destroy", s)>>
  <2>1. PICK s \in used : jobs = <<Job("destroy", s)>>
    BY <1>2
  <2>2. Job("destroy", s) \in Jobs
    BY DEF Jobs, ShareJobs, Job
  <2>3. jobs \in Seq(Jobs) /\ Len(jobs) = 1 /\ jobs[1] = Job("destroy", s)
    BY <2>1, <2>2
  <2>4. \A i \in 1..Len(jobs) : i = 1
    BY <2>3
  <2>5. jobs[1].share = s /\ jobs[1].op = "destroy"
    BY <2>3 DEF Job
  <2>6. \A i \in 1..Len(jobs) : jobs[i].op # "create"
    BY <2>4, <2>5
  <2> QED BY <2>2, <2>3, <2>5, <2>6
<1>3. CASE \E s \in Shares \ used : jobs = <<Job("create", s)>>
  <2>1. PICK s \in Shares \ used : jobs = <<Job("create", s)>>
    BY <1>3
  <2>2. Job("create", s) \in Jobs
    BY DEF Jobs, ShareJobs, Job
  <2>3. jobs \in Seq(Jobs) /\ Len(jobs) = 1 /\ jobs[1] = Job("create", s)
    BY <2>1, <2>2
  <2>4. \A i \in 1..Len(jobs) : i = 1
    BY <2>3
  <2>5. jobs[1].share = s
    BY <2>3 DEF Job
  <2> QED BY <2>1, <2>2, <2>3, <2>4, <2>5
<1> QED BY <1>1, <1>2, <1>3 DEF RequestScripts

LEMMA TypesStart == ASSUME DInv, Start PROVE TypeOK'
<1>1. Preparing \in Seq(ShareJobs \cup WholeJobs)
  BY PreparingIs DEF Jobs
<1> QED BY <1>1 DEF DInv, TypeOK, Start

LEMMA TypesRequest == ASSUME DInv, NEW w \in Workers, Request(w) PROVE TypeOK'
<1>1. PICK jobs \in RequestScripts :
              todo' = [todo EXCEPT ![w] = jobs] /\ used' = used \cup {jobs[1].share}
  BY DEF Request
<1>2. jobs \in Seq(ShareJobs \cup WholeJobs) /\ jobs[1].share \in Shares
  BY RequestJobs DEF DInv, TypeOK, Jobs
<1>3. UNCHANGED <<schema, table, server, script, lock, seen, answer, remover, exit, crashes>>
  BY DEF Request
<1>4. requests' \in 0..MaxRequests
  <2>1. requests \in 0..MaxRequests /\ requests < MaxRequests /\ requests' = requests + 1
    BY DEF Request, DInv, TypeOK
  <2> QED BY <2>1, DatabaseAssumption
<1> QED BY <1>1, <1>2, <1>3, <1>4 DEF DInv, TypeOK

LEMMA TypesLock ==
    ASSUME DInv, NEW t \in Threads,
           Begin(t) \/ (\E r \in Rows : Read(t, r)) \/ Exclude(t)
    PROVE  TypeOK'
<1> USE DEF DInv, TypeOK
<1>1. CASE Begin(t)
  BY <1>1 DEF Begin
<1>2. CASE Exclude(t)
  BY <1>2 DEF Exclude
<1>3. ASSUME NEW r \in Rows, Read(t, r) PROVE TypeOK'
  <2>1. Row(r) \in {Absent, Unread} \cup Nat
    BY DEF Row, Rows
  <2>2. seen' = [seen EXCEPT ![t] = [seen[t] EXCEPT ![r] = Row(r)]] /\ seen[t] \in [Rows -> {Absent, Unread} \cup Nat]
    BY <1>3 DEF Read
  <2>3. seen' \in [Threads -> [Rows -> {Absent, Unread} \cup Nat]]
    BY <2>1, <2>2
  <2> QED BY <1>3, <2>3 DEF Read
<1> QED BY <1>1, <1>2, <1>3

LEMMA TypesException ==
    ASSUME DInv, NEW t \in Threads, NEW told \in {"not found", "too old", "refused"},
           Exception(t, told)
    PROVE  TypeOK'
<1>1. /\ lock' = [lock EXCEPT ![t] = "closed"] /\ seen' = [seen EXCEPT ![t] = NothingSeen]
      /\ todo' = [todo EXCEPT ![t] = <<>>]
      /\ answer' = [answer EXCEPT ![t] = [word |-> told, view |-> Blank]]
      /\ server' = IF t = Main THEN "down" ELSE server
      /\ exit' = [c \in Commands |-> IF c = t THEN "failure" ELSE exit[c]]
      /\ UNCHANGED <<schema, table, used, script, remover, requests, crashes>>
  BY DEF Exception, Close
<1>2. <<>> \in Seq(ShareJobs \cup WholeJobs)
  BY EmptySeq
<1>3. [word |-> told, view |-> Blank] \in
          [word : {"nothing", "shown", "done", "not found", "too old", "refused"},
           view : [Shares -> {Absent, Unread} \cup Nat]]
  BY BlankTypes
<1> QED BY <1>1, <1>2, <1>3, BlankTypes DEF DInv, TypeOK

LEMMA TypesFinish == ASSUME DInv, NEW t \in Threads, Finish(t) PROVE TypeOK'
<1> DEFINE job == Head(todo[t])
<1>1. InTransaction(t) /\ job \in Jobs /\ todo[t] \in Seq(Jobs) /\ todo[t] # <<>> /\ Done(job)
  BY FinishDoes, AtWork
<1>2. /\ lock' = [lock EXCEPT ![t] = "closed"] /\ seen' = [seen EXCEPT ![t] = NothingSeen]
      /\ todo' = [todo EXCEPT ![t] = Tail(todo[t])]
      /\ answer' = [answer EXCEPT ![t] = Result(job, seen[t])]
      /\ remover' = IF job.op = "destroy" THEN [remover EXCEPT ![job.share] = t] ELSE remover
      /\ server' \in {"ready", server}
      /\ \A c \in Commands : exit'[c] \in {"success", exit[c]}
      /\ exit' = [c \in Commands |-> exit'[c]]
      /\ UNCHANGED <<used, script, requests, crashes>>
  BY DEF Finish, Close
<1> HIDE DEF job
<1>3. Tail(todo[t]) \in Seq(ShareJobs \cup WholeJobs)
  BY <1>1, HeadTailProperties DEF Jobs
<1>4. Result(job, seen[t]) \in
          [word : {"nothing", "shown", "done", "not found", "too old", "refused"},
           view : [Shares -> {Absent, Unread} \cup Nat]]
  <2>1. [s \in Shares |-> seen[t][s]] \in [Shares -> {Absent, Unread} \cup Nat]
    <3>1. seen[t] \in [Rows -> {Absent, Unread} \cup Nat]
      BY DEF DInv, TypeOK
    <3>2. \A s \in Shares : seen[t][s] \in {Absent, Unread} \cup Nat
      BY <3>1 DEF Rows
    <3> QED BY <3>2
  <2>2. Result(job, seen[t]).word \in {"nothing", "shown", "done"}
        /\ Result(job, seen[t]) = [word |-> Result(job, seen[t]).word, view |-> Result(job, seen[t]).view]
        /\ Result(job, seen[t]).view \in [Shares -> {Absent, Unread} \cup Nat]
    BY <1>1, <2>1, JobIs, ResultOf, BlankTypes
  <2> QED BY <2>2
<1>5. table' \in [Shares -> {Absent} \cup Nat]
  <2>1. \A s \in Shares : table[s] # Absent => table[s] + 1 \in Nat
    <3>1. \A s \in Shares : table[s] # Absent => table[s] \in Nat
      BY DEF DInv, TypeOK
    <3> QED BY <3>1
  <2>2. table \in [Shares -> {Absent} \cup Nat] /\ 0 \in {Absent} \cup Nat /\ Absent \in {Absent} \cup Nat
    BY DEF DInv, TypeOK
  <2>3. job.op \in {"create", "count", "destroy"} => job.share \in Shares
    BY <1>1, JobIs
  <2> QED BY <1>1, <2>1, <2>2, <2>3 DEF Done
<1>6. schema' \in [tables : {"none", "old", "there"}, indexes : BOOLEAN, versions : Nat]
  BY <1>1 DEF Done, Grows, DInv, TypeOK
<1>7. remover' \in [Shares -> Threads \cup {Server}]
  BY <1>2 DEF DInv, TypeOK
<1>8. exit' \in [Commands -> {"running", "success", "failure"}]
  <2>1. \A c \in Commands : exit'[c] \in {"running", "success", "failure"}
    BY <1>2 DEF DInv, TypeOK
  <2> QED BY <1>2, <2>1
<1> QED BY <1>2, <1>3, <1>4, <1>5, <1>6, <1>7, <1>8, BlankTypes DEF DInv, TypeOK

LEMMA TypesCrash == ASSUME DInv, NEW p, Crash(p) PROVE TypeOK'
<1> DEFINE gone == {t \in Threads : Proc(t) = p}
<1>1. /\ lock' = [t \in Threads |-> IF t \in gone THEN "closed" ELSE lock[t]]
      /\ seen' = [t \in Threads |-> IF t \in gone THEN NothingSeen ELSE seen[t]]
      /\ todo' = [t \in Threads |-> IF t \in gone THEN <<>> ELSE todo[t]]
      /\ server' = IF p = Server THEN "down" ELSE server
      /\ exit' = [c \in Commands |-> IF c = p THEN "failure" ELSE exit[c]]
      /\ UNCHANGED <<schema, table, used, script, answer, remover, requests>>
  BY DEF Crash
<1> HIDE DEF gone
<1>2. <<>> \in Seq(ShareJobs \cup WholeJobs)
  BY EmptySeq
<1>3. crashes' \in 0..MaxCrashes
  <2>1. crashes \in 0..MaxCrashes /\ crashes < MaxCrashes /\ crashes' = crashes + 1
    BY DEF Crash, DInv, TypeOK
  <2> QED BY <2>1, DatabaseAssumption
<1> QED BY <1>1, <1>2, <1>3, BlankTypes DEF DInv, TypeOK

\* A thread that does nothing, while others write only if it has read nothing.
LEMMA ReadingKept ==
    ASSUME NEW u \in Threads, ReadingOf(u),
           lock'[u] = lock[u], seen'[u] = seen[u], todo'[u] = todo[u],
           UNCHANGED <<schema, table>> \/ lock[u] \in {"closed", "none"}
    PROVE  ReadingOf(u)'
<1>1. CASE UNCHANGED <<schema, table>>
  BY <1>1 DEF ReadingOf, Unseen, Reads, Writes, Row
<1>2. CASE lock[u] \in {"closed", "none"}
  <2>1. \A r \in Rows : seen'[u][r] = Unread
    BY <1>2 DEF ReadingOf, NothingSeen
  <2> QED BY <1>2, <2>1 DEF ReadingOf
<1> QED BY <1>1, <1>2

\* A thread that is in no transaction any more.
LEMMA ReadingClosed ==
    ASSUME NEW u \in Threads, lock'[u] = "closed", seen'[u] = NothingSeen
    PROVE  ReadingOf(u)'
<1>1. \A r \in Rows : seen'[u][r] = Unread
  BY DEF NothingSeen
<1> QED BY <1>1 DEF ReadingOf

\* Transactions that end leave the others alone.
LEMMA LocksEnd ==
    ASSUME DInv, NEW gone \in SUBSET Threads,
           \A u \in gone : lock'[u] = "closed" /\ seen'[u] = NothingSeen,
           \A u \in Threads \ gone :
              lock'[u] = lock[u] /\ seen'[u] = seen[u] /\ todo'[u] = todo[u],
           UNCHANGED <<schema, table>> \/ \A u \in Threads \ gone : lock[u] \in {"closed", "none"}
    PROVE  Locking' /\ Reading'
<1>1. Locking'
  BY DEF DInv, Locking, InTransaction
<1>2. ASSUME NEW u \in Threads PROVE ReadingOf(u)'
  <2>1. CASE u \in gone
    BY <2>1, ReadingClosed
  <2>2. CASE u \notin gone
    BY <2>2, ReadingKept DEF DInv, Reading
  <2> QED BY <2>1, <2>2
<1> QED BY <1>1, <1>2 DEF Reading

LEMMA LocksQuiet ==
    ASSUME DInv, UNCHANGED <<lock, seen, schema, table>>,
           \A u \in Threads : lock[u] # "closed" => todo'[u] = todo[u]
    PROVE  Locking' /\ Reading'
<1>1. Locking'
  BY DEF DInv, Locking, InTransaction
<1>2. ASSUME NEW u \in Threads PROVE ReadingOf(u)'
  <2>1. CASE lock[u] = "closed"
    BY <2>1, ReadingClosed DEF DInv, Reading, ReadingOf
  <2>2. CASE lock[u] # "closed"
    BY <2>2, ReadingKept DEF DInv, Reading
  <2> QED BY <2>1, <2>2
<1> QED BY <1>1, <1>2 DEF Reading

LEMMA LocksBegin == ASSUME DInv, NEW t \in Threads, Begin(t) PROVE Locking' /\ Reading'
<1>1. /\ todo[t] # <<>> /\ lock[t] = "closed" /\ lock' = [lock EXCEPT ![t] = "none"]
      /\ \A u \in Threads : Proc(u) = Proc(t) => lock[u] = "closed"
      /\ UNCHANGED <<schema, table, todo, seen>>
      /\ lock \in [Threads -> {"closed", "none", "shared", "exclusive"}]
  BY DEF Begin, InTransaction, ConnectionFree, DInv, TypeOK
<1>2. Locking'
  BY <1>1 DEF DInv, Locking, InTransaction
<1>3. ASSUME NEW u \in Threads PROVE ReadingOf(u)'
  <2>1. CASE u = t
    <3>1. seen'[u] = NothingSeen /\ lock'[u] = "none" /\ todo'[u] # <<>>
      BY <1>1, <2>1 DEF DInv, Reading, ReadingOf
    <3>2. \A r \in Rows : seen'[u][r] = Unread
      BY <3>1 DEF NothingSeen
    <3> QED BY <3>1, <3>2 DEF ReadingOf
  <2>2. CASE u # t
    BY <1>1, <2>2, ReadingKept DEF DInv, Reading
  <2> QED BY <2>1, <2>2
<1> QED BY <1>2, <1>3 DEF Reading

LEMMA LocksRead ==
    ASSUME DInv, NEW t \in Threads, NEW r \in Rows, Read(t, r) PROVE Locking' /\ Reading'
<1>1. /\ lock[t] # "closed" /\ seen[t][r] = Unread /\ r \in Reads(Head(todo[t]))
      /\ lock' = [lock EXCEPT ![t] = "shared"] /\ seen' = [seen EXCEPT ![t][r] = Row(r)]
      /\ UNCHANGED <<schema, table, todo>>
      /\ \A u \in Threads \ {t} : lock[u] # "exclusive"
      /\ lock \in [Threads -> {"closed", "none", "shared", "exclusive"}]
      /\ seen \in [Threads -> [Rows -> {Absent, Unread} \cup Nat]]
  BY DEF Read, InTransaction, Unseen, MayRead, Others, DInv, TypeOK
<1>2. lock[t] # "exclusive"
  BY <1>1 DEF DInv, Reading, ReadingOf, Unseen
<1>3. Locking'
  BY <1>1, <1>2 DEF DInv, Locking, InTransaction
<1>4. ASSUME NEW u \in Threads PROVE ReadingOf(u)'
  <2>1. CASE u = t
    <3>1. lock'[u] = "shared" /\ todo'[u] # <<>>
      BY <1>1, <2>1 DEF DInv, Reading, ReadingOf
    <3>2. seen'[u] = [seen[u] EXCEPT ![r] = Row(r)] /\ seen[u] \in [Rows -> {Absent, Unread} \cup Nat]
      BY <1>1, <2>1
    <3>3. ASSUME NEW q \in Rows, seen'[u][q] # Unread
          PROVE  q \in Reads(Head(todo[u])) /\ seen'[u][q] = Row(q)
      <4>1. CASE q = r
        BY <1>1, <2>1, <3>2, <4>1
      <4>2. CASE q # r
        BY <3>2, <3>3, <4>2 DEF DInv, Reading, ReadingOf
      <4> QED BY <4>1, <4>2
    <3>4. \A q \in Rows : Row(q)' = Row(q)
      BY <1>1 DEF Row
    <3>5. Reads(Head(todo'[u])) = Reads(Head(todo[u]))
      BY <1>1
    <3> QED BY <3>1, <3>3, <3>4, <3>5 DEF ReadingOf, Reads
  <2>2. CASE u # t
    BY <1>1, <2>2, ReadingKept DEF DInv, Reading
  <2> QED BY <2>1, <2>2
<1> QED BY <1>3, <1>4 DEF Reading

LEMMA LocksExclude == ASSUME DInv, NEW t \in Threads, Exclude(t) PROVE Locking' /\ Reading'
<1>1. /\ lock[t] \in {"none", "shared"} /\ Unseen(t) = {} /\ Writes(Head(todo[t]), seen[t])
      /\ lock' = [lock EXCEPT ![t] = "exclusive"]
      /\ UNCHANGED <<schema, table, todo, seen>>
      /\ \A u \in Threads \ {t} : lock[u] \in {"closed", "none"}
      /\ lock \in [Threads -> {"closed", "none", "shared", "exclusive"}]
  BY DEF Exclude, HasRead, MayExclude, Others, DInv, TypeOK
<1>2. Locking'
  BY <1>1 DEF DInv, Locking, InTransaction
<1>3. ASSUME NEW u \in Threads PROVE ReadingOf(u)'
  <2>1. CASE u = t
    <3>1. lock'[u] = "exclusive"
      BY <1>1, <2>1
    <3> QED BY <1>1, <2>1, <3>1 DEF DInv, Reading, ReadingOf, Unseen, Reads, Writes, Row
  <2>2. CASE u # t
    BY <1>1, <2>2, ReadingKept DEF DInv, Reading
  <2> QED BY <2>1, <2>2
<1> QED BY <1>2, <1>3 DEF Reading

LEMMA LocksException ==
    ASSUME DInv, NEW t \in Threads, NEW told, Exception(t, told) PROVE Locking' /\ Reading'
<1>1. /\ lock' = [lock EXCEPT ![t] = "closed"] /\ seen' = [seen EXCEPT ![t] = NothingSeen]
      /\ todo' = [todo EXCEPT ![t] = <<>>] /\ UNCHANGED <<schema, table>>
  BY DEF Exception, Close
<1>2. /\ lock \in [Threads -> {"closed", "none", "shared", "exclusive"}]
      /\ seen \in [Threads -> [Rows -> {Absent, Unread} \cup Nat]]
      /\ todo \in [Threads -> Seq(ShareJobs \cup WholeJobs)]
  BY DEF DInv, TypeOK
<1>3. /\ \A u \in {t} : lock'[u] = "closed" /\ seen'[u] = NothingSeen
      /\ \A u \in Threads \ {t} : lock'[u] = lock[u] /\ seen'[u] = seen[u] /\ todo'[u] = todo[u]
  BY <1>1, <1>2
<1>4. {t} \in SUBSET Threads
  OBVIOUS
<1> QED BY <1>1, <1>3, <1>4, LocksEnd

LEMMA LocksFinish == ASSUME DInv, NEW t \in Threads, Finish(t) PROVE Locking' /\ Reading'
<1>1. /\ lock' = [lock EXCEPT ![t] = "closed"] /\ seen' = [seen EXCEPT ![t] = NothingSeen]
      /\ todo' = [todo EXCEPT ![t] = Tail(todo[t])]
      /\ UNCHANGED <<schema, table>> \/ lock[t] = "exclusive"
  BY DEF Finish, Close
<1>2. /\ lock \in [Threads -> {"closed", "none", "shared", "exclusive"}]
      /\ seen \in [Threads -> [Rows -> {Absent, Unread} \cup Nat]]
      /\ todo \in [Threads -> Seq(ShareJobs \cup WholeJobs)]
  BY DEF DInv, TypeOK
<1>3. UNCHANGED <<schema, table>> \/ \A u \in Threads \ {t} : lock[u] \in {"closed", "none"}
  BY <1>1 DEF DInv, Locking
<1>4. /\ \A u \in {t} : lock'[u] = "closed" /\ seen'[u] = NothingSeen
      /\ \A u \in Threads \ {t} : lock'[u] = lock[u] /\ seen'[u] = seen[u] /\ todo'[u] = todo[u]
  BY <1>1, <1>2
<1>5. {t} \in SUBSET Threads
  OBVIOUS
<1> QED BY <1>3, <1>4, <1>5, LocksEnd

LEMMA LocksCrash == ASSUME DInv, NEW p, Crash(p) PROVE Locking' /\ Reading'
<1> DEFINE gone == {t \in Threads : Proc(t) = p}
<1>1. /\ lock' = [t \in Threads |-> IF t \in gone THEN "closed" ELSE lock[t]]
      /\ seen' = [t \in Threads |-> IF t \in gone THEN NothingSeen ELSE seen[t]]
      /\ todo' = [t \in Threads |-> IF t \in gone THEN <<>> ELSE todo[t]]
      /\ UNCHANGED <<schema, table>> /\ gone \subseteq Threads
  BY DEF Crash
<1> HIDE DEF gone
<1>2. /\ \A u \in gone : lock'[u] = "closed" /\ seen'[u] = NothingSeen
      /\ \A u \in Threads \ gone : lock'[u] = lock[u] /\ seen'[u] = seen[u] /\ todo'[u] = todo[u]
  BY <1>1
<1>3. gone \in SUBSET Threads
  BY <1>1
<1> QED BY <1>1, <1>2, <1>3, LocksEnd

-----------------------------------------------------------------------------
(* Shares to be created.                                                   *)

\* Scripts from which jobs at the front are gone, k of them.
LEMMA CreatingKept ==
    ASSUME Creating, used' = used, NEW k \in [Threads -> Nat],
           \A t \in Threads : Len(todo[t]) \in Nat /\ Len(todo'[t]) \in Nat,
           \A t \in Threads : \A i \in 1..Len(todo'[t]) :
              i + k[t] \in 1..Len(todo[t]) /\ todo'[t][i] = todo[t][i + k[t]],
           \A s \in Shares : table'[s] # Absent \/ remover'[s] \in Commands => s \in used,
           \A t \in Threads : \A i \in 1..Len(todo'[t]) : todo'[t][i].op = "create" =>
              table'[todo'[t][i].share] = Absent /\ remover'[todo'[t][i].share] \notin Commands
    PROVE  Creating'
<1>1. ASSUME NEW t \in Threads, NEW i \in 1..Len(todo'[t]), todo'[t][i].op = "create"
      PROVE  /\ todo'[t][i].share \in used
             /\ \A u \in Threads : \A j \in 1..Len(todo'[u]) :
                   todo'[u][j] = todo'[t][i] => u = t /\ j = i
  <2>1. i + k[t] \in 1..Len(todo[t]) /\ todo'[t][i] = todo[t][i + k[t]]
    OBVIOUS
  <2>2. todo'[t][i].share \in used
    BY <1>1, <2>1 DEF Creating
  <2>3. ASSUME NEW u \in Threads, NEW j \in 1..Len(todo'[u]), todo'[u][j] = todo'[t][i]
        PROVE  u = t /\ j = i
    <3>1. j + k[u] \in 1..Len(todo[u]) /\ todo[u][j + k[u]] = todo[t][i + k[t]]
      BY <2>1, <2>3
    <3>2. u = t /\ j + k[u] = i + k[t]
      BY <1>1, <2>1, <3>1 DEF Creating
    <3> QED BY <3>2
  <2> QED BY <2>2, <2>3
<1> QED BY <1>1 DEF Creating

LEMMA CreatingEnds ==
    ASSUME DInv, UNCHANGED <<table, used, remover>>,
           \A t \in Threads : todo'[t] = todo[t] \/ todo'[t] = <<>>
    PROVE  Creating'
<1> DEFINE k == [t \in Threads |-> 0]
<1>1. ASSUME NEW t \in Threads
      PROVE  /\ Len(todo[t]) \in Nat /\ Len(todo'[t]) \in Nat
             /\ \A i \in 1..Len(todo'[t]) :
                   i + k[t] \in 1..Len(todo[t]) /\ todo'[t][i] = todo[t][i + k[t]]
  <2>1. todo[t] \in Seq(Jobs)
    BY DEF DInv, TypeOK, Jobs
  <2>2. Len(todo[t]) \in Nat
    BY <2>1, LenProperties
  <2>3. CASE todo'[t] = <<>>
    <3>1. Len(todo'[t]) = 0
      BY <2>3
    <3> QED BY <2>2, <3>1
  <2>4. CASE todo'[t] = todo[t]
    BY <2>2, <2>4
  <2> QED BY <2>3, <2>4
<1>2. k \in [Threads -> Nat]
  OBVIOUS
<1>3. /\ \A s \in Shares : table'[s] # Absent \/ remover'[s] \in Commands => s \in used
      /\ used' = used /\ Creating
  BY DEF DInv, Creating
<1>4. ASSUME NEW t \in Threads, NEW i \in 1..Len(todo'[t]), todo'[t][i].op = "create"
      PROVE  table'[todo'[t][i].share] = Absent /\ remover'[todo'[t][i].share] \notin Commands
  <2>1. i + k[t] \in 1..Len(todo[t]) /\ todo'[t][i] = todo[t][i + k[t]]
    BY <1>1
  <2> HIDE DEF k
  <2> QED BY <1>4, <2>1 DEF DInv, Creating
<1> HIDE DEF k
<1> QED BY <1>1, <1>2, <1>3, <1>4, CreatingKept

LEMMA CreatingStart == ASSUME DInv, Start PROVE Creating'
<1>1. todo' = [todo EXCEPT ![Main] = Preparing] /\ UNCHANGED <<table, used, remover>>
      /\ todo \in [Threads -> Seq(ShareJobs \cup WholeJobs)]
  BY DEF Start, DInv, TypeOK
<1>2. \A i \in 1..Len(Preparing) : Preparing[i].op # "create"
  BY PreparingIs
<1>3. \A t \in Threads : t # Main => todo'[t] = todo[t]
  BY <1>1
<1>4. todo'[Main] = Preparing
  BY <1>1, ProcOf
<1> QED BY <1>1, <1>2, <1>3, <1>4 DEF DInv, Creating

LEMMA CreatingRequest == ASSUME DInv, NEW w \in Workers, Request(w) PROVE Creating'
<1>1. PICK jobs \in RequestScripts :
              todo' = [todo EXCEPT ![w] = jobs] /\ used' = used \cup {jobs[1].share}
  BY DEF Request
<1>2. UNCHANGED <<table, remover>> /\ todo \in [Threads -> Seq(ShareJobs \cup WholeJobs)]
      /\ used \subseteq Shares /\ w \in Threads
  BY ProcOf DEF Request, DInv, TypeOK
<1>3. \A i \in 1..Len(jobs) : jobs[i].op = "create" =>
          /\ Len(jobs) = 1 /\ i = 1 /\ jobs[i].share \in Shares
          /\ jobs[i].share \notin used /\ jobs[i].share \in used'
  BY <1>1, <1>2, RequestJobs
<1>4. todo'[w] = jobs /\ \A t \in Threads : t # w => todo'[t] = todo[t]
  BY <1>1, <1>2
<1>5. \A s \in Shares : table'[s] # Absent \/ remover'[s] \in Commands => s \in used'
  BY <1>1, <1>2 DEF DInv, Creating
<1>6. ASSUME NEW t \in Threads, NEW i \in 1..Len(todo'[t]), todo'[t][i].op = "create"
      PROVE  /\ todo'[t][i].share \in used' /\ table'[todo'[t][i].share] = Absent
             /\ remover'[todo'[t][i].share] \notin Commands
             /\ \A u \in Threads : \A j \in 1..Len(todo'[u]) :
                   todo'[u][j] = todo'[t][i] => u = t /\ j = i
  <2>1. CASE t = w
    <3>1. i \in 1..Len(jobs) /\ jobs[i].op = "create" /\ todo'[t][i] = jobs[i]
      BY <1>4, <1>6, <2>1
    <3>2. /\ Len(jobs) = 1 /\ i = 1 /\ jobs[i].share \in Shares
          /\ jobs[i].share \notin used /\ jobs[i].share \in used'
      BY <1>3, <3>1
    <3>3. table[jobs[i].share] = Absent /\ remover[jobs[i].share] \notin Commands
      BY <3>2 DEF DInv, Creating
    <3>4. ASSUME NEW u \in Threads, NEW j \in 1..Len(todo'[u]), todo'[u][j] = todo'[t][i]
          PROVE  u = t /\ j = i
      <4>1. CASE u = w
        <5>1. j \in 1..Len(jobs)
          BY <1>4, <4>1
        <5> QED BY <2>1, <3>2, <4>1, <5>1
      <4>2. CASE u # w
        <5>1. j \in 1..Len(todo[u]) /\ todo[u][j] = jobs[i]
          BY <1>4, <3>1, <3>4, <4>2
        <5>2. todo[u][j].share \in used
          BY <3>1, <5>1 DEF DInv, Creating
        <5> QED BY <3>2, <5>1, <5>2
      <4> QED BY <4>1, <4>2
    <3> QED BY <1>2, <3>1, <3>2, <3>3, <3>4
  <2>2. CASE t # w
    <3>1. todo'[t] = todo[t] /\ i \in 1..Len(todo[t]) /\ todo[t][i].op = "create"
      BY <1>4, <1>6, <2>2
    <3>2. /\ todo[t][i].share \in used /\ table[todo[t][i].share] = Absent
          /\ remover[todo[t][i].share] \notin Commands
          /\ \A u \in Threads : \A j \in 1..Len(todo[u]) : todo[u][j] = todo[t][i] => u = t /\ j = i
      BY <3>1 DEF DInv, Creating
    <3>3. ASSUME NEW u \in Threads, NEW j \in 1..Len(todo'[u]), todo'[u][j] = todo'[t][i]
          PROVE  u = t /\ j = i
      <4>1. CASE u = w
        <5>1. j \in 1..Len(jobs) /\ jobs[j] = todo[t][i]
          BY <1>4, <3>1, <3>3, <4>1
        <5> QED BY <1>3, <3>1, <3>2, <5>1
      <4>2. CASE u # w
        <5>1. todo'[u] = todo[u]
          BY <1>4, <4>2
        <5> QED BY <3>1, <3>2, <3>3, <5>1
      <4> QED BY <4>1, <4>2
    <3> QED BY <1>1, <1>2, <3>1, <3>2, <3>3
  <2> QED BY <2>1, <2>2
<1> QED BY <1>5, <1>6 DEF Creating

\* A share that is counted or removed is there, so nobody is still to create it.
LEMMA CreatingFinish == ASSUME DInv, NEW t \in Threads, Finish(t) PROVE Creating'
<1> DEFINE job == Head(todo[t])
           k == [u \in Threads |-> IF u = t THEN 1 ELSE 0]
<1>1. /\ job \in Jobs /\ todo[t] \in Seq(Jobs) /\ todo[t] # <<>> /\ Done(job)
      /\ Len(todo[t]) \in Nat \ {0} /\ job = todo[t][1]
  BY FinishDoes, AtWork
<1>2. /\ todo' = [todo EXCEPT ![t] = Tail(todo[t])]
      /\ remover' = IF job.op = "destroy" THEN [remover EXCEPT ![job.share] = t] ELSE remover
      /\ used' = used
  BY DEF Finish, Close
<1>3. /\ todo \in [Threads -> Seq(Jobs)] /\ table \in [Shares -> {Absent} \cup Nat]
      /\ remover \in [Shares -> Threads \cup {Server}] /\ used \subseteq Shares
  BY DEF DInv, TypeOK, Jobs
<1> HIDE DEF job
<1>4. ASSUME NEW u \in Threads
      PROVE  /\ Len(todo[u]) \in Nat /\ Len(todo'[u]) \in Nat
             /\ \A i \in 1..Len(todo'[u]) :
                   i + k[u] \in 1..Len(todo[u]) /\ todo'[u][i] = todo[u][i + k[u]]
  <2>1. Len(todo[u]) \in Nat
    BY <1>3, LenProperties
  <2>2. CASE u = t
    <3>1. /\ Len(Tail(todo[t])) = Len(todo[t]) - 1
          /\ \A i \in 1..Len(Tail(todo[t])) : Tail(todo[t])[i] = todo[t][i + 1]
      BY <1>1, HeadTailProperties
    <3>2. todo'[u] = Tail(todo[t]) /\ k[u] = 1
      BY <1>2, <1>3, <2>2
    <3> QED BY <1>1, <2>1, <2>2, <3>1, <3>2
  <2>3. CASE u # t
    <3>1. todo'[u] = todo[u] /\ k[u] = 0
      BY <1>2, <1>3, <2>3
    <3> QED BY <2>1, <3>1
  <2> QED BY <2>2, <2>3
<1>5. k \in [Threads -> Nat] /\ k[t] = 1
  OBVIOUS
<1> HIDE DEF k
<1>6. job.op \in {"create", "count", "destroy"} => job.share \in Shares
  BY <1>1, JobIs
<1>7. ASSUME NEW s \in Shares PROVE table'[s] # Absent \/ remover'[s] \in Commands => s \in used
  <2>1. CASE job.op \in {"create", "count", "destroy"} /\ s = job.share
    <3>1. job.op = "create" => s \in used
      <4>1. 1 \in 1..Len(todo[t])
        BY <1>1
      <4> QED BY <1>1, <2>1, <4>1 DEF DInv, Creating
    <3>2. job.op \in {"count", "destroy"} => s \in used \/ table[s] = Absent
      BY DEF DInv, Creating
    <3>3. job.op = "count" /\ table[s] = Absent => table' = table /\ remover' = remover
      BY <1>1, <1>2, <2>1 DEF Done
    <3>4. job.op = "destroy" => table[s] # Absent
      BY <1>1, <2>1 DEF Done
    <3> QED BY <2>1, <3>1, <3>2, <3>3, <3>4 DEF DInv, Creating
  <2>2. CASE ~(job.op \in {"create", "count", "destroy"} /\ s = job.share)
    <3>1. table'[s] = table[s] /\ remover'[s] = remover[s]
      BY <1>1, <1>2, <1>3, <1>6, <2>2 DEF Done
    <3> QED BY <3>1 DEF DInv, Creating
  <2> QED BY <2>1, <2>2
<1>8. ASSUME NEW u \in Threads, NEW i \in 1..Len(todo'[u]), todo'[u][i].op = "create"
      PROVE  table'[todo'[u][i].share] = Absent /\ remover'[todo'[u][i].share] \notin Commands
  <2> DEFINE old == todo[u][i + k[u]]
             s   == old.share
  <2>1. /\ i + k[u] \in 1..Len(todo[u]) /\ todo'[u][i] = old /\ old.op = "create" /\ old \in Jobs
        /\ s \in Shares
    <3>1. i + k[u] \in 1..Len(todo[u]) /\ todo'[u][i] = old
      BY <1>4
    <3>2. old \in Jobs
      BY <1>3, <3>1, ElementOfSeq
    <3> QED BY <1>8, <3>1, <3>2, JobIs
  <2>2. /\ table[s] = Absent /\ remover[s] \notin Commands
        /\ \A v \in Threads : \A j \in 1..Len(todo[v]) : todo[v][j] = old => v = u /\ j = i + k[u]
    BY <2>1 DEF DInv, Creating
  <2>3. ~(job.op = "create" /\ job.share = s)
    <3>1. SUFFICES ASSUME job.op = "create", job.share = s PROVE FALSE
      OBVIOUS
    <3>2. job = old
      BY <1>1, <2>1, <3>1, JobIs
    <3>3. 1 \in 1..Len(todo[t])
      BY <1>1
    <3>4. t = u /\ 1 = i + k[u]
      BY <1>1, <2>2, <3>2, <3>3
    <3> QED BY <1>5, <3>4
  <2>4. table'[s] = Absent /\ remover'[s] \notin Commands
    BY <1>1, <1>2, <1>3, <1>6, <2>1, <2>2, <2>3 DEF Done
  <2> QED BY <2>1, <2>4
<1>9. Creating
  BY DEF DInv
<1> QED BY <1>2, <1>4, <1>5, <1>7, <1>8, <1>9, CreatingKept

-----------------------------------------------------------------------------
(* The preparation of the schema.                                          *)

\* The next job of a script, and what remains after it.
LEMMA RemainTail ==
    ASSUME NEW jobs \in Seq(Jobs), NEW whole \in Seq(Jobs), jobs # <<>>, Remain(jobs, whole)
    PROVE  /\ Remain(Tail(jobs), whole) /\ Len(Tail(jobs)) = Len(jobs) - 1
           /\ Len(whole) \in Nat /\ Len(jobs) \in Nat \ {0} /\ Len(jobs) <= Len(whole)
           /\ Head(jobs) = whole[Len(whole) - Len(jobs) + 1]
<1> DEFINE n == Len(jobs)
           w == Len(whole)
           r == Tail(jobs)
<1>1. /\ n \in Nat \ {0} /\ w \in Nat /\ n <= w
      /\ Len(r) = n - 1 /\ \A i \in 1..Len(r) : r[i] = jobs[i + 1]
      /\ Head(jobs) = jobs[1] /\ \A i \in 1..n : jobs[i] = whole[w - n + i]
  <2>1. n \in Nat /\ w \in Nat /\ n # 0
    BY EmptySeq, LenProperties
  <2>2. n <= w /\ \A i \in 1..n : jobs[i] = whole[w - n + i]
    BY DEF Remain
  <2>3. Len(r) = n - 1 /\ (\A i \in 1..Len(r) : r[i] = jobs[i + 1]) /\ Head(jobs) = jobs[1]
    BY HeadTailProperties
  <2> QED BY <2>1, <2>2, <2>3
<1> HIDE DEF n, w, r
<1>2. 1 \in 1..n /\ Head(jobs) = whole[w - n + 1]
  BY <1>1
<1>3. Len(r) <= w
  BY <1>1
<1>4. ASSUME NEW i \in 1..Len(r) PROVE r[i] = whole[w - Len(r) + i]
  <2>1. i + 1 \in 1..n /\ w - n + (i + 1) = w - Len(r) + i
    BY <1>1
  <2> QED BY <1>1, <2>1
<1>5. Remain(r, whole)
  BY <1>3, <1>4 DEF Remain, w
<1> QED BY <1>1, <1>2, <1>5 DEF n, w, r

\* What is prepared stays prepared.
LEMMA PreparedGrows == ASSUME Grows, NEW k, PreparedUpTo(k) PROVE PreparedUpTo(k)'
  BY DEF Grows, PreparedUpTo

LEMMA QuietGrows == ASSUME DInv, schema' = schema PROVE Grows
  BY DEF DInv, TypeOK, Starting, Grows

LEMMA DoneGrows == ASSUME DInv, NEW job \in Jobs, Done(job) PROVE Grows
<1>1. Grows \/ schema' = schema
  BY DEF Done
<1> QED BY <1>1, QuietGrows

\* Each job of Db::prepare adds its part.
LEMMA PreparedNext ==
    ASSUME DInv, NEW job \in Jobs, Done(job), NEW k \in Nat, PreparedUpTo(k), NEW m, m = k + 1,
           k = 0 => job.op = "tables", k = 1 => job.op = "indexes", k = 2 => job.op = "version"
    PROVE  PreparedUpTo(m)'
<1>1. Grows
  BY DoneGrows
<1>2. /\ job.op = "tables"  => schema'.tables # "none"
      /\ job.op = "indexes" => schema'.indexes
      /\ job.op = "version" => schema'.tables = "there" /\ schema'.versions = 1
  BY DEF Done
<1>3. PreparedUpTo(k)'
  BY <1>1, PreparedGrows
<1>4. k = 0 \/ k = 1 \/ k = 2 \/ k >= 3
  OBVIOUS
<1>5. k = 0 => m = 1
  OBVIOUS
<1>6. k = 1 => m = 2
  OBVIOUS
<1>7. k = 2 => m = 3
  OBVIOUS
<1>8. k >= 3 => m >= 3
  OBVIOUS
<1> QED BY <1>2, <1>3, <1>4, <1>5, <1>6, <1>7, <1>8 DEF PreparedUpTo

LEMMA StartingKept ==
    ASSUME DInv, Grows, server' = server, todo'[Main] = todo[Main] PROVE Starting'
<1>1. schema'.versions <= 1
  BY DEF Grows
<1>2. server' = "ready" => PreparedUpTo(3)'
  BY PreparedGrows DEF DInv, Starting
<1>3. CASE server = "starting"
  <2>1. PICK k : k = 3 - Len(todo[Main]) /\ PreparedUpTo(k)
    BY <1>3 DEF DInv, Starting
  <2>2. 3 - Len(todo'[Main]) = k
    BY <2>1
  <2>3. PreparedUpTo(k)'
    BY <2>1, PreparedGrows
  <2>4. PreparedUpTo(3 - Len(todo[Main]))'
    BY <2>2, <2>3 DEF PreparedUpTo
  <2> QED BY <1>1, <1>2, <1>3, <2>4 DEF DInv, Starting, Remain
<1>4. CASE server # "starting"
  BY <1>1, <1>2, <1>4 DEF DInv, Starting
<1> QED BY <1>3, <1>4

\* The server is down.
LEMMA StartingDown ==
    ASSUME DInv, schema' = schema, server' = "down", todo'[Main] = <<>> PROVE Starting'
  BY DEF DInv, Starting

LEMMA StartingStart == ASSUME DInv, Start PROVE Starting'
<1>1. server' = "starting" /\ schema' = schema /\ todo' = [todo EXCEPT ![Main] = Preparing]
      /\ todo \in [Threads -> Seq(ShareJobs \cup WholeJobs)]
  BY DEF Start, DInv, TypeOK
<1>2. todo'[Main] = Preparing
  BY <1>1, ProcOf
<1>3. Len(Preparing) = 3 /\ Preparing # <<>>
  BY DEF Preparing
<1>4. Remain(Preparing, Preparing)
  BY <1>3 DEF Remain
<1>5. PreparedUpTo(3 - Len(todo[Main]))'
  BY <1>2, <1>3 DEF PreparedUpTo
<1>6. Remain(todo[Main], Preparing)'
  BY <1>2, <1>4 DEF Remain
<1> QED BY <1>1, <1>2, <1>3, <1>5, <1>6 DEF DInv, Starting

LEMMA StartingFinish == ASSUME DInv, NEW t \in Threads, Finish(t) PROVE Starting'
<1> DEFINE job == Head(todo[t])
           n   == Len(todo[t])
<1>1. /\ job \in Jobs /\ todo[t] \in Seq(Jobs) /\ todo[t] # <<>> /\ Done(job) /\ Grows
      /\ todo \in [Threads -> Seq(ShareJobs \cup WholeJobs)]
  BY FinishDoes, AtWork, DoneGrows DEF DInv, TypeOK
<1>2. /\ todo' = [todo EXCEPT ![t] = Tail(todo[t])]
      /\ server' = IF t = Main /\ n = 1 THEN "ready" ELSE server
  BY DEF Finish, Close
<1>3. CASE t # Main
  <2>1. todo'[Main] = todo[Main]
    BY <1>1, <1>2, <1>3, ProcOf
  <2> QED BY <1>1, <1>2, <1>3, <2>1, StartingKept
<1>4. CASE t = Main
  <2>1. server = "starting" /\ Remain(todo[t], Preparing) /\ PreparedUpTo(3 - n)
    BY <1>1, <1>4 DEF DInv, Starting
  <2> DEFINE r == Tail(todo[t])
  <2>2. /\ Remain(r, Preparing) /\ Len(r) = n - 1 /\ r \in Seq(Jobs)
        /\ n \in Nat \ {0} /\ n <= 3 /\ job = Preparing[3 - n + 1]
    BY <1>1, <2>1, RemainTail, PreparingIs, HeadTailProperties
  <2>3. todo'[Main] = r
    BY <1>1, <1>2, <1>4
  <2> HIDE DEF job, n, r
  <2>4. PICK k \in Nat : /\ k = 3 - n /\ (k = 0 => job.op = "tables")
                          /\ (k = 1 => job.op = "indexes") /\ (k = 2 => job.op = "version")
    BY <2>2, PreparingIs
  <2>5. PICK m \in Nat : m = k + 1 /\ (n = 1 => m = 3) /\ m = 3 - Len(r)
    BY <2>2, <2>4
  <2>6. (n = 1 => r = <<>>) /\ (n # 1 => r # <<>>)
    <3>1. (n = 1 => Len(r) = 0) /\ (n # 1 => Len(r) # 0)
      BY <2>2
    <3> QED BY <2>2, <3>1, EmptySeq
  <2>7. PreparedUpTo(m)'
    <3>1. PreparedUpTo(k)
      BY <2>1, <2>4
    <3> QED BY <1>1, <2>4, <2>5, <3>1, PreparedNext
  <2>8. schema'.versions <= 1
    BY <1>1 DEF Grows
  <2>9. CASE n = 1
    <3>1. PreparedUpTo(3)'
      BY <2>5, <2>7, <2>9 DEF PreparedUpTo
    <3> QED BY <1>2, <1>4, <2>3, <2>6, <2>8, <2>9, <3>1 DEF Starting
  <2>10. CASE n # 1
    <3>1. 3 - Len(todo'[Main]) = m
      BY <2>3, <2>5
    <3>2. PreparedUpTo(3 - Len(todo[Main]))'
      BY <2>7, <3>1 DEF PreparedUpTo
    <3>3. Remain(todo[Main], Preparing)'
      BY <2>2, <2>3 DEF Remain
    <3> QED BY <1>2, <1>4, <2>1, <2>3, <2>6, <2>8, <2>10, <3>2, <3>3 DEF Starting
  <2> QED BY <2>9, <2>10
<1> QED BY <1>3, <1>4

-----------------------------------------------------------------------------
(* Commands.                                                               *)

\* Nothing happens to a command and its removals.
LEMMA CommandKept ==
    ASSUME DInv, Grows, NEW c \in Commands, script' = script, todo'[c] = todo[c],
           exit'[c] = exit[c], \A s \in Shares : remover'[s] = c <=> remover[s] = c
    PROVE  CommandingOf(c)'
<1>1. CommandingOf(c)
  BY DEF DInv, Commanding
<1>2. RemovedBy(c)' = RemovedBy(c)
  BY DEF RemovedBy
<1>3. \A n : NamedUpTo(c, n)' = NamedUpTo(c, n)
  BY DEF NamedUpTo
<1>4. exit[c] = "running" => PreparedUpTo(3 + Len(script[c]) - Len(todo[c]))'
  <2>1. SUFFICES ASSUME exit[c] = "running" PROVE PreparedUpTo(3 + Len(script[c]) - Len(todo[c]))'
    OBVIOUS
  <2>2. PICK k : k = 3 + Len(script[c]) - Len(todo[c]) /\ PreparedUpTo(k)
    BY <1>1, <2>1 DEF CommandingOf
  <2>3. 3 + Len(script'[c]) - Len(todo'[c]) = k
    BY <2>2
  <2>4. PreparedUpTo(k)'
    BY <2>2, PreparedGrows
  <2> QED BY <2>3, <2>4 DEF PreparedUpTo
<1>5. NamedUpTo(c, Len(script[c]))' = NamedUpTo(c, Len(script[c]))
      /\ NamedUpTo(c, Len(script[c]) - Len(todo[c]))' = NamedUpTo(c, Len(script[c]) - Len(todo[c]))
  BY DEF NamedUpTo
<1>6. Remain(todo[c], Preparing \o script[c]) => Remain(todo[c], Preparing \o script[c])'
  BY DEF Remain
<1> QED BY <1>1, <1>2, <1>3, <1>4, <1>5, <1>6 DEF CommandingOf

\* A command is over: what it had removed is removed.
LEMMA CommandEnds ==
    ASSUME DInv, NEW c \in Commands, script' = script, remover' = remover,
           todo'[c] = <<>>, exit'[c] = "failure"
    PROVE  CommandingOf(c)'
<1>1. \E n \in 0..Len(script[c]) : RemovedBy(c) = NamedUpTo(c, n)
  BY DEF DInv, Commanding, CommandingOf
<1>2. (\E n \in 0..Len(script[c]) : RemovedBy(c) = NamedUpTo(c, n))'
  BY <1>1 DEF RemovedBy, NamedUpTo
<1> QED BY <1>2 DEF CommandingOf

\* Nothing is removed, and each command goes on as it was, or is over.
LEMMA CommandsQuiet ==
    ASSUME DInv, UNCHANGED <<schema, table, script, remover>>,
           \A c \in Commands : \/ todo'[c] = todo[c] /\ exit'[c] = exit[c]
                               \/ todo'[c] = <<>> /\ exit'[c] = "failure"
    PROVE  Commanding'
<1>1. Grows
  BY QuietGrows
<1>2. ASSUME NEW c \in Commands PROVE CommandingOf(c)'
  <2>1. CASE todo'[c] = todo[c] /\ exit'[c] = exit[c]
    BY <1>1, <2>1, CommandKept
  <2>2. CASE todo'[c] = <<>> /\ exit'[c] = "failure"
    BY <2>2, CommandEnds
  <2> QED BY <2>1, <2>2
<1> QED BY <1>2 DEF DInv, Commanding

\* One more job of a script is done, and it names no share.
LEMMA NamedOther ==
    ASSUME NEW c, NEW n \in Int, NEW m \in Int, m = n + 1,
           n >= 0 => script[c][m].op # "destroy"
    PROVE  NamedUpTo(c, m) = NamedUpTo(c, n)
<1>1. \A i \in 1..m : i \in 1..n \/ (i = m /\ n >= 0)
  OBVIOUS
<1>2. \A i \in 1..n : i \in 1..m
  OBVIOUS
<1>3. \A s \in Shares : n >= 0 => script[c][m] # Job("destroy", s)
  BY DEF Job
<1> QED BY <1>1, <1>2, <1>3 DEF NamedUpTo

\* A job of a command: what it removes was there, so nobody else has removed it.
LEMMA CommandsFinish == ASSUME DInv, NEW t \in Threads, Finish(t) PROVE Commanding'
<1> DEFINE job == Head(todo[t])
           r   == Tail(todo[t])
<1>1. /\ job \in Jobs /\ todo[t] \in Seq(Jobs) /\ todo[t] # <<>> /\ Done(job) /\ Grows
      /\ job = todo[t][1] /\ 1 \in 1..Len(todo[t])
  BY FinishDoes, AtWork, DoneGrows
<1>2. /\ todo' = [todo EXCEPT ![t] = r]
      /\ remover' = IF job.op = "destroy" THEN [remover EXCEPT ![job.share] = t] ELSE remover
      /\ exit' = [c \in Commands |-> IF c = t /\ Len(todo[t]) = 1 THEN "success" ELSE exit[c]]
      /\ script' = script
  BY DEF Finish, Close
<1>3. /\ todo \in [Threads -> Seq(ShareJobs \cup WholeJobs)]
      /\ table \in [Shares -> {Absent} \cup Nat] /\ remover \in [Shares -> Threads \cup {Server}]
  BY DEF DInv, TypeOK
<1>4. job.op \in {"create", "count", "destroy"} => job.share \in Shares /\ job = Job(job.op, job.share)
  BY <1>1, JobIs
<1>5. \A s \in Shares : remover[s] \in Commands => table[s] = Absent
  BY DEF DInv, Commanding
<1>6. job.op = "create" => remover[job.share] \notin Commands
  BY <1>1 DEF DInv, Creating
<1> HIDE DEF job
<1>7. ASSUME NEW s \in Shares, remover'[s] \in Commands PROVE table'[s] = Absent
  <2>1. CASE job.op = "destroy" /\ s = job.share
    BY <1>1, <1>3, <2>1 DEF Done
  <2>2. CASE ~(job.op = "destroy" /\ s = job.share)
    <3>1. remover[s] \in Commands /\ table[s] = Absent
      BY <1>2, <1>3, <1>4, <1>5, <1>7, <2>2
    <3>2. ~(job.op = "create" /\ s = job.share)
      BY <1>6, <3>1
    <3> QED BY <1>1, <1>3, <1>4, <2>2, <3>1, <3>2 DEF Done
  <2> QED BY <2>1, <2>2
<1>8. ASSUME NEW c \in Commands, c # t PROVE CommandingOf(c)'
  <2>1. todo'[c] = todo[c] /\ exit'[c] = exit[c]
    BY <1>2, <1>3, <1>8, ProcOf
  <2>2. \A s \in Shares : remover'[s] = c <=> remover[s] = c
    <3>1. job.op = "destroy" => table[job.share] # Absent
      BY <1>1 DEF Done
    <3> QED BY <1>2, <1>3, <1>4, <1>5, <1>8, <3>1
  <2> QED BY <1>1, <1>2, <1>8, <2>1, <2>2, CommandKept
<1>9. ASSUME t \in Commands PROVE CommandingOf(t)'
  <2> DEFINE whole == Preparing \o script[t]
             n == Len(todo[t])
             l == Len(script[t])
  <2>1. /\ exit[t] = "running" /\ Remain(todo[t], whole) /\ PreparedUpTo(3 + l - n)
        /\ RemovedBy(t) = NamedUpTo(t, l - n)
    BY <1>1, <1>9 DEF DInv, Commanding, CommandingOf
  <2>2. /\ whole \in Seq(Jobs) /\ l \in Nat /\ Len(whole) = 3 + l
        /\ \A i \in 1..3 + l : whole[i] = IF i <= 3 THEN Preparing[i] ELSE script[t][i - 3]
    BY <1>9, WholeScript DEF DInv, TypeOK
  <2> HIDE DEF whole, n, l, r
  <2>3. /\ Remain(r, whole) /\ Len(r) = n - 1 /\ r \in Seq(Jobs)
        /\ n \in Nat \ {0} /\ n <= 3 + l /\ job = whole[3 + l - n + 1]
    <3>1. /\ Remain(Tail(todo[t]), whole) /\ Len(Tail(todo[t])) = Len(todo[t]) - 1
          /\ Len(whole) \in Nat /\ Len(todo[t]) \in Nat \ {0} /\ Len(todo[t]) <= Len(whole)
          /\ Head(todo[t]) = whole[Len(whole) - Len(todo[t]) + 1]
      BY <1>1, <2>1, <2>2, RemainTail
    <3>2. Tail(todo[t]) \in Seq(Jobs)
      BY <1>1, HeadTailProperties
    <3>3. /\ Remain(r, whole) /\ Len(r) = n - 1 /\ r \in Seq(Jobs)
          /\ n \in Nat \ {0} /\ n <= Len(whole) /\ job = whole[Len(whole) - n + 1]
      BY <3>1, <3>2 DEF job, n, r
    <3> QED BY <2>2, <3>3
  <2>4. PICK k \in Nat, m \in Nat, a \in Int, b \in Int :
              /\ k = 3 + l - n /\ m = k + 1 /\ m = 3 + l - Len(r)
              /\ a = l - n /\ b = a + 1 /\ b = l - Len(r)
    BY <2>2, <2>3
  <2>5. /\ m \in 1..3 + l /\ b <= l /\ (n = 1 => b = l)
        /\ (a < 0 => m <= 3) /\ (a >= 0 => ~(m <= 3) /\ m - 3 = b)
    BY <2>2, <2>3, <2>4
  <2>6. job = IF m <= 3 THEN Preparing[m] ELSE script[t][m - 3]
    <3>1. job = whole[m]
      BY <2>2, <2>3, <2>4
    <3> QED BY <2>2, <2>5, <3>1
  <2>7. PreparedUpTo(m)'
    <3>1. (k = 0 => job.op = "tables") /\ (k = 1 => job.op = "indexes") /\ (k = 2 => job.op = "version")
      BY <2>4, <2>6, PreparingIs
    <3>2. PreparedUpTo(k)
      BY <2>1, <2>4
    <3> QED BY <1>1, <2>4, <3>1, <3>2, PreparedNext
  <2>8. RemovedBy(t)' = NamedUpTo(t, b)
    <3>1. a < 0 => job.op # "destroy"
      <4>1. m <= 3 => m \in 1..3
        BY <2>5
      <4> QED BY <2>5, <2>6, <4>1, PreparingIs
    <3>2. a >= 0 => job = script[t][b]
      BY <2>5, <2>6
    <3>3. RemovedBy(t) = NamedUpTo(t, a)
      BY <2>1, <2>4
    <3>4. CASE job.op = "destroy"
      <4>1. NamedUpTo(t, b) = NamedUpTo(t, a) \cup {job.share}
        <5>1. PICK q \in Shares : q = job.share
          BY <1>4, <3>4
        <5>2. a \in Nat /\ b \in Nat
          BY <2>4, <3>1, <3>4
        <5>3. script[t][b] = Job("destroy", q)
          BY <1>4, <3>2, <3>4, <5>1, <5>2
        <5>4. NamedUpTo(t, b) = NamedUpTo(t, a) \cup {q}
          <6>1. \A i : i \in 1..b <=> i \in 1..a \/ i = b
            BY <2>4, <5>2
          <6>2. \A s \in Shares : script[t][b] = Job("destroy", s) <=> s = q
            BY <5>3 DEF Job
          <6> QED BY <6>1, <6>2 DEF NamedUpTo
        <5> QED BY <5>1, <5>4
      <4>2. RemovedBy(t)' = RemovedBy(t) \cup {job.share}
        BY <1>2, <1>3, <1>4, <3>4 DEF RemovedBy
      <4> QED BY <3>3, <4>1, <4>2
    <3>5. CASE job.op # "destroy"
      <4>1. NamedUpTo(t, b) = NamedUpTo(t, a)
        BY <2>4, <3>2, <3>5, NamedOther
      <4>2. RemovedBy(t)' = RemovedBy(t)
        BY <1>2, <3>5 DEF RemovedBy
      <4> QED BY <3>3, <4>1, <4>2
    <3> QED BY <3>4, <3>5
  <2>9. todo'[t] = r /\ script'[t] = script[t]
        /\ (n = 1 => exit'[t] = "success" /\ r = <<>>)
        /\ (n # 1 => exit'[t] = "running" /\ r # <<>>)
    <3>1. (n = 1 => r = <<>>) /\ (n # 1 => r # <<>>)
      <4>1. (n = 1 => Len(r) = 0) /\ (n # 1 => Len(r) # 0)
        BY <2>3
      <4> QED BY <2>3, <4>1, EmptySeq
    <3> QED BY <1>2, <1>3, <1>9, <2>1, <3>1 DEF n
  <2>10. NamedUpTo(t, b)' = NamedUpTo(t, b)
    BY <1>2 DEF NamedUpTo
  <2>11. \E q \in 0..Len(script'[t]) : RemovedBy(t)' = NamedUpTo(t, q)'
    <3>1. CASE b >= 0
      <4>1. b \in 0..Len(script'[t])
        BY <1>2, <2>4, <2>5, <3>1 DEF l
      <4> QED BY <2>8, <2>10, <4>1
    <3>2. CASE b < 0
      <4>1. NamedUpTo(t, b) = {}
        <5>1. 1..b = {}
          BY <2>4, <3>2
        <5> QED BY <5>1 DEF NamedUpTo
      <4>2. NamedUpTo(t, 0)' = {}
        BY DEF NamedUpTo
      <4>3. 0 \in 0..Len(script'[t])
        BY <1>2, <2>2 DEF l
      <4> QED BY <2>8, <4>1, <4>2, <4>3
    <3> QED BY <2>4, <3>1, <3>2
  <2>12. CASE n = 1
    <3>1. NamedUpTo(t, Len(script[t]))' = NamedUpTo(t, b)
      BY <1>2, <2>5, <2>12 DEF NamedUpTo, l
    <3> QED BY <2>8, <2>9, <2>11, <2>12, <3>1 DEF CommandingOf
  <2>13. CASE n # 1
    <3>1. 3 + Len(script'[t]) - Len(todo'[t]) = m /\ Len(script'[t]) - Len(todo'[t]) = b
      BY <2>4, <2>9 DEF l
    <3>2. PreparedUpTo(3 + Len(script[t]) - Len(todo[t]))'
      BY <2>7, <3>1 DEF PreparedUpTo
    <3>3. NamedUpTo(t, Len(script[t]) - Len(todo[t]))' = NamedUpTo(t, b)
      BY <2>9, <3>1 DEF NamedUpTo
    <3>4. Remain(todo[t], Preparing \o script[t])'
      BY <2>3, <2>9 DEF Remain, whole
    <3> QED BY <2>8, <2>9, <2>11, <2>13, <3>2, <3>3, <3>4 DEF CommandingOf
  <2> QED BY <2>12, <2>13
<1> QED BY <1>7, <1>8, <1>9 DEF Commanding

-----------------------------------------------------------------------------
(* The invariant holds at the start.                                       *)

\* What a command is to create is named in its script.
LEMMA CreatedAt ==
    ASSUME NEW jobs \in Seq(Jobs), NEW i \in 1..Len(jobs), jobs[i].op = "create"
    PROVE  jobs[i].share \in Created(jobs)
<1>1. jobs[i] \in Jobs
  BY ElementOfSeq
<1>2. jobs[i].share \in Shares /\ jobs[i] = Job("create", jobs[i].share)
  BY <1>1, JobIs
<1>3. jobs[i] \in ToSet(jobs)
  <2>1. DOMAIN jobs = 1..Len(jobs)
    BY LenProperties
  <2> QED BY <2>1 DEF ToSet
<1> QED BY <1>2, <1>3 DEF Created, Named

LEMMA StartScripts ==
    ASSUME Init
    PROVE  /\ \A t \in Threads : t \notin Commands => todo[t] = <<>>
           /\ \A c \in Commands : todo[c] = Preparing \o script[c]
           /\ todo = [t \in Threads |-> todo[t]]
           /\ script \in [Commands -> CommandScripts]
  BY ProcOf DEF Init

LEMMA StartTypes == ASSUME Init PROVE TypeOK
<1>1. todo \in [Threads -> Seq(ShareJobs \cup WholeJobs)]
  <2>1. \A c \in Commands : todo[c] \in Seq(Jobs)
    BY StartScripts, WholeScript
  <2>2. \A t \in Threads : todo[t] \in Seq(Jobs)
    <3>1. <<>> \in Seq(Jobs)
      BY EmptySeq
    <3> QED BY <2>1, <3>1, StartScripts
  <2> QED BY <2>2, StartScripts DEF Jobs
<1>2. used \subseteq Shares
  BY DEF Init, Created, Named
<1>3. \A t \in Threads : [word |-> "nothing", view |-> Blank] \in
          [word : {"nothing", "shown", "done", "not found", "too old", "refused"},
           view : [Shares -> {Absent, Unread} \cup Nat]]
  BY BlankTypes
<1>4. schema \in [tables : {"none", "old", "there"}, indexes : BOOLEAN, versions : Nat]
  <2>1. schema \in {[tables |-> "none",  indexes |-> FALSE, versions |-> 0],
                    [tables |-> "there", indexes |-> TRUE,  versions |-> 1],
                    [tables |-> "old",   indexes |-> TRUE,  versions |-> 0]}
    BY DEF Init
  <2>2. CASE schema = [tables |-> "none", indexes |-> FALSE, versions |-> 0]
    BY <2>2
  <2>3. CASE schema = [tables |-> "there", indexes |-> TRUE, versions |-> 1]
    BY <2>3
  <2>4. CASE schema = [tables |-> "old", indexes |-> TRUE, versions |-> 0]
    BY <2>4
  <2> QED BY <2>1, <2>2, <2>3, <2>4, Zenon
<1>5. requests \in 0..MaxRequests /\ crashes \in 0..MaxCrashes
  BY DatabaseAssumption DEF Init
<1> QED BY <1>1, <1>2, <1>3, <1>4, <1>5, BlankTypes DEF Init, TypeOK

LEMMA StartCreating == ASSUME Init PROVE Creating
<1>1. \A s \in Shares : table[s] # Absent \/ remover[s] \in Commands => s \in used
  BY DatabaseAssumption DEF Init
<1>2. ASSUME NEW t \in Threads, NEW i \in 1..Len(todo[t]), todo[t][i].op = "create"
      PROVE  /\ t \in Commands /\ i - 3 \in 1..Len(script[t]) /\ todo[t][i] = script[t][i - 3]
             /\ todo[t][i].share \in Created(script[t]) /\ script[t] \in Seq(Jobs)
  <2>1. t \in Commands
    <3>1. t \notin Commands => Len(todo[t]) = 0
      BY StartScripts
    <3> QED BY <3>1
  <2>2. /\ i \in 1..3 + Len(script[t]) /\ Len(script[t]) \in Nat
        /\ todo[t][i] = IF i <= 3 THEN Preparing[i] ELSE script[t][i - 3]
    BY <2>1, StartScripts, WholeScript
  <2>3. ~(i <= 3)
    <3>1. i <= 3 => i \in 1..3
      OBVIOUS
    <3> QED BY <1>2, <2>2, <3>1, PreparingIs
  <2>4. i - 3 \in 1..Len(script[t]) /\ todo[t][i] = script[t][i - 3]
    BY <2>2, <2>3
  <2>5. script[t] \in Seq(Jobs)
    BY <2>1, StartScripts, DatabaseAssumption DEF Jobs
  <2>6. PICK k : k = i - 3
    OBVIOUS
  <2>7. todo[t][i].share \in Created(script[t])
    BY <1>2, <2>4, <2>5, <2>6, CreatedAt
  <2> QED BY <2>1, <2>4, <2>5, <2>7
<1>3. ASSUME NEW t \in Threads, NEW i \in 1..Len(todo[t]), todo[t][i].op = "create"
      PROVE  /\ todo[t][i].share \in used /\ table[todo[t][i].share] = Absent
             /\ remover[todo[t][i].share] \notin Commands
             /\ \A u \in Threads : \A j \in 1..Len(todo[u]) :
                   todo[u][j] = todo[t][i] => u = t /\ j = i
  <2>1. t \in Commands /\ todo[t][i].share \in Created(script[t])
    BY <1>2, <1>3
  <2>2. todo[t][i].share \in used /\ table[todo[t][i].share] = Absent
        /\ remover[todo[t][i].share] \notin Commands
    BY <2>1, DatabaseAssumption DEF Init, Created, Named
  <2>3. ASSUME NEW u \in Threads, NEW j \in 1..Len(todo[u]), todo[u][j] = todo[t][i]
        PROVE  u = t /\ j = i
    <3>1. u \in Commands /\ todo[u][j].share \in Created(script[u])
          /\ j - 3 \in 1..Len(script[u]) /\ todo[u][j] = script[u][j - 3]
      BY <1>2, <1>3, <2>3
    <3>2. u = t
      BY <2>1, <2>3, <3>1 DEF Init
    <3>3. PICK jobs \in CommandScripts : jobs = script[t]
      BY <2>1, StartScripts
    <3>4. PICK a, b : a = i - 3 /\ b = j - 3
      OBVIOUS
    <3>5. a \in 1..Len(jobs) /\ b \in 1..Len(jobs) /\ jobs[a] = jobs[b] /\ jobs[a].op = "create"
      BY <1>2, <1>3, <2>3, <3>1, <3>2, <3>3, <3>4
    <3>6. DOMAIN jobs = 1..Len(jobs)
      BY DatabaseAssumption, LenProperties
    <3>7. a = b
      BY <3>5, <3>6, DatabaseAssumption
    <3> QED BY <3>2, <3>4, <3>7
  <2> QED BY <2>2, <2>3
<1> QED BY <1>1, <1>3 DEF Creating

LEMMA StartCommanding == ASSUME Init PROVE Commanding
<1>1. \A s \in Shares : remover[s] \notin Commands
  BY DatabaseAssumption DEF Init
<1>2. ASSUME NEW c \in Commands PROVE CommandingOf(c)
  <2> DEFINE whole == Preparing \o script[c]
  <2>1. todo[c] = whole /\ exit[c] = "running"
    BY <1>2, StartScripts DEF Init
  <2>2. whole \in Seq(Jobs) /\ Len(script[c]) \in Nat /\ Len(whole) = 3 + Len(script[c])
    BY StartScripts, WholeScript
  <2> HIDE DEF whole
  <2>3. PICK l \in Nat : l = Len(script[c])
    BY <2>2
  <2>4. 3 + l - Len(todo[c]) = 0 /\ l - Len(todo[c]) = -3
    BY <2>1, <2>2, <2>3
  <2>5. whole # <<>>
    <3>1. Len(whole) # 0
      BY <2>2
    <3> QED BY <3>1
  <2>6. Remain(todo[c], whole)
    <3>1. \A i \in 1..Len(whole) : Len(whole) - Len(whole) + i = i
      BY <2>2
    <3> QED BY <2>1, <2>2, <3>1 DEF Remain
  <2>7. PreparedUpTo(0)
    BY DEF PreparedUpTo
  <2>8. RemovedBy(c) = {}
    BY <1>1 DEF RemovedBy
  <2>9. NamedUpTo(c, -3) = {} /\ NamedUpTo(c, 0) = {}
    BY DEF NamedUpTo
  <2>10. 0 \in 0..Len(script[c])
    BY <2>2
  <2> QED BY <2>1, <2>3, <2>4, <2>5, <2>6, <2>7, <2>8, <2>9, <2>10 DEF CommandingOf, whole
<1> QED BY <1>1, <1>2 DEF Commanding

LEMMA StartKeeps == Init => DInv
<1> SUFFICES ASSUME Init PROVE DInv
  OBVIOUS
<1>1. TypeOK /\ Creating /\ Commanding
  BY StartTypes, StartCreating, StartCommanding
<1>2. Locking
  BY DEF Init, Locking, InTransaction
<1>3. Reading
  <2>1. ASSUME NEW t \in Threads
        PROVE  lock[t] = "closed" /\ seen[t] = NothingSeen /\ \A r \in Rows : seen[t][r] = Unread
    BY DEF Init, NothingSeen
  <2> QED BY <2>1 DEF Reading, ReadingOf
<1>4. Starting
  <2>1. todo[Main] = <<>>
    BY StartScripts, ProcOf
  <2> QED BY <2>1 DEF Init, Starting
<1> QED BY <1>1, <1>2, <1>3, <1>4 DEF DInv

-----------------------------------------------------------------------------
(* Every step keeps the invariant.                                         *)

LEMMA KeptByStart == ASSUME DInv, Start PROVE DInv'
<1>1. /\ server = "down" /\ todo' = [todo EXCEPT ![Main] = Preparing]
      /\ UNCHANGED <<schema, table, script, lock, seen, remover, exit>>
      /\ todo \in [Threads -> Seq(ShareJobs \cup WholeJobs)]
  BY DEF Start, DInv, TypeOK
<1>2. \A u \in Threads : u # Main => todo'[u] = todo[u]
  BY <1>1
<1>3. lock[Main] = "closed"
  BY <1>1, ProcOf DEF DInv, Starting, Reading, ReadingOf
<1>4. Locking' /\ Reading'
  BY <1>1, <1>2, <1>3, LocksQuiet
<1>5. Commanding'
  BY <1>1, <1>2, ProcOf, CommandsQuiet
<1> QED BY <1>4, <1>5, TypesStart, CreatingStart, StartingStart DEF DInv

LEMMA KeptByRequest == ASSUME DInv, NEW w \in Workers, Request(w) PROVE DInv'
<1>1. PICK jobs : todo' = [todo EXCEPT ![w] = jobs]
  BY DEF Request
<1>2. /\ server' = server /\ todo[w] = <<>>
      /\ UNCHANGED <<schema, table, script, lock, seen, remover, exit>>
      /\ todo \in [Threads -> Seq(ShareJobs \cup WholeJobs)]
  BY DEF Request, DInv, TypeOK
<1>3. \A u \in Threads : u # w => todo'[u] = todo[u]
  BY <1>1, <1>2
<1>4. lock[w] = "closed"
  BY <1>2, ProcOf DEF DInv, Reading, ReadingOf
<1>5. Locking' /\ Reading'
  BY <1>2, <1>3, <1>4, LocksQuiet
<1>6. Commanding'
  BY <1>2, <1>3, ProcOf, CommandsQuiet
<1>7. Starting'
  BY <1>2, <1>3, ProcOf, QuietGrows, StartingKept
<1> QED BY <1>5, <1>6, <1>7, TypesRequest, CreatingRequest DEF DInv

\* A step that changes neither scripts nor rows.
LEMMA KeptWithoutEnd ==
    ASSUME DInv, UNCHANGED <<schema, table, used, server, script, todo, remover, exit>>
    PROVE  Creating' /\ Starting' /\ Commanding'
<1>1. Creating'
  BY CreatingEnds
<1>2. Starting'
  BY QuietGrows, StartingKept
<1>3. Commanding'
  BY CommandsQuiet
<1> QED BY <1>1, <1>2, <1>3

LEMMA KeptByLock ==
    ASSUME DInv, NEW t \in Threads, Begin(t) \/ (\E r \in Rows : Read(t, r)) \/ Exclude(t)
    PROVE  DInv'
<1>1. UNCHANGED <<schema, table, used, server, script, todo, remover, exit>>
  BY DEF Begin, Read, Exclude
<1>2. Locking' /\ Reading'
  BY LocksBegin, LocksRead, LocksExclude
<1> QED BY <1>1, <1>2, TypesLock, KeptWithoutEnd DEF DInv

LEMMA KeptByException ==
    ASSUME DInv, NEW t \in Threads, NEW told \in {"not found", "too old", "refused"},
           Exception(t, told)
    PROVE  DInv'
<1>1. /\ todo' = [todo EXCEPT ![t] = <<>>]
      /\ server' = IF t = Main THEN "down" ELSE server
      /\ exit' = [c \in Commands |-> IF c = t THEN "failure" ELSE exit[c]]
      /\ UNCHANGED <<schema, table, used, script, remover>>
      /\ todo \in [Threads -> Seq(ShareJobs \cup WholeJobs)]
  BY DEF Exception, Close, DInv, TypeOK
<1>2. todo'[t] = <<>> /\ \A u \in Threads : u # t => todo'[u] = todo[u]
  BY <1>1
<1>3. Creating'
  BY <1>1, <1>2, CreatingEnds
<1>4. Starting'
  <2>1. CASE t = Main
    BY <1>1, <1>2, <2>1, StartingDown
  <2>2. CASE t # Main
    BY <1>1, <1>2, <2>2, ProcOf, QuietGrows, StartingKept
  <2> QED BY <2>1, <2>2
<1>5. Commanding'
  <2>1. ASSUME NEW c \in Commands
        PROVE  \/ todo'[c] = todo[c] /\ exit'[c] = exit[c]
               \/ todo'[c] = <<>> /\ exit'[c] = "failure"
    BY <1>1, <1>2, ProcOf
  <2> QED BY <1>1, <2>1, CommandsQuiet
<1> QED BY <1>3, <1>4, <1>5, TypesException, LocksException DEF DInv

LEMMA KeptByFinish == ASSUME DInv, NEW t \in Threads, Finish(t) PROVE DInv'
  BY TypesFinish, LocksFinish, CreatingFinish, StartingFinish, CommandsFinish DEF DInv

LEMMA KeptByCrash == ASSUME DInv, NEW p \in Commands \cup {Server}, Crash(p) PROVE DInv'
<1>1. /\ todo' = [t \in Threads |-> IF Proc(t) = p THEN <<>> ELSE todo[t]]
      /\ server' = IF p = Server THEN "down" ELSE server
      /\ exit' = [c \in Commands |-> IF c = p THEN "failure" ELSE exit[c]]
      /\ UNCHANGED <<schema, table, used, script, remover>>
  BY DEF Crash
<1>2. \A t \in Threads : todo'[t] = IF Proc(t) = p THEN <<>> ELSE todo[t]
  BY <1>1
<1>3. Creating'
  BY <1>1, <1>2, CreatingEnds
<1>4. Starting'
  <2>1. CASE p = Server
    BY <1>1, <1>2, <2>1, ProcOf, StartingDown
  <2>2. CASE p # Server
    BY <1>1, <1>2, <2>2, ProcOf, QuietGrows, StartingKept
  <2> QED BY <2>1, <2>2
<1>5. Commanding'
  <2>1. ASSUME NEW c \in Commands
        PROVE  \/ todo'[c] = todo[c] /\ exit'[c] = exit[c]
               \/ todo'[c] = <<>> /\ exit'[c] = "failure"
    BY <1>1, <1>2, ProcOf
  <2> QED BY <1>1, <2>1, CommandsQuiet
<1> QED BY <1>3, <1>4, <1>5, TypesCrash, LocksCrash DEF DInv

\* What follows needs the invariant of the state a step starts in, and of the next.
LEMMA NextKeeps == ASSUME DInv, [Next]_vars PROVE DInv'
<1>1. CASE Start
  BY <1>1, KeptByStart
<1>2. ASSUME NEW t \in Threads, Step(t) PROVE DInv'
  <2>1. CASE Begin(t) \/ (\E r \in Rows : Read(t, r)) \/ Exclude(t)
    BY <2>1, KeptByLock
  <2>2. CASE Refuse(t)
    <3>1. Exception(t, "refused")
      BY <2>2 DEF Refuse
    <3> QED BY <3>1, KeptByException
  <2>3. CASE Throw(t)
    <3>1. PICK told \in {"not found", "too old", "refused"} : Exception(t, told)
      BY <2>3 DEF Throw
    <3> QED BY <3>1, KeptByException
  <2>4. CASE Finish(t)
    BY <2>4, KeptByFinish
  <2> QED BY <1>2, <2>1, <2>2, <2>3, <2>4 DEF Step
<1>3. ASSUME NEW w \in Workers, Request(w) PROVE DInv'
  BY <1>3, KeptByRequest
<1>4. ASSUME NEW p \in Commands \cup {Server}, Crash(p) PROVE DInv'
  BY <1>4, KeptByCrash
<1>5. CASE UNCHANGED vars
  <2>1. UNCHANGED <<schema, table, used, server, script, todo, lock, seen, answer, remover, exit,
                    requests, crashes>>
    BY <1>5 DEF vars
  <2>2. Locking' /\ Reading'
    BY <2>1, LocksQuiet
  <2>3. TypeOK'
    BY <2>1 DEF DInv, TypeOK
  <2> QED BY <2>1, <2>2, <2>3, KeptWithoutEnd DEF DInv
<1> QED BY <1>1, <1>2, <1>3, <1>4, <1>5 DEF Next

\* The invariant, in every reachable state.
THEOREM DatabaseInvariant == Spec => []DInv
<1>1. Init => DInv
  BY StartKeeps
<1>2. DInv /\ [Next]_vars => DInv'
  BY NextKeeps
<1> QED BY <1>1, <1>2, PTL DEF Spec

-----------------------------------------------------------------------------
(* What the runs check.                                                    *)

\* Every variable keeps its type.
THEOREM TypeCorrect == Spec => []TypeOK
<1>1. DInv => TypeOK
  BY DEF DInv
<1> QED BY <1>1, DatabaseInvariant, PTL

\* However many processes prepare the database at once, and wherever they are killed,
\* there is one version, and who is up finds the tables, the indexes and the version.
THEOREM PreparedAtMostOnce == Spec => []PreparedOnce
<1>1. DInv => PreparedOnce
  <2> SUFFICES ASSUME DInv PROVE PreparedOnce
    OBVIOUS
  <2>1. schema.versions <= 1
    BY DEF DInv, Starting
  <2>2. ASSUME NEW k \in Int, k >= 3, PreparedUpTo(k)
        PROVE  schema = [tables |-> "there", indexes |-> TRUE, versions |-> 1]
    <3>1. schema.tables = "there" /\ schema.indexes /\ schema.versions = 1
      BY <2>2 DEF PreparedUpTo
    <3>2. schema \in [tables : {"none", "old", "there"}, indexes : BOOLEAN, versions : Nat]
      BY DEF DInv, TypeOK
    <3> QED BY <3>1, <3>2
  <2>3. ASSUME server = "ready"
        PROVE  schema = [tables |-> "there", indexes |-> TRUE, versions |-> 1]
    BY <2>2, <2>3 DEF DInv, Starting
  <2>4. ASSUME NEW c \in Commands, exit[c] = "running", Len(todo[c]) <= Len(script[c])
        PROVE  schema = [tables |-> "there", indexes |-> TRUE, versions |-> 1]
    <3>1. todo[c] \in Seq(Jobs) /\ script[c] \in Seq(Jobs)
      BY ProcOf, DatabaseAssumption DEF DInv, TypeOK, Jobs
    <3>2. PICK l \in Nat, n \in Nat : l = Len(script[c]) /\ n = Len(todo[c])
      BY <3>1, LenProperties
    <3>3. PICK k \in Int : k = 3 + l - n
      OBVIOUS
    <3>4. k >= 3
      BY <2>4, <3>2, <3>3
    <3>5. PreparedUpTo(3 + Len(script[c]) - Len(todo[c]))
      BY <2>4 DEF DInv, Commanding, CommandingOf
    <3>6. PreparedUpTo(k)
      BY <3>2, <3>3, <3>5
    <3> QED BY <2>2, <3>4, <3>6
  <2> QED BY <2>1, <2>3, <2>4, ProcOf DEF PreparedOnce, IsUp
<1> QED BY <1>1, DatabaseInvariant, PTL

\* The shares named up to a place.
LEMMA NamedUpToIs ==
    ASSUME script \in [Commands -> CommandScripts], NEW c \in Commands
    PROVE  /\ Named(script[c], "destroy") = NamedUpTo(c, Len(script[c]))
           /\ \A n \in 0..Len(script[c]) :
                 Named(SubSeq(script[c], 1, n), "destroy") = NamedUpTo(c, n)
<1>1. script[c] \in Seq(Jobs)
  BY DatabaseAssumption DEF Jobs
<1>2. Named(script[c], "destroy") = NamedUpTo(c, Len(script[c]))
  <2>1. DOMAIN script[c] = 1..Len(script[c])
    BY <1>1, LenProperties
  <2> QED BY <2>1 DEF Named, ToSet, NamedUpTo
<1>3. ASSUME NEW n \in 0..Len(script[c])
      PROVE  Named(SubSeq(script[c], 1, n), "destroy") = NamedUpTo(c, n)
  <2>1. Len(script[c]) \in Nat
    BY <1>1, LenProperties
  <2>2. PICK part : part = SubSeq(script[c], 1, n)
    OBVIOUS
  <2>3. DOMAIN part = 1..n /\ \A i \in 1..n : part[i] = script[c][i]
    BY <2>1, <2>2
  <2>4. Named(part, "destroy") = NamedUpTo(c, n)
    BY <2>3 DEF Named, ToSet, NamedUpTo
  <2> QED BY <2>2, <2>4
<1> QED BY <1>2, <1>3

\* A command that succeeds has removed what it was given, one that fails a part of it.
THEOREM ExitAlwaysTellsTruth == Spec => []ExitTellsTruth
<1>1. DInv => ExitTellsTruth
  <2> SUFFICES ASSUME DInv, NEW c \in Commands
               PROVE  /\ exit[c] = "success" => RemovedBy(c) = Named(script[c], "destroy")
                      /\ \E n \in 0..Len(script[c]) :
                            RemovedBy(c) = Named(SubSeq(script[c], 1, n), "destroy")
    BY DEF ExitTellsTruth, RemovedBy
  <2>1. /\ exit[c] = "success" => RemovedBy(c) = NamedUpTo(c, Len(script[c]))
        /\ \E n \in 0..Len(script[c]) : RemovedBy(c) = NamedUpTo(c, n)
    BY DEF DInv, Commanding, CommandingOf
  <2>2. script \in [Commands -> CommandScripts]
    BY DEF DInv, TypeOK
  <2> QED BY <2>1, <2>2, NamedUpToIs
<1> QED BY <1>1, DatabaseInvariant, PTL

-----------------------------------------------------------------------------
(* Refusals.                                                               *)

\* Whoever is refused is in the way of another process: the transaction of its own is
\* the only one of its process.
LEMMA RefusedByOther ==
    ASSUME DInv, NEW t \in Threads, Refuse(t)
    PROVE  \E u \in Threads : Proc(u) # Proc(t) /\ InTransaction(u)
<1>1. InTransaction(t) /\ (~MayRead(t) \/ ~MayExclude(t))
  BY DEF Refuse
<1>2. PICK u \in Threads : u # t /\ lock[u] # "closed"
  BY <1>1 DEF MayRead, MayExclude, Others
<1>3. InTransaction(u) /\ Proc(u) # Proc(t)
  BY <1>1, <1>2 DEF InTransaction, DInv, Locking
<1> QED BY <1>3

\* A starting server that throws has found the database of an older version.
LEMMA ThrownAtStart == ASSUME DInv, server = "starting", Throw(Main) PROVE schema.tables = "old"
<1> DEFINE job == Head(todo[Main])
           n   == Len(todo[Main])
<1>1. todo[Main] \in Seq(Jobs) /\ todo[Main] # <<>> /\ Remain(todo[Main], Preparing)
      /\ PreparedUpTo(3 - n)
  BY ProcOf DEF DInv, TypeOK, Starting, Jobs
<1>2. n \in Nat \ {0} /\ n <= 3 /\ job = Preparing[3 - n + 1]
  BY <1>1, RemainTail, PreparingIs
<1>3. /\ job.op \in {"describe", "destroy"} \/ job.op = "version"
      /\ job.op = "version" => schema.tables # "there"
  BY DEF Throw, Throws
<1> HIDE DEF job, n
<1>4. PICK k \in 1..3 : k = 3 - n + 1
  BY <1>2
<1>5. k = 3
  <2>1. k = 1 \/ k = 2 \/ k = 3
    OBVIOUS
  <2> QED BY <1>2, <1>3, <1>4, <2>1, PreparingIs
<1>6. PreparedUpTo(2) /\ job.op = "version"
  <2>1. 3 - n = 2
    BY <1>2, <1>4, <1>5
  <2> QED BY <1>1, <1>2, <1>4, <1>5, <2>1, PreparingIs
<1>7. schema.tables # "none" /\ schema.tables # "there"
  BY <1>3, <1>6 DEF PreparedUpTo
<1> QED BY <1>7 DEF DInv, TypeOK

LEMMA TellsRefused ==
    ASSUME DInv, NEW t \in Threads, NEW u \in Threads, Step(t),
           answer'[u].word = "refused", answer[u].word # "refused"
    PROVE  u = t /\ Refuse(t)
<1>1. DOMAIN answer = Threads
  BY DEF DInv, TypeOK
<1>2. CASE Begin(t) \/ (\E r \in Rows : Read(t, r)) \/ Exclude(t)
  BY <1>2 DEF Begin, Read, Exclude
<1>3. CASE Refuse(t)
  BY <1>1, <1>3 DEF Refuse, Exception
<1>4. CASE Throw(t)
  <2>1. PICK told \in {"not found", "too old"} :
                answer' = [answer EXCEPT ![t] = [word |-> told, view |-> Blank]]
    BY <1>4 DEF Throw, Exception
  <2> QED BY <1>1, <2>1
<1>5. CASE Finish(t)
  <2>1. Head(todo[t]) \in Jobs
    BY <1>5, FinishDoes, AtWork
  <2>2. Result(Head(todo[t]), seen[t]).word # "refused"
    <3>1. PICK job \in Jobs : job = Head(todo[t])
      BY <2>1
    <3>2. ASSUME NEW view PROVE Result(job, view).word # "refused"
      BY JobIs, ResultOf
    <3> QED BY <3>1, <3>2
  <2>3. answer' = [answer EXCEPT ![t] = Result(Head(todo[t]), seen[t])]
    BY <1>5 DEF Finish
  <2> QED BY <1>1, <2>2, <2>3
<1> QED BY <1>2, <1>3, <1>4, <1>5 DEF Step

\* A transaction is refused only while another process is in one, and a starting server
\* fails only for that, for an old database, or because it is killed.
THEOREM RefusedOnlyByOtherProcesses == Spec => RefusedOnlyByOthers
<1> DEFINE A == /\ \A t \in Threads :
                      answer'[t].word = "refused" /\ answer[t].word # "refused" =>
                         \E u \in Threads : Proc(u) # Proc(t) /\ InTransaction(u)
                /\ server = "starting" /\ server' = "down" =>
                      \/ crashes' # crashes
                      \/ schema.tables = "old"
                      \/ \E c \in Commands : InTransaction(c)
<1>1. ASSUME DInv, [Next]_vars PROVE [A]_vars
  <2>1. CASE Start
    BY <2>1 DEF Start
  <2>2. ASSUME NEW w \in Workers, Request(w) PROVE A
    BY <2>2 DEF Request
  <2>3. ASSUME NEW p \in Commands \cup {Server}, Crash(p) PROVE A
    <3>1. crashes \in 0..MaxCrashes
      BY <1>1 DEF DInv, TypeOK
    <3>2. crashes' = crashes + 1 /\ answer' = answer
      BY <2>3 DEF Crash
    <3>3. crashes' # crashes
      BY <3>1, <3>2, DatabaseAssumption
    <3> QED BY <3>2, <3>3
  <2>4. ASSUME NEW t \in Threads, Step(t) PROVE A
    <3>1. ASSUME NEW u \in Threads, answer'[u].word = "refused", answer[u].word # "refused"
          PROVE  \E v \in Threads : Proc(v) # Proc(u) /\ InTransaction(v)
      BY <1>1, <2>4, <3>1, TellsRefused, RefusedByOther
    <3>2. ASSUME server = "starting", server' = "down"
          PROVE  schema.tables = "old" \/ \E c \in Commands : InTransaction(c)
      <4>1. t = Main /\ (Refuse(t) \/ Throw(t))
        BY <2>4, <3>2 DEF Step, Begin, Read, Exclude, Refuse, Throw, Exception, Finish
      <4>2. CASE Refuse(t)
        <5>1. PICK u \in Threads : Proc(u) # Proc(Main) /\ InTransaction(u)
          BY <1>1, <4>1, <4>2, RefusedByOther
        <5>2. u \in Commands
          BY <5>1, ProcOf DEF Proc
        <5> QED BY <5>1, <5>2
      <4>3. CASE Throw(t)
        BY <1>1, <3>2, <4>1, <4>3, ThrownAtStart
      <4> QED BY <4>1, <4>2, <4>3
    <3> QED BY <3>1, <3>2
  <2>5. CASE UNCHANGED vars
    BY <2>5
  <2> QED BY <1>1, <2>1, <2>2, <2>3, <2>4, <2>5 DEF Next
<1>2. RefusedOnlyByOthers <=> [][A]_vars
  BY PTL DEF RefusedOnlyByOthers
<1> QED BY <1>1, <1>2, DatabaseInvariant, PTL DEF Spec

-----------------------------------------------------------------------------
(* Transactions are serial.                                                *)

LEMMA SerialStart == Init => Serial!Init
<1> SUFFICES ASSUME Init PROVE Serial!Init
  OBVIOUS
<1>1. table \in [Shares -> Int]
  BY DEF Init, Absent
<1>2. answer = [t \in Threads |-> Serial!Tell("nothing", Serial!Blank)]
  BY DEF Init, Serial!Tell, Serial!Blank, Serial!Unread, Blank, Unread
<1> QED BY <1>1, <1>2 DEF Serial!Init

\* What the abstract store tells a thread.
LEMMA SerialTold ==
    ASSUME NEW t, NEW word, NEW view, answer' = [answer EXCEPT ![t] = [word |-> word, view |-> view]]
    PROVE  Serial!Told(t, word, view)
  BY DEF Serial!Told, Serial!Tell

LEMMA SerialNames == Serial!Blank = Blank /\ Serial!Absent = Absent
  BY DEF Serial!Blank, Serial!Unread, Serial!Absent, Blank, Unread, Absent

\* A transaction that was seen through to its end takes effect as one operation, on the
\* rows as they are.
LEMMA SerialFinish == ASSUME DInv, NEW t \in Threads, Finish(t) PROVE Serial!Next
<1> DEFINE job  == Head(todo[t])
           view == seen[t]
<1>1. /\ job \in Jobs /\ InTransaction(t) /\ Unseen(t) = {} /\ Done(job)
      /\ Len(todo[t]) \in Nat \ {0} /\ job = todo[t][1]
  BY FinishDoes, AtWork
<1>2. answer' = [answer EXCEPT ![t] = Result(job, view)]
  BY DEF Finish
<1>3. table \in [Shares -> {Absent} \cup Nat] /\ view \in [Rows -> {Absent, Unread} \cup Nat]
  BY DEF DInv, TypeOK
<1>4. \A r \in Reads(job) : r \in Rows /\ view[r] = Row(r)
  BY <1>1, SeenIsCurrent
<1>5. \A r \in Rows : r \notin Reads(job) => view[r] = Unread
  BY DEF DInv, Reading, ReadingOf
<1>6. \A s \in Shares : s \in Rows /\ Row(s) = table[s]
  BY DatabaseAssumption DEF Rows, Row
<1>7. job.op = "create" => table[job.share] = Absent
  <2>1. 1 \in 1..Len(todo[t])
    BY <1>1
  <2> QED BY <1>1, <2>1 DEF DInv, Creating
<1>8. job.op \in {"describe", "create", "count", "destroy"} => job.share \in Shares
  BY <1>1, JobIs
<1> HIDE DEF job, view
<1>9. CASE job.op \in {"tables", "indexes", "version"}
  <2>1. Result(job, view) = [word |-> "nothing", view |-> Blank]
    BY <1>9, ResultOf
  <2>2. Serial!Told(t, "nothing", Serial!Blank)
    BY <1>2, <2>1, SerialTold, SerialNames
  <2>3. table' = table
    BY <1>1, <1>9 DEF Done
  <2> QED BY <2>2, <2>3 DEF Serial!Next, Serial!Prepare
<1>10. CASE job.op = "list"
  <2>1. [s \in Shares |-> view[s]] = table
    <3>1. \A s \in Shares : view[s] = table[s]
      BY <1>1, <1>4, <1>6, <1>10, ReadsOf
    <3> QED BY <1>3, <3>1
  <2>2. Result(job, view) = [word |-> "shown", view |-> table]
    BY <1>10, <2>1, ResultOf
  <2>3. Serial!Told(t, "shown", table)
    BY <1>2, <2>2, SerialTold
  <2>4. table' = table
    BY <1>1, <1>10 DEF Done
  <2> QED BY <2>3, <2>4 DEF Serial!Next, Serial!List
<1>11. CASE job.op = "describe"
  <2>1. PICK s \in Shares : s = job.share
    BY <1>8, <1>11
  <2>2. table[s] # Absent /\ table' = table
    BY <1>1, <1>11, <2>1 DEF Done
  <2>3. [q \in Shares |-> view[q]] = [Blank EXCEPT ![s] = table[s]]
    <3>1. Reads(job) = {s}
      BY <1>1, <1>11, <2>1, ReadsOf
    <3>2. \A q \in Shares : view[q] = IF q = s THEN table[s] ELSE Unread
      BY <1>4, <1>5, <1>6, <3>1
    <3> QED BY <3>2 DEF Blank
  <2>4. Result(job, view) = [word |-> "shown", view |-> [Blank EXCEPT ![s] = table[s]]]
    BY <1>11, <2>3, ResultOf
  <2>5. Serial!Told(t, "shown", [Serial!Blank EXCEPT ![s] = table[s]])
    BY <1>2, <2>4, SerialTold, SerialNames
  <2>6. Serial!Describe(t, s)
    BY <2>2, <2>5, SerialNames DEF Serial!Describe
  <2> QED BY <2>6 DEF Serial!Next
<1>12. CASE job.op \in {"create", "count", "destroy"}
  <2>1. PICK s \in Shares : s = job.share
    BY <1>8, <1>12
  <2>2. Result(job, view) = [word |-> "done", view |-> Blank]
    BY <1>12, ResultOf
  <2>3. Serial!Told(t, "done", Serial!Blank)
    BY <1>2, <2>2, SerialTold, SerialNames
  <2>4. CASE job.op = "create"
    <3>1. table[s] = Absent /\ table' = [table EXCEPT ![s] = 0]
      BY <1>1, <1>7, <2>1, <2>4 DEF Done
    <3>2. Serial!Create(t, s)
      BY <2>3, <3>1, SerialNames DEF Serial!Create
    <3> QED BY <3>2 DEF Serial!Next
  <2>5. CASE job.op = "count"
    <3>1. table' = [table EXCEPT ![s] = IF @ = Absent THEN Absent ELSE @ + 1]
      BY <1>1, <1>3, <2>1, <2>5 DEF Done
    <3>2. Serial!Count(t, s)
      BY <2>3, <3>1, SerialNames DEF Serial!Count
    <3> QED BY <3>2 DEF Serial!Next
  <2>6. CASE job.op = "destroy"
    <3>1. table[s] # Absent /\ table' = [table EXCEPT ![s] = Absent]
      BY <1>1, <2>1, <2>6 DEF Done
    <3>2. Serial!Destroy(t, s)
      BY <2>3, <3>1, SerialNames DEF Serial!Destroy
    <3> QED BY <3>2 DEF Serial!Next
  <2> QED BY <1>12, <2>4, <2>5, <2>6
<1> QED BY <1>1, <1>9, <1>10, <1>11, <1>12, JobIs

\* "Not found" is told of a share that is not there, "too old" of a schema.
LEMMA SerialThrow == ASSUME DInv, NEW t \in Threads, Throw(t) PROVE Serial!Next
<1> DEFINE job == Head(todo[t])
<1>1. /\ InTransaction(t) /\ Unseen(t) = {} /\ Throws(job, seen[t]) /\ table' = table
      /\ answer' = [answer EXCEPT ![t] =
                        [word |-> IF job.op = "version" THEN "too old" ELSE "not found",
                         view |-> Blank]]
  BY DEF Throw, HasRead, Exception
<1>2. job \in Jobs /\ table \in [Shares -> {Absent} \cup Nat]
  BY <1>1, AtWork DEF DInv, TypeOK
<1>3. \A r \in Reads(job) : seen[t][r] = Row(r)
  BY <1>1, SeenIsCurrent
<1> HIDE DEF job
<1>4. CASE job.op = "version"
  <2>1. Serial!Told(t, "too old", Serial!Blank)
    BY <1>1, <1>4, SerialTold, SerialNames
  <2> QED BY <1>1, <2>1 DEF Serial!Next, Serial!Prepare
<1>5. CASE job.op # "version"
  <2>1. job.op \in {"describe", "destroy"} /\ seen[t][job.share] = Absent
    BY <1>1, <1>5 DEF Throws
  <2>2. PICK s \in Shares : s = job.share
    BY <1>2, <2>1, JobIs
  <2>3. table[s] = Absent
    BY <1>2, <1>3, <2>1, <2>2, ReadsOf, DatabaseAssumption DEF Row
  <2>4. Serial!Told(t, "not found", Serial!Blank)
    BY <1>1, <1>5, SerialTold, SerialNames
  <2>5. table' = [table EXCEPT ![s] = Absent]
    BY <1>1, <1>2, <2>3
  <2>6. Serial!Describe(t, s) /\ Serial!Destroy(t, s)
    BY <1>1, <2>3, <2>4, <2>5, SerialNames DEF Serial!Describe, Serial!Destroy
  <2> QED BY <2>6 DEF Serial!Next
<1> QED BY <1>4, <1>5

LEMMA SerialRefuse == ASSUME NEW t \in Threads, Refuse(t) PROVE Serial!Next
<1>1. /\ table' = table
      /\ answer' = [answer EXCEPT ![t] = [word |-> "refused", view |-> Blank]]
  BY DEF Refuse, Exception
<1>2. Serial!Told(t, "refused", Serial!Blank)
  BY <1>1, SerialTold, SerialNames
<1> QED BY <1>1, <1>2 DEF Serial!Next, Serial!Refuse

\* Each step is an operation of the serial store, or changes nothing there.
LEMMA SerialStep == ASSUME DInv, [Next]_vars PROVE [Serial!Next]_Serial!vars
<1>1. CASE Start
  BY <1>1 DEF Start, Serial!vars
<1>2. ASSUME NEW w \in Workers, Request(w) PROVE [Serial!Next]_Serial!vars
  BY <1>2 DEF Request, Serial!vars
<1>3. ASSUME NEW p \in Commands \cup {Server}, Crash(p) PROVE [Serial!Next]_Serial!vars
  BY <1>3 DEF Crash, Serial!vars
<1>4. ASSUME NEW t \in Threads, Step(t) PROVE [Serial!Next]_Serial!vars
  <2>1. CASE Begin(t) \/ (\E r \in Rows : Read(t, r)) \/ Exclude(t)
    BY <2>1 DEF Begin, Read, Exclude, Serial!vars
  <2> QED BY <1>4, <2>1, SerialFinish, SerialThrow, SerialRefuse DEF Step
<1>5. CASE UNCHANGED vars
  BY <1>5 DEF vars, Serial!vars
<1> QED BY <1>1, <1>2, <1>3, <1>4, <1>5 DEF Next

\* The locks of SQLite make the transactions serial: each call of the share manager takes
\* effect and sees the rows at one moment, or is refused and does nothing.
THEOREM DatabaseImplementsSerialStore == Spec => ImplementsSerialStore
<1>1. Init => Serial!Init
  BY SerialStart
<1>2. DInv /\ [Next]_vars => [Serial!Next]_Serial!vars
  BY SerialStep
<1> QED BY <1>1, <1>2, DatabaseInvariant, PTL DEF Spec, ImplementsSerialStore, Serial!Spec
=============================================================================
