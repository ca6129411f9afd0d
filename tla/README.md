# FileShelter in TLA+

FileShelter is a "one-click" file sharing web application: a visitor uploads
files, gets a download link and a private edit link, and the share disappears
after its validity period. This directory models its core, checks the models
with TLC and proves the most important facts about them with TLAPS. Paths below
are relative to the repository.

## 1. The system

| Component | Source | State it keeps | Operations |
|---|---|---|---|
| Share store | `src/libs/share/impl/ShareManager.cpp`, `Share.cpp`, `File.cpp` | share and file rows in SQLite; the files below `<working-dir>/uploaded-files` | create, destroy, describe, visit, count a download |
| Cleaner | `ShareCleaner.cpp` | an hourly timer on an io thread of its own | check expired shares (at start, then every hour), remove orphan uploads (at start) |
| Database access | `Db.cpp`, `Traits.cpp` | a pool of exactly one connection, one session per thread; the schema and its version row | prepare tables, indexes and version; give out a session; type mapping |
| Server | `src/fileshelter/main/main.cpp` | the process | prepare directories, build the manager (first check), scan, serve, stop |
| Download resource | `src/fileshelter/resources/ShareResource.cpp` | a handler per unfinished response, carried by Wt continuations | first request, continuation, abort |
| File handler | `src/libs/utils/impl/FileResourceHandler.cpp` | offset, end of range, finished | send one chunk |
| Zip handler | `ZipperResourceHandler.cpp`, `ArchiveZipper.cpp` | current entry, offset in it, libarchive state | write some, abort |
| Upload form | `src/fileshelter/ui/ShareCreateFormView.cpp`, `ShareCreate.cpp` | sizes received and expected, a "validated" flag, the uploads of the drop widget | add, delete, receive, validate, emit |
| Validity period | `ShareManager.cpp` (settings), `ShareCreateFormModel.cpp` | the two bounds; value, unit and validator of the form field | read and validate the settings, update validator, update value, read |
| Passwords and pages | `ShareDownload*.cpp`, `ShareEdit.cpp`, `ShareCreated.cpp`, `ShareCreatePassword.cpp`, `PasswordUtils.cpp`, `FileShelterApplication.cpp` | per session: path, stack of pages, menu, "password verified" | navigate, verify, create, delete, begin and end a session |
| `fileshelter-cmd` | `src/tools/fileshelter-cmd` | none: a process per command, on the same database | create from local files (not owned), destroy several shares, list |
| Configuration | `Config.cpp` | constant after start | read a number, a list, with defaults |
| Logging, strings, UUIDs, ToS, templates | `src/libs/utils`, `src/fileshelter/ui` | none, or constant | - |

How they meet: sessions and downloads call the share manager from Wt's threads;
the cleaner does from its io thread; `fileshelter-cmd` does from another
process. Within a process the single pooled connection serialises transactions;
between processes only SQLite's locks do. Files are a second, non-transactional
store next to the database: they are spooled by Wt, taken over by the form
(`stealSpoolFile`), unlinked by `Share::destroy` *before* the row's deletion
commits, by the startup scan if no row names them, and read chunk by chunk by
the download handlers, which reopen them each time.

What is hard: the two stores cannot change atomically (crash, failed commit,
conflict between processes, an unlink the system refuses); the cleaner races with downloads, owners and
commands; the startup order (check, scan, serve) carries a safety argument; processes that start together
prepare one database, and SQLite refuses a lock at once when another process
holds one; a form's uploads, deletions and validation arrive in any order, and so do the
signals of uploads that were deleted; a download spans many callbacks during which share and file may go. `PROJECT.json` lists each
hazard at its line.

What makes each part correct: the store never loses track of an upload, never
deletes a file that is not its own, and removes what expired, in time; a
download delivers exactly the range it announced, or the files of the share, in order,
or stops with a beginning of them, and is not cut by
the cleaner for two hours after expiry; transactions are serial across processes,
and a process that is up has a complete schema; a form emits its share exactly once, when all files are in,
and only if the store will accept it; a validity the form accepts is within the
configured bounds; a session shows the page of its path, the form only behind an
upload password, and a link only behind the password of its share.

## 2. The modules

| Module | Models | Built on | Checked by | Proved in |
|---|---|---|---|---|
| `ShareLifecycle` | what the program promises about one share (abstract) | - | refined by `ShareStore` | - |
| `ShareStore` | share manager, cleaner, startup, crashes, `fileshelter-cmd` | `ShareLifecycle` (`INSTANCE ... WITH`) | `MCShareStore` and 4 configurations | `ShareStoreProofs` |
| `ServerProcess` | main, the io thread and its timer, requests, orderly and failed ends | - | `ServerProcess.cfg` | `ServerProcessProofs` |
| `ShareDownloads` | `ShareResource`: requests over the life of the shares | `ShareLifecycle` (`EXTENDS`) | `MCShareDownloads` | `ShareDownloadsProofs` |
| `FileDownload` | `FileResourceHandler`: one file response | - | as part of `Responses` | - |
| `ArchiveZipper` | `ArchiveZipper`, `ZipperResourceHandler`: one archive response | - | as part of `Responses` | - |
| `Transfer` | what a response promises to its client (abstract) | - | refined by `Responses` | - |
| `Responses` | `ShareResource` with the handler it creates | `FileDownload`, `ArchiveZipper`, `Transfer` (`INSTANCE ... WITH`) | `MCResponses` | `ResponsesProofs` |
| `SerialStore` | what transactions promise together (abstract) | - | refined by `Database` | - |
| `Database` | `Db`: schema, pool, transactions of several processes; the commands' jobs | `SerialStore` (`INSTANCE ... WITH`) | `MCDatabase` | `DatabaseProofs` |
| `UploadForm` | `ShareCreateFormView`, Wt's drop widget, `ShareCreate` | - | `MCUploadForm` and 2 configurations | `UploadFormProofs` |
| `ValidityPeriod` | settings, `ShareCreateFormModel`, the check of the store, the expiry | - | `MCValidityPeriod` | `ValidityPeriodProofs` |
| `Pages` | sessions, navigation, the two password gates, the removal dialog | - | `MCPages` | `PagesProofs` |

The composition is by layers. `ShareStore` is shown to implement
`ShareLifecycle`; `ShareDownloads` and `Pages` then need only the promise and
not the store: `ShareDownloads` runs its requests against `ShareLifecycle`
itself, `Pages` against the part of it a session can observe. `Responses` composes
the two handlers: one of them exists, and its bytes or entries are what
`Transfer` speaks of. `Database` is the layer below `ShareStore`: it shows for the locks
of SQLite what `ShareStore` takes for granted, that a transaction is one step or
none. In each module an
operator whose comment begins with `Bug:` is a plausible programming error in
the operator that follows it; no specification uses it. Each such error is
known to break the property that `PROJECT.json` pairs it with.

### ShareStore

State: `rows`, `used`, `expiry`, `content` and `owned` are the tables `share`
and `file`; `disk`, `named` and `spool` are the file system, the upload names
given out and the uploads Wt still owns; `kept` is a history of the files the system refused
to unlink when last asked to; `server`, `nextCheck` are main's
progress and the expiry of the cleaner's timer; `kind`, `victims`, `todo` say
what each thread is in the middle of. A thread is main, the io thread, a worker
(session) or one run of `fileshelter-cmd`.

| Code | Actions |
|---|---|
| `ShareManager::createShare` from `emitDone` | `StealSpool`, then `CreateShare` or `CreateFails` |
| `fileshelter-cmd create` | `CmdCreate` |
| `destroyShare`, `Share::destroy` | `BeginDestroy`, `RemoveFile` for each owned file, `CommitDestroy` or `Fail` |
| `checkExpiredShares` | `BeginCheck` (in `Start`, `TimerFires`), `RemoveFile`, `CommitCheck` or `Fail` |
| `removeOrphanFiles` | `ScanFile` for each file, `ScanDone` |
| Wt's uploads | `Upload`, `DropUpload` |
| end of the server | `Stop` (orderly), `Crash`, `Fail` in main or the io thread |

Creating a share is one step: its transaction only inserts, and a transaction
that inserts in another process can only make a commit fail, which
`CreateFails` and `Fail` allow. A removal is many steps, since unlinking is not
transactional. `Unlink` is `std::filesystem::remove` with an error code, in `Share::destroy`
and in the scan: it may fail, which is logged and passed over (`Share.cpp:112`,
`ShareCleaner.cpp:69`), while the row goes all the same. In `ShareLifecycle` such a share is
"left" until a scan gets hold of its files (`Sweep`). `Commit` requires that no other process is in a transaction that
has read: this is SQLite's rollback-journal locking, modelled from how
`Db.cpp` opens the database (no WAL, no busy timeout), and the reason why a
check can throw.

### ServerProcess

`ShareStore` takes for granted that the io thread and the sessions are gone
before the database is. `ServerProcess` checks that: `stage` is the next
statement of main (`ShareManager` and `ShareCleaner` constructors, settings,
scan, `server.start`, `waitForShutdown`, and the destructors in reverse), and
`Throw` is an exception at each of the statements from which main's `catch`
takes everything down. `timer` and `io` are boost's timer and the thread of
`Wt::WIOService`. `~ShareCleaner` calls `cancel` from main's thread while the
handler may call `expires_after` on the same object from the io thread. That is a
data race; the outcomes modelled are the two orders of the calls.

### ShareDownloads, and Responses over FileDownload and ArchiveZipper

`ShareDownloads` follows `ShareResource::handleRequest`: `Ask` is the
transaction of `getShareDesc`, `Verify` the comparison with the password hash
(no transaction), `Count` the transaction of `incrementReadCount`, `SendChunk`
and `Break` a call of the handler, `Abort` Wt's `handleAbort`.

`Responses` looks inside one response. `handler` is the one `handleRequest`
creates for one file or for several; `FileStep` and `ZipStep` are the
continuations, `AbortFile` and `ZipOther` Wt's `handleAbort` and changes of the
files. In `FileDownload` a byte is its position in the file; in `ArchiveZipper` a
file counts read buffers. The file may change before every call because every
call opens it anew. libarchive decides when it writes (`MayWrite`), takes no more
data than a header announced, and writes a central directory when it is closed
or freed, but not after `archive_write_fail`. An exception of `writeSome` frees it: an entry
under way is finished with the data it has, and is listed (`FileFails`).

`Transfer` is the promise, the same for both: a sequence of pieces that is owed,
settled by the first delivery; what was delivered is always a beginning of it;
"complete" means all of it; only if somebody disturbed the files does the server
cut a response off or get stuck, or deliver a piece that is not whole (`damaged`: an entry
with less data than its header says).

### Database

A thread works through `todo`, a script of jobs with one transaction each:
`Db::prepare` (tables, indexes, version) when its process starts, then calls of
`ShareManager`.

| Code | Actions |
|---|---|
| `createShareManager` in main, `fileshelter-cmd` | `Start`, `Init` (commands are there from the beginning) |
| a request of `ShareResource` or of a page | `Request` |
| `getTLSSession` and `Transaction` (the pool's only connection) | `Begin` |
| a query; for `visitShares` one row of many | `Read` |
| flush and commit | `Exclude`, `Finish` |
| SQLITE_BUSY | `Refuse` |
| `ShareNotFoundException`, "Database too old" | `Throw` |
| kill | `Crash` |

`lock` is SQLite's lock of a connection; `MayRead` and `MayExclude` are its rules
without a busy timeout. An exception rolls back, and ends the script: a request
fails, a starting server and a command exit. That `createTables` finds the tables
there is the one exception `prepare` passes over (`Writes`).

### UploadForm, ValidityPeriod, Pages

`UploadForm` keeps the members of `ShareCreateFormView` by their names; `uploads`,
`finished` and `failed` are the drop widget's. The widget uploads in order, one
file at a time, and passes over what was cancelled. A cancellation is a message to the browser:
`DeleteFile` sends it, `CancelArrives` is its arrival, at any time or never. Until then the
deleted file is uploaded like any other, and `DataReceived` and `Uploaded` run for it, since
the handlers `addFile` connects do not ask `isFileDeleted`.

`ValidityPeriod` begins with the configuration file: `GetULong` makes an unsigned
number of whatever stands there, `Accepts` is the validation in the constructor
of `ShareManager`. The rest is exact arithmetic, except `ToInt`, which wraps at the
two places where the code has an int: the bound of the validator and the seconds
of `addSecs`. The unit's bound (`top`) is a variable because the validator is only
updated in handlers.

`Pages` keeps what the four widgets of a session show, since a widget shows what it
read when it was filled; `ChangePath` is the chain of `internalPathChanged`
handlers, each of which clears its page first, and then reads the store as the step leaves it:
`CompleteForm` creates the share and runs the chain. `front` is the stack's current
widget, `menu` the link to the creation page. A session begins at any path (`Open`)
and ends at any time (`End`), as do a timeout, a closed browser, and an exception
that `notify` lets through.

## 3. What is checked

| Run | Instance | Question |
|---|---|---|
| `store` | 2 shares, 3 uploads, 1 local file, 2 sessions, 1 command, 2 faults, 7 hours | Is an expired share removed in time, by nobody unentitled, with all of its files and no others; does the store implement `ShareLifecycle`? |
| `store_live` | 2 shares, 1 upload, 1 local file, 1 session, 1 command, 1 fault, 6 hours | Does every share go in the end? |
| `store_elsewhere` | as `store`, the server runs in another directory | finding 1 |
| `store_zero` | as `store` | finding 2 |
| `process` | 3 workers | Does the database outlive its users on every way out; does the cleaner always have a next check; does the process end? |
| `downloads` | 1 share with a password, 2 requests, 2 chunks, 6 hours | Who gets bytes, what may break a download, is it counted, does it end? |
| `responses` | one file to 5 bytes, chunks of 2, all ranges, or 2 files to 5 buffers, 2 changes, exceptions, aborts | Does a response implement `Transfer`; is it exact if nothing changed; does it end? |
| `database` | a server with 2 workers, 1 command with any of 3 scripts, 2 shares, 2 requests, 1 kill, 3 first databases | Are transactions serial across processes; is the schema complete for everybody who is up; who may be refused; does an exit status tell the truth; do calls end and the server come up? |
| `upload_form` | 4 files (two pairs of one name, one that may fail, one empty), limit 3, late cancellations | Do the totals agree with the files; is a share emitted exactly when all is there? |
| `upload_form_limit` | as `upload_form` | finding 3 |
| `validity_period` | 18 settings (one missing, one negative, one zero, one beyond an int), 11 inputs, all sequences of changes | Is the default exact; does the store accept what the form accepts; does the share last as long? |
| `pages` | 2 sessions, 2 shares, one with a password, a list of upload passwords with an element that is no string and an empty string in front, menu link hidden on downloads | Are the gates tight; is the screen that of the path; who is told what about a removal? |

**Bounds.** `MaxTime` stops the clock; shares are created only while the clock
can still outlive them by the grace and two periods, so no property holds
merely because time ends. With a validity of one hour, a grace of two and a
period of one, seven hours hold a creation in the first hours, the expiry, the
grace, and the check after it. `MaxFaults` counts crashes, refused unlinks and
failures that no conflict explains (conflicts are not counted): with two, a removal can be
interrupted, repeated and interrupted again, or leave a file that the scan of the next start
cannot unlink either. Two sessions and a command are
every pairing of removers within and across processes. Three uploads are a
share that reaches `MaxShareSize`, and a share with an upload left over. Chunks of 2
against lengths to 5 have an exact last chunk, a short one, and a middle one.
`MaxChanges = 2` lets a file shrink and grow again. In
`database`, two requests are a download against a removal or two downloads of one
share (a lost update needs no more), the command is the second process that
every conflict of locks needs, its script of two removals the least that can stop
half-way, and `MaxCrashes = 1` kills any process between any two transactions of the
schema. The first databases are a fresh one, one of an earlier run, and one from
before the version row. The files of the form are
chosen around the limit: `a` and `b` reach it, `b` and `c` exceed it.
The settings of `validity_period` lie around a week, a month and a year, and
217, 730 and 11315 are multiples of one or several units. TLC's integers are ints
themselves, so `IntLimit` is scaled to 262144: the hours of 11315 days exceed it,
the seconds of four days do. The proofs leave it open.

**Symmetry** is used for shares, uploads and sessions in the safety runs of
`MCShareStore`, and for the sessions of `MCPages`, which treat the members alike;
never with a liveness property.

**Deadlock.** The clock, the uploads, the requests and the runs of `fileshelter-cmd` are
bounded, responses complete, forms are emitted, a process exits: these
instances really stop, and say `CHECK_DEADLOCK FALSE`. `pages` never stops and is
checked for deadlock. What must go on is stated as liveness instead.

**Fairness.**
- `store_live`: weak fairness of each thread in the middle of a removal and of the
  scan (the operating system schedules threads), of the timer (boost calls the
  handler), and of `Start` (systemd restarts a server that failed,
  `Restart=on-failure` of `conf/systemd/default.service`; an administrator who
  stops it is taken to start it again). Strong fairness of `Tick`: time passes even if the
  server is restarted over and over, in which case a check is pending again and
  again and `Tick` is not enabled continuously.
- `process`: weak fairness of main, of the io thread, of the timer, and of the end
  of each request. `Throw`, `CheckThrows` and the signal have none.
- `downloads`, `responses`: weak fairness of the handler, as
  Wt asks for the continuation while the client reads. Nobody has to abort.
- `database`: strong fairness of each thread, since a thread that waits for the
  connection is enabled only while it is free, and the pool hands it on by a condition
  variable; weak fairness of `Start`, as in `store_live`. Requests and kills have none.
- `upload_form`: weak fairness of the uploads; nobody has to click.

**Findings.** Three runs end in a counterexample, each against a sentence of the
repository:
1. `store_elsewhere`. `Share::destroy` unlinks the stored *relative* path
   (`Share.cpp:111`), sizes and downloads resolve it against the working
   directory. If the server runs elsewhere, the rows go, the files stay, and
   nothing is reported, until the next start scans the directory.
   README.md:22 promises their deletion two hours after expiry.
2. `store_zero`. `CreateParameters.hpp:36` says of the validity period "0 if
   infinite"; `Share.cpp:69` lets such a share expire at once.
   `fileshelter-cmd create --validity-hours 0` reaches it.
3. `upload_form_limit`. The form refuses what *exceeds* the limit, the store what
   *reaches* it: a share of exactly `max-share-size` is uploaded in full, taken
   over, and then refused.

Met on the way, of which the repository says nothing that a run could refute:
- `onFileUploaded` compares totals, `isUploadComplete` compares files: with an
  empty file behind the last other one, the form is emitted before that file is
  in, and an exception ends the session. `CompleteWhenEmitted` names the case.
- `deleteFile` and a failed upload leave `_currentReceivedSize` as it was: the
  progress can exceed 100 until other data arrives. `ProgressBounded` leaves
  these cases out.
- An upload that fails after the form was validated leaves the progress page
  for ever.
- An exception in the zipper frees the archive, whose close finishes the entry under way and
  writes a directory: the client gets a well-formed archive that lacks files, and whose last
  entry may be cut. `ImplementsTransfer` says what is left to rely on: it holds the first
  files of the share, all but the last of them whole, and no others.
- The upload of a deleted file that ends before its cancellation arrives adds its size to
  `_totalReceivedSize`, although `deleteFile` has taken it off `_totalSize`. The totals then
  overshoot: a validated form with all its files in hangs on the progress page, or, if the
  size happens to make up for a file that is missing, `emitDone` throws. `TotalsAgree` says how
  far the totals are off, `ValidatedCompletes` and `CompleteWhenEmitted` what still holds.
- A file that the system refuses to unlink stays when its share goes; only the scan of the
  next start asks again. `GoneMeansDeleted` and `NoOrphanAfterStartup` except these files, and
  no others.
- A file that grows after its header was written makes
  `writeSomeCurrentFileData` offer data that libarchive does not take, for ever.
- A server that is stopped while a check is on its way waits for the io
  thread, whose handler sets the timer again (`late` in `ServerProcess`).
- Whatever goes wrong while the version is read, a lock that another process
  holds included, is logged as "Database too old" (`Db.cpp:158`). The version is
  written, and never compared with `FS_DATABASE_VERSION`.
- From a `max-validity-days` of 89478486 on the form's bound in hours wraps. No
  period beyond the maximum passes (`NeverRefused` holds for any setting), but
  the unit "hours" may accept nothing. A period of more than 68 years wraps in
  `addSecs`; `PeriodInBounds` promises the duration only below.
- `visitStrings` ends a list at the first element that is no string: a misspelt
  `upload-passwords` leaves no password, and with none, or only empty ones, the form is open
  to all.
- `displayError` of `FileShelterApplication`, and the exception class it shows, are
  not reached by anything.

## 4. What is proved

All of it for any sets of shares, files, sessions, commands, requests and
workers, and any values of the numeric constants that the named assumptions
allow. The proofs of safety use no fairness. Every invariant, action property and
refinement that a passing run checks is a theorem; what is left to TLC is liveness.

**ShareStore** (`ShareStoreProofs`). None of the properties is inductive by
itself. `IInv` adds what makes them so, and is proved one conjunct at a time:
- `Phases`: main's progress determines what its threads can be doing; without it
  a worker could be in a transaction while the scan examines files.
- `OneHolder` and `Names`: an upload is in the spool, in one creation or in one
  share. Hence the removal of one share cannot touch another, and the end of a
  session deletes nothing recorded.
- `Present`: what is about to be recorded exists. Hence new shares are whole.
- `RemovalsExact`: what a removal has still to unlink, and what it was refused (`kept`),
  contain all that is left of its victims' files. Hence a commit leaves nothing else:
  `GoneMeansDeleted`. It needs
  that all processes run in the working directory, the precondition of the
  theorems that finding 1 makes necessary.
- `ScanCovers`: an upload on disk is recorded, not examined yet, or could not be unlinked. Hence
  `NoOrphanAfterStartup`.
- `ChecksInTime`: a check under way misses no share that is due and the next
  one comes before any share is older than the grace plus one period. Hence
  `CleanedInTime`. It rests on `Tick` (the clock does not overtake a check that
  is due): the timer fires within its hour and a check takes less than one.

`WholeUnlessFaults` adds to `IInv` only that faults and busy commands are there to
stay (`FaultlessBefore`), so that a run which has none now has had none before.

`StoreImplementsLifecycle` maps each share to its status (`Status`) and shows
each action to be a step of `ShareLifecycle` or a stutter. The lemmas `...Maps`
state each kind of step once: beginning a removal is `BeginRemoval`, a commit is
`EndRemoval` (to "gone" or "left"), a failure or crash is `AbandonRemoval` of everything its
threads were removing, the scan's unlink of the last file of a share is `Sweep`, other
unlinking and the rest stutter.

**ShareDownloads** (`ShareDownloadsProofs`). `DInv` says that a share misses
files only after an entitled removal began (`LossIsEntitled`), that an admitted
request asked before the expiry (`AdmittedInTime`), and that only verified
requests send (`SendingIsVerified`). `NotBrokenEarly` follows: a removal
that was not the owner's began more than the grace after the expiry, hence
after the request. `DownloadsCounted` needs `CountInv`: until the share is gone its
counter is the number of the requests that have passed `incrementReadCount`, and
afterwards no larger. Each count adds one element to that set
(`FS_AddElement`); the theorem assumes that the set of requests is finite.

**ServerProcess** (`ServerProcessProofs`). `ProcessInv` relates main's progress to
the io thread, the timer and the requests. `DatabaseOutlivesUsers` is the
safety of the destructor order, `ChecksGoOn` that no way through the handler
leaves the server without a next check, `CancelledInTime` that a timer cancelled
before its time begins no check (`NoCheckAfterCancel`, proved only).

**ValidityPeriod** (`ValidityPeriodProofs`). For all settings, inputs and widths of an
int. The lemmas bound a product of hours by the quotient it came from, and
say that putting a number into an int never makes a natural number larger;
`InStep` says that the validator's bound is that of the unit selected, which is
what `NeverRefused` needs.

**Pages** (`PagesProofs`). Two inductive invariants.
- `GateInv` is `TypeOK`, `Gate`, `LinkOpens` and `Removals`. `FormGated` alone is not inductive:
  the page is rebuilt from the flag `verified` on every navigation, so `Gate` says
  of the flag itself that it is set only in a session that has given a password,
  which needs `End` to reset both. `Removals` says that a share with a remover is gone,
  hence is not found again by another session.
- `Screens` says of each session that it is `Sound`: front, menu and the four
  pages are those of its path, at most as old as the last change of it. A page may lag
  behind the store in one direction only, because shares only age (`Ages`): what was
  not found stays so. Hence `ScreenFollowsPath` and `NotFoundIsTrue`.

**Responses** (`ResponsesProofs`). Both handlers keep a position between two calls while the
file changes under them; `RInv` says what it is worth.
- `Progressing`: what was sent is one run of bytes from the first one on, and an
  unfinished response goes on at its end (`offset = first + Len(sent)`). `offset = 0` is
  how the code knows a first call, so a response that goes on must have another one.
- `Fitting`: if nothing changed, the range announced is the range asked for.
- `Packed`: the archive holds the first `currentEntry - 1` files, in order, and after an
  exception perhaps a part of the next one (`Interrupted`).
- `Undisturbed`: if nothing changed, each header and its data are those of its file.

`UnchangedIsExact` follows from the conjuncts about unchanged files.
`ResponsesImplementTransfer` maps the bytes or the entries delivered to the pieces of
`Transfer`; that they are always a beginning of what is owed is `Progressing` or `Packed`,
with `RunGrows` and `PrefixBy` for the sequences. `PieceGoesOn` states once what a chunk
does, for the first call and for the continuations.

**Database** (`DatabaseProofs`). `DInv` has six parts.
- `Locking`: at most one transaction in a process, and while one connection is exclusive no
  other has read.
- `Reading`: what a transaction has read of the rows of its job is still in the rows.
  It is kept because whoever writes holds the exclusive lock, which nobody gets
  while another has read; this is the whole argument for serial transactions.
- `Creating`: a share still to be created is absent, and to be created by one job of one
  thread. Without it two creations could meet in one row.
- `Starting` and `Commanding`: the jobs left of a script say how much of the schema is
  prepared (`PreparedUpTo`), and which shares a command has removed (`NamedUpTo`). A
  command's removals are its own because a share that was removed is not created again.

`FinishDoes` says what the end of a transaction does in terms of the rows
alone (`Done`): with `Reading`, the view of the transaction drops out. All else
follows from it: `PreparedOnce`, `ExitTellsTruth`, and the refinement, in which `Finish`
is the operation of the job, `Throw` one that finds nothing, `Refuse` a refusal, and
everything else a stutter. `RefusedOnlyByOthers` follows from `Locking` (the
transaction in the way is not of one's own process) and, for a server that fails at its
start, from `Starting` (after two jobs the tables are there, so they are old).
The attempt to prove `ExitTellsTruth` corrected it: a run of `destroy` that names one
share twice removes it and then fails, so what it has removed is what is named *up to a
place* in its list, not the first shares of the list taken as distinct.

**UploadForm** (`UploadFormProofs`). `FormInv` adds to `TotalsAgree`
- `Sorted`: the widget has every file once, and a deleted file stays with it, finished or not;
- `Stages`: the button is enabled, and the form is in progress, only with files that pass
  the checks; a form that is created keeps the files it emitted. `EmittedFilesPass` and
  `CompleteWhenEmitted` are the parts of it that matter outside;
- `Received`: without deletions and failures the bytes of the current upload belong to
  one unfinished file. Hence `ProgressBounded`.

`Total` is a sum over a set, taken in an order nothing is known of. That adding or
removing a file changes it by the size of that file (`TotalWithout`, `TotalOfUnion`) is
induction over finite sets; since the library's induction theorems take an operator, it
is proved from a smallest counterexample instead (`SmallestSet`), which the library's facts
about well-founded orderings give in first-order form.

**Assumptions.** `StoreAssumption`, `DownloadsAssumption`, `PeriodAssumption`, `PagesAssumption`,
`FormAssumption`, `ResponseAssumption` and `DatabaseAssumption` say that the sets of names are
disjoint and that numbers are natural; TLC evaluates them in every run. Beyond that,
`ResponseAssumption` says that an archive has more than one file (`handleRequest` makes
none for a single one), and `DatabaseAssumption` that no script creates a share twice (each
creation generates its uuid). The theorems about the store that need it assume `InWorkingDir =
Processes`, `DownloadsAlwaysCounted` that the requests are finitely many.

**Model-checked only.** Liveness (`ExpiredSharesRemoved`, `ShutdownEnds`,
`RequestsEnd`, `ResponseEnds`, `ValidatedCompletes`, `CallsEnd`, `ServerGetsReady`): fairness
and `ENABLED` are out of the prover's reach.

## 5. What the models leave out

- **Environment.** The names Wt generates for uploads and the uuids of shares do not repeat. SQLite
  serialises and rolls back. Local files of `fileshelter-cmd` are not deleted by
  their owner in `ShareStore`; in the downloads any file may change. The program's own unlinks may
  fail (`Unlink`); those of Wt, which drops the spool files of a session that ends (`DropUpload`,
  `Stop`), are taken to succeed.
- **The clock** only goes forward, in hours. A set-back clock delays every check
  and expiry alike.
- **`fileshelter-cmd`.** In `ShareStore` a run does one thing, and several edit
  uuids stand for several runs; in `Database` they are one script. `help` and the
  parsing of options change no state. The scan is not run by it.
- **Database.** The conversion of values to SQL (`Traits.cpp`) is the identity on the
  names used here. `Wt`'s pool gives up waiting for the connection after a
  timeout; no transaction lasts that long in the model. A commit that fails on
  the disk is in `ShareStore` (`Fail`), not in `Database`. SQLite's RESERVED lock is left out:
  a transaction writes at its end, under the exclusive lock, although `Share::create` flushes
  before its other statements. The lock would only refuse a second writer earlier.
- **HTTP.** The parsing of `Range` is Wt's. A request for several ranges gets the
  whole file, as in the code. Header formatting is left out.
- **Uploads.** `dataReceived` reports bytes of the request; the model counts bytes of the file,
  so that the overhead of a request, by which the progress may be too high, is left out.
- **Passwords.** Hashing is modelled by equality with the password it was
  computed from; the second that a wrong upload password costs is left out.
- **Display.** Texts, terms of service, size formatting, the progress bar
  itself. The page of the terms is a path of `Pages` and nothing more.
- **Configuration** is constant after the start. Where what it returns for odd
  input matters (`getULong`, `visitStrings`) it is modelled; the rest is one call of
  libconfig each. The Wt configuration file main writes (`main.cpp:38`) is text.
- **Without state.** `Logger.cpp` and `UUID.cpp`; `String.cpp`, which nothing in the
  program calls.

## 6. Plan

Done, in this order, most important first: `ShareLifecycle` and `ShareStore` with
their refinement and proofs; `ShareDownloads`; the two handlers; the upload form;
the validity period; the pages; the process; the database with `SerialStore`; the
responses with `Transfer`; the proofs about the pages, the form, the responses and the
database.

Next, in this order:
1. The safety half of the liveness properties, which is within the prover's reach: that
   a state in which a request, a response or a call is not over has a step of the one
   who must take it, stated without `ENABLED` as a guard that holds.
2. The composition: that `Database` with the shares of `ShareStore` in its rows implements the
   transactions `ShareStore` assumes.
