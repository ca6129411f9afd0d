----------------------------- MODULE Responses -----------------------------
(***************************************************************************)
(* The response of ShareResource to a download: the share's only file is   *)
(* sent by a FileResourceHandler (FileDownload), several files by a        *)
(* ZipperResourceHandler (ArchiveZipper).  The other handler does not      *)
(* exist, and its variables keep their first values.                       *)
(***************************************************************************)
EXTENDS Integers, Sequences

CONSTANTS
    ChunkSize,    \* _chunkSize of FileResourceHandler
    Entries,      \* the files of a share with several, a sequence
    MaxLength,    \* bound: the length of a file, in bytes (of an archive: in buffers)
    MaxChanges    \* bound: how often files change during the response

ASSUME ResponseAssumption ==
    /\ ChunkSize \in Nat \ {0} /\ MaxLength \in Nat /\ MaxChanges \in Nat
    /\ Entries \in Seq({Entries[i] : i \in DOMAIN Entries}) /\ Len(Entries) > 1

VARIABLES
    handler,    \* "file" or "zip"
    aborted,    \* the client of a file has gone
    \* the state of FileDownload
    range, length, changes, offset, beyond, isFinished, status, announced, first, sent,
    \* the state of ArchiveZipper
    lengths, replacements, calling, state, currentEntry, header, entryOffset, written,
    archive, directory

File == INSTANCE FileDownload
Zip  == INSTANCE ArchiveZipper

fileVars == <<range, length, changes, offset, beyond, isFinished, status, announced, first, sent>>
zipVars  == <<lengths, replacements, calling, state, currentEntry, header, entryOffset, written,
              archive, directory>>

vars == <<handler, aborted, fileVars, zipVars>>
-----------------------------------------------------------------------------
\* handleRequest creates the handler.
Init ==
    /\ handler \in {"file", "zip"} /\ aborted = FALSE
    /\ File!Init /\ Zip!Init
    /\ handler = "zip"  => length = 0 /\ range = File!NoRange
    /\ handler = "file" => lengths = [f \in Zip!Files |-> 0]

\* handleAbort between two calls: the handler of a file has nothing to do.
AbortFile ==
    /\ handler = "file" /\ status # 0 /\ ~isFinished /\ ~aborted
    /\ aborted' = TRUE
    /\ UNCHANGED <<handler, fileVars, zipVars>>

\* The file changes.
FileChanges == handler = "file" /\ File!FileChanges /\ UNCHANGED <<handler, aborted, zipVars>>

\* The continuation of a response: handleRequest goes on with its handler.
FileStep ==
    /\ handler = "file" /\ ~aborted
    /\ File!ProcessRequest
    /\ UNCHANGED <<handler, aborted, zipVars>>

ZipStep  == handler = "zip" /\ Zip!Step /\ UNCHANGED <<handler, aborted, fileVars>>
ZipOther == /\ handler = "zip"
            /\ Zip!Abort \/ \E f \in Zip!Files : Zip!FileChanges(f)
            /\ UNCHANGED <<handler, aborted, fileVars>>

Next == FileChanges \/ FileStep \/ AbortFile \/ ZipStep \/ ZipOther

\* Wt asks for the continuation as long as the handler is not complete.
Spec == Init /\ [][Next]_vars /\ WF_vars(FileStep) /\ WF_vars(ZipStep)
-----------------------------------------------------------------------------
TypeOK ==
    /\ handler \in {"file", "zip"} /\ aborted \in BOOLEAN
    /\ File!TypeOK /\ Zip!TypeOK

\* The bytes a file response announces: Content-Length of them, from the first one.
Announced == [i \in 1..announced |-> first + i - 1]

FileEnd ==
    CASE aborted -> "aborted"
      [] ~aborted /\ ~isFinished -> "going"
      [] ~aborted /\ isFinished /\ status \in {404, 416} -> "refused"
      [] OTHER -> IF Len(sent) = announced THEN "complete" ELSE "cut"

ZipEnd ==
    CASE state = "open"     -> "going"
      [] state = "closed"   -> "complete"
      [] state = "failed"   -> "cut"
      [] state = "spinning" -> "stuck"
      [] state = "aborted"  -> "aborted"

Promise == INSTANCE Transfer WITH
    Pieces    <- Nat \cup Zip!Files,
    owed      <- IF handler = "file" THEN Announced ELSE Entries,
    got       <- IF handler = "file" THEN sent ELSE [i \in DOMAIN archive |-> archive[i].file],
    damaged   <- IF handler = "file" THEN {}
                 ELSE {i \in DOMAIN archive : archive[i].data # archive[i].header},
    end       <- IF handler = "file" THEN FileEnd ELSE ZipEnd,
    disturbed <- (IF handler = "file" THEN changes ELSE replacements) > 0

\* A response implements a transfer: over any chunks, continuations, aborts and
\* changes of the files, the bytes (the files of an archive) come in order from the
\* announced beginning, never one twice, left out, or beyond the announced end; a
\* response that ends by itself has sent all, unless somebody changed the files.
\* Also the archive of a response that failed holds the share's first files and no
\* others; the last of them in part if the failure came in the middle of its entry.
\* An entry has less data than its header says only if files were changed.
ImplementsTransfer == Promise!Spec

\* If no file changed, each entry holds the whole file and says so, and a response
\* with a range is the part of the range that lies in the file.
UnchangedIsExact ==
    /\ replacements = 0 =>
          \A i \in DOMAIN archive :
             archive[i].header = lengths[archive[i].file] /\ archive[i].data = archive[i].header
    /\ changes = 0 /\ status \in {200, 206} =>
          /\ range = File!NoRange => announced = length
          /\ range # File!NoRange => announced = File!LastByte(range, length) - range[1] + 1

\* Every response ends, also if a file is truncated or deleted meanwhile, unless the
\* loop of writeSomeCurrentFileData spins over a file that grew behind its header.
ResponseEnds ==
    <>(IF handler = "file" THEN isFinished \/ aborted
       ELSE \/ state \in {"closed", "failed", "aborted"}
            \/ state = "spinning" /\ lengths[Entries[currentEntry]] > header)
=============================================================================
