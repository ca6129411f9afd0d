--------------------------- MODULE ArchiveZipper ---------------------------
(***************************************************************************)
(* One response of ZipperResourceHandler: an archive of several files,     *)
(* produced piece by piece.  A call of writeSome goes on reading files and *)
(* feeding libarchive until libarchive has written something to the        *)
(* response; libarchive compresses and buffers, so it writes when it likes.*)
(*                                                                         *)
(* Sizes count read buffers.  Every file is opened anew for each buffer    *)
(* and may change in between.  libarchive is modelled by its use here: it  *)
(* takes no more data for an entry than its header announced; an orderly   *)
(* close, also the one of archive_write_free, finishes an entry that is    *)
(* under way as it is and writes the central directory.                    *)
(***************************************************************************)
EXTENDS Integers, Sequences

CONSTANTS
    Entries,       \* the files of the share, a sequence
    MaxLength,     \* bound: the length of a file, in buffers
    MaxChanges     \* bound: how often files change during the response

Files  == {Entries[i] : i \in DOMAIN Entries}
Absent == -1

VARIABLES
    lengths,       \* lengths[f]: the length of file f now
    replacements,  \* how often a file has changed
    calling,       \* a call of writeSome is under way
    state,         \* "open", "closed" (isComplete), "failed", "aborted", or
                   \* "spinning": the inner loop feeds data nobody takes
    currentEntry,  \* _currentEntry: a position in Entries
    header,        \* the size in the header of _currentArchiveEntry, or Absent
    entryOffset,   \* _currentEntryOffset
    written,       \* _bytesWrittenInCurrentOutputStream > 0
    archive,       \* the finished entries of the archive, as [file, header, data]
    directory      \* the central directory has been sent: the client has an archive

vars == <<lengths, replacements, calling, state, currentEntry, header, entryOffset,
          written, archive, directory>>

entry == <<currentEntry, header, entryOffset>>

Init ==
    /\ lengths \in [Files -> 0..MaxLength] /\ replacements = 0
    /\ calling = FALSE /\ state = "open"
    /\ currentEntry = 1 /\ header = Absent /\ entryOffset = 0
    /\ written = FALSE /\ archive = <<>> /\ directory = FALSE
-----------------------------------------------------------------------------
\* Somebody writes to a file, truncates or deletes it, or puts it back.
FileChanges(f) ==
    /\ replacements < MaxChanges /\ state = "open"
    /\ replacements' = replacements + 1
    /\ \E n \in (Absent..MaxLength) \ {lengths[f]} : lengths' = [lengths EXCEPT ![f] = n]
    /\ UNCHANGED <<calling, state, entry, written, archive, directory>>

\* Bug: what an earlier call has written still counts.
CallUncleared ==
    /\ state = "open" /\ ~calling
    /\ calling' = TRUE
    /\ UNCHANGED <<lengths, replacements, state, entry, written, archive, directory>>

\* processRequest: writeSome starts with nothing written.
Call ==
    /\ state = "open" /\ ~calling
    /\ calling' = TRUE /\ written' = FALSE
    /\ UNCHANGED <<lengths, replacements, state, entry, archive, directory>>

InLoop == state = "open" /\ calling /\ ~written

\* onWriteCallback: libarchive writes to the response now, or later.
MayWrite == written' \in BOOLEAN

\* The loop has written something: the call returns, and Wt asks for the next.
Return ==
    /\ state = "open" /\ calling /\ written
    /\ calling' = FALSE
    /\ UNCHANGED <<lengths, replacements, state, entry, written, archive, directory>>

\* createArchiveEntry: the size the header of an entry announces.
HeaderSize(f) == lengths[f]

\* createArchiveEntry and archive_write_header.
BeginEntry ==
    /\ InLoop /\ header = Absent /\ currentEntry <= Len(Entries)
    /\ lengths[Entries[currentEntry]] # Absent
    /\ header' = HeaderSize(Entries[currentEntry])
    /\ entryOffset' = 0
    /\ MayWrite
    /\ UNCHANGED <<lengths, replacements, calling, state, currentEntry, archive, directory>>

\* writeSomeCurrentFileData: the file is there and not shorter than what was read.
Readable(f) == lengths[f] # Absent /\ lengths[f] >= entryOffset

\* Bug: an entry ends with its first buffer.
EntryEndsEarly(read, f) == TRUE

\* The last buffer of the file, as long as the file is now, ends its entry.
EntryEnds(read, f) == read >= lengths[f]

\* writeSomeCurrentFileData, and archive_write_finish_entry at the end of the file.
\* Data beyond the announced size is refused without an error, and offered again.
WriteData ==
    LET f    == Entries[currentEntry]
        read == IF entryOffset < lengths[f] THEN entryOffset + 1 ELSE lengths[f]
    IN  /\ InLoop /\ header # Absent /\ Readable(f)
        /\ IF read > header
           THEN state' = "spinning" /\ UNCHANGED <<entry, written, archive>>
           ELSE /\ MayWrite
                /\ UNCHANGED state
                /\ IF EntryEnds(read, f)
                   THEN /\ archive' = Append(archive,
                              [file |-> f, header |-> header, data |-> read])
                        /\ currentEntry' = currentEntry + 1
                        /\ header' = Absent /\ entryOffset' = 0
                   ELSE entryOffset' = read /\ UNCHANGED <<currentEntry, header, archive>>
        /\ UNCHANGED <<lengths, replacements, calling, directory>>

\* archive_write_close after the last entry; the last block is written.
Close ==
    /\ InLoop /\ header = Absent /\ currentEntry > Len(Entries)
    /\ state' = "closed" /\ directory' = TRUE /\ written' = TRUE /\ calling' = FALSE
    /\ UNCHANGED <<lengths, replacements, entry, archive>>

\* Bug: a file that failed is passed over.
FileSkipped ==
    /\ InLoop /\ currentEntry <= Len(Entries)
    /\ LET f == Entries[currentEntry]
       IN  IF header = Absent THEN lengths[f] = Absent ELSE ~Readable(f)
    /\ currentEntry' = currentEntry + 1 /\ header' = Absent /\ entryOffset' = 0
    /\ UNCHANGED <<lengths, replacements, calling, state, written, archive, directory>>

\* A file cannot be opened, is not regular, or got too short: the exception ends
\* the handler, and freeing the archive closes it into the response.  An entry that
\* has its header is finished with the data it has.
FileFails ==
    /\ InLoop /\ currentEntry <= Len(Entries)
    /\ LET f == Entries[currentEntry]
       IN  \/ header = Absent /\ lengths[f] = Absent /\ UNCHANGED archive
           \/ /\ header # Absent /\ ~Readable(f)
              /\ archive' = Append(archive,
                    [file |-> f, header |-> header, data |-> entryOffset])
    /\ state' = "failed" /\ directory' = TRUE /\ calling' = FALSE
    /\ UNCHANGED <<lengths, replacements, entry, written>>

\* handleAbort between two calls: archive_write_fail, nothing is written.
Abort ==
    /\ state = "open" /\ ~calling
    /\ state' = "aborted"
    /\ UNCHANGED <<lengths, replacements, calling, entry, written, archive, directory>>

Step == Call \/ Return \/ BeginEntry \/ WriteData \/ Close \/ FileFails

Next == (\E f \in Files : FileChanges(f)) \/ Step \/ Abort

Spec == Init /\ [][Next]_vars /\ WF_vars(Step)
-----------------------------------------------------------------------------
TypeOK ==
    /\ lengths \in [Files -> Absent..MaxLength] /\ replacements \in 0..MaxChanges
    /\ calling \in BOOLEAN /\ written \in BOOLEAN /\ directory \in BOOLEAN
    /\ state \in {"open", "closed", "failed", "aborted", "spinning"}
    /\ currentEntry \in 1..Len(Entries) + 1
    /\ header \in Absent..MaxLength /\ entryOffset \in 0..MaxLength
    /\ archive \in Seq([file : Files, header : 0..MaxLength, data : 0..MaxLength])
=============================================================================
