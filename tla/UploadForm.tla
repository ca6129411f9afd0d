----------------------------- MODULE UploadForm -----------------------------
(***************************************************************************)
(* The share creation form of one session: ShareCreateFormView, the drop   *)
(* widget of Wt it listens to (modelled from this use) and ShareCreate,    *)
(* which creates the share when the form is complete.                      *)
(*                                                                         *)
(* The browser uploads the dropped files one after the other while the     *)
(* user drops, deletes and fills in; the form decides from two running     *)
(* totals and a flag when everything is there.  Deleting a file that is    *)
(* not in yet asks the browser to cancel its upload; until that arrives    *)
(* the upload goes on, and its signals reach handlers that do not ask      *)
(* whether the file is deleted.                                            *)
(***************************************************************************)
EXTENDS Integers, Sequences, SequencesExt

CONSTANTS
    Files,          \* the files the user may drop
    Name,           \* Name[f]: the client file name
    Size,           \* Size[f]: its size
    MaxShareSize,   \* max-share-size
    CanFail         \* the files whose upload may fail (connection, request size)

ASSUME FormAssumption ==
    /\ Size \in [Files -> Nat]
    /\ MaxShareSize \in Nat \ {0}
    /\ CanFail \subseteq Files

VARIABLES
    uploads,         \* WFileDropWidget::uploads()
    finished,        \* the files with uploadFinished()
    failed,          \* the files whose upload ended without success
    deletedFiles,    \* _deletedFiles
    cancelled,       \* those of them that the browser knows to be cancelled
    totalSize,       \* _totalSize
    totalReceived,   \* _totalReceivedSize
    currentReceived, \* _currentReceivedSize
    enabled,         \* _createBtn is enabled
    validated,       \* _validated
    page,            \* "form", "progress", "created", or "error": session ended
    emitted          \* the files handed to createShare

vars == <<uploads, finished, failed, deletedFiles, cancelled, totalSize, totalReceived,
          currentReceived, enabled, validated, page, emitted>>

widget == <<uploads, finished, failed>>
-----------------------------------------------------------------------------
\* visitUploadedFiles: what is in the widget and not deleted.
Live(u, d)  == ToSet(u) \ d
LiveFiles   == Live(uploads, deletedFiles)

Total(F) == MapThenSumSet(LAMBDA f : Size[f], F)

HasDuplicateNames(F) == \E f, g \in F : f # g /\ Name[f] = Name[g]

IsShareSizeOverflow(F) == Total(F) > MaxShareSize

\* checkFiles: whether the button is to be enabled for the live files F.
FilesPass(F) == F # {} /\ ~IsShareSizeOverflow(F) /\ ~HasDuplicateNames(F)

IsUploadComplete(F) == F \subseteq finished

\* getProgress
Progress == IF totalSize = 0 THEN 0
            ELSE ((totalReceived + currentReceived) * 100) \div totalSize

\* The uploads the browser is through with.
Over == finished \cup failed \cup cancelled

\* It uploads in order: also a deleted file, until it learns of that.
IsCurrent(f) ==
    \E i \in DOMAIN uploads :
        /\ uploads[i] = f /\ f \notin Over
        /\ \A j \in 1..i - 1 : uploads[j] \in Over

Init ==
    /\ uploads = <<>> /\ finished = {} /\ failed = {} /\ deletedFiles = {}
    /\ cancelled = {}
    /\ totalSize = 0 /\ totalReceived = 0 /\ currentReceived = 0
    /\ enabled = FALSE /\ validated = FALSE
    /\ page = "form" /\ emitted = {}
-----------------------------------------------------------------------------
\* Bug: nothing looks at the files again.
DropUnchecked(new) ==
    /\ page = "form"
    /\ uploads' = uploads \o new
    /\ totalSize' = totalSize + Total(ToSet(new))
    /\ enabled' = TRUE
    /\ UNCHANGED <<finished, failed, deletedFiles, cancelled, totalReceived,
                   currentReceived, validated, page, emitted>>

\* The user drops files: addFile for each of them, then checkFiles.
Drop(new) ==
    /\ page = "form"
    /\ uploads' = uploads \o new
    /\ totalSize' = totalSize + Total(ToSet(new))
    /\ enabled' = FilesPass(Live(uploads', deletedFiles))
    /\ UNCHANGED <<finished, failed, deletedFiles, cancelled, totalReceived,
                   currentReceived, validated, page, emitted>>

\* Bug: a file deleted while it is uploaded is taken off what was received.
DeleteFileTwice(f) ==
    /\ page = "form" /\ f \in LiveFiles
    /\ totalSize' = totalSize - Size[f]
    /\ totalReceived' = totalReceived - Size[f]
    /\ IF f \in finished
       THEN uploads' = RemoveFirst(uploads, f) /\ UNCHANGED deletedFiles
       ELSE deletedFiles' = deletedFiles \cup {f} /\ UNCHANGED uploads
    /\ enabled' = FilesPass(Live(uploads', deletedFiles'))
    /\ UNCHANGED <<finished, failed, cancelled, currentReceived, validated, page, emitted>>

\* The user deletes a file.  The widget only removes files it is done with; for the
\* others a cancellation is sent, and they are remembered as deleted.
DeleteFile(f) ==
    /\ page = "form" /\ f \in LiveFiles
    /\ totalSize' = totalSize - Size[f]
    /\ IF f \in finished
       THEN /\ totalReceived' = totalReceived - Size[f]
            /\ uploads' = RemoveFirst(uploads, f)
            /\ UNCHANGED deletedFiles
       ELSE /\ deletedFiles' = deletedFiles \cup {f}
            /\ UNCHANGED <<uploads, totalReceived>>
    /\ enabled' = FilesPass(Live(uploads', deletedFiles'))
    /\ UNCHANGED <<finished, failed, cancelled, currentReceived, validated, page, emitted>>

\* The browser learns that the upload of a deleted file is cancelled.
CancelArrives(f) ==
    /\ f \in deletedFiles \ Over
    /\ cancelled' = cancelled \cup {f}
    /\ UNCHANGED <<widget, deletedFiles, totalSize, totalReceived, currentReceived, enabled,
                   validated, page, emitted>>

\* Part of the current file has arrived, deleted or not.
DataReceived(f) ==
    /\ page \in {"form", "progress"} /\ IsCurrent(f)
    /\ currentReceived' \in 1..Size[f]
    /\ UNCHANGED <<widget, deletedFiles, cancelled, totalSize, totalReceived, enabled,
                   validated, page, emitted>>

\* emitDone and createShare: each live file is asked for its spool file, which
\* throws for one that has not been uploaded; the store refuses a share whose
\* size reaches the limit.  An exception ends the session.
EmitDone(F, done) ==
    IF F \subseteq done
    THEN /\ emitted' = F
         /\ page' = IF Total(F) >= MaxShareSize THEN "error" ELSE "created"
    ELSE page' = "error" /\ UNCHANGED emitted

\* Bug: an upload that ends after the form was validated goes unnoticed.
UploadedUnnoticed(f) ==
    /\ page \in {"form", "progress"} /\ IsCurrent(f)
    /\ finished' = finished \cup {f}
    /\ currentReceived' = 0
    /\ totalReceived' = totalReceived + Size[f]
    /\ UNCHANGED <<uploads, failed, deletedFiles, cancelled, totalSize, enabled, validated,
                   page, emitted>>

\* Bug: the bytes of the file that is in count twice until the next ones arrive.
UploadedKept(f) ==
    /\ page \in {"form", "progress"} /\ IsCurrent(f)
    /\ finished' = finished \cup {f}
    /\ totalReceived' = totalReceived + Size[f]
    /\ IF validated /\ totalReceived' = totalSize
       THEN EmitDone(LiveFiles, finished')
       ELSE UNCHANGED <<page, emitted>>
    /\ UNCHANGED <<uploads, failed, deletedFiles, cancelled, totalSize, currentReceived,
                   enabled, validated>>

\* onFileUploaded, also for a file deleted meanwhile: the form is complete when the
\* totals agree.
Uploaded(f) ==
    /\ page \in {"form", "progress"} /\ IsCurrent(f)
    /\ finished' = finished \cup {f}
    /\ currentReceived' = 0
    /\ totalReceived' = totalReceived + Size[f]
    /\ IF validated /\ totalReceived' = totalSize
       THEN EmitDone(LiveFiles, finished')
       ELSE UNCHANGED <<page, emitted>>
    /\ UNCHANGED <<uploads, failed, deletedFiles, cancelled, totalSize, enabled, validated>>

\* The upload fails, or its request is too large: nobody listens but checkFiles.
UploadFails(f) ==
    /\ page \in {"form", "progress"} /\ IsCurrent(f) /\ f \in CanFail
    /\ failed' = failed \cup {f}
    /\ enabled' = FilesPass(LiveFiles)
    /\ UNCHANGED <<uploads, finished, deletedFiles, cancelled, totalSize, totalReceived,
                   currentReceived, validated, page, emitted>>

\* Bug: the button does not ask whether the uploads are over.
ClickCreateAtOnce(valid) ==
    /\ page = "form" /\ enabled
    /\ validated' = valid
    /\ IF valid
       THEN /\ enabled' = FALSE
            /\ page' = "created" /\ emitted' = LiveFiles
       ELSE UNCHANGED <<enabled, page, emitted>>
    /\ UNCHANGED <<widget, deletedFiles, cancelled, totalSize, totalReceived,
                   currentReceived>>

\* The create button; "valid" is the verdict of the model on the other fields.
ClickCreate(valid) ==
    /\ page = "form" /\ enabled
    /\ validated' = valid
    /\ IF valid
       THEN /\ enabled' = FALSE
            /\ IF IsUploadComplete(LiveFiles)
               THEN EmitDone(LiveFiles, finished)
               ELSE page' = "progress" /\ UNCHANGED emitted
       ELSE UNCHANGED <<enabled, page, emitted>>
    /\ UNCHANGED <<widget, deletedFiles, cancelled, totalSize, totalReceived,
                   currentReceived>>

\* The sequences in which the browser may hand over several new files at once.
Batches == {s \in SeqOf(Files \ (ToSet(uploads) \cup finished \cup deletedFiles), 2) :
               s # <<>> /\ IsInjective(s)}

Next == \/ \E new \in Batches : Drop(new)
        \/ \E f \in Files : \/ DeleteFile(f) \/ CancelArrives(f)
                           \/ DataReceived(f) \/ Uploaded(f) \/ UploadFails(f)
        \/ \E valid \in BOOLEAN : ClickCreate(valid)

\* The browser keeps uploading; nobody has to drop, delete or click.
Fairness == WF_vars(\E f \in Files : Uploaded(f))

Spec == Init /\ [][Next]_vars /\ Fairness
-----------------------------------------------------------------------------
TypeOK ==
    /\ uploads \in Seq(Files)
    /\ finished \subseteq Files /\ failed \subseteq CanFail /\ deletedFiles \subseteq Files
    /\ cancelled \subseteq deletedFiles
    /\ totalSize \in Nat /\ totalReceived \in Nat /\ currentReceived \in Nat
    /\ enabled \in BOOLEAN /\ validated \in BOOLEAN
    /\ page \in {"form", "progress", "created", "error"}
    /\ emitted \subseteq Files

\* The files whose upload ended although they had been deleted.
Late == deletedFiles \cap finished

\* The running totals are those of the files that will be shared, in whatever order
\* files were dropped, received, deleted while uploading or after; except that a file
\* deleted too late to stop its upload counts as received, and is never taken off.
TotalsAgree ==
    /\ totalSize = Total(LiveFiles)
    /\ totalReceived = Total(LiveFiles \cap finished) + Total(Late)

\* What is handed to the store is what the checks of the form passed: at least
\* one file, distinct names, and no more than the announced limit.
EmittedFilesPass == page = "created" => FilesPass(emitted)

\* "Upload complete!": a form that is validated goes on with all of its files.  Since
\* the end of an upload compares totals and not files, files can be missing whose
\* sizes are made up for by late uploads of deleted files, so without such an upload
\* only empty ones; then an exception ends the session and no share is created.
CompleteWhenEmitted ==
    /\ page = "created" => IsUploadComplete(LiveFiles)
    /\ page = "error" => \/ IsUploadComplete(LiveFiles)
                         \/ Total(LiveFiles \ finished) = Total(Late)

\* A validated form comes to an end unless an upload fails or a deleted file that is
\* not empty has come in late: either the click or the end of the last upload notices.
ValidatedCompletes ==
    page = "progress" ~> \/ page \in {"created", "error"}
                         \/ failed \cap LiveFiles # {} \/ Total(Late) > 0

\* "The total size of the files must not exceed {1}": a share the form accepts,
\* with all of its files uploaded, is not refused by the store for its size.
StoreAccepts == page = "error" => ~IsUploadComplete(LiveFiles)

\* aria-valuemax = 100: the progress bar shows a percentage, no byte is counted as
\* received twice.  The bytes of an upload that was deleted under way or failed do
\* count until the next ones arrive, so these cases are left out.
ProgressBounded == deletedFiles = {} /\ failed = {} => Progress <= 100
=============================================================================
