---------------------------- MODULE FileDownload ----------------------------
(***************************************************************************)
(* One response of FileResourceHandler: a file, or one range of it, is     *)
(* sent chunk by chunk.  Each call opens the file anew, so the file may    *)
(* have been truncated, extended or deleted since the last one.            *)
(*                                                                         *)
(* A byte is known by its position in the file.  The parsing of the Range  *)
(* header is Wt's (Request::getRanges) and modelled by its results.        *)
(***************************************************************************)
EXTENDS Integers, Sequences

CONSTANTS
    ChunkSize,    \* _chunkSize
    MaxLength,    \* bound: the length of a file
    MaxChanges    \* bound: how often the file changes during the response

Absent  == -1            \* the length of a file that does not exist
NoRange == <<>>          \* no Range header, or one that names several ranges

\* The byte ranges a request can ask for: open or with a last byte.
Requests == {NoRange} \cup {r \in (0..MaxLength) \X (0..MaxLength) : r[1] <= r[2]}

VARIABLES
    range,      \* the range requested
    length,     \* the length of the file now
    changes,    \* how often it has changed
    offset,     \* _offset
    beyond,     \* _beyondLastByte
    isFinished, \* _isFinished
    status,     \* the HTTP status; 0 before the first call
    announced,  \* the Content-Length header, or -1
    first,      \* the first byte of the response
    sent        \* the bytes sent

vars == <<range, length, changes, offset, beyond, isFinished, status, announced,
          first, sent>>
-----------------------------------------------------------------------------
Least(x, y) == IF x < y THEN x ELSE y

\* getRanges: the last byte is brought back into the file.
IsSatisfiable(r, size) == r = NoRange \/ r[1] < size
LastByte(r, size)      == Least(r[2], size - 1)

Init ==
    /\ range \in Requests
    /\ length \in Absent..MaxLength /\ changes = 0
    /\ offset = 0 /\ beyond = 0 /\ isFinished = FALSE
    /\ status = 0 /\ announced = -1 /\ first = 0 /\ sent = <<>>

FileChanges ==
    /\ changes < MaxChanges
    /\ changes' = changes + 1
    /\ length' \in (Absent..MaxLength) \ {length}
    /\ UNCHANGED <<range, offset, beyond, isFinished, status, announced, first, sent>>

\* Give up: nothing more is sent.
Finish == isFinished' = TRUE /\ UNCHANGED <<offset, sent>>

\* The size of the next piece.
Piece(start, end) == Least(ChunkSize, end - start)

\* Bug: the last byte of a piece is not counted in.
ProceedShort(next, end) ==
    IF next < end THEN offset' = next - 1 /\ UNCHANGED isFinished
                  ELSE isFinished' = TRUE /\ UNCHANGED offset

\* Ask for a continuation, or be complete.
Proceed(next, end) ==
    IF next < end THEN offset' = next /\ UNCHANGED isFinished
                  ELSE isFinished' = TRUE /\ UNCHANGED offset

\* Seek to "start" and read a piece; a short read fails the stream, and what it
\* read is not sent.
SendPiece(start, end) ==
    LET next == start + Piece(start, end)
    IN  IF next > length
        THEN Finish
        ELSE sent' = sent \o [i \in 1..next - start |-> start + i - 1] /\ Proceed(next, end)

\* A call while _offset is 0: the headers are set from the file as it is.
FirstCall ==
    /\ ~isFinished /\ offset = 0
    /\ IF length = Absent
       THEN status' = 404 /\ Finish /\ UNCHANGED <<beyond, announced, first>>
       ELSE IF ~IsSatisfiable(range, length)
       THEN status' = 416 /\ Finish /\ UNCHANGED <<beyond, announced, first>>
       ELSE /\ status' = IF range = NoRange THEN 200 ELSE 206
            /\ first' = IF range = NoRange THEN 0 ELSE range[1]
            /\ beyond' = IF range = NoRange THEN length ELSE LastByte(range, length) + 1
            /\ announced' = beyond' - first'
            /\ SendPiece(first', beyond')
    /\ UNCHANGED <<range, length, changes>>

\* The continuation of a response.
NextCall ==
    /\ ~isFinished /\ offset # 0
    /\ IF length = Absent THEN Finish ELSE SendPiece(offset, beyond)
    /\ UNCHANGED <<range, length, changes, beyond, status, announced, first>>

ProcessRequest == FirstCall \/ NextCall

Next == FileChanges \/ ProcessRequest

\* Wt asks for the continuation as long as the handler is not complete.
Spec == Init /\ [][Next]_vars /\ WF_vars(ProcessRequest)
-----------------------------------------------------------------------------
TypeOK ==
    /\ range \in Requests /\ length \in Absent..MaxLength /\ changes \in 0..MaxChanges
    /\ offset \in 0..MaxLength /\ beyond \in 0..MaxLength
    /\ isFinished \in BOOLEAN /\ status \in {0, 200, 206, 404, 416}
    /\ announced \in -1..MaxLength /\ first \in 0..MaxLength
    /\ sent \in Seq(0..MaxLength)
=============================================================================
