--------------------------- MODULE ResponsesProofs ---------------------------
(* Theorems about Responses, for any chunk size, files, lengths and changes. *)
EXTENDS Responses, SequenceTheorems, TLAPS

-----------------------------------------------------------------------------
(* Prefixes.                                                               *)

\* n positions from a on: what a response has sent, or announces.
Run(a, n) == [i \in 1..n |-> a + i - 1]

LEMMA RunIsSeq ==
    ASSUME NEW a \in Nat, NEW n \in Nat
    PROVE  Run(a, n) \in Seq(Nat) /\ Len(Run(a, n)) = n
<1>1. \A i \in 1..n : a + i - 1 \in Nat
  OBVIOUS
<1>2. Run(a, n) \in [1..n -> Nat]
  BY <1>1 DEF Run
<1> QED BY <1>2

\* A piece that begins where the others end makes one longer run.
LEMMA RunGrows ==
    ASSUME NEW a \in Nat, NEW n \in Nat, NEW k \in Nat
    PROVE  Run(a, n) \o Run(a + n, k) = Run(a, n + k)
<1> DEFINE s == Run(a, n)
           t == Run(a + n, k)
           u == Run(a, n + k)
<1>1. /\ s \in Seq(Nat) /\ Len(s) = n /\ t \in Seq(Nat) /\ Len(t) = k
      /\ u \in Seq(Nat) /\ Len(u) = n + k
  <2>1. a + n \in Nat /\ n + k \in Nat
    OBVIOUS
  <2> QED BY <2>1, RunIsSeq
<1>2. /\ \A i \in 1..n : s[i] = a + i - 1
      /\ \A i \in 1..k : t[i] = a + n + i - 1
      /\ \A i \in 1..n + k : u[i] = a + i - 1
  BY DEF Run
<1> HIDE DEF s, t, u
<1>3. s \o t \in Seq(Nat) /\ Len(s \o t) = n + k
  BY <1>1, ConcatProperties
<1>4. ASSUME NEW i \in 1..n + k PROVE (s \o t)[i] = u[i]
  <2>1. (s \o t)[i] = IF i <= n THEN s[i] ELSE t[i - n]
    BY <1>1, ConcatProperties
  <2>2. ~(i <= n) => i - n \in 1..k
    OBVIOUS
  <2> QED BY <1>2, <2>1, <2>2
<1> QED BY <1>1, <1>3, <1>4, SeqEqual DEF s, t, u

\* A sequence that another one goes on from is a prefix of it.
LEMMA PrefixBy ==
    ASSUME NEW S, NEW s \in Seq(S), NEW t \in Seq(S), Len(s) <= Len(t),
           \A i \in 1..Len(s) : s[i] = t[i]
    PROVE  Promise!IsPrefix(s, t)
<1> DEFINE u == SubSeq(t, 1, Len(s))
           v == SubSeq(s, 1, Len(s))
<1>1. Len(s) \in Nat /\ Len(t) \in Nat
  OBVIOUS
<1>2. u \in Seq(S) /\ Len(u) = Len(s) /\ \A i \in 1..Len(s) : u[i] = t[i]
  <2>1. \A i \in 1..Len(s) : t[i] \in S
    BY <1>1
  <2> QED BY <1>1, <2>1, SubSeqProperties
<1>3. v \in Seq(S) /\ Len(v) = Len(s) /\ \A i \in 1..Len(s) : v[i] = s[i]
  <2>1. \A i \in 1..Len(s) : s[i] \in S
    BY <1>1
  <2> QED BY <1>1, <2>1, SubSeqProperties
<1> HIDE DEF u, v
<1>4. u = v
  BY <1>1, <1>2, <1>3, SeqEqual
<1> QED BY <1>4 DEF Promise!IsPrefix, u, v

LEMMA RunPrefix ==
    ASSUME NEW a \in Nat, NEW n \in Nat, NEW m \in Nat, n <= m
    PROVE  Promise!IsPrefix(Run(a, n), Run(a, m))
<1> DEFINE s == Run(a, n)
           t == Run(a, m)
<1>1. s \in Seq(Nat) /\ Len(s) = n /\ t \in Seq(Nat) /\ Len(t) = m
  BY RunIsSeq
<1>2. \A i \in 1..n : s[i] = t[i]
  BY DEF Run
<1> HIDE DEF s, t
<1>3. Promise!IsPrefix(s, t)
  BY <1>1, <1>2, PrefixBy
<1> QED BY <1>3 DEF s, t

-----------------------------------------------------------------------------
(* The invariant.                                                          *)

\* What a file response has sent is a run of bytes from the first one on; one that
\* goes on does so where the last piece ended, and one that ended short was changed.
Progressing ==
    /\ sent = Run(first, Len(sent))
    /\ status = 0 => sent = <<>> /\ ~isFinished /\ offset = 0 /\ announced = -1
    /\ status \in {404, 416} => isFinished /\ sent = <<>>
    /\ status \in {200, 206} =>
          /\ announced = beyond - first /\ Len(sent) <= announced
          /\ ~isFinished => offset = first + Len(sent) /\ offset # 0 /\ offset < beyond
          /\ isFinished => Len(sent) = announced \/ changes > 0

\* What a file response announces fits the file as it was at the first call.
Fitting ==
    changes = 0 /\ status \in {200, 206} =>
        /\ length # File!Absent
        /\ first = IF range = File!NoRange THEN 0 ELSE range[1]
        /\ beyond = IF range = File!NoRange THEN length ELSE File!LastByte(range, length) + 1

\* An exception in the middle of an entry has ended the response.
Interrupted == state = "failed" /\ header # Zip!Absent

\* An archive holds the first files of the share; the loop is at the next one, or at
\* the last one of the archive if that is finished by an exception.
Packed ==
    /\ Len(archive) = IF Interrupted THEN currentEntry ELSE currentEntry - 1
    /\ \A i \in 1..Len(archive) : archive[i].file = Entries[i]
    /\ header # Zip!Absent => currentEntry <= Len(Entries)
    /\ state = "closed" => currentEntry = Len(Entries) + 1
    /\ state \in {"failed", "spinning"} => replacements > 0

\* As long as no file changes, headers and data are those of the files.
Undisturbed ==
    replacements = 0 =>
        /\ \A f \in Zip!Files : lengths[f] # Zip!Absent
        /\ header # Zip!Absent => header = lengths[Entries[currentEntry]] /\ entryOffset <= header
        /\ \A i \in 1..Len(archive) :
              archive[i].header = lengths[archive[i].file] /\ archive[i].data = archive[i].header

RInv == TypeOK /\ Progressing /\ Fitting /\ Packed /\ Undisturbed

-----------------------------------------------------------------------------
(* The handler of a file.                                                  *)

\* A range that names two bytes names them in order.
LEMMA RangeInOrder ==
    ASSUME NEW r \in File!Requests, r # File!NoRange
    PROVE  r[1] \in 0..MaxLength /\ r[2] \in 0..MaxLength /\ r[1] <= r[2]
  BY DEF File!Requests

\* One piece: it goes on from what was sent, ends in the response's bounds, and the
\* response goes on after a piece only if there is more to come.  It is given up only
\* if the file has become too short.
LEMMA PieceGoesOn ==
    ASSUME NEW a \in Nat, NEW n \in Nat, NEW start \in Nat, start = a + n,
           NEW end \in Nat, start <= end, sent = Run(a, n), length \in Int,
           ~isFinished, isFinished \in BOOLEAN, File!SendPiece(start, end)
    PROVE  \E m \in Nat :
              /\ sent' = Run(a, m) /\ n <= m /\ a + m <= end
              /\ \/ isFinished' = TRUE /\ offset' = offset /\ (a + m = end \/ length < end)
                 \/ isFinished' = FALSE /\ offset' = a + m /\ n < m /\ a + m < end
<1> DEFINE k == File!Piece(start, end)
<1>1. k \in Nat /\ start + k <= end /\ (start < end => k > 0)
  BY ResponseAssumption DEF File!Piece, File!Least
<1>2. CASE start + k > length
  <2>1. sent' = sent /\ isFinished' = TRUE /\ offset' = offset
    BY <1>2 DEF File!SendPiece, File!Finish
  <2>2. length < end
    <3> HIDE DEF k
    <3> QED BY <1>1, <1>2
  <2> QED BY <2>1, <2>2
<1>3. CASE ~(start + k > length)
  <2>1. sent' = sent \o [i \in 1..(start + k) - start |-> start + i - 1]
        /\ File!Proceed(start + k, end)
    BY <1>3 DEF File!SendPiece
  <2>2. sent' = Run(a, n) \o Run(a + n, k)
    <3>1. (start + k) - start = k
      BY <1>1
    <3> HIDE DEF k
    <3> QED BY <2>1, <3>1 DEF Run
  <2>3. sent' = Run(a, n + k) /\ n + k \in Nat /\ a + (n + k) = start + k /\ n <= n + k
    <3> HIDE DEF k
    <3>1. sent' = Run(a, n + k)
      BY <1>1, <2>2, RunGrows
    <3>2. n + k \in Nat /\ a + (n + k) = start + k /\ n <= n + k
      BY <1>1
    <3> QED BY <3>1, <3>2
  <2> HIDE DEF k
  <2>4. CASE start + k < end
    <3>1. isFinished' = FALSE /\ offset' = start + k
      BY <2>1, <2>4 DEF File!Proceed
    <3>2. n < n + k /\ a + (n + k) < end /\ a + (n + k) <= end
      BY <1>1, <2>3, <2>4
    <3> QED BY <2>3, <3>1, <3>2
  <2>5. CASE ~(start + k < end)
    <3>1. isFinished' = TRUE /\ offset' = offset
      BY <2>1, <2>5 DEF File!Proceed
    <3>2. a + (n + k) = end /\ a + (n + k) <= end
      BY <1>1, <2>3, <2>5
    <3> QED BY <2>3, <3>1, <3>2
  <2> QED BY <2>4, <2>5
<1> QED BY <1>2, <1>3

\* What a piece does to a response from byte a to "end", by its lengths before and
\* after.
PieceOf(a, end, n, m) ==
    /\ first' = a /\ beyond' = end /\ announced' = end - a
    /\ sent = Run(a, n) /\ sent' = Run(a, m)
    /\ n <= m /\ a + m <= end
    /\ \/ isFinished' = TRUE /\ offset' = offset /\ (a + m = end \/ changes > 0)
       \/ isFinished' = FALSE /\ offset' = a + m /\ n < m /\ a + m < end

\* What one call of the handler does to a response.
FileTurn ==
    \/ /\ status = 0 /\ status' \in {404, 416} /\ isFinished' = TRUE
       /\ UNCHANGED <<beyond, announced, first, offset, sent>>
    \/ /\ \/ status = 0 /\ status' \in {200, 206}
          \/ status \in {200, 206} /\ UNCHANGED <<status, beyond, announced, first>>
       /\ \E a, end \in 0..MaxLength, n, m \in Nat : PieceOf(a, end, n, m)

\* The first call announces what lies in the file.
LEMMA FirstCallTurns ==
    ASSUME RInv, File!FirstCall PROVE FileTurn /\ Fitting'
<1> USE DEF RInv, TypeOK, File!TypeOK
<1>0. /\ status = 0 /\ sent = <<>> /\ ~isFinished /\ offset = 0
      /\ length \in File!Absent..MaxLength /\ length \in Int /\ MaxLength \in Nat
      /\ UNCHANGED <<range, length, changes>>
  BY ResponseAssumption DEF File!FirstCall, Progressing
<1>1. CASE length = File!Absent \/ ~File!IsSatisfiable(range, length)
  <2>1. status' \in {404, 416} /\ isFinished' = TRUE /\ UNCHANGED <<beyond, announced, first, offset, sent>>
    BY <1>1 DEF File!FirstCall, File!Finish
  <2> QED BY <1>0, <2>1 DEF FileTurn, Fitting
<1>2. CASE length # File!Absent /\ File!IsSatisfiable(range, length)
  <2> DEFINE a   == IF range = File!NoRange THEN 0 ELSE range[1]
             end == IF range = File!NoRange THEN length ELSE File!LastByte(range, length) + 1
  <2>1. /\ status' \in {200, 206}
        /\ first' = a /\ beyond' = end /\ announced' = end - a
        /\ File!SendPiece(a, end)
    <3>1. /\ status' \in {200, 206}
          /\ first' = a /\ beyond' = end /\ announced' = beyond' - first'
          /\ File!SendPiece(first', beyond')
      BY <1>2 DEF File!FirstCall
    <3> HIDE DEF a, end
    <3> QED BY <3>1 DEF File!SendPiece, File!Proceed
  <2>2. sent = Run(a, 0)
    BY <1>0 DEF Run
  <2> HIDE DEF a, end
  <2>3. a \in 0..MaxLength /\ end \in 0..MaxLength /\ a <= end /\ end <= length
    <3> USE DEF a, end
    <3>1. length \in 0..MaxLength
      BY <1>0, <1>2 DEF File!Absent
    <3>2. CASE range = File!NoRange
      BY <1>0, <3>1, <3>2
    <3>3. CASE range # File!NoRange
      <4>1. range[1] \in 0..MaxLength /\ range[2] \in 0..MaxLength /\ range[1] <= range[2]
        BY <3>3, RangeInOrder
      <4>2. range[1] < length
        BY <1>2, <3>3 DEF File!IsSatisfiable
      <4> QED BY <1>0, <3>1, <3>3, <4>1, <4>2 DEF File!LastByte, File!Least
    <3> QED BY <3>2, <3>3
  <2>4. a \in Nat /\ end \in Nat /\ a = a + 0 /\ isFinished \in BOOLEAN
    BY <1>0, <2>3
  <2>5. PICK m \in Nat :
              /\ sent' = Run(a, m) /\ 0 <= m /\ a + m <= end
              /\ \/ isFinished' = TRUE /\ offset' = offset /\ (a + m = end \/ length < end)
                 \/ isFinished' = FALSE /\ offset' = a + m /\ 0 < m /\ a + m < end
    <3> HIDE DEF RInv, TypeOK, File!TypeOK
    <3> QED BY <1>0, <2>1, <2>2, <2>3, <2>4, PieceGoesOn
  <2>6. ~(length < end)
    BY <1>0, <2>3, <2>4
  <2>7. PieceOf(a, end, 0, m)
    BY <2>1, <2>2, <2>3, <2>5, <2>6 DEF PieceOf
  <2>8. FileTurn
    BY <1>0, <2>1, <2>3, <2>7 DEF FileTurn
  <2> QED BY <1>0, <1>2, <2>1, <2>8 DEF Fitting, a, end
<1> QED BY <1>1, <1>2

\* A continuation stops short only if the file has changed since the first call.
LEMMA NextCallTurns ==
    ASSUME RInv, File!NextCall PROVE FileTurn /\ Fitting'
<1> USE DEF RInv, TypeOK, File!TypeOK
<1> DEFINE n == Len(sent)
<1>0. /\ ~isFinished /\ isFinished \in BOOLEAN /\ offset # 0 /\ MaxLength \in Nat /\ length \in Int
      /\ UNCHANGED <<range, length, changes, beyond, status, announced, first>>
  BY ResponseAssumption DEF File!NextCall, File!Absent
<1>1. /\ status \in {200, 206} /\ n \in Nat /\ first \in 0..MaxLength /\ beyond \in 0..MaxLength
      /\ sent = Run(first, n) /\ announced = beyond - first
      /\ offset = first + n /\ offset < beyond
  <2>1. n \in Nat
    BY LenProperties
  <2>2. status \in {200, 206}
    BY <1>0 DEF Progressing
  <2> QED BY <1>0, <2>1, <2>2 DEF Progressing
<1>2. Fitting'
  BY <1>0 DEF Fitting
<1>3. ASSUME changes = 0 PROVE length # File!Absent /\ beyond <= length
  <2>1. /\ length # File!Absent
        /\ beyond = IF range = File!NoRange THEN length ELSE File!LastByte(range, length) + 1
    BY <1>1, <1>3 DEF Fitting
  <2>2. CASE range = File!NoRange
    BY <1>0, <2>1, <2>2
  <2>3. CASE range # File!NoRange
    BY <1>0, <2>1, <2>3, RangeInOrder DEF File!LastByte, File!Least
  <2> QED BY <2>1, <2>2, <2>3
<1>4. changes = 0 \/ changes > 0
  BY ResponseAssumption
<1> HIDE DEF n, RInv, TypeOK, File!TypeOK
<1>5. \E m \in Nat : PieceOf(first, beyond, n, m)
  <2>1. CASE length = File!Absent
    <3>1. isFinished' = TRUE /\ offset' = offset /\ sent' = sent
      BY <2>1 DEF File!NextCall, File!Finish
    <3>2. PieceOf(first, beyond, n, n)
      <4>1. n <= n /\ first + n <= beyond
        BY <1>0, <1>1
      <4> QED BY <1>0, <1>1, <1>3, <1>4, <2>1, <3>1, <4>1 DEF PieceOf
    <3> QED BY <1>1, <3>2
  <2>2. CASE length # File!Absent
    <3>1. File!SendPiece(offset, beyond)
      BY <2>2 DEF File!NextCall
    <3>2. first \in Nat /\ offset \in Nat /\ beyond \in Nat /\ offset <= beyond
      BY <1>0, <1>1
    <3>3. PICK m \in Nat :
              /\ sent' = Run(first, m) /\ n <= m /\ first + m <= beyond
              /\ \/ isFinished' = TRUE /\ offset' = offset /\ (first + m = beyond \/ length < beyond)
                 \/ isFinished' = FALSE /\ offset' = first + m /\ n < m /\ first + m < beyond
      BY <1>0, <1>1, <3>1, <3>2, PieceGoesOn
    <3>4. length < beyond => changes > 0
      BY <1>0, <1>3, <1>4, <3>2
    <3>5. PieceOf(first, beyond, n, m)
      BY <1>0, <1>1, <3>3, <3>4 DEF PieceOf
    <3> QED BY <3>5
  <2> QED BY <2>1, <2>2
<1> QED BY <1>0, <1>1, <1>2, <1>5 DEF FileTurn

\* The bytes of a run that ends in the file.
LEMMA RunInside ==
    ASSUME NEW a \in Nat, NEW n \in Nat, NEW end \in 0..MaxLength, a + n <= end
    PROVE  Run(a, n) \in Seq(0..MaxLength)
<1>1. MaxLength \in Nat
  BY ResponseAssumption
<1>2. \A i \in 1..n : a + i - 1 \in 0..MaxLength
  BY <1>1
<1> DEFINE S == 0..MaxLength
<1>3. Run(a, n) \in [1..n -> S]
  BY <1>2 DEF Run
<1> HIDE DEF S
<1>4. Run(a, n) \in Seq(S)
  BY <1>3
<1> QED BY <1>4 DEF S

\* A piece leaves the response in order, from one that was.
LEMMA PieceKeeps ==
    ASSUME RInv, NEW a \in 0..MaxLength, NEW end \in 0..MaxLength, NEW n \in Nat, NEW m \in Nat,
           PieceOf(a, end, n, m), status' \in {200, 206},
           UNCHANGED <<handler, aborted, zipVars, range, length, changes>>, Fitting'
    PROVE  RInv'
<1> USE DEF RInv
<1>1. MaxLength \in Nat /\ a \in Nat /\ end \in Nat /\ a + m <= end /\ n <= m
  BY ResponseAssumption DEF PieceOf
<1>2. sent' = Run(a, m) /\ Len(sent') = m /\ sent' \in Seq(0..MaxLength)
  <2>1. sent' = Run(a, m)
    BY DEF PieceOf
  <2>2. Len(Run(a, m)) = m
    BY <1>1, RunIsSeq
  <2>3. Run(a, m) \in Seq(0..MaxLength)
    BY <1>1, RunInside
  <2> QED BY <2>1, <2>2, <2>3
<1>3. end - a \in 0..MaxLength /\ end - a \in -1..MaxLength /\ m <= end - a
      /\ (a + m = end => m = end - a)
  BY <1>1
<1>4. /\ first' = a /\ beyond' = end /\ announced' = end - a /\ announced' \in -1..MaxLength
  BY <1>3 DEF PieceOf
<1>5. offset' \in 0..MaxLength /\ isFinished' \in BOOLEAN
  <2>1. offset \in 0..MaxLength
    BY DEF TypeOK, File!TypeOK
  <2>2. a + m < end => a + m \in 0..MaxLength
    BY <1>1
  <2> QED BY <2>1, <2>2 DEF PieceOf
<1>6. TypeOK'
  <2>1. File!TypeOK'
    BY <1>2, <1>4, <1>5 DEF TypeOK, File!TypeOK
  <2>2. Zip!TypeOK'
    BY DEF TypeOK, Zip!TypeOK, zipVars
  <2> QED BY <2>1, <2>2 DEF TypeOK
<1>7. Progressing'
  <2> DEFINE k == end - a
  <2>1. m <= k /\ (a + m = end => m = k)
    BY <1>3
  <2>2. a + m < end /\ n < m => a + m # 0
    BY <1>1
  <2> HIDE DEF k
  <2>3. announced' = k
    BY <1>4 DEF k
  <2>4. status' \in {200, 206} =>
          /\ announced' = beyond' - first' /\ Len(sent') <= announced'
          /\ ~isFinished' => offset' = first' + Len(sent') /\ offset' # 0 /\ offset' < beyond'
          /\ isFinished' => Len(sent') = announced' \/ changes' > 0
    <3>1. announced' = beyond' - first'
      BY <1>4
    <3>2. Len(sent') <= announced'
      BY <1>2, <2>1, <2>3
    <3>3. \/ isFinished' = TRUE /\ (Len(sent') = announced' \/ changes' > 0)
          \/ isFinished' = FALSE /\ offset' = a + m /\ offset' # 0 /\ offset' < end
      BY <1>2, <2>1, <2>2, <2>3 DEF PieceOf
    <3> QED BY <1>2, <1>4, <3>1, <3>2, <3>3
  <2>5. sent' = Run(first', Len(sent'))
    BY <1>2, <1>4
  <2> QED BY <2>4, <2>5 DEF Progressing
<1>8. Packed' /\ Undisturbed'
  BY DEF Packed, Undisturbed, Interrupted, zipVars
<1> QED BY <1>6, <1>7, <1>8

LEMMA FileStepKeeps == ASSUME RInv, FileStep PROVE RInv'
<1>1. FileTurn /\ Fitting' /\ UNCHANGED <<handler, aborted, zipVars, range, length, changes>>
  BY FirstCallTurns, NextCallTurns
  DEF FileStep, File!ProcessRequest, File!FirstCall, File!NextCall
<1>2. CASE /\ status = 0 /\ status' \in {404, 416} /\ isFinished' = TRUE
           /\ UNCHANGED <<beyond, announced, first, offset, sent>>
  <2>1. File!TypeOK' /\ Zip!TypeOK'
    BY <1>1, <1>2 DEF RInv, TypeOK, File!TypeOK, Zip!TypeOK, zipVars
  <2>2. Progressing'
    BY <1>1, <1>2 DEF RInv, Progressing
  <2>3. Packed' /\ Undisturbed'
    BY <1>1 DEF RInv, Packed, Undisturbed, Interrupted, zipVars
  <2> QED BY <1>1, <2>1, <2>2, <2>3 DEF RInv, TypeOK
<1>3. ASSUME NEW a \in 0..MaxLength, NEW end \in 0..MaxLength, NEW n \in Nat, NEW m \in Nat,
             PieceOf(a, end, n, m), status' \in {200, 206}
      PROVE  RInv'
  <2>1. UNCHANGED <<handler, aborted, zipVars, range, length, changes>> /\ Fitting'
    BY <1>1
  <2> HIDE DEF FileTurn, RInv
  <2> QED BY <1>3, <2>1, PieceKeeps
<1>4. CASE /\ status' \in {200, 206}
           /\ \E a, end \in 0..MaxLength, n, m \in Nat : PieceOf(a, end, n, m)
  BY <1>3, <1>4
<1>5. status \in {200, 206} /\ status' = status => status' \in {200, 206}
  OBVIOUS
<1> QED BY <1>1, <1>2, <1>4, <1>5 DEF FileTurn

\* One call of the handler delivers the next bytes of what it owes, or refuses.
LEMMA FileStepDelivers == ASSUME RInv, FileStep PROVE Promise!Deliver \/ Promise!Refuse
<1> USE DEF RInv
<1>1. FileTurn /\ handler = "file" /\ ~aborted /\ ~isFinished /\ UNCHANGED <<handler, aborted, changes>>
  BY FirstCallTurns, NextCallTurns
  DEF FileStep, File!ProcessRequest, File!FirstCall, File!NextCall
<1>2. FileEnd = "going"
  BY <1>1 DEF FileEnd
<1>3. CASE /\ status = 0 /\ status' \in {404, 416} /\ isFinished' = TRUE
           /\ UNCHANGED <<beyond, announced, first, offset, sent>>
  <2>1. FileEnd' = "refused" /\ Announced' = Announced /\ sent = <<>> /\ sent' = sent
    BY <1>1, <1>3 DEF FileEnd, Announced, Progressing
  <2> QED BY <1>1, <1>2, <2>1 DEF Promise!Refuse
<1>4. ASSUME NEW a \in 0..MaxLength, NEW end \in 0..MaxLength, NEW n \in Nat, NEW m \in Nat,
             PieceOf(a, end, n, m), status' \in {200, 206},
             sent # <<>> => Announced' = Announced
      PROVE  Promise!Deliver
  <2> DEFINE k == end - a
  <2>1. a \in Nat /\ k \in Nat /\ n <= m /\ m <= k /\ (a + m = end => m = k)
    <3>1. a \in Nat /\ end \in Nat /\ a + m <= end /\ n <= m
      BY <1>4, ResponseAssumption DEF PieceOf
    <3> QED BY <3>1
  <2>2. sent = Run(a, n) /\ sent' = Run(a, m) /\ announced' = k /\ Announced' = Run(a, k)
    BY <1>4 DEF PieceOf, Announced, Run
  <2> HIDE DEF k
  <2>3. Promise!IsPrefix(Run(a, n), Run(a, m)) /\ Promise!IsPrefix(Run(a, m), Run(a, k))
    BY <2>1, RunPrefix
  <2>4. Run(a, k) \in Seq(Nat \cup Zip!Files) /\ Len(Run(a, m)) = m
    <3>1. Run(a, k) \in Seq(Nat) /\ Len(Run(a, m)) = m
      BY <2>1, RunIsSeq
    <3> QED BY <3>1, SeqMonotonic
  <2>5. \/ FileEnd' = "going"
        \/ FileEnd' = "complete" /\ sent' = Announced'
        \/ FileEnd' = "cut" /\ changes > 0
    <3>1. CASE isFinished' = FALSE
      BY <1>1, <3>1 DEF FileEnd
    <3>2. CASE isFinished' = TRUE
      <4>1. FileEnd' = IF Len(sent') = announced' THEN "complete" ELSE "cut"
        BY <1>1, <1>4, <3>2 DEF FileEnd
      <4>2. m = k \/ changes > 0
        BY <1>4, <2>1, <3>2 DEF PieceOf
      <4> QED BY <2>2, <2>4, <4>1, <4>2
    <3> QED BY <1>4, <3>1, <3>2 DEF PieceOf
  <2>6. /\ Announced' \in Seq(Nat \cup Zip!Files)
        /\ Promise!IsPrefix(sent, sent') /\ Promise!IsPrefix(sent', Announced')
    <3>1. Promise!IsPrefix(sent, sent')
      BY <2>2, <2>3 DEF Promise!IsPrefix
    <3>2. Promise!IsPrefix(sent', Announced')
      BY <2>2, <2>3 DEF Promise!IsPrefix
    <3> QED BY <2>2, <2>4, <3>1, <3>2
  <2> QED BY <1>1, <1>2, <1>4, <2>5, <2>6 DEF Promise!Deliver, Promise!IsPrefix
<1>5. CASE /\ status = 0 /\ status' \in {200, 206}
           /\ \E a, end \in 0..MaxLength, n, m \in Nat : PieceOf(a, end, n, m)
  <2>1. sent = <<>>
    BY <1>5 DEF Progressing
  <2> QED BY <1>4, <1>5, <2>1
<1>6. CASE /\ status \in {200, 206} /\ UNCHANGED <<status, beyond, announced, first>>
           /\ \E a, end \in 0..MaxLength, n, m \in Nat : PieceOf(a, end, n, m)
  <2>1. Announced' = Announced
    BY <1>6 DEF Announced
  <2> QED BY <1>4, <1>6, <2>1
<1> QED BY <1>1, <1>3, <1>5, <1>6 DEF FileTurn

\* Between two calls the client may go away, or the file may change.
LEMMA FileOtherKeeps == ASSUME RInv, FileChanges \/ AbortFile PROVE RInv'
<1> USE DEF RInv
<1>1. CASE FileChanges
  <2>1. /\ changes < MaxChanges /\ changes' = changes + 1 /\ length' \in File!Absent..MaxLength
        /\ UNCHANGED <<range, offset, beyond, isFinished, status, announced, first, sent>>
        /\ UNCHANGED <<handler, aborted, zipVars>>
    BY <1>1 DEF FileChanges, File!FileChanges
  <2>2. changes' \in 0..MaxChanges /\ changes' > 0
    BY <2>1, ResponseAssumption DEF TypeOK, File!TypeOK
  <2>3. File!TypeOK' /\ Zip!TypeOK'
    BY <2>1, <2>2 DEF TypeOK, File!TypeOK, Zip!TypeOK, zipVars
  <2>4. Progressing' /\ Fitting'
    BY <2>1, <2>2 DEF Progressing, Fitting
  <2>5. Packed' /\ Undisturbed'
    BY <2>1 DEF Packed, Undisturbed, Interrupted, zipVars
  <2> QED BY <2>1, <2>3, <2>4, <2>5 DEF TypeOK
<1>2. CASE AbortFile
  <2>1. aborted' = TRUE /\ UNCHANGED <<handler, fileVars, zipVars>>
    BY <1>2 DEF AbortFile
  <2>2. File!TypeOK' /\ Zip!TypeOK'
    BY <2>1 DEF TypeOK, File!TypeOK, Zip!TypeOK, fileVars, zipVars
  <2>3. Progressing' /\ Fitting' /\ Packed' /\ Undisturbed'
    BY <2>1 DEF Progressing, Fitting, Packed, Undisturbed, Interrupted, fileVars, zipVars
  <2> QED BY <2>1, <2>2, <2>3 DEF TypeOK
<1> QED BY <1>1, <1>2

LEMMA FileOtherDisturbs ==
    ASSUME RInv, FileChanges \/ AbortFile PROVE Promise!Disturb \/ Promise!Abort
<1>1. CASE FileChanges
  <2>1. changes' > 0
    BY <1>1, ResponseAssumption DEF FileChanges, File!FileChanges, RInv, TypeOK, File!TypeOK
  <2>2. /\ handler = "file" /\ handler' = "file"
        /\ UNCHANGED <<status, announced, first, sent, isFinished, aborted>>
    BY <1>1 DEF FileChanges, File!FileChanges
  <2>3. FileEnd' = FileEnd /\ Announced' = Announced /\ sent' = sent
    BY <2>2 DEF FileEnd, Announced
  <2> QED BY <2>1, <2>2, <2>3 DEF Promise!Disturb
<1>2. CASE AbortFile
  <2>1. handler = "file" /\ handler' = "file" /\ ~aborted /\ aborted' = TRUE /\ ~isFinished
        /\ UNCHANGED <<announced, first, sent, changes>>
    BY <1>2 DEF AbortFile, fileVars
  <2>2. FileEnd = "going" /\ FileEnd' = "aborted" /\ Announced' = Announced
    BY <2>1 DEF FileEnd, Announced
  <2> QED BY <2>1, <2>2 DEF Promise!Abort
<1> QED BY <1>1, <1>2

-----------------------------------------------------------------------------
(* The handler of an archive.                                              *)

\* A position in the list of files, and the file there.
LEMMA EntryIsFile ==
    ASSUME NEW i \in 1..Len(Entries) PROVE i \in DOMAIN Entries /\ Entries[i] \in Zip!Files
  BY ResponseAssumption DEF Zip!Files

\* The size a header has while an entry is written, with the loop's position.
LEMMA InEntry ==
    ASSUME RInv, header # Zip!Absent
    PROVE  /\ currentEntry \in 1..Len(Entries) /\ Entries[currentEntry] \in Zip!Files
           /\ lengths[Entries[currentEntry]] \in -1..MaxLength
           /\ header \in 0..MaxLength /\ entryOffset \in 0..MaxLength
<1>1. currentEntry \in 1..Len(Entries) + 1 /\ currentEntry <= Len(Entries)
  BY DEF RInv, TypeOK, Zip!TypeOK, Packed
<1>2. currentEntry \in 1..Len(Entries)
  BY <1>1, ResponseAssumption
<1>3. Entries[currentEntry] \in Zip!Files
  BY <1>2, EntryIsFile
<1>4. lengths \in [Zip!Files -> -1..MaxLength] /\ header \in -1..MaxLength /\ header # -1
      /\ entryOffset \in 0..MaxLength
  BY DEF RInv, TypeOK, Zip!TypeOK, Zip!Absent
<1> QED BY <1>2, <1>3, <1>4

\* The steps that leave the archive and its open entry alone.
LEMMA QuietKeeps ==
    ASSUME RInv, state = "open", state' = "failed" => header = Zip!Absent,
           UNCHANGED <<lengths, replacements, currentEntry, header, entryOffset, archive>>,
           calling' \in BOOLEAN, written' \in BOOLEAN, directory' \in BOOLEAN,
           \/ state' \in {"open", "aborted"}
           \/ state' = "closed" /\ currentEntry = Len(Entries) + 1
           \/ state' \in {"failed", "spinning"} /\ replacements > 0
    PROVE  Zip!TypeOK' /\ Packed' /\ Undisturbed'
<1> USE DEF RInv
<1>1. Zip!TypeOK'
  BY DEF TypeOK, Zip!TypeOK
<1>2. Packed'
  <2>1. ~Interrupted /\ ~Interrupted'
    BY DEF Interrupted
  <2> QED BY <2>1 DEF Packed
<1>3. Undisturbed'
  BY DEF Undisturbed
<1> QED BY <1>1, <1>2, <1>3

\* The entry under way joins the archive, with the data d it has.
LEMMA EntryAdded ==
    ASSUME RInv, state = "open", header # Zip!Absent, NEW d \in 0..MaxLength,
           archive' = Append(archive,
              [file |-> Entries[currentEntry], header |-> header, data |-> d])
    PROVE  /\ archive' \in Seq([file : Zip!Files, header : 0..MaxLength, data : 0..MaxLength])
           /\ Len(archive) \in Nat /\ Len(archive') = currentEntry /\ Len(archive) = currentEntry - 1
           /\ \A i \in 1..Len(archive') :
                 (i \in 1..Len(archive) /\ archive'[i] = archive[i]) \/ i = currentEntry
           /\ archive'[currentEntry].header = header /\ archive'[currentEntry].data = d
           /\ \A i \in 1..Len(archive') : archive'[i].file = Entries[i]
<1> DEFINE R == [file : Zip!Files, header : 0..MaxLength, data : 0..MaxLength]
           f == Entries[currentEntry]
           e == [file |-> f, header |-> header, data |-> d]
<1>1. currentEntry \in 1..Len(Entries) /\ f \in Zip!Files /\ header \in 0..MaxLength
  BY InEntry
<1>2. ~Interrupted
  BY DEF Interrupted
<1>3. archive \in Seq(R) /\ e \in R /\ Len(archive) = currentEntry - 1
  BY <1>1, <1>2 DEF RInv, TypeOK, Zip!TypeOK, Packed
<1>4. e.file = f /\ e.header = header /\ e.data = d /\ archive' = Append(archive, e)
  OBVIOUS
<1> HIDE DEF R, e
<1>5. /\ archive' \in Seq(R) /\ Len(archive') = Len(archive) + 1
      /\ \A i \in 1..Len(archive) : archive'[i] = archive[i]
      /\ archive'[Len(archive) + 1] = e
  BY <1>3, <1>4, AppendProperties
<1>6. Len(archive) \in Nat /\ \A i \in 1..Len(archive') : i \in 1..Len(archive) \/ i = Len(archive) + 1
  BY <1>3, <1>5, LenProperties
<1>7. Len(archive) + 1 = currentEntry
  BY <1>1, <1>3
<1>8. \A i \in 1..Len(archive) : archive[i].file = Entries[i]
  BY DEF RInv, Packed
<1>9. \A i \in 1..Len(archive') : archive'[i].file = Entries[i]
  <2> HIDE DEF f
  <2> QED BY <1>4, <1>5, <1>6, <1>7, <1>8 DEF f
<1> QED BY <1>3, <1>4, <1>5, <1>6, <1>7, <1>9 DEF R

LEMMA BeginEntryKeeps ==
    ASSUME RInv, Zip!BeginEntry PROVE Zip!TypeOK' /\ Packed' /\ Undisturbed'
<1> DEFINE f == Entries[currentEntry]
<1>1. /\ currentEntry <= Len(Entries) /\ lengths[f] # -1 /\ header' = lengths[f] /\ entryOffset' = 0
      /\ written' \in BOOLEAN /\ state = "open"
      /\ UNCHANGED <<lengths, replacements, calling, state, currentEntry, archive, directory>>
  BY DEF Zip!BeginEntry, Zip!HeaderSize, Zip!MayWrite, Zip!Absent, Zip!InLoop
<1>2. currentEntry \in 1..Len(Entries)
  BY <1>1, ResponseAssumption DEF RInv, TypeOK, Zip!TypeOK
<1>3. f \in Zip!Files
  BY <1>2, EntryIsFile
<1>4. lengths[f] \in 0..MaxLength
  <2>1. lengths[f] \in -1..MaxLength
    BY <1>3 DEF RInv, TypeOK, Zip!TypeOK, Zip!Absent
  <2> QED BY <1>1, <2>1
<1> HIDE DEF f
<1>5. Zip!TypeOK'
  <2>1. header' \in Zip!Absent..MaxLength /\ entryOffset' \in 0..MaxLength
    BY <1>1, <1>4, ResponseAssumption DEF Zip!Absent
  <2> QED BY <1>1, <2>1 DEF RInv, TypeOK, Zip!TypeOK
<1>6. Packed'
  <2>1. ~Interrupted /\ ~Interrupted'
    BY <1>1 DEF Interrupted
  <2> QED BY <1>1, <2>1 DEF RInv, Packed
<1>7. Undisturbed'
  <2>1. header' = lengths'[Entries[currentEntry']] /\ entryOffset' <= header'
    BY <1>1, <1>4 DEF f
  <2> QED BY <1>1, <2>1 DEF RInv, Undisturbed
<1> QED BY <1>5, <1>6, <1>7

\* A buffer of data: the entry goes on, or is complete, and the archive has one more.
\* Only a file that has changed is offered in vain.
LEMMA WriteDataKeeps ==
    ASSUME RInv, Zip!WriteData PROVE Zip!TypeOK' /\ Packed' /\ Undisturbed'
<1> DEFINE f    == Entries[currentEntry]
           l    == lengths[f]
           read == IF entryOffset < l THEN entryOffset + 1 ELSE l
           e    == [file |-> f, header |-> header, data |-> read]
<1>1. /\ header # -1 /\ l # -1 /\ entryOffset <= l /\ state = "open"
      /\ UNCHANGED <<lengths, replacements, calling, directory>>
      /\ \/ /\ read > header /\ state' = "spinning"
            /\ UNCHANGED <<currentEntry, header, entryOffset, written, archive>>
         \/ /\ ~(read > header) /\ written' \in BOOLEAN /\ state' = state
            /\ \/ /\ read >= l /\ archive' = Append(archive, e)
                  /\ currentEntry' = currentEntry + 1 /\ header' = Zip!Absent /\ entryOffset' = 0
               \/ entryOffset' = read /\ UNCHANGED <<currentEntry, header, archive>>
  <2>1. /\ header # Zip!Absent /\ Zip!Readable(f) /\ state = "open"
        /\ UNCHANGED <<lengths, replacements, calling, directory>>
        /\ \/ /\ read > header /\ state' = "spinning"
              /\ UNCHANGED <<currentEntry, header, entryOffset, written, archive>>
           \/ /\ ~(read > header) /\ written' \in BOOLEAN /\ state' = state
              /\ \/ /\ read >= l /\ archive' = Append(archive, e)
                    /\ currentEntry' = currentEntry + 1 /\ header' = Zip!Absent /\ entryOffset' = 0
                 \/ entryOffset' = read /\ UNCHANGED <<currentEntry, header, archive>>
    BY DEF Zip!WriteData, Zip!MayWrite, Zip!EntryEnds, Zip!entry, Zip!InLoop
  <2>2. header \in 0..MaxLength /\ entryOffset \in 0..MaxLength /\ l \in -1..MaxLength
    BY <2>1, InEntry
  <2>3. l # -1 /\ entryOffset <= l /\ header # -1
    BY <2>1, <2>2 DEF Zip!Readable, Zip!Absent
  <2> HIDE DEF f, l, read, e
  <2> QED BY <2>1, <2>3
<1>2. /\ currentEntry \in 1..Len(Entries) /\ f \in Zip!Files /\ l \in -1..MaxLength
      /\ header \in 0..MaxLength /\ entryOffset \in 0..MaxLength
  BY <1>1, InEntry DEF Zip!Absent
<1>3. read \in 0..MaxLength /\ read <= l
  <2> HIDE DEF f, l
  <2> QED BY <1>1, <1>2, ResponseAssumption
<1>4. ASSUME replacements = 0 PROVE header = l
  BY <1>1, <1>4 DEF RInv, Undisturbed, Zip!Absent
<1>5. replacements = 0 \/ replacements > 0
  BY ResponseAssumption DEF RInv, TypeOK, Zip!TypeOK
<1> HIDE DEF l, read, e
<1>6. CASE /\ read > header /\ state' = "spinning"
           /\ UNCHANGED <<currentEntry, header, entryOffset, written, archive>>
  <2>1. replacements > 0
    BY <1>2, <1>3, <1>4, <1>5, <1>6
  <2>2. UNCHANGED <<lengths, replacements, currentEntry, header, entryOffset, archive>>
        /\ calling' \in BOOLEAN /\ written' \in BOOLEAN /\ directory' \in BOOLEAN
    BY <1>1, <1>6 DEF RInv, TypeOK, Zip!TypeOK
  <2> QED BY <1>1, <1>6, <2>1, <2>2, QuietKeeps
<1>7. CASE /\ ~(read > header) /\ written' \in BOOLEAN /\ state' = state
           /\ entryOffset' = read /\ UNCHANGED <<currentEntry, header, archive>>
  <2>1. Zip!TypeOK'
    BY <1>1, <1>3, <1>7 DEF RInv, TypeOK, Zip!TypeOK
  <2>2. Packed'
    <3>1. ~Interrupted /\ ~Interrupted'
      BY <1>1, <1>7 DEF Interrupted
    <3> QED BY <1>1, <1>7, <3>1 DEF RInv, Packed
  <2>3. Undisturbed'
    <3>1. entryOffset' <= header'
      BY <1>2, <1>3, <1>7
    <3> QED BY <1>1, <1>7, <3>1 DEF RInv, Undisturbed
  <2> QED BY <2>1, <2>2, <2>3
<1>8. CASE /\ ~(read > header) /\ written' \in BOOLEAN /\ state' = state
           /\ read >= l /\ archive' = Append(archive, e)
           /\ currentEntry' = currentEntry + 1 /\ header' = Zip!Absent /\ entryOffset' = 0
  <2>1. archive' = Append(archive, [file |-> f, header |-> header, data |-> read])
        /\ state = "open" /\ header # Zip!Absent
    BY <1>1, <1>8 DEF e, Zip!Absent
  <2>2. /\ archive' \in Seq([file : Zip!Files, header : 0..MaxLength, data : 0..MaxLength])
        /\ Len(archive) \in Nat /\ Len(archive') = currentEntry /\ Len(archive) = currentEntry - 1
        /\ \A i \in 1..Len(archive') :
              (i \in 1..Len(archive) /\ archive'[i] = archive[i]) \/ i = currentEntry
        /\ archive'[currentEntry].header = header /\ archive'[currentEntry].data = read
        /\ \A i \in 1..Len(archive') : archive'[i].file = Entries[i]
    BY <1>3, <2>1, EntryAdded
  <2> HIDE DEF f
  <2>3. Zip!TypeOK'
    <3>1. currentEntry' \in 1..Len(Entries) + 1 /\ header' \in Zip!Absent..MaxLength
          /\ entryOffset' \in 0..MaxLength
      BY <1>2, <1>8, ResponseAssumption DEF Zip!Absent
    <3> QED BY <1>1, <1>8, <2>2, <3>1 DEF RInv, TypeOK, Zip!TypeOK
  <2>4. Packed'
    <3>1. Len(archive') = currentEntry' - 1
      BY <1>2, <1>8, <2>2
    <3>2. ~Interrupted' /\ state' = "open"
      BY <1>1, <1>8 DEF Interrupted
    <3> QED BY <1>8, <2>2, <3>1, <3>2 DEF Packed
  <2>5. Undisturbed'
    <3>1. ASSUME replacements = 0 PROVE header = l /\ read = header
      BY <1>2, <1>3, <1>4, <1>8, <3>1
    <3>2. ASSUME replacements = 0, NEW i \in 1..Len(archive')
          PROVE  archive'[i].header = lengths[archive'[i].file] /\ archive'[i].data = archive'[i].header
      <4>1. CASE i \in 1..Len(archive) /\ archive'[i] = archive[i]
        BY <3>2, <4>1 DEF RInv, Undisturbed
      <4>2. CASE i = currentEntry
        <5>1. archive'[i].file = f
          BY <2>2, <4>2 DEF f
        <5> QED BY <2>2, <3>1, <3>2, <4>2, <5>1 DEF l
      <4> QED BY <2>2, <4>1, <4>2
    <3> QED BY <1>1, <1>8, <3>2 DEF RInv, Undisturbed
  <2> QED BY <2>3, <2>4, <2>5
<1> QED BY <1>1, <1>6, <1>7, <1>8

\* Only a file that has changed fails.
LEMMA FileFailsKeeps ==
    ASSUME RInv, Zip!FileFails PROVE replacements > 0 /\ Zip!TypeOK' /\ Packed' /\ Undisturbed'
<1> DEFINE f == Entries[currentEntry]
<1>1. /\ currentEntry <= Len(Entries) /\ directory' = TRUE /\ calling' = FALSE
      /\ state = "open" /\ state' = "failed"
      /\ UNCHANGED <<lengths, replacements, currentEntry, header, entryOffset, written>>
      /\ \/ header = Zip!Absent /\ lengths[f] = Zip!Absent /\ archive' = archive
         \/ /\ header # Zip!Absent /\ (lengths[f] = Zip!Absent \/ ~(lengths[f] >= entryOffset))
            /\ archive' = Append(archive, [file |-> f, header |-> header, data |-> entryOffset])
  BY DEF Zip!FileFails, Zip!Readable, Zip!entry, Zip!InLoop
<1>2. currentEntry \in 1..Len(Entries)
  BY <1>1, ResponseAssumption DEF RInv, TypeOK, Zip!TypeOK
<1>3. f \in Zip!Files
  BY <1>2, EntryIsFile
<1>4. ASSUME replacements = 0 PROVE FALSE
  <2>1. lengths[f] # Zip!Absent
    BY <1>3, <1>4 DEF RInv, Undisturbed
  <2>2. header # Zip!Absent /\ ~(lengths[f] >= entryOffset)
    BY <1>1, <2>1
  <2>3. header = lengths[f] /\ entryOffset <= header
    BY <1>4, <2>2 DEF RInv, Undisturbed
  <2>4. header \in 0..MaxLength /\ entryOffset \in 0..MaxLength
    BY <2>2, InEntry
  <2> QED BY <2>2, <2>3, <2>4
<1>5. replacements > 0
  BY <1>4, ResponseAssumption DEF RInv, TypeOK, Zip!TypeOK
<1>6. calling' \in BOOLEAN /\ written' \in BOOLEAN /\ directory' \in BOOLEAN
  BY <1>1 DEF RInv, TypeOK, Zip!TypeOK
<1>7. CASE archive' = archive /\ header = Zip!Absent
  BY <1>1, <1>5, <1>6, <1>7, QuietKeeps
<1>8. CASE /\ header # Zip!Absent
           /\ archive' = Append(archive, [file |-> f, header |-> header, data |-> entryOffset])
  <2>1. entryOffset \in 0..MaxLength
    BY DEF RInv, TypeOK, Zip!TypeOK
  <2>2. /\ archive' \in Seq([file : Zip!Files, header : 0..MaxLength, data : 0..MaxLength])
        /\ Len(archive') = currentEntry /\ \A i \in 1..Len(archive') : archive'[i].file = Entries[i]
    BY <1>1, <1>8, <2>1, EntryAdded
  <2> HIDE DEF f
  <2>3. Zip!TypeOK'
    BY <1>1, <1>6, <2>2 DEF RInv, TypeOK, Zip!TypeOK
  <2>4. Packed'
    <3>1. Interrupted'
      BY <1>1, <1>8 DEF Interrupted, Zip!Absent
    <3> QED BY <1>1, <1>5, <2>2, <3>1 DEF Packed
  <2>5. Undisturbed'
    BY <1>1, <1>5 DEF Undisturbed
  <2> QED BY <1>5, <2>3, <2>4, <2>5
<1> QED BY <1>1, <1>7, <1>8

\* Somebody changes a file of the share.
LEMMA ReplaceKeeps ==
    ASSUME RInv, NEW f \in Zip!Files, Zip!FileChanges(f)
    PROVE  replacements' > 0 /\ Zip!TypeOK' /\ Packed' /\ Undisturbed'
<1>1. /\ replacements < MaxChanges /\ replacements' = replacements + 1
      /\ \E n \in -1..MaxLength : lengths' = [lengths EXCEPT ![f] = n]
      /\ UNCHANGED <<calling, state, currentEntry, header, entryOffset, written, archive, directory>>
      /\ state = "open"
  BY DEF Zip!FileChanges, Zip!Absent, Zip!entry
<1>2. replacements' \in 0..MaxChanges /\ replacements' > 0
  BY <1>1, ResponseAssumption DEF RInv, TypeOK, Zip!TypeOK
<1>3. lengths' \in [Zip!Files -> Zip!Absent..MaxLength]
  BY <1>1 DEF RInv, TypeOK, Zip!TypeOK, Zip!Absent
<1>4. Zip!TypeOK'
  BY <1>1, <1>2, <1>3 DEF RInv, TypeOK, Zip!TypeOK
<1>5. state \in {"failed", "spinning"} => replacements' > 0
  BY <1>2
<1>6. Packed'
  <2>1. ~Interrupted /\ ~Interrupted'
    BY <1>1 DEF Interrupted
  <2> QED BY <1>1, <1>5, <2>1 DEF RInv, Packed
<1>7. Undisturbed'
  BY <1>2 DEF Undisturbed
<1> QED BY <1>2, <1>4, <1>6, <1>7

LEMMA ZipKeeps == ASSUME RInv, ZipStep \/ ZipOther PROVE RInv'
<1>1. /\ UNCHANGED <<handler, aborted, fileVars>>
      /\ Zip!Step \/ Zip!Abort \/ \E f \in Zip!Files : Zip!FileChanges(f)
  BY DEF ZipStep, ZipOther
<1>2. File!TypeOK' /\ Progressing' /\ Fitting' /\ handler' \in {"file", "zip"} /\ aborted' \in BOOLEAN
  <2>1. File!TypeOK'
    BY <1>1 DEF RInv, TypeOK, File!TypeOK, fileVars
  <2>2. Progressing' /\ Fitting'
    BY <1>1 DEF RInv, Progressing, Fitting, fileVars
  <2> QED BY <1>1, <2>1, <2>2 DEF RInv, TypeOK
<1>3. calling \in BOOLEAN /\ written \in BOOLEAN /\ directory \in BOOLEAN
  BY DEF RInv, TypeOK, Zip!TypeOK
<1>4. Zip!TypeOK' /\ Packed' /\ Undisturbed'
  <2>1. CASE Zip!Call \/ Zip!Return \/ Zip!Abort
    <3>1. UNCHANGED <<lengths, replacements, currentEntry, header, entryOffset, archive>>
          /\ calling' \in BOOLEAN /\ written' \in BOOLEAN /\ directory' \in BOOLEAN
          /\ state = "open" /\ state' \in {"open", "aborted"}
      BY <1>3, <2>1 DEF Zip!Call, Zip!Return, Zip!Abort, Zip!entry
    <3> QED BY <3>1, QuietKeeps
  <2>2. CASE Zip!Close
    <3>1. UNCHANGED <<lengths, replacements, currentEntry, header, entryOffset, archive>>
          /\ calling' \in BOOLEAN /\ written' \in BOOLEAN /\ directory' \in BOOLEAN
          /\ state = "open" /\ state' = "closed" /\ currentEntry > Len(Entries)
      BY <2>2 DEF Zip!Close, Zip!entry, Zip!InLoop
    <3>2. currentEntry = Len(Entries) + 1
      BY <3>1, ResponseAssumption DEF RInv, TypeOK, Zip!TypeOK
    <3> QED BY <3>1, <3>2, QuietKeeps
  <2> QED BY <1>1, <2>1, <2>2, BeginEntryKeeps, WriteDataKeeps, FileFailsKeeps, ReplaceKeeps
          DEF Zip!Step
<1> QED BY <1>1, <1>2, <1>4 DEF RInv, TypeOK

\* The files of an archive.
FilesOf(a) == [i \in DOMAIN a |-> a[i].file]

\* Those of an archive that holds the first files of the share.
LEMMA PacketsOfArchive ==
    ASSUME NEW a \in Seq([file : Zip!Files, header : 0..MaxLength, data : 0..MaxLength]),
           \A i \in 1..Len(a) : a[i].file = Entries[i]
    PROVE  /\ FilesOf(a) \in Seq(Nat \cup Zip!Files) /\ Len(FilesOf(a)) = Len(a)
           /\ Len(a) \in Nat /\ \A i \in 1..Len(a) : FilesOf(a)[i] = Entries[i]
<1> DEFINE R == [file : Zip!Files, header : 0..MaxLength, data : 0..MaxLength]
           S == Nat \cup Zip!Files
<1>1. a \in Seq(R)
  OBVIOUS
<1>2. \A r \in R : r.file \in S
  OBVIOUS
<1> HIDE DEF R, S
<1>3. Len(a) \in Nat /\ DOMAIN a = 1..Len(a) /\ \A i \in 1..Len(a) : a[i] \in R
  BY <1>1, LenProperties, ElementOfSeq
<1>4. FilesOf(a) \in [1..Len(a) -> S]
  BY <1>2, <1>3 DEF FilesOf
<1>5. FilesOf(a) \in Seq(S) /\ Len(FilesOf(a)) = Len(a)
  <2> DEFINE p == FilesOf(a)
             n == Len(a)
  <2>1. p \in [1..n -> S] /\ n \in Nat
    BY <1>3, <1>4
  <2> HIDE DEF p, n
  <2>2. p \in Seq(S) /\ Len(p) = n
    BY <2>1
  <2> QED BY <2>2 DEF p, n
<1>6. \A i \in 1..Len(a) : FilesOf(a)[i] = Entries[i]
  BY <1>3 DEF FilesOf
<1> QED BY <1>3, <1>5, <1>6 DEF S

LEMMA EntriesArePieces == Entries \in Seq(Nat \cup Zip!Files)
<1>1. Entries \in Seq(Zip!Files)
  BY ResponseAssumption DEF Zip!Files
<1> QED BY <1>1, SeqMonotonic

\* One step of the loop delivers the next files of the archive, or nothing new; only a
\* response whose files have changed is cut off or stuck.
LEMMA ZipStepDelivers == ASSUME RInv, ZipStep PROVE Promise!Deliver
<1>1. /\ handler = "zip" /\ handler' = "zip" /\ state = "open" /\ replacements' = replacements
      /\ state' \in {"open", "closed", "failed", "spinning"}
  BY DEF ZipStep, Zip!Step, Zip!Call, Zip!Return, Zip!BeginEntry, Zip!WriteData, Zip!Close,
         Zip!FileFails, Zip!InLoop
<1>2. archive' = archive \/ \E e : archive' = Append(archive, e)
  BY DEF ZipStep, Zip!Step, Zip!Call, Zip!Return, Zip!BeginEntry, Zip!WriteData, Zip!Close,
         Zip!FileFails
<1>3. RInv'
  BY ZipKeeps
<1> DEFINE R == [file : Zip!Files, header : 0..MaxLength, data : 0..MaxLength]
<1>4. archive \in Seq(R) /\ \A i \in 1..Len(archive) : archive[i].file = Entries[i]
  BY DEF RInv, TypeOK, Zip!TypeOK, Packed
<1>5. /\ archive' \in Seq(R) /\ \A i \in 1..Len(archive') : archive'[i].file = Entries[i]
      /\ Len(archive') \in {currentEntry', currentEntry' - 1} /\ currentEntry' \in 1..Len(Entries) + 1
      /\ Len(archive') = currentEntry' => currentEntry' <= Len(Entries)
      /\ state' = "closed" => currentEntry' = Len(Entries) + 1 /\ Len(archive') = currentEntry' - 1
  <2>1. /\ archive' \in Seq(R) /\ currentEntry' \in 1..Len(Entries) + 1
        /\ \A i \in 1..Len(archive') : archive'[i].file = Entries[i]
        /\ header' # Zip!Absent => currentEntry' <= Len(Entries)
        /\ state' = "closed" => currentEntry' = Len(Entries) + 1
    BY <1>3 DEF RInv, TypeOK, Zip!TypeOK, Packed, Zip!Absent
  <2>2. \/ Len(archive') = currentEntry' - 1
        \/ Len(archive') = currentEntry' /\ header' # Zip!Absent /\ state' = "failed"
    BY <1>3 DEF RInv, Packed, Interrupted, Zip!Absent
  <2>3. PICK c \in 1..Len(Entries) + 1 : currentEntry' = c
    BY <2>1
  <2>4. c - 1 # c
    BY ResponseAssumption
  <2> HIDE DEF R
  <2> QED BY <2>1, <2>2, <2>3, <2>4
<1> DEFINE S == Nat \cup Zip!Files
           g == FilesOf(archive)
           h == FilesOf(archive')
<1>6. /\ g \in Seq(S) /\ Len(g) = Len(archive) /\ \A i \in 1..Len(archive) : g[i] = Entries[i]
      /\ h \in Seq(S) /\ Len(h) = Len(archive') /\ \A i \in 1..Len(archive') : h[i] = Entries[i]
      /\ Len(archive) \in Nat /\ Len(archive') \in Nat
  BY <1>4, <1>5, PacketsOfArchive
<1>7. Len(archive) <= Len(archive') /\ \A i \in 1..Len(archive) : archive'[i] = archive[i]
  <2> HIDE DEF R
  <2>1. CASE archive' = archive
    BY <1>6, <2>1
  <2>2. CASE \E e : archive' = Append(archive, e)
    BY <1>4, <1>6, <2>2
  <2> QED BY <1>2, <2>1, <2>2
<1>8. Entries \in Seq(S) /\ Len(Entries) \in Nat /\ Len(archive') <= Len(Entries)
      /\ (state' = "closed" => Len(archive') = Len(Entries))
  <2>1. Entries \in Seq(S)
    BY EntriesArePieces
  <2>2. Len(Entries) \in Nat
    BY <2>1, LenProperties
  <2>3. PICK c \in 1..Len(Entries) + 1 :
              /\ Len(archive') = c - 1 \/ (Len(archive') = c /\ c <= Len(Entries))
              /\ state' = "closed" => c = Len(Entries) + 1 /\ Len(archive') = c - 1
    BY <1>5
  <2>4. c - 1 <= Len(Entries) /\ (c = Len(Entries) + 1 => c - 1 = Len(Entries))
    BY <2>2
  <2> QED BY <2>1, <2>2, <2>3, <2>4
<1> HIDE DEF R, S, g, h
<1>9. Promise!IsPrefix(g, h)
  <2>1. Len(g) <= Len(h) /\ \A i \in 1..Len(g) : g[i] = h[i]
    BY <1>6, <1>7
  <2> QED BY <1>6, <2>1, PrefixBy
<1>10. Promise!IsPrefix(h, Entries)
  BY <1>6, <1>8, PrefixBy
<1>11. state' = "closed" => h = Entries
  BY <1>6, <1>8, SeqEqual
<1>12. state' \in {"failed", "spinning"} => replacements > 0
  BY <1>1, <1>3 DEF RInv, Packed
<1>13. ZipEnd = "going"
  BY <1>1 DEF ZipEnd
<1>14. \/ state' = "open" /\ ZipEnd' = "going"
       \/ state' = "closed" /\ ZipEnd' = "complete"
       \/ state' = "failed" /\ ZipEnd' = "cut"
       \/ state' = "spinning" /\ ZipEnd' = "stuck"
  BY <1>1 DEF ZipEnd
<1>15. /\ g = [i \in DOMAIN archive |-> archive[i].file]
       /\ h = [i \in DOMAIN archive' |-> archive'[i].file]
  BY DEF g, h, FilesOf
<1>16. \/ ZipEnd' = "going"
       \/ ZipEnd' = "complete" /\ h = Entries
       \/ ZipEnd' \in {"cut", "stuck"} /\ replacements > 0
  BY <1>11, <1>12, <1>14
<1> DEFINE D == {i \in DOMAIN archive : archive[i].data # archive[i].header}
           E == {i \in DOMAIN archive' : archive'[i].data # archive'[i].header}
<1>17. D \subseteq E /\ E \ D \subseteq Len(g) + 1..Len(h) /\ (E # {} => replacements > 0)
  <2>1. DOMAIN archive = 1..Len(archive) /\ DOMAIN archive' = 1..Len(archive')
    BY <1>4, <1>5, LenProperties
  <2>2. D \subseteq E
    BY <1>6, <1>7, <2>1
  <2>3. ASSUME NEW i \in E \ D PROVE i \in Len(g) + 1..Len(h)
    <3>1. i \in 1..Len(archive') /\ i \notin 1..Len(archive)
      BY <1>7, <2>1, <2>3
    <3> QED BY <1>6, <3>1
  <2>4. ASSUME NEW i \in E PROVE replacements > 0
    <3>1. replacements' # 0
      BY <1>3, <2>1, <2>4 DEF RInv, Undisturbed
    <3> QED BY <1>1, <3>1, ResponseAssumption DEF RInv, TypeOK, Zip!TypeOK
  <2> QED BY <2>2, <2>3, <2>4
<1> HIDE DEF D, E
<1>18. Promise!Deliver
  <2>1. Entries \in Seq(Nat \cup Zip!Files)
    BY <1>8 DEF S
  <2>2. /\ D = {i \in DOMAIN archive : archive[i].data # archive[i].header}
        /\ E = {i \in DOMAIN archive' : archive'[i].data # archive'[i].header}
    BY DEF D, E
  <2> QED BY <1>1, <1>9, <1>10, <1>13, <1>15, <1>16, <1>17, <2>1, <2>2
          DEF Promise!Deliver, Promise!IsPrefix
<1> QED BY <1>18

LEMMA ZipOtherDisturbs == ASSUME RInv, ZipOther PROVE Promise!Disturb \/ Promise!Abort
<1>1. handler = "zip" /\ handler' = "zip"
  BY DEF ZipOther
<1>2. ASSUME NEW f \in Zip!Files, Zip!FileChanges(f) PROVE Promise!Disturb
  <2>1. replacements' > 0 /\ archive' = archive /\ state' = state
    BY <1>2, ReplaceKeeps DEF Zip!FileChanges
  <2>2. ZipEnd' = ZipEnd
    BY <2>1 DEF ZipEnd
  <2> QED BY <1>1, <2>1, <2>2 DEF Promise!Disturb
<1>3. CASE Zip!Abort
  <2>1. state = "open" /\ state' = "aborted" /\ archive' = archive /\ replacements' = replacements
    BY <1>3 DEF Zip!Abort
  <2>2. ZipEnd = "going" /\ ZipEnd' = "aborted"
    BY <2>1 DEF ZipEnd
  <2> QED BY <1>1, <2>1, <2>2 DEF Promise!Abort
<1> QED BY <1>2, <1>3 DEF ZipOther

-----------------------------------------------------------------------------
(* The theorems.                                                           *)

LEMMA InitHolds == ASSUME Init PROVE RInv
<1>1. File!TypeOK
  <2>1. <<>> \in Seq(0..MaxLength)
    OBVIOUS
  <2>2. 0 \in 0..MaxChanges /\ 0 \in 0..MaxLength /\ -1 \in -1..MaxLength
    BY ResponseAssumption
  <2> QED BY <2>1, <2>2 DEF Init, File!Init, File!TypeOK
<1>2. Zip!TypeOK
  <2>1. <<>> \in Seq([file : Zip!Files, header : 0..MaxLength, data : 0..MaxLength])
    OBVIOUS
  <2>2. lengths \in [Zip!Files -> Zip!Absent..MaxLength]
    <3>1. lengths \in [Zip!Files -> 0..MaxLength]
      BY DEF Init, Zip!Init
    <3>2. \A n \in 0..MaxLength : n \in Zip!Absent..MaxLength
      BY ResponseAssumption DEF Zip!Absent
    <3> QED BY <3>1, <3>2
  <2>3. 0 \in 0..MaxChanges /\ 0 \in 0..MaxLength /\ Zip!Absent \in Zip!Absent..MaxLength
        /\ 1 \in 1..Len(Entries) + 1
    BY ResponseAssumption DEF Zip!Absent
  <2> QED BY <2>1, <2>2, <2>3 DEF Init, Zip!Init, Zip!TypeOK
<1>3. Progressing /\ Fitting
  BY DEF Init, File!Init, Progressing, Fitting, Run
<1>4. Packed
  BY DEF Init, Zip!Init, Packed, Interrupted
<1>5. Undisturbed
  BY ResponseAssumption DEF Init, Zip!Init, Undisturbed, Zip!Absent
<1> QED BY <1>1, <1>2, <1>3, <1>4, <1>5 DEF Init, RInv, TypeOK

LEMMA InitMaps == ASSUME Init PROVE Promise!Init
<1>1. /\ handler \in {"file", "zip"} /\ aborted = FALSE /\ isFinished = FALSE
      /\ announced = -1 /\ sent = <<>> /\ changes = 0
      /\ state = "open" /\ archive = <<>> /\ replacements = 0
  BY DEF Init, File!Init, Zip!Init
<1>2. FileEnd = "going" /\ ZipEnd = "going"
  BY <1>1 DEF FileEnd, ZipEnd
<1>3. Announced = <<>> /\ [i \in DOMAIN archive |-> archive[i].file] = <<>>
  BY <1>1 DEF Announced
<1>4. Entries \in Seq(Nat \cup Zip!Files) /\ <<>> \in Seq(Nat \cup Zip!Files)
  BY EntriesArePieces
<1> QED BY <1>1, <1>2, <1>3, <1>4 DEF Promise!Init

LEMMA NextKeeps == ASSUME RInv, [Next]_vars PROVE RInv'
<1>1. CASE Next
  BY <1>1, FileStepKeeps, FileOtherKeeps, ZipKeeps DEF Next
<1>2. CASE UNCHANGED vars
  <2>1. File!TypeOK' /\ Zip!TypeOK'
    BY <1>2 DEF vars, fileVars, zipVars, RInv, TypeOK, File!TypeOK, Zip!TypeOK
  <2>2. Progressing' /\ Fitting' /\ Packed' /\ Undisturbed'
    BY <1>2 DEF vars, fileVars, zipVars, RInv, Progressing, Fitting, Packed, Undisturbed, Interrupted
  <2> QED BY <1>2, <2>1, <2>2 DEF vars, RInv, TypeOK
<1> QED BY <1>1, <1>2

LEMMA NextMaps == ASSUME RInv, [Next]_vars PROVE [Promise!Next]_(Promise!vars)
<1>1. CASE Next
  <2>1. Promise!Deliver \/ Promise!Refuse \/ Promise!Disturb \/ Promise!Abort
    BY <1>1, FileStepDelivers, FileOtherDisturbs, ZipStepDelivers, ZipOtherDisturbs DEF Next
  <2> QED BY <2>1 DEF Promise!Next
<1>2. CASE UNCHANGED vars
  <2>1. FileEnd' = FileEnd /\ ZipEnd' = ZipEnd /\ Announced' = Announced
    BY <1>2 DEF vars, fileVars, zipVars, FileEnd, ZipEnd, Announced
  <2> QED BY <1>2, <2>1 DEF vars, fileVars, zipVars, Promise!vars
<1> QED BY <1>1, <1>2

\* At every moment a response is in order: what it has sent is a run of bytes from the
\* first one announced, or the share's first files, with an entry in part at the end
\* only if an exception ended the handler in the middle of it.
THEOREM ResponsesInvariant == Spec => []RInv
  BY InitHolds, NextKeeps, PTL DEF Spec

\* If no file changed, each entry holds the whole file and says so, and a response with
\* a range announces the part of the range that lies in the file, whatever the sizes
\* of file, chunk and range are.
THEOREM UnchangedAlwaysExact == Spec => []UnchangedIsExact
<1>1. RInv => UnchangedIsExact
  <2> SUFFICES ASSUME RInv PROVE UnchangedIsExact
    OBVIOUS
  <2>1. replacements = 0 =>
          \A i \in DOMAIN archive :
             archive[i].header = lengths[archive[i].file] /\ archive[i].data = archive[i].header
    <3>1. DOMAIN archive = 1..Len(archive)
      BY LenProperties DEF RInv, TypeOK, Zip!TypeOK
    <3> QED BY <3>1 DEF RInv, Undisturbed
  <2>2. ASSUME changes = 0, status \in {200, 206}
        PROVE  /\ range = File!NoRange => announced = length
               /\ range # File!NoRange => announced = File!LastByte(range, length) - range[1] + 1
    <3>1. /\ announced = beyond - first
          /\ first = IF range = File!NoRange THEN 0 ELSE range[1]
          /\ beyond = IF range = File!NoRange THEN length ELSE File!LastByte(range, length) + 1
      BY <2>2 DEF RInv, Progressing, Fitting
    <3>2. length \in Int
      BY ResponseAssumption DEF RInv, TypeOK, File!TypeOK, File!Absent
    <3>3. CASE range = File!NoRange
      BY <3>1, <3>2, <3>3
    <3>4. CASE range # File!NoRange
      <4>1. range[1] \in Int /\ range[2] \in Int
        BY <3>4, RangeInOrder DEF RInv, TypeOK, File!TypeOK
      <4> QED BY <3>1, <3>2, <3>4, <4>1 DEF File!LastByte, File!Least
    <3> QED BY <3>3, <3>4
  <2> QED BY <2>1, <2>2 DEF UnchangedIsExact
<1> QED BY <1>1, ResponsesInvariant, PTL

\* Over any chunks, continuations, aborts and changes of the files, a response hands
\* out a prefix of what it announced, piece after piece in order; one that nobody
\* disturbed has whole entries only and ends complete, refused or aborted by the client.
THEOREM ResponsesImplementTransfer == Spec => ImplementsTransfer
<1>1. Init => Promise!Init
  BY InitMaps
<1>2. RInv /\ [Next]_vars => [Promise!Next]_(Promise!vars)
  BY NextMaps
<1> QED BY <1>1, <1>2, ResponsesInvariant, PTL DEF Spec, ImplementsTransfer, Promise!Spec
=============================================================================
