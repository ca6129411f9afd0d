------------------------- MODULE ServerProcessProofs -------------------------
(***************************************************************************)
(* Proofs about ServerProcess, for any set of workers: what the threads of *)
(* a server may still use while main takes them down.                      *)
(***************************************************************************)
EXTENDS ServerProcess, TLAPS

\* Every step keeps what main's progress says of the io thread, the timer and the
\* workers: the ways down join the io thread before the database goes.
LEMMA ProcessInvStep == ProcessInv /\ [Next]_vars => ProcessInv'
<1> SUFFICES ASSUME ProcessInv, [Next]_vars PROVE ProcessInv'
    OBVIOUS
<1> USE DEF ProcessInv, TypeOK, NoUserLeft, AlwaysScheduled, Stages, Alive
<1>1. CASE FirstCheck \/ StartIo \/ ArmFirst
    BY <1>1 DEF FirstCheck, StartIo, ArmFirst, Proceed
<1>2. CASE Advance
    BY <1>2 DEF Advance, Proceed
<1>3. CASE Throw
    BY <1>3 DEF Throw, Proceed
<1>4. CASE StopServer
    BY <1>4 DEF StopServer, Proceed
<1>5. CASE CancelTimer
    BY <1>5 DEF CancelTimer, Proceed
<1>6. CASE JoinIo \/ Release
    BY <1>6 DEF JoinIo, Release, Proceed
<1>7. CASE Expire
    BY <1>7 DEF Expire
<1>8. CASE RunHandler
    BY <1>8 DEF RunHandler
<1>9. CASE CheckEnds \/ ArmAgain
    BY <1>9 DEF CheckEnds, ArmAgain
<1>10. CASE CheckThrows
    BY <1>10 DEF CheckThrows
<1>11. CASE IoEnds
    BY <1>11 DEF IoEnds
<1>12. ASSUME NEW w \in Workers, BeginRequest(w) \/ EndRequest(w) PROVE ProcessInv'
    BY <1>12 DEF BeginRequest, EndRequest
<1>13. CASE UNCHANGED vars
    BY <1>13 DEF vars
<1> QED
    BY <1>1, <1>2, <1>3, <1>4, <1>5, <1>6, <1>7, <1>8, <1>9, <1>10, <1>11, <1>12, <1>13
    DEF Next, MainStep, IoStep

\* The invariant holds of every reachable state.
THEOREM ProcessInvariant == Spec => []ProcessInv
<1>1. Init => ProcessInv
    BY DEF Init, ProcessInv, TypeOK, NoUserLeft, AlwaysScheduled, Stages
<1> QED
    BY <1>1, ProcessInvStep, PTL DEF Spec

\* The database is destroyed when nobody can use it any more, whichever step of main
\* threw or wherever the cleaner's handler was.
THEOREM DatabaseOutlivesUsers == Spec => []NoUserLeft
<1>1. ProcessInv => NoUserLeft
    BY DEF ProcessInv
<1> QED
    BY <1>1, ProcessInvariant, PTL

\* The cleaner never runs out of checks while the server is up.
THEOREM ChecksGoOn == Spec => []AlwaysScheduled
<1>1. ProcessInv => AlwaysScheduled
    BY DEF ProcessInv
<1> QED
    BY <1>1, ProcessInvariant, PTL

\* A timer that was cancelled in time begins no check: the handler returns at once
\* when its wait was aborted.
THEOREM CancelledInTime == Spec => []NoCheckAfterCancel
<1>1. ProcessInv => NoCheckAfterCancel
    BY DEF ProcessInv, NoCheckAfterCancel
<1> QED
    BY <1>1, ProcessInvariant, PTL
=============================================================================
