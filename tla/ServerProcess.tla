---------------------------- MODULE ServerProcess ----------------------------
(***************************************************************************)
(* One server process from the construction of the share manager to the    *)
(* end of main: which threads run when, and what they may still use.       *)
(*                                                                         *)
(* Main builds the manager (database, then cleaner), scans, serves, and    *)
(* takes everything down in the reverse order, also when a step throws.    *)
(* The io thread of the cleaner runs the handler of its timer.  Wt's and   *)
(* boost's parts are modelled from their use: cancelling a timer does not  *)
(* recall a handler whose time has come, WIOService::stop waits for its    *)
(* thread, the thread ends when there is nothing left to wait for, and     *)
(* WServer::stop waits for the requests under way.                         *)
(***************************************************************************)
EXTENDS FiniteSets

CONSTANT Workers    \* threads of Wt

VARIABLES
    stage,    \* what main does next
    timer,    \* "off", "set", "due" (its handler is queued) or "aborted" (queued)
    io,       \* the io thread: "none", "waiting", "checking", "arming" or "ended"
    serving,  \* the workers that are handling a request
    late      \* history: the timer was cancelled when its handler was on its way

vars == <<stage, timer, io, serving, late>>

Stages == {"check", "start io", "arm", "settings", "scan", "start", "run", "stop",
           "cancel", "join", "release", "exited", "terminated"}

Alive == stage \notin {"exited", "terminated"}

Init == stage = "check" /\ timer = "off" /\ io = "none" /\ serving = {} /\ late = FALSE
-----------------------------------------------------------------------------
(* Main.                                                                   *)

Proceed(from, to) == stage = from /\ stage' = to

\* ShareCleaner::ShareCleaner: the first check, in main.
FirstCheck == Proceed("check", "start io") /\ UNCHANGED <<timer, io, serving, late>>

StartIo ==
    /\ Proceed("start io", "arm")
    /\ io' = "waiting"
    /\ UNCHANGED <<timer, serving, late>>

ArmFirst ==
    /\ Proceed("arm", "settings")
    /\ timer' = "set"
    /\ UNCHANGED <<io, serving, late>>

\* The settings are acceptable, the scan is over, the server listens, a signal
\* comes.
Advance ==
    /\ \/ Proceed("settings", "scan") \/ Proceed("scan", "start")
       \/ Proceed("start", "run") \/ Proceed("run", "stop")
    /\ UNCHANGED <<timer, io, serving, late>>

\* A step throws: the first check before there is a cleaner to destroy.
Throw ==
    /\ \/ Proceed("check", "release")
       \/ stage \in {"settings", "scan", "start"} /\ stage' = "cancel"
    /\ UNCHANGED <<timer, io, serving, late>>

\* WServer::stop, and the end of ShareResource.
StopServer ==
    /\ Proceed("stop", "cancel") /\ serving = {}
    /\ UNCHANGED <<timer, io, serving, late>>

\* Bug: the timer is left running.
CancelNothing ==
    /\ Proceed("cancel", "join")
    /\ late' = (timer = "due" \/ io \in {"checking", "arming"})
    /\ UNCHANGED <<timer, io, serving>>

\* ~ShareCleaner: a handler that is queued or running is not recalled.
CancelTimer ==
    /\ Proceed("cancel", "join")
    /\ timer' = IF timer = "set" THEN "aborted" ELSE timer
    /\ late' = (timer = "due" \/ io \in {"checking", "arming"})
    /\ UNCHANGED <<io, serving>>

\* Bug: nobody waits for the io thread.
JoinNobody == Proceed("join", "release") /\ UNCHANGED <<timer, io, serving, late>>

JoinIo ==
    /\ Proceed("join", "release") /\ io = "ended"
    /\ UNCHANGED <<timer, io, serving, late>>

\* The database goes, the process ends.
Release == Proceed("release", "exited") /\ UNCHANGED <<timer, io, serving, late>>
-----------------------------------------------------------------------------
(* The io thread and its timer.                                            *)

Expire ==
    /\ Alive /\ timer = "set"
    /\ timer' = "due"
    /\ UNCHANGED <<stage, io, serving, late>>

\* The handler of scheduleNextCheck.
RunHandler ==
    /\ Alive /\ io = "waiting" /\ timer \in {"due", "aborted"}
    /\ timer' = "off"
    /\ io' = IF timer = "aborted" THEN "waiting" ELSE "checking"
    /\ UNCHANGED <<stage, serving, late>>

CheckEnds ==
    /\ Alive /\ io = "checking"
    /\ io' = "arming"
    /\ UNCHANGED <<stage, timer, serving, late>>

\* An exception leaves the io thread.
CheckThrows ==
    /\ Alive /\ io = "checking"
    /\ stage' = "terminated"
    /\ UNCHANGED <<timer, io, serving, late>>

\* Bug: the timer is only set once.
ArmNever ==
    /\ Alive /\ io = "arming"
    /\ io' = "waiting"
    /\ UNCHANGED <<stage, timer, serving, late>>

ArmAgain ==
    /\ Alive /\ io = "arming"
    /\ timer' = "set" /\ io' = "waiting"
    /\ UNCHANGED <<stage, serving, late>>

\* Once stop has withdrawn its work, the thread ends when no wait is left.
IoEnds ==
    /\ stage = "join" /\ io = "waiting" /\ timer = "off"
    /\ io' = "ended"
    /\ UNCHANGED <<stage, timer, serving, late>>
-----------------------------------------------------------------------------
(* Requests.                                                               *)

BeginRequest(w) ==
    /\ stage = "run" /\ w \notin serving
    /\ serving' = serving \cup {w}
    /\ UNCHANGED <<stage, timer, io, late>>

EndRequest(w) ==
    /\ Alive /\ w \in serving
    /\ serving' = serving \ {w}
    /\ UNCHANGED <<stage, timer, io, late>>
-----------------------------------------------------------------------------
MainStep == FirstCheck \/ StartIo \/ ArmFirst \/ StopServer \/ CancelTimer \/ JoinIo \/ Release
IoStep   == RunHandler \/ CheckEnds \/ ArmAgain \/ IoEnds

Next ==
    \/ MainStep \/ Advance \/ Throw
    \/ Expire \/ IoStep \/ CheckThrows
    \/ \E w \in Workers : BeginRequest(w) \/ EndRequest(w)

\* Threads run, waits expire, requests end; no signal has to come.
Fairness ==
    /\ WF_vars(MainStep) /\ WF_vars(IoStep) /\ WF_vars(Expire)
    /\ \A w \in Workers : WF_vars(EndRequest(w))

Spec == Init /\ [][Next]_vars /\ Fairness
-----------------------------------------------------------------------------
\* The io thread does not exist before it is started.
TypeOK ==
    /\ stage \in Stages
    /\ timer \in {"off", "set", "due", "aborted"}
    /\ io \in IF stage \in {"check", "start io"} THEN {"none"}
              ELSE {"none", "waiting", "checking", "arming", "ended"}
    /\ serving \subseteq Workers
    /\ late \in BOOLEAN

\* The database outlives its users: when it is destroyed, by whatever way main got
\* there, no request is under way and the io thread is over or never was.
NoUserLeft == stage \in {"release", "exited"} => serving = {} /\ io \in {"none", "ended"}

\* From its first setting to the end of the service there is always a next check:
\* the timer is set, its handler is queued, or it is under way and sets it again.
AlwaysScheduled ==
    stage \in {"settings", "scan", "start", "run", "stop", "cancel"} =>
        timer \in {"set", "due"} \/ io \in {"checking", "arming"}

\* Taking the process down ends, unless a check was on its way when the timer was
\* cancelled: that one sets the timer again, and stop waits for it, every hour.
ShutdownEnds == stage = "cancel" ~> ~Alive \/ late

\* Without that coincidence no check is begun any more once the timer is cancelled:
\* the end of the process waits for none.
NoCheckAfterCancel == stage = "join" /\ ~late => io # "checking"
-----------------------------------------------------------------------------
\* The inductive invariant: what main's progress says of the other threads.
ProcessInv ==
    /\ TypeOK /\ NoUserLeft /\ AlwaysScheduled
    /\ stage \in {"arm", "settings", "scan", "start", "run", "stop", "cancel"} =>
          io \in {"waiting", "checking", "arming"}
    /\ serving # {} => stage \in {"run", "stop", "terminated"}
    /\ timer = "aborted" => stage \in {"join", "release", "exited", "terminated"}
    /\ stage = "join" => io # "none"
    /\ stage = "join" /\ ~late =>
          timer \in {"aborted", "off"} /\ io \in {"waiting", "ended"}
=============================================================================
