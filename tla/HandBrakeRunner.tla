--------------------------- MODULE HandBrakeRunner ---------------------------
(***************************************************************************)
(* One call of run_encode (app/handbrake_runner.py): the worker thread     *)
(* that drains HandBrake's stdout, the watcher thread that kills the child *)
(* after a cancellation, and the child itself, behind a pipe of bounded    *)
(* size.  Timeouts are untimed: a wait with a timeout may give up at any   *)
(* moment while the child lives.  SIGKILL takes effect in the end, but not *)
(* always within the ten seconds that the worker waits after its own kill. *)
(***************************************************************************)
EXTENDS Integers

CONSTANTS Lines,     \* how many lines the child prints
          PipeSize   \* how many of them fit into the pipe

ASSUME RunnerAssumption == Lines \in Nat /\ PipeSize \in Nat \ {0}

VARIABLES
  pc,         \* the worker thread in run_encode
  completed,  \* its local of that name
  watcher,    \* the thread in _watch_cancel
  outcome,    \* how run_encode returned or what it raised
  cancel,     \* job.cancel_event
  alive,      \* the child has not exited
  rc,         \* its exit code: 0, 1 or -9
  killed,     \* a SIGKILL is on its way
  stdout,     \* the child's end of the pipe is open
  pipe,       \* lines in the pipe
  left        \* lines the child has not printed yet

mainVars  == <<pc, completed, outcome>>
childVars == <<alive, rc, killed, stdout, pipe, left>>
vars == <<mainVars, watcher, cancel, childVars>>

TypeOK ==
  /\ pc \in {"start", "read", "finally", "abort", "dying", "wait", "expired", "lost",
             "reap", "join", "decide", "returned"}
  /\ completed \in BOOLEAN
  /\ watcher \in {"new", "poll", "wait", "grace", "kill", "done"}
  /\ outcome \in {"none", "ok", "cancelled", "failed", "aborted", "timedout", "unwatched",
                  "unreaped"}
  /\ cancel \in BOOLEAN /\ alive \in BOOLEAN /\ killed \in BOOLEAN
  /\ stdout \in BOOLEAN
  /\ rc \in {0, 1, -9}
  /\ pipe \in 0..PipeSize /\ left \in 0..Lines

\* Popen has returned.  The job may be cancelled already.
Init ==
  /\ pc = "start" /\ completed = FALSE /\ outcome = "none"
  /\ watcher = "new"
  /\ cancel \in BOOLEAN
  /\ alive = TRUE /\ rc = 0 /\ killed = FALSE
  /\ stdout = TRUE /\ pipe = 0 /\ left = Lines

-----------------------------------------------------------------------------
(* HandBrakeCLI, as the runner meets it. *)

ChildPrint ==
  /\ alive /\ ~killed /\ stdout /\ left > 0 /\ pipe < PipeSize
  /\ pipe' = pipe + 1 /\ left' = left - 1
  /\ UNCHANGED <<mainVars, watcher, cancel, alive, rc, killed, stdout>>

\* The child may close its stdout and go on.
ChildClose ==
  /\ alive /\ ~killed /\ stdout
  /\ stdout' = FALSE
  /\ UNCHANGED <<mainVars, watcher, cancel, alive, rc, killed, pipe, left>>

\* It exits by itself, at any time when it fails, after its last line when it
\* succeeds.
ChildExit ==
  /\ alive /\ ~killed
  /\ \/ rc' = 1
     \/ rc' = 0 /\ (left = 0 \/ ~stdout)
  /\ alive' = FALSE /\ stdout' = FALSE
  /\ UNCHANGED <<mainVars, watcher, cancel, killed, pipe, left>>

ChildDie ==
  /\ alive /\ killed
  /\ rc' = -9
  /\ alive' = FALSE /\ stdout' = FALSE
  /\ UNCHANGED <<mainVars, watcher, cancel, killed, pipe, left>>

\* Popen.kill() does nothing to a child that has exited.
Kill == killed' = (killed \/ alive)

\* DELETE or shutdown() sets the event, whatever the encode is doing.
Cancel ==
  /\ ~cancel /\ cancel' = TRUE
  /\ UNCHANGED <<mainVars, watcher, childVars>>

-----------------------------------------------------------------------------
(* _watch_cancel. *)

Watch(from, to) == watcher = from /\ watcher' = to

\* Mutant: the loop asks for the cancellation only.
WatchPollForever ==
  /\ Watch("poll", "wait")
  /\ UNCHANGED <<mainVars, cancel, childVars>>

\* while proc.poll() is None, then cancel_event.wait(timeout=0.25).
WatchPoll ==
  /\ Watch("poll", IF alive THEN "wait" ELSE "done")
  /\ UNCHANGED <<mainVars, cancel, childVars>>

WatchWait ==
  /\ Watch("wait", IF cancel THEN "grace" ELSE "poll")
  /\ UNCHANGED <<mainVars, cancel, childVars>>

\* Mutant: the child is asked for, and not killed.
WatchGraceOnly ==
  /\ Watch("grace", "done")
  /\ UNCHANGED <<mainVars, cancel, childVars>>

\* proc.wait(timeout=_CANCEL_GRACE_SECONDS)
WatchGrace ==
  /\ Watch("grace", IF alive THEN "kill" ELSE "done")
  /\ UNCHANGED <<mainVars, cancel, childVars>>

\* The second poll and the kill.
WatchKill ==
  /\ Watch("kill", "done") /\ Kill
  /\ UNCHANGED <<mainVars, cancel, alive, rc, stdout, pipe, left>>

-----------------------------------------------------------------------------
(* The worker thread. *)

Go(from, to) == pc = from /\ pc' = to

Start ==
  /\ Go("start", "read")
  /\ watcher' = "poll"
  /\ UNCHANGED <<completed, outcome, cancel, childVars>>

\* Thread.start() raises before the try block is entered: the exception leaves
\* run_encode and the child goes on.
StartFails ==
  /\ Go("start", "returned")
  /\ outcome' = "unwatched"
  /\ UNCHANGED <<completed, watcher, cancel, childVars>>

\* Mutant: a read on an empty pipe does not block.
ReadUnblocked ==
  /\ pc = "read" /\ stdout
  /\ pipe' = pipe - 1
  /\ UNCHANGED <<mainVars, watcher, cancel, alive, rc, killed, stdout, left>>

Read ==
  /\ pc = "read" /\ pipe > 0
  /\ pipe' = pipe - 1
  /\ UNCHANGED <<mainVars, watcher, cancel, alive, rc, killed, stdout, left>>

\* Iterating over stdout ends when the pipe is empty and its writer is gone.
EndOfFile ==
  /\ Go("read", "finally") /\ pipe = 0 /\ ~stdout
  /\ completed' = TRUE
  /\ UNCHANGED <<outcome, watcher, cancel, childVars>>

\* Something in the loop raises.
Raise ==
  /\ Go("read", "finally")
  /\ UNCHANGED <<completed, outcome, watcher, cancel, childVars>>

\* Mutant: every live child is waited for.
FinallyPolite ==
  /\ Go("finally", IF alive THEN "wait" ELSE "reap")
  /\ UNCHANGED <<completed, outcome, watcher, cancel, childVars>>

\* The finally block polls the child and picks a branch.
Finally ==
  /\ Go("finally", IF ~alive THEN "reap" ELSE IF completed THEN "wait" ELSE "abort")
  /\ UNCHANGED <<completed, outcome, watcher, cancel, childVars>>

AbortKill ==
  /\ Go("abort", "dying") /\ Kill
  /\ UNCHANGED <<completed, outcome, watcher, cancel, alive, rc, stdout, pipe, left>>

\* proc.wait(timeout=10) sees the killed child exit ...
Died ==
  /\ Go("dying", "reap") /\ ~alive
  /\ UNCHANGED <<completed, outcome, watcher, cancel, childVars>>

\* ... or gives up, here or after the timeout: its TimeoutExpired leaves run_encode.
Outlives ==
  /\ pc \in {"dying", "lost"} /\ alive
  /\ pc' = "returned" /\ outcome' = "unreaped"
  /\ UNCHANGED <<completed, watcher, cancel, childVars>>

\* proc.wait(timeout=timeout) sees the child exit, or expires.
Waited ==
  /\ Go("wait", "reap") /\ ~alive
  /\ UNCHANGED <<completed, outcome, watcher, cancel, childVars>>

Expire ==
  /\ Go("wait", "expired") /\ alive
  /\ UNCHANGED <<completed, outcome, watcher, cancel, childVars>>

ExpiredKill ==
  /\ Go("expired", "lost") /\ Kill
  /\ UNCHANGED <<completed, outcome, watcher, cancel, alive, rc, stdout, pipe, left>>

\* Mutant: the error is raised without waiting for the killed child.
ExpiredRaiseAtOnce ==
  /\ Go("lost", "returned")
  /\ outcome' = "timedout"
  /\ UNCHANGED <<completed, watcher, cancel, childVars>>

\* The child is reaped, then HandBrakeError is raised out of the finally block.
ExpiredRaise ==
  /\ Go("lost", "returned") /\ ~alive
  /\ outcome' = "timedout"
  /\ UNCHANGED <<completed, watcher, cancel, childVars>>

Reap ==
  /\ Go("reap", "join") /\ ~alive
  /\ UNCHANGED <<completed, outcome, watcher, cancel, childVars>>

\* watcher.join(timeout=1.0) ends or gives up; after the loop raised, its
\* exception goes on from here.
Join ==
  /\ pc = "join"
  /\ IF completed THEN pc' = "decide" /\ outcome' = outcome
                  ELSE pc' = "returned" /\ outcome' = "aborted"
  /\ UNCHANGED <<completed, watcher, cancel, childVars>>

\* Mutant: the cancellation is asked about before the exit code.
VerdictCancelFirst == IF cancel THEN "cancelled" ELSE IF rc = 0 THEN "ok" ELSE "failed"

\* The exit code comes first: a child that finished was not cancelled.
Verdict == IF rc = 0 THEN "ok" ELSE IF cancel THEN "cancelled" ELSE "failed"

Decide ==
  /\ Go("decide", "returned")
  /\ outcome' = Verdict
  /\ UNCHANGED <<completed, watcher, cancel, childVars>>

-----------------------------------------------------------------------------

Main == \/ Start \/ Read \/ EndOfFile \/ Finally \/ AbortKill \/ Died \/ Waited
        \/ ExpiredKill \/ ExpiredRaise \/ Reap \/ Join \/ Decide
Watcher == WatchPoll \/ WatchWait \/ WatchGrace \/ WatchKill
Child == ChildPrint \/ ChildClose \/ ChildExit \/ ChildDie

Next == Main \/ StartFails \/ Raise \/ Expire \/ Outlives \/ Watcher \/ Child \/ Cancel

Spec == Init /\ [][Next]_vars

\* The threads are scheduled and SIGKILL works.  Nothing is assumed of the
\* child, of cancellations or of the timeouts.
FairSpec == Spec /\ WF_vars(Main) /\ WF_vars(Watcher) /\ WF_vars(ChildDie)

\* The child prints its lines and exits, when the pipe lets it.
ChildWorks == WF_vars(ChildPrint) /\ WF_vars(ChildExit /\ (left = 0 \/ ~stdout))

\* The timeout expires.
TimeoutSpec == FairSpec /\ WF_vars(Expire)

-----------------------------------------------------------------------------
(* Safety. *)

\* An encode that finished is published, however late the cancellation came:
\* run_encode reports Cancelled for a child that did not succeed, and ok for
\* one that did.
CleanExitIsKept == /\ outcome = "cancelled" => cancel /\ rc # 0
                   /\ outcome = "ok" => rc = 0

\* No way out of run_encode leaves a HandBrake behind that goes on writing to the
\* output: it has been reaped, or was killed and its last ten seconds have passed.
\* Only the thread that could not be started breaks this, see CancelEndsChild.
NoOrphan ==
  pc = "returned" /\ watcher # "new" => ~alive \/ (killed /\ outcome = "unreaped")

\* A loop that raised is reported as such, and never as the timeout: the child
\* it leaves behind would block on a pipe nobody drains.
AbortKeepsItsCause ==
  pc = "returned" /\ ~completed => outcome \in {"aborted", "unwatched", "unreaped"}

(* Liveness. *)

\* A cancelled encode returns although its child would run for ever, and its
\* watcher ends with it; so does the watcher of any child that has exited.
CancelledReturns ==
  /\ cancel ~> pc = "returned" /\ watcher \in {"new", "done"}
  /\ (~alive /\ watcher # "new") ~> watcher = "done"

\* A child that does its work is never left blocked on the pipe, so its encode
\* returns without any help from the timeout.
EncodeReturns == ChildWorks => <>(pc = "returned")

-----------------------------------------------------------------------------
(* What the comments say and the code does not do. *)

\* run_encode's comments count on the timeout to kill a child that is blocked
\* for ever.  But the timeout starts after the end of stdout only.
StalledReturns == <>(pc = "returned")

\* lifespan()'s comment has the cancel sweep of shutdown() kill any HandBrake still
\* running.  But a child whose watcher could not be started is watched by nobody,
\* and run_encode has left it running.
CancelEndsChild == cancel ~> ~alive
=============================================================================
