---------------------------- MODULE EncoderService ----------------------------
(***************************************************************************)
(* The service end to end, for one job and one worker: the manager that    *)
(* queues, cancels and shuts down (JobManager), the job function and its   *)
(* files (EncodeJob), and HandBrakeCLI with its watcher (HandBrakeRunner). *)
(* What the script scripts/e2e_encode.py asserts of an encode once it has  *)
(* been told that it is completed is part of StatusIsTrue.                 *)
(*                                                                         *)
(* The components share three things.  The cancel event of the job is what *)
(* the watcher waits for; HandBrake runs while the job function is at its  *)
(* call of run_encode; and what the job function returns or raises is what *)
(* the worker files the job under.                                         *)
(*                                                                         *)
(* Time stands still and the sweeper is left out: what a sweep may evict   *)
(* is decided in JobManager, and an eviction touches no file.              *)
(***************************************************************************)
EXTENDS EncodeJob, Sequences

CONSTANTS TheJob, TheThread,  \* the job and the worker thread
          Lines, PipeSize,    \* as in HandBrakeRunner
          None

ASSUME ServiceAssumption ==
  /\ None \notin {TheJob} \cup Nat
  /\ Lines \in Nat /\ PipeSize \in Nat \ {0}

VARIABLES
  jobs, queue, pending, running, threads, status, finishedAt, error, cancel, post,
  wpc, wjob, outcome, shPc, shTodo, shPuts, sweepNow, now,
  hbPc, completed, watcher, encoded, alive, rc, killed, stdout, pipe, left

Manager == INSTANCE JobManager WITH
  Job <- {TheJob}, Thread <- {TheThread}, Workers <- 1, MaxQueue <- 0,
  Ttl <- 1, MaxTime <- 0, MaxFatal <- 0

HandBrake == INSTANCE HandBrakeRunner WITH
  pc <- hbPc, outcome <- encoded, cancel <- cancel[TheJob]

jmVars == <<jobs, queue, pending, running, threads, status, finishedAt, error, cancel,
            post, wpc, wjob, outcome, shPc, shTodo, shPuts, sweepNow, now>>
hbVars == <<hbPc, completed, watcher, encoded, alive, rc, killed, stdout, pipe, left>>
serviceVars == <<jmVars, vars, hbVars>>

\* The variables of HandBrake have their meaning from Popen on, and nothing is at
\* the output path of a fresh id.
ServiceInit ==
  /\ Manager!Init /\ Init /\ HandBrake!Init /\ dst = "absent"

\* The process is alive.
Up == pc # "crashed"
\* The worker is inside the job function.
InJob == wpc[TheThread] = "run"
\* Popen has returned.
Spawned == child \in {"alive", "gone", "left"}

-----------------------------------------------------------------------------
(* The process: the manager, the job function and the two threads of an    *)
(* encode take turns.                                                      *)

ManagerStep == \/ Manager!Start \/ Manager!Shutdown \/ Manager!Handler(TheJob)
               \/ Manager!Delete(TheJob) \/ Manager!WorkerStep(TheThread)

Manage(A) == Up /\ A /\ UNCHANGED <<vars, hbVars>>

\* run_encode comes back to the job function with its verdict.
EncodeEnds ==
  /\ hbPc = "returned"
  /\ IF encoded = "ok" THEN EncodeReturns
     ELSE EncodeRaises /\ child' = IF alive THEN "left" ELSE "gone"

OperationStep ==
  \/ Validate \/ Claim \/ ClaimFails \/ MakeTemp
  \/ Dump \/ StartEncode \/ StartFails \/ EncodeEnds
  \/ Check \/ CloseFd \/ Replace \/ ReplaceFails
  \/ Except \/ RemovePartial \/ Finally \/ Unlink

Operate == Up /\ InJob /\ UNCHANGED <<jmVars, hbVars>> /\ OperationStep

\* run_encode, its failures and the timeouts that pass in it.
RunEncode == \/ HandBrake!Main \/ HandBrake!StartFails \/ HandBrake!Raise
             \/ HandBrake!Expire \/ HandBrake!Outlives

Drive(A) == Up /\ pc = "encode" /\ UNCHANGED <<jmVars, vars>> /\ A

Watch == Up /\ Spawned /\ UNCHANGED <<jmVars, vars>> /\ HandBrake!Watcher

\* Mutant: a job whose cancel event is set is filed as cancelled.
FiledAsEventSays ==
  IF cancel[TheJob] THEN "cancelled" ELSE IF pc = "returned" THEN "completed" ELSE "failed"

\* Mutant: so is one whose HandBrake was killed.
FiledAsKilled ==
  IF pc = "returned" THEN "completed" ELSE IF rc = -9 THEN "cancelled" ELSE "failed"

\* What the worker makes of the job function: HandBrakeCancelled is raised by
\* run_encode alone, and gets out unless a close that fails replaces it.
FiledAs ==
  CASE pc = "returned" -> "completed"
    [] pc = "raised" /\ encoded = "cancelled" /\ ~held -> "cancelled"
    [] OTHER -> "failed"

\* The end of the try block in _worker.
Return ==
  /\ InJob /\ pc \in {"returned", "raised"}
  /\ outcome' = [outcome EXCEPT ![TheThread] = FiledAs]
  /\ wpc' = [wpc EXCEPT ![TheThread] = "finish"]
  /\ UNCHANGED <<jobs, queue, pending, running, threads, status, finishedAt, error,
                 cancel, post, wjob, shPc, shTodo, shPuts, sweepNow, now>>
  /\ UNCHANGED <<vars, hbVars>>

-----------------------------------------------------------------------------
(* Outside the process: HandBrakeCLI, other users of the media directory,  *)
(* the end of the process.  The output path is known to those who hold the *)
(* id of the job, from the 202 on.                                         *)

Child(A) == Spawned /\ UNCHANGED <<jmVars, vars>> /\ A

\* HandBrakeCLI has opened its output when it succeeds.
HandBrakeStep == HandBrake!Child /\ (alive' \/ rc' # 0 \/ target # "none")

Opens == Spawned /\ alive /\ UNCHANGED <<jmVars, hbVars>> /\ OpenOutput

Disturb ==
  /\ \/ Swap
     \/ post[TheJob] = "accepted" /\ Plant
     \/ InJob /\ Crash
  /\ UNCHANGED <<jmVars, hbVars>>

-----------------------------------------------------------------------------

ServiceNext ==
  \/ Manage(ManagerStep) \/ Operate \/ Return
  \/ Drive(RunEncode) \/ Watch \/ Child(HandBrakeStep) \/ Opens \/ Disturb

\* The worker: one thread, in its loop, in the job function or in run_encode.
WorkerThread == \/ Manage(Manager!WorkerStep(TheThread)) \/ Operate \/ Return
                \/ Drive(HandBrake!Main)

\* The two threads are scheduled while the process lives, and SIGKILL works.
\* Nothing is assumed of HandBrake, of the timeout, of the clients, or of how the
\* job function ends.
ServiceFairness ==
  WF_serviceVars(WorkerThread) /\ WF_serviceVars(Watch) /\ WF_serviceVars(Child(HandBrake!ChildDie))

ServiceSpec == ServiceInit /\ [][ServiceNext]_serviceVars /\ ServiceFairness

-----------------------------------------------------------------------------
(* Safety: what the components promise together. *)

\* A client that is told "completed" finds the finished encode under the output
\* path, whatever was cancelled, timed out or failed to be cleaned up on the way;
\* or what somebody put there after the last check, or made HandBrake write
\* elsewhere for.
CompletedIsPublished ==
  status[TheJob] = "completed" =>
    \/ Leads(dst) = "ours" /\ rc = 0 /\ (content = "whole" \/ (target # "ours" /\ earlySwap))
    \/ dst \in {"foreign", "link to source"} /\ lateSwap

\* delete() relies on the job function to remove its own partial: a job that ends
\* as cancelled has published nothing, was not finished by HandBrake, and left
\* nothing behind, unless a removal itself failed.
CancelledLeavesNothing ==
  status[TheJob] = "cancelled" =>
    /\ dst \in {"absent", "planted"}
    /\ cancel[TheJob] /\ (Spawned => rc # 0)
    /\ ~unremoved => staging = "absent" /\ ~preset /\ ~open

\* Once a job has ended no HandBrake runs on for it, which is what lets
\* ENCODER_WORKERS bound the encodes on the GPU: it is dead or has been killed.
\* The one that nobody watches is the subject of HandBrakeRunner!CancelEndsChild.
QuietWhenOver ==
  Spawned /\ encoded # "unwatched" /\ status[TheJob] \in Manager!Terminal =>
    ~alive \/ (killed /\ encoded = "unreaped")

\* What the end-to-end script looks for when it has polled "completed": an output
\* of some size under the path it was told, and the source as it was.
Look == Leads(dst) # "absent" /\ (Leads(dst) = "ours" => content = "whole") /\ source

\* What the manager tells of a job is true of the files and of HandBrake, and the
\* assertions of the end-to-end script hold from then on, whoever else deletes the
\* job, stops the service or plants links meanwhile; the script misses its output,
\* or its source, only when HandBrake was made to write elsewhere.
StatusIsTrue == /\ CompletedIsPublished /\ CancelledLeavesNothing /\ QuietWhenOver
                /\ status[TheJob] = "completed" => Look \/ earlySwap

-----------------------------------------------------------------------------
(* Refinement: JobManager takes it on faith that a job function ends as      *)
(* "cancelled" only when its event is set, and that it returns once the      *)
(* event is set.  run_encode_job and run_encode keep both promises.          *)

\* Every step of the service is a step of the manager or none.
ImplementsManager == Manager!Spec

\* lifespan(): the cancel sweep of shutdown() kills any HandBrake still running.
\* So does DELETE, whatever HandBrake is up to, and the job function returns.
CancelKillsHandBrake ==
  (InJob /\ cancel[TheJob]) ~>
    \/ ~Up
    \/ status[TheJob] \in Manager!Terminal /\ (Spawned /\ encoded # "unwatched" => ~alive)
=============================================================================
