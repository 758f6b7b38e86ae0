------------------------------- MODULE JobView -------------------------------
(***************************************************************************)
(* GET /jobs/{id} against the worker that owns the job: Job.to_dict reads  *)
(* the fields one by one and without a lock (app/job_manager.py) while the *)
(* worker writes them one by one.  Each attribute access is one step; the  *)
(* GIL orders them.                                                        *)
(*                                                                         *)
(* An ETA is modelled by the time it was estimated at; output stands       *)
(* for the three attributes run_encode_job writes together, output_path,   *)
(* encoder_used and message.                                               *)
(***************************************************************************)
EXTENDS Integers

CONSTANTS EtaMaxAge,  \* _ETA_MAX_AGE_SECONDS
          MaxTime,    \* bound: the clock stops here
          None

ASSUME ViewAssumption ==
  EtaMaxAge \in Nat /\ MaxTime \in Nat /\ None \notin Int /\ None \notin {"raised", "path"}

VARIABLES
  status, progress, eta, etaAt, error, output, finishedAt,  \* the Job
  wpc, ending,     \* the worker: its next write and the branch it ends in
  rpc, rEta, rNow, \* to_dict: its next read, its local eta, the monotonic() it took
  reply,           \* what has been read into the reply so far
  now

jobFields  == <<status, progress, eta, etaAt, error, output, finishedAt>>
readerVars == <<rpc, rEta, rNow, reply>>
vars == <<jobFields, wpc, ending, readerVars, now>>

Terminal == {"completed", "failed", "cancelled"}
Status   == {"queued", "running"} \cup Terminal
Percent  == {0, 50, 100}
TimeOrNone == 0..MaxTime \cup {None}

Empty == [status |-> "queued", progress |-> 0, eta |-> None, error |-> None,
          output |-> None, finishedAt |-> None]

TypeOK ==
  /\ status \in Status /\ progress \in Percent
  /\ eta \in TimeOrNone /\ etaAt \in TimeOrNone /\ finishedAt \in TimeOrNone
  /\ error \in {None, "raised"} /\ output \in {None, "path"}
  /\ wpc \in {"queued", "run", "stamp", "finish", "explain", "fill", "publish", "done"}
  /\ ending \in Terminal
  /\ rpc \in {"idle", "status", "etaAt", "clock", "age", "status2", "progress", "eta",
              "error", "output", "finishedAt", "done", "raised"}
  /\ rEta \in TimeOrNone /\ rNow \in 0..MaxTime /\ now \in 0..MaxTime
  /\ reply.status \in Status /\ reply.progress \in Percent

Init ==
  /\ status = "queued" /\ progress = 0 /\ eta = None /\ etaAt = None
  /\ error = None /\ output = None /\ finishedAt = None
  /\ wpc = "queued" /\ ending = "completed"
  /\ rpc = "idle" /\ rEta = None /\ rNow = 0 /\ reply = Empty
  /\ now = 0

-----------------------------------------------------------------------------
(* The worker. *)

Write(from, to) == wpc = from /\ wpc' = to /\ UNCHANGED <<readerVars, now>>

Claim ==
  /\ Write("queued", "run")
  /\ status' = "running"
  /\ UNCHANGED <<progress, eta, etaAt, error, output, finishedAt, ending>>

\* A job that was cancelled before it was claimed.
Unclaimed ==
  /\ Write("queued", "finish")
  /\ ending' = "cancelled"
  /\ UNCHANGED jobFields

\* run_encode_job names the output before it starts HandBrake.
Describe ==
  /\ Write("run", "run") /\ output = None
  /\ output' = "path"
  /\ UNCHANGED <<status, progress, eta, etaAt, error, finishedAt, ending>>

\* on_progress, while HandBrake runs, never above 100.
SetProgress ==
  /\ Write("run", "run") /\ output # None
  /\ progress' \in Percent
  /\ UNCHANGED <<status, eta, etaAt, error, output, finishedAt, ending>>

\* set_eta is two stores: the value, then its time stamp.
SetEtaValue ==
  /\ Write("run", "stamp") /\ output # None
  /\ eta' \in {now, None}
  /\ UNCHANGED <<status, progress, etaAt, error, output, finishedAt, ending>>

SetEtaStamp ==
  /\ Write("stamp", "run")
  /\ etaAt' = IF eta = None THEN None ELSE now
  /\ UNCHANGED <<status, progress, eta, error, output, finishedAt, ending>>

\* The job function returns or raises; it returns only after it had named its
\* output.
Return(o) ==
  /\ Write("run", "finish")
  /\ o = "completed" => output # None
  /\ ending' = o
  /\ UNCHANGED jobFields

\* Mutant: the last progress is left to the progress callback.
AfterFinishUnfilled == IF ending = "failed" THEN "explain" ELSE "publish"

\* Every branch of _worker writes finished_at first and the status last.
AfterFinish == CASE ending = "completed" -> "fill"
                 [] ending = "failed" -> "explain"
                 [] OTHER -> "publish"

WriteFinishedAt ==
  /\ Write("finish", AfterFinish)
  /\ finishedAt' = now
  /\ UNCHANGED <<status, progress, eta, etaAt, error, output, ending>>

WriteError ==
  /\ Write("explain", "publish")
  /\ error' = "raised"
  /\ UNCHANGED <<status, progress, eta, etaAt, output, finishedAt, ending>>

FillProgress ==
  /\ Write("fill", "publish")
  /\ progress' = 100
  /\ UNCHANGED <<status, eta, etaAt, error, output, finishedAt, ending>>

WriteStatus ==
  /\ Write("publish", "done")
  /\ status' = ending
  /\ UNCHANGED <<progress, eta, etaAt, error, output, finishedAt, ending>>

-----------------------------------------------------------------------------
(* The reader. *)

Step(from, to) == rpc = from /\ rpc' = to /\ UNCHANGED <<jobFields, wpc, ending, now>>

\* A GET begins; the one before it has been answered.
ReadEta ==
  /\ \E from \in {"idle", "done", "raised"} : Step(from, "status")
  /\ rEta' = eta /\ reply' = Empty
  /\ UNCHANGED rNow

\* if self.status != RUNNING
ReadStatus ==
  /\ IF status = "running" THEN Step("status", "etaAt") /\ rEta' = rEta
                           ELSE Step("status", "status2") /\ rEta' = None
  /\ UNCHANGED <<rNow, reply>>

\* or self.eta_updated_at is None
ReadEtaAt ==
  /\ IF etaAt # None THEN Step("etaAt", "clock") /\ rEta' = rEta
                     ELSE Step("etaAt", "status2") /\ rEta' = None
  /\ UNCHANGED <<rNow, reply>>

\* or time.monotonic() - self.eta_updated_at > _ETA_MAX_AGE_SECONDS: the clock
\* first, then the attribute once more.
ReadClock ==
  /\ Step("clock", "age")
  /\ rNow' = now
  /\ UNCHANGED <<rEta, reply>>

TooOld == rNow - etaAt > EtaMaxAge

\* The subtraction raises TypeError when the time stamp is gone by now.
ReadAge ==
  /\ Step("age", IF etaAt = None THEN "raised" ELSE "status2")
  /\ rEta' = IF etaAt = None THEN None ELSE IF TooOld THEN None ELSE rEta
  /\ UNCHANGED <<rNow, reply>>

\* The dictionary, field by field: the status is read a second time.
Fill(from, to, f, v) ==
  /\ Step(from, to)
  /\ reply' = [reply EXCEPT ![f] = v]
  /\ UNCHANGED <<rEta, rNow>>

FillReply ==
  \/ Fill("status2", "progress", "status", status)
  \/ Fill("progress", "eta", "progress", progress)
  \/ Fill("eta", "error", "eta", rEta)
  \/ Fill("error", "output", "error", error)
  \/ Fill("output", "finishedAt", "output", output)
  \/ Fill("finishedAt", "done", "finishedAt", finishedAt)

Tick ==
  /\ now < MaxTime /\ now' = now + 1
  /\ UNCHANGED <<jobFields, wpc, ending, readerVars>>

-----------------------------------------------------------------------------

Worker == \/ Claim \/ Unclaimed \/ Describe \/ SetProgress \/ SetEtaValue \/ SetEtaStamp
          \/ \E o \in Terminal : Return(o)
          \/ WriteFinishedAt \/ WriteError \/ FillProgress \/ WriteStatus

Reader == ReadEta \/ ReadStatus \/ ReadEtaAt \/ ReadClock \/ ReadAge \/ FillReply

Next == Worker \/ Reader \/ Tick

Spec == Init /\ [][Next]_vars

-----------------------------------------------------------------------------

\* A client that is told of a terminal status is told everything about it in
\* the same reply: when it ended, why it failed, what was made of it.  The
\* worker writes the status last and to_dict reads it before these fields.
TerminalReplyIsComplete ==
  rpc = "done" /\ reply.status \in Terminal =>
    /\ reply.finishedAt # None
    /\ reply.status = "failed" => reply.error # None
    /\ reply.status = "completed" => reply.progress = 100 /\ reply.output # None

-----------------------------------------------------------------------------
(* What the comments say and the code does not do. *)

\* Job's docstring calls the lock-free reads of all fields safe, because there
\* is one writer.  But to_dict reads eta_updated_at twice.
ReadsAreSafe == rpc # "raised"

\* The README promises a null eta_seconds for a finished job.  But to_dict reads
\* the status twice, once for the estimate and once for the reply.
FinishedHasNoEta == rpc = "done" /\ reply.status \in Terminal => reply.eta = None
=============================================================================
