----------------------------- MODULE JobManager -----------------------------
(***************************************************************************)
(* The job store and worker pool of app/job_manager.py, with the route of  *)
(* app/main.py that submits a job and the lifespan that starts and stops   *)
(* the pool.  Every critical section of JobManager._lock is one action;    *)
(* everything the code does outside the lock (Queue.put and Queue.get, the *)
(* worker's final writes, setting a cancel event) is an action of its own, *)
(* so the interleavings are those of the real threads.                     *)
(*                                                                         *)
(* Python's None is the constant None: the sentinel in the queue, a worker *)
(* without a job, a timestamp not yet written.                             *)
(***************************************************************************)
EXTENDS Integers, Sequences, FiniteSets

CONSTANTS Job,       \* the jobs that are ever submitted (uuid4 ids: never reused)
          Thread,    \* the worker threads the process may ever spawn
          Workers,   \* ENCODER_WORKERS
          MaxQueue,  \* ENCODER_MAX_QUEUE, no limit when 0 or less
          Ttl,       \* ENCODER_JOB_TTL, in ticks of the clock
          MaxTime,   \* bound: the clock stops here
          MaxFatal,  \* bound: how many jobs may raise a BaseException
          None

ASSUME ConstantsAssumption ==
  /\ IsFiniteSet(Job) /\ IsFiniteSet(Thread)
  /\ Workers \in Int /\ MaxQueue \in Int /\ Ttl \in Int
  /\ MaxTime \in Nat /\ MaxFatal \in Nat
  /\ None \notin Job /\ None \notin Nat

VARIABLES
  jobs,        \* JobManager._jobs: the ids a client can look up
  queue,       \* JobManager._queue
  pending,     \* JobManager._pending
  running,     \* JobManager._running
  threads,     \* JobManager._threads
  status, finishedAt, error, cancel,  \* the fields of every Job object
  post,        \* where the POST /jobs call of every job is
  wpc, wjob, outcome,                 \* the locals of every worker thread
  shPc, shTodo, shPuts,               \* the locals of shutdown()
  sweepNow,    \* the local `now` of sweep(), None outside it
  now          \* the wall clock

jobVars      == <<status, finishedAt, error, cancel>>
managerVars  == <<jobs, queue, pending, running, threads>>
workerVars   == <<wpc, wjob, outcome>>
shutdownVars == <<shPc, shTodo, shPuts>>
vars == <<managerVars, jobVars, post, workerVars, shutdownVars, sweepNow, now>>

Terminal == {"completed", "failed", "cancelled"}
Status   == {"queued", "running"} \cup Terminal
Outcome  == Terminal \cup {"fatal"}

\* A POST is "new" before submit(), "stored" between the lock and the put,
\* "submitted" between submit() and the lookup; the rest are its replies:
\* 202, 503 service_unavailable and 503 queue_full.
Post == {"new", "stored", "submitted", "accepted", "unavailable", "full"}

\* Before start() a thread is "unborn"; "exited" took a sentinel, "died" a
\* BaseException; a worker is at one of the Busy points while it owns a job.
Busy == {"dec", "claim", "run", "finish", "explain", "publish"}
WorkerPc == {"unborn", "get", "exited", "died"} \cup Busy

TypeOK ==
  /\ jobs \subseteq Job
  /\ queue \in Seq(Job \cup {None})
  /\ pending \in Int
  /\ running \in BOOLEAN
  /\ threads \subseteq Thread
  /\ status \in [Job -> Status]
  /\ finishedAt \in [Job -> Nat \cup {None}]
  /\ error \in [Job -> {"none", "not_accepted", "raised"}]
  /\ cancel \in [Job -> BOOLEAN]
  /\ post \in [Job -> Post]
  /\ wpc \in [Thread -> WorkerPc]
  /\ wjob \in [Thread -> Job \cup {None}]
  /\ outcome \in [Thread -> Outcome]
  /\ shPc \in {"idle", "cancel", "stop"}
  /\ shTodo \subseteq Job
  /\ shPuts \in Nat
  /\ sweepNow \in Nat \cup {None}
  /\ now \in Nat

Init ==
  /\ jobs = {} /\ queue = <<>> /\ pending = 0 /\ running = FALSE /\ threads = {}
  /\ status = [j \in Job |-> "queued"]
  /\ finishedAt = [j \in Job |-> None]
  /\ error = [j \in Job |-> "none"]
  /\ cancel = [j \in Job |-> FALSE]
  /\ post = [j \in Job |-> "new"]
  /\ wpc = [t \in Thread |-> "unborn"]
  /\ wjob = [t \in Thread |-> None]
  /\ outcome = [t \in Thread |-> "completed"]
  /\ shPc = "idle" /\ shTodo = {} /\ shPuts = 0
  /\ sweepNow = None /\ now = 0

-----------------------------------------------------------------------------
(* The lifespan: start() and shutdown(). *)

NumWorkers == IF Workers > 1 THEN Workers ELSE 1

\* start(): a second call while running returns at once.  The model runs out
\* of restarts when it runs out of unborn threads.
Start ==
  /\ ~running /\ shPc = "idle"
  /\ \E new \in SUBSET {t \in Thread : wpc[t] = "unborn"} :
       /\ Cardinality(new) = NumWorkers
       /\ threads' = threads \cup new
       /\ wpc' = [t \in Thread |-> IF t \in new THEN "get" ELSE wpc[t]]
  /\ running' = TRUE
  /\ UNCHANGED <<jobs, queue, pending, jobVars, post, wjob, outcome,
                 shutdownVars, sweepNow, now>>

\* Mutant: the snapshot takes the running jobs only.
UnfinishedRunning == {j \in jobs : status[j] = "running"}
Unfinished == {j \in jobs : status[j] \notin Terminal}

\* shutdown(), the critical section: stop accepting and take the snapshot.
ShutdownBegin ==
  /\ running /\ shPc = "idle"
  /\ running' = FALSE
  /\ shTodo' = Unfinished
  /\ shPc' = "cancel"
  /\ UNCHANGED <<jobs, queue, pending, threads, jobVars, post, workerVars,
                 shPuts, sweepNow, now>>

\* Mutant: a job that still waits is marked on the spot.
ShutdownCancelAndMark(j) ==
  /\ shPc = "cancel" /\ j \in shTodo
  /\ cancel' = [cancel EXCEPT ![j] = TRUE]
  /\ status' = [status EXCEPT ![j] = IF @ = "queued" THEN "cancelled" ELSE @]
  /\ shTodo' = shTodo \ {j}
  /\ UNCHANGED <<managerVars, finishedAt, error, post, workerVars,
                 shPc, shPuts, sweepNow, now>>

\* The loop over the snapshot, outside the lock.
ShutdownCancel(j) ==
  /\ shPc = "cancel" /\ j \in shTodo
  /\ cancel' = [cancel EXCEPT ![j] = TRUE]
  /\ shTodo' = shTodo \ {j}
  /\ UNCHANGED <<managerVars, status, finishedAt, error, post, workerVars,
                 shPc, shPuts, sweepNow, now>>

\* Mutant: only the idle workers get a sentinel.
SentinelsForIdle == Cardinality({t \in threads : wpc[t] = "get"})

\* One sentinel for every thread in the list, the dead ones included.
Sentinels == Cardinality(threads)

ShutdownStop ==
  /\ shPc = "cancel" /\ shTodo = {}
  /\ shPc' = "stop"
  /\ shPuts' = Sentinels
  /\ UNCHANGED <<managerVars, jobVars, post, workerVars, shTodo, sweepNow, now>>

ShutdownPut ==
  /\ shPc = "stop" /\ shPuts > 0
  /\ queue' = Append(queue, None)
  /\ shPuts' = shPuts - 1
  /\ UNCHANGED <<jobs, pending, running, threads, jobVars, post, workerVars,
                 shPc, shTodo, sweepNow, now>>

\* Mutant: what is left in the queue is dropped.
ShutdownReturnDrained ==
  /\ shPc = "stop" /\ shPuts = 0
  /\ shPc' = "idle"
  /\ threads' = {} /\ queue' = <<>>
  /\ UNCHANGED <<jobs, pending, running, jobVars, post, workerVars,
                 shTodo, shPuts, sweepNow, now>>

\* join(timeout=2.0) may give up on a live thread, so nothing is awaited.
ShutdownReturn ==
  /\ shPc = "stop" /\ shPuts = 0
  /\ shPc' = "idle"
  /\ threads' = {}
  /\ UNCHANGED <<jobs, queue, pending, running, jobVars, post, workerVars,
                 shTodo, shPuts, sweepNow, now>>

-----------------------------------------------------------------------------
(* POST /jobs: submit(), then the lookup that decides between 202 and 503. *)

BacklogFull == MaxQueue > 0 /\ pending >= MaxQueue

\* submit() on a stopped manager: a FAILED job that is never stored.
SubmitRejected(j) ==
  /\ post[j] = "new" /\ ~running
  /\ status' = [status EXCEPT ![j] = "failed"]
  /\ finishedAt' = [finishedAt EXCEPT ![j] = now]
  /\ error' = [error EXCEPT ![j] = "not_accepted"]
  /\ post' = [post EXCEPT ![j] = "submitted"]
  /\ UNCHANGED <<managerVars, cancel, workerVars, shutdownVars, sweepNow, now>>

\* QueueFull is raised before the job is stored.
SubmitFull(j) ==
  /\ post[j] = "new" /\ running /\ BacklogFull
  /\ post' = [post EXCEPT ![j] = "full"]
  /\ UNCHANGED <<managerVars, jobVars, workerVars, shutdownVars, sweepNow, now>>

SubmitStore(j) ==
  /\ post[j] = "new" /\ running /\ ~BacklogFull
  /\ pending' = pending + 1
  /\ jobs' = jobs \cup {j}
  /\ post' = [post EXCEPT ![j] = "stored"]
  /\ UNCHANGED <<queue, running, threads, jobVars, workerVars, shutdownVars,
                 sweepNow, now>>

\* The put follows the critical section, without the lock.
SubmitPut(j) ==
  /\ post[j] = "stored"
  /\ queue' = Append(queue, j)
  /\ post' = [post EXCEPT ![j] = "submitted"]
  /\ UNCHANGED <<jobs, pending, running, threads, jobVars, workerVars,
                 shutdownVars, sweepNow, now>>

\* post_job answers 503 service_unavailable when the job is not in the store.
Reply(j) ==
  /\ post[j] = "submitted"
  /\ post' = [post EXCEPT ![j] = IF j \in jobs THEN "accepted" ELSE "unavailable"]
  /\ UNCHANGED <<managerVars, jobVars, workerVars, shutdownVars, sweepNow, now>>

\* Mutant: a queued job gives its slot back at once, and again in Dec.
DeleteFreesSlot(j) ==
  /\ post[j] = "accepted" /\ j \in jobs
  /\ jobs' = jobs \ {j}
  /\ cancel' = [cancel EXCEPT ![j] = TRUE]
  /\ pending' = IF status[j] = "queued" THEN pending - 1 ELSE pending
  /\ UNCHANGED <<queue, running, threads, status, finishedAt, error, post,
                 workerVars, shutdownVars, sweepNow, now>>

\* Mutant: only a job that still waits is cancelled.
DeleteLeavesRunning(j) ==
  /\ post[j] = "accepted" /\ j \in jobs
  /\ jobs' = jobs \ {j}
  /\ cancel' = [cancel EXCEPT ![j] = status[j] = "queued"]
  /\ UNCHANGED <<queue, pending, running, threads, status, finishedAt, error,
                 post, workerVars, shutdownVars, sweepNow, now>>

\* delete(): pop and cancel in one critical section.  A client knows the id of
\* its job from the 202 only.
Delete(j) ==
  /\ post[j] = "accepted" /\ j \in jobs
  /\ jobs' = jobs \ {j}
  /\ cancel' = [cancel EXCEPT ![j] = TRUE]
  /\ UNCHANGED <<queue, pending, running, threads, status, finishedAt, error,
                 post, workerVars, shutdownVars, sweepNow, now>>

-----------------------------------------------------------------------------
(* _worker: one action per critical section, queue operation and field. *)

\* Queue.get(): a sentinel ends the thread.
Get(t) ==
  /\ wpc[t] = "get" /\ queue # <<>>
  /\ queue' = Tail(queue)
  /\ IF Head(queue) = None
       THEN /\ wpc' = [wpc EXCEPT ![t] = "exited"]
            /\ wjob' = wjob
       ELSE /\ wpc' = [wpc EXCEPT ![t] = "dec"]
            /\ wjob' = [wjob EXCEPT ![t] = Head(queue)]
  /\ UNCHANGED <<jobs, pending, running, threads, jobVars, post, outcome,
                 shutdownVars, sweepNow, now>>

\* The slot is freed before the job is claimed.
Dec(t) ==
  /\ wpc[t] = "dec"
  /\ pending' = pending - 1
  /\ wpc' = [wpc EXCEPT ![t] = "claim"]
  /\ UNCHANGED <<jobs, queue, running, threads, jobVars, post, wjob, outcome,
                 shutdownVars, sweepNow, now>>

\* Mutant: a job is claimed if it is still in the store.
ClaimableIfStored(j) == j \in jobs
Claimable(j) == ~cancel[j]

\* _claim() under the lock: a cancelled job goes straight to its last writes.
Claim(t) ==
  /\ wpc[t] = "claim"
  /\ IF Claimable(wjob[t])
       THEN /\ outcome' = outcome
            /\ wpc' = [wpc EXCEPT ![t] = "run"]
            /\ status' = [status EXCEPT ![wjob[t]] = "running"]
       ELSE /\ outcome' = [outcome EXCEPT ![t] = "cancelled"]
            /\ wpc' = [wpc EXCEPT ![t] = "finish"]
            /\ status' = status
  /\ UNCHANGED <<managerVars, finishedAt, error, cancel, post, wjob,
                 shutdownVars, sweepNow, now>>

\* fn(job) returns or raises: HandBrakeCancelled comes from a set event only,
\* a job may fail or finish whether it is cancelled or not, and a
\* BaseException will kill the thread.
Return(t, o) ==
  /\ wpc[t] = "run"
  /\ o = "cancelled" => cancel[wjob[t]]
  /\ o = "fatal" => Cardinality({u \in Thread : outcome[u] = "fatal"}) < MaxFatal
  /\ outcome' = [outcome EXCEPT ![t] = o]
  /\ wpc' = [wpc EXCEPT ![t] = "finish"]
  /\ UNCHANGED <<managerVars, jobVars, post, wjob, shutdownVars, sweepNow, now>>

\* Mutant: the branch for a BaseException explains nothing.
AfterFinishedAtSilent(t) == IF outcome[t] = "failed" THEN "explain" ELSE "publish"
AfterFinishedAt(t) ==
  IF outcome[t] \in {"failed", "fatal"} THEN "explain" ELSE "publish"

\* job.finished_at = time.time(), in every branch the first of the writes.
WriteFinishedAt(t) ==
  /\ wpc[t] = "finish"
  /\ finishedAt' = [finishedAt EXCEPT ![wjob[t]] = now]
  /\ wpc' = [wpc EXCEPT ![t] = AfterFinishedAt(t)]
  /\ UNCHANGED <<managerVars, status, error, cancel, post, wjob, outcome,
                 shutdownVars, sweepNow, now>>

\* job.error = str(exc), in the two failing branches.
WriteError(t) ==
  /\ wpc[t] = "explain"
  /\ error' = [error EXCEPT ![wjob[t]] = "raised"]
  /\ wpc' = [wpc EXCEPT ![t] = "publish"]
  /\ UNCHANGED <<managerVars, status, finishedAt, cancel, post, wjob, outcome,
                 shutdownVars, sweepNow, now>>

\* Mutant: a BaseException has no status of its own.
FinalStatusRaw(t) == outcome[t]
FinalStatus(t) == IF outcome[t] = "fatal" THEN "failed" ELSE outcome[t]

\* Mutant: a worker leaves its loop after a job that failed.
AfterJobFragile(t) ==
  CASE outcome[t] = "failed" -> "exited" [] outcome[t] = "fatal" -> "died" [] OTHER -> "get"
AfterJob(t) == IF outcome[t] = "fatal" THEN "died" ELSE "get"

\* The terminal status, then the next job; after a BaseException the thread
\* is gone and nothing replaces it.
WriteStatus(t) ==
  /\ wpc[t] = "publish"
  /\ status' = [status EXCEPT ![wjob[t]] = FinalStatus(t)]
  /\ wjob' = [wjob EXCEPT ![t] = None]
  /\ wpc' = [wpc EXCEPT ![t] = AfterJob(t)]
  /\ UNCHANGED <<managerVars, finishedAt, error, cancel, post, outcome,
                 shutdownVars, sweepNow, now>>

-----------------------------------------------------------------------------
(* The sweeper thread and the clock. *)

\* sweep() reads the clock before it takes the lock.
SweepRead ==
  /\ running /\ sweepNow = None
  /\ sweepNow' = now
  /\ UNCHANGED <<managerVars, jobVars, post, workerVars, shutdownVars, now>>

\* Mutant: finished_at alone tells that a job is over.
ExpiredByTime(j) == finishedAt[j] # None /\ sweepNow - finishedAt[j] >= Ttl

Expired(j) ==
  /\ status[j] \in Terminal
  /\ finishedAt[j] # None
  /\ sweepNow - finishedAt[j] >= Ttl

SweepEvict ==
  /\ sweepNow # None
  /\ jobs' = {j \in jobs : ~Expired(j)}
  /\ sweepNow' = None
  /\ UNCHANGED <<queue, pending, running, threads, jobVars, post, workerVars,
                 shutdownVars, now>>

Tick ==
  /\ now < MaxTime
  /\ now' = now + 1
  /\ UNCHANGED <<managerVars, jobVars, post, workerVars, shutdownVars, sweepNow>>

-----------------------------------------------------------------------------

Shutdown == \/ ShutdownBegin \/ ShutdownStop \/ ShutdownPut \/ ShutdownReturn
            \/ \E j \in Job : ShutdownCancel(j)

Handler(j) == \/ SubmitRejected(j) \/ SubmitFull(j) \/ SubmitStore(j)
              \/ SubmitPut(j) \/ Reply(j)

\* What a worker does between two calls of a job function.
WorkerStep(t) == \/ Get(t) \/ Dec(t) \/ Claim(t)
                 \/ WriteFinishedAt(t) \/ WriteError(t) \/ WriteStatus(t)

Next ==
  \/ Start \/ Shutdown
  \/ \E j \in Job : Handler(j) \/ Delete(j)
  \/ \E t \in Thread : WorkerStep(t) \/ \E o \in Outcome : Return(t, o)
  \/ SweepRead \/ SweepEvict \/ Tick

Spec == Init /\ [][Next]_vars

\* The threads are scheduled, the handler of a request runs to its end, and
\* so does shutdown() once it has begun.  Nobody has to submit, delete or
\* stop anything.  A job function returns once its job is cancelled.
Fairness ==
  /\ \A t \in Thread : WF_vars(WorkerStep(t))
  /\ \A t \in Thread : WF_vars(wjob[t] # None /\ cancel[wjob[t]]
                               /\ \E o \in Terminal : Return(t, o))
  /\ \A j \in Job : WF_vars(SubmitPut(j) \/ Reply(j))
  /\ WF_vars(shPc # "idle" /\ Shutdown)

FairSpec == Spec /\ Fairness

\* Every encode ends, by itself or at its timeout.
EncodesEnd == \A t \in Thread : WF_vars(\E o \in Terminal : Return(t, o))

EndingSpec == FairSpec /\ EncodesEnd

-----------------------------------------------------------------------------
(* Safety. *)

Enqueued == {"submitted", "accepted", "unavailable"}
InQueue(j) == \E i \in 1..Len(queue) : queue[i] = j
Owns(t, j) == wjob[t] = j
Accepted(j) == post[j] \in {"stored"} \cup Enqueued /\ status[j] \notin Terminal

\* The jobs that wait for a worker: about to be put, in the queue, or taken
\* but not yet counted out.
Waiting == {j \in Job : \/ post[j] = "stored" \/ InQueue(j)
                        \/ \E t \in Thread : Owns(t, j) /\ wpc[t] = "dec"}

\* _pending is a counter kept apart from the queue it counts, raised before the
\* put and lowered after the get: it must agree with the jobs that wait at every
\* moment, or submit() refuses work it has room for or exceeds its limit.
PendingCountsWaiting ==
  /\ pending = Cardinality(Waiting)
  /\ MaxQueue > 0 => pending <= MaxQueue

\* shutdown()'s docstring: there is no window where a job is enqueued but
\* escapes the snapshot.  When the loop over the snapshot is over, every job
\* that was accepted and has not ended carries the cancellation.
ShutdownReachesEveryJob ==
  ~running /\ shPc # "cancel" => \A j \in Job : Accepted(j) => cancel[j]

\* A job that was accepted and has not ended is in the hands of its handler,
\* of the queue or of a live worker: no exit of a worker drops it.
NoJobLost ==
  \A j \in Job : Accepted(j) =>
    \/ post[j] = "stored" \/ InQueue(j)
    \/ \E t \in Thread : Owns(t, j) /\ wpc[t] \in Busy

\* ENCODER_WORKERS bounds the encodes that are still wanted, across restarts
\* too: shutdown() waits two seconds only, so an old worker may outlive it and
\* share the queue with the new ones, but one sentinel per old worker is ahead
\* of every new job.
EncodesWithinWorkers ==
  Cardinality({t \in Thread : wpc[t] = "run" /\ ~cancel[wjob[t]]}) <= NumWorkers

\* The worker writes finished_at and error before the terminal status, which
\* sweep() and the lock-free GET /jobs/{id} rely on.
TerminalIsComplete ==
  \A j \in Job : status[j] \in Terminal =>
    finishedAt[j] # None /\ (status[j] = "failed" => error[j] # "none")

\* Job's docstring: only the worker that owns a job writes its fields; submit()
\* does for a job nobody else has seen.
WrittenByOwner(j) ==
  <<status[j], finishedAt[j], error[j]>>' # <<status[j], finishedAt[j], error[j]>>
  => post[j] = "new" \/ \E t \in Thread : \A u \in Thread : Owns(u, j) <=> u = t

SingleWriter == [][\A j \in Job : WrittenByOwner(j)]_vars

\* A job goes by its client's DELETE, or when it has been over for its TTL.
GoneRightly(j) == cancel'[j] \/ (status[j] \in Terminal /\ now - finishedAt[j] >= Ttl)

\* A client that did not delete its job finds it until it has been finished
\* for ENCODER_JOB_TTL, although sweep() reads the clock before it takes the
\* lock and the fields without the worker's knowledge.
EvictedOnlyWhenOld == [][\A j \in jobs \ jobs' : GoneRightly(j)]_vars

Refused(j) == post[j] = "full" \/ error[j] = "not_accepted"

\* The client's view of the manager.
Phase(j) ==
  CASE post[j] = "new" -> "unknown"
    [] Refused(j) -> "refused"
    [] j \in Waiting -> "waiting"
    [] status[j] = "running" -> "encoding"
    [] status[j] \in Terminal /\ ~Refused(j) -> status[j]
    [] OTHER -> "taken"

Lifecycle == INSTANCE JobLifecycle WITH
  Workers <- NumWorkers, phase <- [j \in Job |-> Phase(j)],
  revoked <- {j \in Job : cancel[j]}, open <- running

\* The manager keeps the promises of JobLifecycle: the limit of the backlog,
\* no refusal without a reason, a job deleted while it waits is never started,
\* an outcome is final and "cancelled" only for a cancelled job.
ImplementsLifecycle == Lifecycle!LifecycleSpec

-----------------------------------------------------------------------------
(* Liveness. *)

\* If encodes end, every accepted job is encoded to its end while the manager
\* runs: the queue leaves none behind, nor does a job that fails.  A worker that
\* dies is not replaced, so nothing is promised after a BaseException.
AcceptedJobsEnd ==
  EncodesEnd => \A j \in Job :
    Accepted(j) ~> \/ status[j] \in Terminal \/ ~running
                   \/ \E t \in Thread : wpc[t] = "died"

\* A job that runs when it is deleted ends although nobody waits for it.
DeletedJobsEnd ==
  \A j \in Job : (j \notin jobs /\ status[j] = "running") ~> status[j] \in Terminal

\* shutdown() leaves no worker behind, in time: the encodes are cancelled and
\* there is a sentinel for every thread.
WorkersExit ==
  ~running ~> (running \/ \A t \in Thread : wpc[t] \in {"unborn", "exited", "died"})

-----------------------------------------------------------------------------
(* What the comments say and the code does not do. *)

\* shutdown()'s docstring lets the sentinels queue up behind pending work, and
\* submit() refuses jobs so that none stays QUEUED forever.  But the put of a
\* job is outside the lock: it may come after the sentinels.
SubmittedJobsEnd == \A j \in Job : Accepted(j) ~> status[j] \in Terminal

\* post_job takes a job that is not in the store for one that submit() refused.
\* But sweep() may have evicted a job that ran.
UnavailableWasRefused ==
  \A j \in Job : post[j] = "unavailable" => error[j] = "not_accepted"
=============================================================================
