# A verification development of the HandBrake encoder service

The program is a FastAPI service (`src/app`) that accepts encode requests over
HTTP, queues them, and runs one HandBrakeCLI child per job in a small pool of
worker threads. This directory holds TLA+ models of its parts and of the whole, the TLC
configurations that check them, and theorems that the TLA+ proof system checks
for all values of the constants.

    tlasany M.tla                     parse
    tlc -config X.cfg M               model-check
    tlapm JobManagerProofs.tla        check the proofs, of each *Proofs module

`PROJECT.json` lists the components, the runs, the mutants every property is
measured against, the map from definitions to source lines, the divergences that
were found, the hazards, and the theorems.

## 1. The system

### 1.1 Components

| Component | Source | State | Operations |
|---|---|---|---|
| Job store and worker pool | `job_manager.py` `JobManager` | `_jobs`, `_queue`, `_pending`, `_running`, `_threads`; a `Job` object per job; a thread per worker | `start`, `shutdown`, `submit`, `get`, `delete`, `sweep`, `_claim`, `_worker` |
| Job view | `job_manager.py` `Job` | the fields of one job, with one writer and no lock | `set_eta`, `to_dict` |
| HTTP routes and lifespan | `main.py` | the sweeper and startup threads | `lifespan`, `health`, `post_job`, `get_job`, `delete_job` |
| Encode operation | `ops.py` | the staging file and its descriptor, the temporary preset file, the output path | `run_encode_job`, `_remove_partial` |
| HandBrake runner | `handbrake_runner.py` | the child, its stdout pipe, the watcher thread, the buffer of unparsed output | `run_encode`, `_watch_cancel`, `parse_progress_objects`, `build_encode_command`, `handbrake_info` |
| Encoder probes | `encoders.py` | `_cache`, `_preset_cache`, `_generation`, `_lock` | `available_encoders`, `encoder_presets`, `is_available`, `reset_cache` |
| Body size limit | `limits.py` | bytes received of a request | the ASGI `__call__` and its `receive` wrapper |
| Path rules | `paths.py` | none | `validate_source_path`, `derive_output_path`, `derive_staging_path` |
| Preset documents | `presets.py` | none | `find_preset`, `preset_encoder`, `preset_extension` |
| GPU detection | `gpu.py` | a cached name | `detect_gpu_name` |
| Configuration, request models | `config.py`, `models.py` | constants of the process | none |
| End-to-end check | `scripts/e2e_encode.py` | none | `check_health`, `submit`, `poll`, `main`: a client that asserts what the service promises |

### 1.2 How they interact

    client --POST /jobs--> main.post_job --submit(fn)--> JobManager._queue
                                                             |  get, claim
                                                             v
                    GET /jobs/{id}                    JobManager._worker
    client <----------------------- Job.to_dict              |  fn(job)
                                        ^                     v
                        set_eta,        |           ops.run_encode_job
                        progress, ...   +------------------- |  run_encode
                                                             v
    client --DELETE--> JobManager.delete            handbrake_runner.run_encode
                            |  cancel_event.set()            |  pipe, wait, kill
                            +------> _watch_cancel --kill--> HandBrakeCLI

* `post_job` calls `submit` and then looks the job up again: a job that is not in
  the store is answered with 503.
* `delete`, `shutdown` and the worker communicate through the job's
  `cancel_event` only. `delete` and `_claim` take the same lock.
* `shutdown` clears `_running` and takes its snapshot in one critical section,
  sets the events outside it, puts one sentinel for every thread and waits two
  seconds for each.
* The queue itself is used outside the lock: `put` after the critical section of
  `submit`, `get` before the one that decrements `_pending`.
* The worker's last writes to a job, and every write of the job function, are
  made without a lock. `to_dict` and `sweep` rely on their order.
* The worker thread drains the child's stdout; the watcher thread polls the child
  and the cancel event; both may wait for and kill the same child.
* `run_encode_job` claims a staging file with `O_EXCL`, keeps its descriptor open
  during the encode, compares identities, closes and renames.
* `health`, `post_job` and the thread that `lifespan` starts ask the same cached
  probes; `post_job` decides from their answers, and an empty answer may be a
  probe that failed.
* The middleware stands between the HTTP server and every route that reads a
  body: what `post_job` parses has passed it.
* `run_encode_job` repeats the checks of `post_job` on path and preset, much later.

### 1.3 What is hard, and what makes each component correct

* **Store and pool.** Races of submission with shutdown and deletion; a counter
  kept apart from the queue it counts; workers that outlive `shutdown` and meet
  the next `start`; a worker killed by a `BaseException`. Correct when
  `_pending` counts exactly what waits, nothing that was accepted is lost, a
  revoked job is never started, shutdown reaches every job, a job has one writer,
  a finished job is found for its TTL, and every job and every worker ends.
* **Job view.** Two processes reading and writing field by field. Correct when
  a terminal reply is complete and no reply shows an estimate that is too old.
* **Encode operation.** Any system call fails, the process dies anywhere, the
  staging file is replaced. Correct when only whole files of the job are
  published, nothing is left behind, the source is never written to.
* **Runner.** A cancel that races a clean exit, a child that blocks on a full
  pipe, one that stalls, two threads reaping one child. Correct when a finished
  encode is kept, no child is left behind, the reason of a failure is kept, and
  a cancelled encode returns.
* **Probes.** Concurrent probes with a reset in between. Correct when no answer is
  older than the reset before the question.
* **Progress stream.** Objects over several lines with nested braces, strings and
  noise, in a buffer with a cap. Correct when every report is found, noise hides a
  bounded number of them, and no estimate outlives the report it came with.
* **Admission.** A ladder of refusals of which some rest on cached probes, and
  checks that are made twice with hours between them. Correct when every refusal
  is true, a refused request leaves no job behind, what was accepted can be
  encoded, and nothing outside the roots is touched, whatever moves meanwhile.
* **Body limit.** Two layers and an application that may receive again. Correct
  when the application never holds more than the limit, never takes a cut body
  for a whole one, and no body within the limit is refused.
* **The whole.** The manager files a job under what the job function made of what
  `run_encode` made of HandBrakeCLI, with one event in common. Correct when the
  status tells the truth about files and processes.

## 2. The modules

| Module | Models | Kind |
|---|---|---|
| `JobManager` | `JobManager`, `post_job`'s submission and reply, the lifespan, the sweeper | state machine, one action per critical section, queue operation and field write |
| `JobLifecycle` | what the manager promises to clients | abstract specification |
| `JobView` | `to_dict` and `set_eta` against the worker | state machine, one action per attribute access |
| `HandBrakeRunner` | `run_encode`, `_watch_cancel`, the child (external) | state machine with liveness |
| `EncodeJob` | `run_encode_job`, `_remove_partial`, the file system around them (external) | state machine with failures at every step |
| `EncoderService` | the composition: manager, job function and HandBrake, and what `scripts/e2e_encode.py` asserts of it | state machine that extends `EncodeJob` and instantiates `JobManager` and `HandBrakeRunner` |
| `ProgressStream` | the loop over stdout with `parse_progress_objects` and `_remaining_seconds` | algorithm as a recursive function, driven by a printer (external) |
| `ProbeCache` | the two caches of `encoders.py` | state machine |
| `BodyLimit` | `BodySizeLimitMiddleware` | state machine |
| `Admission` | `health`, `post_job`, `handbrake_info`, the parsers of `encoders.py`, `paths.py`, `presets.py`, the checks of `run_encode_job` | state machine that extends `ProbeCache` and `BodyLimit` |
| `MCJobManager`, `MCAdmission` | symmetry; the paths of the instance | instances |
| `JobManagerProofs`, `JobViewProofs`, `HandBrakeRunnerProofs`, `EncodeJobProofs`, `EncoderServiceProofs`, `ProgressStreamProofs`, `AdmissionProofs` | theorems about the module of that name | proofs |
| `RequestProofs` | theorems about `ProbeCache` and `BodyLimit`, which `Admission` extends | proofs |

### 2.1 JobManager

Variables keep the names of the attributes (`jobs`, `queue`, `pending`,
`running`, `threads`; `status`, `finishedAt`, `error`, `cancel` for the fields
of all jobs). The other variables are program counters and locals: `post` for the
POST call of every job, `wpc`, `wjob`, `outcome` for every worker, `shPc`,
`shTodo`, `shPuts` for `shutdown`, `sweepNow` for `sweep`.

| Code | Actions |
|---|---|
| `start` | `Start`: the lifespan calls it before it serves, so it is one step |
| `shutdown` | `ShutdownBegin` (lock), `ShutdownCancel` per job, `ShutdownStop`, `ShutdownPut` per sentinel, `ShutdownReturn` (joins that may give up) |
| `submit` | `SubmitRejected`, `SubmitFull`, `SubmitStore` (lock), then `SubmitPut` |
| `post_job` after `submit` | `Reply` |
| `delete` | `Delete` |
| `_worker` | `Get`, `Dec` (lock), `Claim` (lock), `Return` (what the job function does), `WriteFinishedAt`, `WriteError`, `WriteStatus` |
| `sweep` | `SweepRead` (the clock, before the lock), `SweepEvict` (lock) |

A job function is `Return(t, o)`: it completes, fails, raises
`HandBrakeCancelled` if its event is set, or raises a `BaseException`, after
which the thread is gone. `EncodeJob` and `HandBrakeRunner` model what it does.

Abstractions: a dictionary of jobs is a set of ids; the progress fields are in
`JobView`; the lookup of `GET` reads only and is left out; `SweepEvict`'s loop is
one step, although the worker may finish one job while the sweep looks at
another (it would be found by the next sweep); the clock does not go back (`time.time()` could).

### 2.2 JobLifecycle and the refinement

`JobLifecycle` has three variables: the phase of each job, the revoked jobs,
whether the doors are open. It says: nobody is refused without a reason (closed,
or `MaxQueue` jobs wait); a revoked job that has not begun never begins; the
encodes still wanted never outnumber the workers; an outcome is final, and
`cancelled` only for a revoked job; the doors reopen only when everything from
before is revoked. `JobManager!Phase` computes the phase from the handler's
position, the queue, the workers' positions and the status;
`ImplementsLifecycle` is the abstract specification under this mapping.

### 2.3 The other modules

* `JobView`: worker and reader alternate at the granularity of one attribute
  load or store, as the GIL permits. `to_dict` loads `eta_updated_at` and
  `status` twice, and so does the model. An estimate is represented by the
  time it was made.
* `HandBrakeRunner`: `pc` is the worker in `run_encode`, `watcher` the other
  thread. The pipe is bounded: the child blocks when it is full. The waits are
  untimed: a wait with a timeout may expire at any moment while the child lives.
  That holds of the ten seconds after a kill too (`Outlives`): SIGKILL takes effect
  in the end, not always in time, and run_encode then ends as `unreaped`.
* `EncodeJob`: a name is absent, or leads to `ours` (the inode that was claimed) or
  to a `foreign` file, or is a link to one of these or to the source. `Leads` follows
  a link, as `os.stat` and the open of HandBrakeCLI do; `os.replace` and `os.remove`
  do not. Every system call may fail, `Crash` may happen at every step, `Swap` and
  `Plant` are other processes in the media directory, and `Replacements` is what they
  may put at the staging path. HandBrakeCLI opens its output some time after Popen
  (`OpenOutput`), also when `run_encode` has left it running (`child = "left"`); it
  succeeds only when it has opened it. `earlySwap` and `lateSwap` tell whether the
  staging file was replaced before HandBrakeCLI opened the path, and after the check.
* `ProbeCache`: the two critical sections of a lookup with the run of
  HandBrakeCLI between them, and `reset_cache`. Both caches have the same code
  shape and share lock and generation, so one action family models both, with one
  difference: the list of encoders is decoded strictly, so `available_encoders` can
  raise a `UnicodeDecodeError` that its handler does not catch (`ProbeRaises`), and
  `encoder_presets` replaces what is no text. `Admission` lets the first raise only.

### 2.4 EncoderService

One job, one worker thread. The module extends `EncodeJob`, whose variables are
the files and the position in `run_encode_job`, and instantiates the other two:

| Shared | How |
|---|---|
| the job's cancel event | `cancel[TheJob]` of the manager is `cancel` of `HandBrakeRunner`: `Delete` and `ShutdownCancel` set it, the watcher waits for it |
| the call of the job function | `Operate`: steps of `EncodeJob` are taken while the worker is at `run`; `Return` ends it, with `FiledAs` the handlers of `_worker` |
| the call of `run_encode` | `Drive`: steps of `HandBrakeRunner` are taken while `EncodeJob` is at `encode`; `EncodeEnds` is `EncodeReturns` or `EncodeRaises` by its verdict |
| HandBrakeCLI and the watcher | `Child`, `Watch`: on their own, from Popen on; `Opens` is the open of the output |
| what `run_encode` leaves | `EncodeEnds`: `child` is `left` if HandBrakeCLI is alive then, `gone` if not |

`Disturb` is the rest of the world: the staging file is swapped, a link is put at
the output path (whose name is known to those who hold the id, from the 202 on),
the process dies. Clients submit and delete. What the end-to-end script looks for
once it was told `completed` is the operator `Look`, required in every state from
then on, since the script may look at any time. The clock stands still and the sweep is left out: what it may evict is a question to `JobManager`, and
an eviction touches no file.

Three component specifications are implemented by this one: `JobManager`, where a
job function ends as `cancelled` only for a cancelled job (`ImplementsManager`),
`HandBrakeRunner` and `EncodeJob`. So the assumptions that the component models
make of each other are discharged here.

### 2.5 ProgressStream

A line is a sequence of characters of which the parser tells apart: braces
(`"open"`, `"close"`), quote, backslash, newline, `"o"` for a character that is
well-formed where it stands, `"x"` for one that is not, and one that stands for what
an object tells (its State, Working and the fields `_remaining_seconds` reads). `Scan`
is one round of the `for` loop of `parse_progress_objects`, with the flags
`in_string` and `escaped` as one field `at`; `Scanned` is the function from the number
of characters to the locals; `WellFormed` is what `json.loads` accepts of such a text. `Read` is one round of the loop of `run_encode`: only a line
with a `}` is parsed, objects found empty the buffer, the cap drops it.
The printer writes pretty-printed objects with a nested object and a string that
holds a brace or an escaped quote, and noise between them, quiet or stray.
`clean`, `whole`, `lost` and `last` are history for the properties. `whole` is decided
at the first line of an object, by what was printed before it, and nothing the loop
does later changes it: an object whose beginning the loop drops is still expected.

### 2.6 BodyLimit and Admission

`BodyLimit` keeps sizes only. `Receive(n, more)` is one call of
`limited_receive`, `Cut` the `http.disconnect` it answers instead, `Open` the
check of the `Content-Length`. After a cut the application may receive again.

`Admission` follows one request from its first byte to the worker. `at` is the
position in the route; each check that asks nobody is part of `Validate`, each
that asks a probe is a call of `ProbeCache` and an action that takes its answer
(`CheckEncoder`, `RefuseEncoder`, `CheckSpeed`, `ListEncoders`, `ListPresets`).
`Starter` is the thread that `lifespan` starts, `Move` changes where the source
path leads, `Plant` puts a link to the source at the output path of a job whose id
the 202 has told, and `Work` is `run_encode_job` up to its first system call that
changes something: the checks of path and preset, and the comparison of the output
with the source (`Collides`). `RequestRaises` is a probe that raises, a 500 for the
request. A request that was cut off may receive again until the application gives up
on it (`GiveUp`). A path is the sequence of its components after `realpath`; a preset
document is a sequence of leaves, folders and junk, and `IterPresets` walks it as
`iter_presets` does. HandBrakeCLI prints one `--help` and one preset list, with
the lines that could mislead a parser: another flag's values, a line of several
words, a blank, and unindented text after the block.

What `/health` told last is remembered in `listed`, which holds when what `/health` told
came from the cache with no other probe on its way, until the next reset.

## 3. The runs

Runs that pass:

| Run | Instance | Shows |
|---|---|---|
| `jm_one_worker` | 3 jobs, 1 worker, 2 threads (a restart), backlog 1, one `BaseException` | `TypeOK`, `PendingCountsWaiting`, `ShutdownReachesEveryJob`, `NoJobLost`, `EncodesWithinWorkers` |
| `jm_two_workers` | 2 jobs, 2 workers, backlog 1, TTL 1, times 0 to 2, one `BaseException` | `TerminalIsComplete`, `SingleWriter`, `EvictedOnlyWhenOld`, `ImplementsLifecycle` |
| `jm_live` | 2 jobs, 1 worker, no limit, one `BaseException` | `AcceptedJobsEnd`, `DeletedJobsEnd`, `WorkersExit` |
| `view` | estimates age in 1 tick, times 0 to 2 | `TerminalReplyIsComplete` |
| `runner` | 2 lines of output, a pipe of 1 | `TypeOK`, `CleanExitIsKept`, `NoOrphan`, `AbortKeepsItsCause`, `CancelledReturns`, `EncodeReturns` |
| `service` | 1 job, 1 worker, no output of HandBrakeCLI, a link to the source at the staging path | `TypeOK`, `PublishedIsWhole`, `ReplacementIsRefused`, `CleansUp`, `SourceSurvives`, `StatusIsTrue`, `ImplementsManager`, `CancelKillsHandBrake` |
| `progress` | a buffer of 26 characters, four messages, a line of noise between objects | `EveryObjectFound`, `LossIsBounded`, `EtaIsCurrent` |
| `post` | one client, the startup thread, 1 reset, bodies of up to 2 with a limit of 1, 4 paths, documents of up to two nodes with folders | `AdmissionTypeOK`, `NoStaleAnswer`, `BodyWithinLimit`, `WholeIsComplete`, `FittingIsServed`, `AcceptedIsRunnable`, `EncodedIsInside`, `PresetIsFirstLeaf`, `RefusedLeavesNoJob`, `RefusalsAreTrue` |

`service` has 535064 states and `post` 3.4 million. The properties of `EncodeJob`
are checked in `service`, those of `ProbeCache` and `BodyLimit` in `post`, where their
callers are the real ones.

What the larger properties say:

* `StatusIsTrue`: `completed` means that HandBrakeCLI exited with 0 and its whole
  output stands under the output path (or what somebody put there after the last
  check, or the claimed file that somebody kept away from HandBrakeCLI while it opened
  its output); `cancelled` means that the event was set, HandBrakeCLI did not succeed,
  nothing was published and nothing left behind, unless a removal failed; no
  HandBrakeCLI with a watcher runs on for a job that is over, unless it outlives its
  kill; and the script that is told `completed` finds output and source, unless
  HandBrakeCLI was made to write elsewhere.
* `ReplacementIsRefused`: another file, or a link to one, that takes the place of the
  staging file before the check is not published. The check follows links, so a link
  to the claimed file, moved elsewhere, passes it and is published as a link; the
  content is the encode all the same (`PublishedIsWhole`).
* `CleansUp`: a call that ends after the encode was begun has closed its descriptor,
  and what it leaves in spite of that has one of three reasons: a removal that failed,
  a close that failed and kept a handler from its removal, a HandBrakeCLI that was
  left running and opened its output afterwards.
* `SourceSurvives`: the source is written to only when a link to it stands at the
  staging path at the moment HandBrakeCLI opens it. `O_NOFOLLOW` guards the claim, not
  that open. No link at the output path, and none that comes later, does harm.
* `AcceptedIsRunnable`: the worker refuses an accepted job only when its path has
  changed since the route looked at it, or when the link of `Plant` is there.
* `CancelKillsHandBrake`: from DELETE or `shutdown` to the dead child and the
  terminal status, through the event, the watcher, SIGKILL, the end of `run_encode`
  and the handlers of `run_encode_job`.
* `LossIsBounded`: a stray brace or quote hides the reports that follow until the
  buffer is dropped, and no more of them than fit into it behind the stray noise, and
  the one with which it is dropped. A report takes five characters at least, stray
  noise three.
* `RefusalsAreTrue`: an invalid speed preset is refused only if the document has
  one, and after a `/health` that was well, an encoder only if it is not there, a
  path only if it is outside the roots or has changed.

Runs that are violated, each a divergence of the code from what its own comments
or its README say (section 5): `jm_late_put`, `view_raises`,
`runner_stalled`, `encode_job_leftover`.

### Bounds, and why they are enough

* *Jobs.* Three suffice for one in a worker, one in the queue and one that meets
  the limit of the backlog; two for the races of a job with another one.
* *Threads.* With one worker and two threads there is one restart, so an old
  worker that outlived `shutdown` shares the queue with a new one. With two
  workers two threads work at once. Threads are spent by restarts, which is the
  model's bound on restarts.
* *MaxFatal* is one: the death of the only worker, or of one of two.
* *Time.* With a TTL of one tick, two ticks let a job finish in the middle of a
  sweep and grow old afterwards. Where no property is about age the clock stands
  still (`MaxTime = 0`).
* *Runner.* Two lines through a pipe of one block the child once while one line
  is waiting; more lines repeat that.
* *Service.* One kind of replacement at the staging path, the link to the source: the
  one through which the source could be written to, which the check must not take for
  the claimed file. More kinds would take the temporal check past its time.
  `EncodeJob` by itself, with its five replacements and without the rest of the
  service, was checked for the same properties (3058 states), and the theorems are for
  any. One job: what jobs do to each other is checked in `JobManager`, and
  the files of two jobs have different names. The child prints nothing but may
  stall, end or die with its stdout open or closed; the pipe is the subject of
  `runner`. There is one life of the process, since nothing is persisted.
* *Progress.* Messages take 5 to 16 characters, so 26 hold one object and most of
  the next: the cap is met within an object, between two, and in noise. More noise
  in a row only fills the buffer sooner. 26 is the least cap that `CapAssumption`
  allows with one line of noise.
* *Post.* One client suffices, since requests share the caches only, and the
  startup thread is the other caller. One reset tells before from after; bodies
  of 2 against a limit of 1 are below, at and above it in one piece or two, and an empty
  last message may follow a cut. The
  documents hold each kind of defect before and after a good leaf, and in a folder.
* `jm_live` has one thread, hence one life of the manager: with two threads
  the temporal check takes more than four minutes. The one-job instance with a
  restart was also checked, with the same result.
* Symmetry is used for jobs and threads in runs of invariants and action
  properties only, never with liveness.
* Deadlock is not checked where the system stops: a process that is shut down or
  has died, a job that has ended. It is checked in `progress` and `post`.

### Fairness, and why the code justifies it

`JobManager!Fairness`: a worker thread takes its steps (`WF` per thread, the
operating system schedules it); a request handler in `submit` or `post_job` runs
to its end; so does `shutdown` once it has begun; a job function returns once
its job is cancelled, which `HandBrakeRunner!CancelledReturns` shows of
`run_encode`. Nothing is assumed of clients, of the sweeper or of `start`.
`AcceptedJobsEnd` also assumes that encodes end (`EncodesEnd`), stated in the
property itself, since a worker that never returns serves nobody else.

`HandBrakeRunner!FairSpec`: both threads are scheduled and SIGKILL takes effect.
The child owes nothing: it may stall for ever. `EncodeReturns` adds
`ChildWorks`, a child that prints and exits when the pipe lets it.

`EncoderService!ServiceFairness` assumes the same of the composition: the worker
thread goes on, whether it is in its loop, in the job function or in `run_encode`;
the watcher goes on; a killed child dies. That a job function returns once its
job is cancelled, assumed by `JobManager!Fairness`, is what `CancelKillsHandBrake`
shows of it.

## 4. The proofs

`JobManagerProofs` proves, for any finite sets of jobs and threads, any limits and
any times, from `ConstantsAssumption` (finite sets, integers, `None` is neither a
job nor a number):

| Theorem | States |
|---|---|
| `TypeCorrect` | `TypeOK` |
| `Invariance` | the inductive invariant `IInv` |
| `ShutdownReaches` | `ShutdownReachesEveryJob` |
| `OneWriter` | `SingleWriter` |
| `NothingLost` | `NoJobLost` |
| `TerminalLast` | `TerminalIsComplete` |
| `PendingCounts` | `PendingCountsWaiting` |
| `EvictedLate` | `EvictedOnlyWhenOld` |
| `WithinWorkers` | `EncodesWithinWorkers` |
| `KeepsPromises` | the manager implements `JobLifecycle`: `ImplementsLifecycle` |

None of these properties is inductive by itself. `IInv` adds to the types:

* `QueueInv`: the queue holds a job once, after its put and before its get, while
  it is `queued` and nobody owns it. Without it a get could give a job a second
  owner.
* `OwnerInv`: a worker owns a job exactly at its busy points, shares it with
  nobody, and the job was put before. `OneWriter` follows from it.
* `StatusInv`: an owned job is not terminal, and still `queued` before the claim.
* `ReachInv`: an accepted job that has not ended is in the store while the
  manager runs, or cancelled, or in the rest of the snapshot `shutdown` works
  through. `ShutdownReaches` is its last case without the snapshot. `delete`
  preserves it because it cancels in the section that removes, the sweep because
  it removes what is terminal, `shutdown` because it clears `_running` in the
  section that takes the snapshot.

`NothingLost` and `TerminalLast` each carry one more conjunct (`HeldInv`: a job is
with its handler, in the queue or owned; `WrittenInv`: what the owner has written
by the time it is at a point). `PendingCounts` rests on `WaitingStep`, which says
of every step that it adds one waiting job and one to the counter, removes one of
each, or changes neither; `SubmitPut` and `Get` move a job without changing
`Waiting`. The cardinalities come from the library's finite-set theorems.
`EvictedLate` needs that the time `sweep` has read is past (`SweepInv`).

`WithinWorkers` is about workers that outlive `shutdown` and meet the next `start`.
Each of them must find a sentinel before it finds a job that is still wanted.
`WorkersInv` has three parts. `CountInv` counts: the live workers are at most the
sentinels in the queue and those that are allowed beside them, which are the
configured number during a life and what `shutdown` has yet to put at its end.
`BehindInv` orders: behind a sentinel there is no job that is still wanted, for
everything accepted before it was cancelled when it was put; and while a worker has
such a job there is no sentinel left at all. `LivesInv` says that a life has as many
threads as workers were configured. When a worker runs a wanted job, `BehindInv`
leaves no sentinel and `CountInv` the configured number. The lemmas about
the sentinels of a queue with an element more, or one less at its head, are stated
once and cited by each step.

`KeepsPromises` shows that the initial states are those of `JobLifecycle` and that every
step is one of its steps under `Phase`, or none. It uses `WorkersInv` for the limit on
the encodes, `PendingCounts` for the limit on what waits, and `LifeInv`: a job that
was refused is never stored, `running` is said of a job while its owner is past the
claim, and `cancelled` of a revoked job only.

`HandBrakeRunnerProofs`, from `RunnerAssumption` (the pipe holds a line):
`CleanExitKept`, `NoneOrphaned`, `CauseKept` and `RunnerTypeCorrect`. The
invariant says that the child is dead past the last wait (`ReapedInv`), that it was
killed before the worker waits its ten seconds (`KillInv`), that the
timeout and the verdict come after the end of stdout (`PathInv`), and that a child
once dead keeps its exit code, so what was judged stays true (`ReturnInv`).

`EncodeJobProofs`, for any `Replacements`: `WholeOrNothing`, `ReplacementRefused`,
`Cleaned`, `SourceSafe` and `EncodeJobTypeCorrect`. `ChildInv` says when HandBrakeCLI
runs and what it may have opened. `WholeInv` follows the claimed
inode under both names: HandBrakeCLI writes to it, if it was there to be opened, and has
written all of it when `run_encode` returns. `SwapInv` says that what stands at the
staging path after the check was checked, or came later, and that the source was opened
only through a link put there before. `CleanInv` orders the way out; what it allows at
the staging path then is there because a child that was left opened it.

`EncoderServiceProofs`, from `ServiceAssumption` (`None` is neither the job nor a
number, the pipe holds a line), for any output and pipe:

| Theorem | States |
|---|---|
| `ServiceRunsHandBrake` | the service implements `HandBrakeRunner` |
| `ServiceRunsEncodeJob` | the service implements `EncodeJob` |
| `ServiceImplementsManager` | the service implements `JobManager`: `ImplementsManager` |
| `ServiceKeepsPromises` | the service implements `JobLifecycle` |
| `StatusTold` | `StatusIsTrue` |

Every step of the service is one of the manager's, a `Return`, or leaves the
manager alone (`StepCases`). `Return` is the step that needs an invariant of
another component: the manager allows `cancelled` for a cancelled job only, and
that is `CleanExitIsKept` of `run_encode`. Through the three implementations the
inductive invariants of `JobManagerProofs`, `HandBrakeRunnerProofs` and
`EncodeJobProofs` hold of the service (`Components`). What is left for
`StatusTold` is how they are linked (`LinkInv`): a job is `running` while its
function runs, a verdict is given when the function has ended and is kept
(`WorkerInv`); `run_encode` has returned when the function is past its call, and
what stands at the output path was said by it to be well (`EncodeInv`).

`RequestProofs` has the theorems about the two components of `Admission`. Of
`ProbeCache`, from `ProbeAssumption` (the number of resets is bounded): `NeverStale`
and `ProbeTypeCorrect`. What is cached is of the present generation (`CacheInv`), and
a caller stores under the generation its call began in (`CallInv`). Of `BodyLimit`,
from `BodyAssumption` (integers; no length is no integer), for every limit and body:
`BodyStaysWithinLimit`, `WholeBodyIsComplete`, `FittingBodyIsServed`,
`BodyTypeCorrect`. The strengthening ties what the middleware has counted to what the
application has been given.

`JobViewProofs`, from `ViewAssumption`: `TerminalReplyComplete` and
`ViewTypeCorrect`. The reader's copy of a terminal status was loaded after the
worker's last writes to the other fields, and the fields it loads later are final.

`AdmissionProofs`, from `AdmissionAssumption` and the assumptions of the two
components, for any paths, body limit and number of resets, and the documents that the
module defines:

| Theorem | States |
|---|---|
| `AdmissionTypeCorrect` | `AdmissionTypeOK` |
| `UsesComponents` | every step is one of `ProbeCache`'s or none, and of `BodyLimit`'s or none |
| `ComponentsHold` | `NoStaleAnswer`, `BodyWithinLimit`, `WholeIsComplete`, `FittingIsServed` hold here |
| `AcceptedRuns` | `AcceptedIsRunnable` |
| `EncodesInside` | `EncodedIsInside` |
| `EncodesFirstLeaf` | `PresetIsFirstLeaf` |
| `RefusesWithoutJob` | `RefusedLeavesNoJob` |
| `RefusesTruly` | `RefusalsAreTrue` |

`UsesComponents` lets the invariants of `RequestProofs` be used as they are. Of its own,
the inductive invariant `AInv` says that a job has the preset and the path that the
route has checked, unless the path has changed since (`CheckedInv`; so the worker's
own checks can refuse it for the path or for a link at its output only); that the client
asks for what its position in the route needs and is told about that (`AskInv`); and
that while what `/health` has told holds, the good list is in the cache and nobody has
a probe on its way that could replace it (`ListInv`). `RefusesTruly` rests on the last,
which a reset and a second probe are the two ways to lose. `iter_presets` is
a recursive function over the lists of nodes that occur; that it exists is
proved, and from that what it yields of a document with a folder, with junk and without.

`ProgressStreamProofs`, from `StreamAssumption` (what is told is one of the messages)
and `CapAssumption` (an object, and the noise before it, fit into the buffer), for any
cap, messages and noise:

| Theorem | States |
|---|---|
| `ObjectsAreFound` | `EveryObjectFound` |
| `LossBounded` | `LossIsBounded` |
| `EstimateIsCurrent` | `EtaIsCurrent` |
| `StreamInvariance` | the inductive invariant `StreamInv` |

The argument has four stages. The scan exists as a function and goes on from one
character to the next (`ScanStep`); induction is over a set of numbers here (`Climb`),
since the library's theorem needs an operator as parameter. The scan of a buffer with a
line more is that of the line, from where the buffer has left it (`ScanGoesOn`,
`LineScan`), and each kind of line has a lemma for what it does outside a string
and in one. `Held` lists what the buffer may hold while nothing is found in it: from its
first open brace on there is the object that is being printed, or the nested one of an
object whose first line was dropped, or something that `json.loads` refuses whatever
follows; each line of the printer keeps it so, and the last brace finds the object, or
nothing (`BeginHeld` to `EndHeld`). `LossInv` relates the length of the buffer to the
reports that were lost: at least five characters for each behind stray noise, and
never more than the cap while an object is whole, so a whole object is never dropped.
The bound of `LossIsBounded` comes from there: `MaxBuffer \div 5` would do for a
cap of 26 and is false for one of 28, since the report with which the buffer is dropped
counts too. `CapAssumption` is what `_MAX_BUFFER_BYTES` is large for: where it fails,
the loop drops an object at the brace of its nested object, and does not find it.

Every invariant, action property and refinement that a passing run checks is thus
stated by a theorem. Only model-checked is what is out of the prover's reach, liveness
under fairness: `AcceptedJobsEnd`, `DeletedJobsEnd`, `WorkersExit`,
`CancelledReturns`, `EncodeReturns` and `CancelKillsHandBrake`.

## 5. Where code and comments disagree

Found while modelling; each is a run that TLC finds violated.

1. `SubmittedJobsEnd` (`jm_late_put`): `submit` puts the job after it released
   the lock, so the put may come after the sentinels of `shutdown`. The job was
   accepted with a 202 and stays QUEUED. It does carry the cancellation, and
   would be dropped by a worker of a later life.
2. `ReadsAreSafe` (`view_raises`): `to_dict` tests `eta_updated_at` and loads it
   again; a `set_eta(None)` in between makes the subtraction raise `TypeError`.
3. `StalledReturns` (`runner_stalled`): the timeout is armed after the end of
   stdout only. A child that stalls with stdout open is never timed out.
4. `FailedJobLeavesNoStaging` (`encode_job_leftover`): a failure between the
   claim of the staging file and the inner `try` leaves the empty file behind.

Five more are stated in the modules and no run lists them. TLC refutes each when it
is put in a cfg of its module:

* `FinishedHasNoEta` (`JobView`): `to_dict` loads the status twice, once to decide
  about the estimate (`job_manager.py:85`) and once for the reply (line 93), so a job
  can be told as completed with an estimate. The README of the program says that
  `eta_seconds` is null for finished jobs.
* `CancelEndsChild` (`HandBrakeRunner`, under `FairSpec`): when the watcher thread
  cannot be started (`handbrake_runner.py:210`), the exception leaves `run_encode`
  before its `try`, and no cancellation reaches the child, not even the cancel sweep of
  `shutdown` that `lifespan` calls load-bearing. `NoOrphan`, `StatusIsTrue`, `CleansUp`
  and `CancelKillsHandBrake` except this way out by name.
* `FailureLeavesNothing` (`EncodeJob`): the handler closes the descriptor
  (`ops.py:151`) before it removes the staging file, and a close that fails there, or
  has failed in the success path before (line 139), skips the removal. `CleansUp` says
  what is left then.
* `UnavailableWasRefused` (`JobManager`, with `Ttl = 0`): a job that ran is
  answered with 503, because the sweep took it before `post_job` looked again.
* `BufferIsCapped` (`ProgressStream`): the cap is compared only after a line with a
  `}` (`handbrake_runner.py:228-237`), so lines without one grow the buffer
  without limit.

And three that the properties make exceptions for:

* A probe that fails late stores the empty list over the good one another caller
  has cached (`encoders.py:88-89`, while the docstring says that the answer is
  probed once): from then on every job is refused with 409. `RefusalsAreTrue`
  speaks of a `/health` with no other probe on its way for this reason.
* `handbrake_info` caches a failure, so a service that was asked too early reports
  degraded until it is restarted.
* `available_encoders` "never raises" (`encoders.py:66`), but the output of `--help` is
  decoded strictly, and a byte that is no text ends the request with a 500 and the
  startup thread with an exception. The list is then probed again by the next caller.

The check and the rename of `run_encode_job` are two steps, and so are the claim and
HandBrakeCLI's open of the path: who may write to the media directory can replace the
staging file in either window. `lateSwap` and `earlySwap` mark the two in the
properties.

## 6. Not modelled

* `gpu.py`: a best-effort label in `/health`; its failure is caught. `config.py`,
  `models.py`: no state and no algorithm; the configured values are CONSTANTS.
* `build_encode_command`: the argument list, data alone. The shape of error bodies
  beyond their code, and the token pattern and length of derived names.
* Of `scripts/e2e_encode.py` its time limits and its assertions on progress values,
  and waiting for a service that is not yet up.
* The time between `realpath` and `isfile` in `validate_source_path`: `Move` happens
  between the two validations, not within one.
* Packaging and CI.
* Durability of a rename and of file contents after a power failure: `Crash` is
  the death of the process. The service never calls `fsync`.
* Recovery: nothing is persisted, so a new process starts from `Init`; staging
  files of a dead process are never collected, and no code tries to.
* A free-threaded Python: `Job`'s docstring rules it out.

## 7. Plan

Done: `JobManager` with its safety, action and liveness properties;
`JobLifecycle`; `JobView`, `HandBrakeRunner`, `EncodeJob`, `ProbeCache`; the
composition `EncoderService`; `ProgressStream`; `BodyLimit`; `Admission`; and
the proofs of section 4.

Left: the safety that liveness rests on. That a step is enabled cannot be stated for
the prover, but that nothing undoes what it waits for can: a cancelled job stays
cancelled, a sentinel is not lost, a killed child does not revive.
