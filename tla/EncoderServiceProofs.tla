------------------------- MODULE EncoderServiceProofs -------------------------
(***************************************************************************)
(* Theorems about EncoderService, for any output, pipe and names.  The     *)
(* composition is a manager, a job function and a HandBrake at once: each  *)
(* of the three component specifications is implemented by it.  So what is *)
(* proved of the components holds of the composition, and with it that the *)
(* status of a job tells the truth about its files.                        *)
(***************************************************************************)
EXTENDS EncoderService, EncodeJobProofs

ManagerTheorems == INSTANCE JobManagerProofs WITH
  Job <- {TheJob}, Thread <- {TheThread}, Workers <- 1, MaxQueue <- 0,
  Ttl <- 1, MaxTime <- 0, MaxFatal <- 0

HandBrakeTheorems == INSTANCE HandBrakeRunnerProofs WITH
  pc <- hbPc, outcome <- encoded, cancel <- cancel[TheJob]

-----------------------------------------------------------------------------
(* The two instances of a module, here and in its Proofs, say the same.      *)

\* A set of one element is finite.
LEMMA SingletonIsFinite == \A x : ManagerTheorems!IsFiniteSet({x})
<1> SUFFICES ASSUME NEW x
             PROVE  \E seq \in Seq({x}) : \A s \in {x} : \E n \in 1..Len(seq) : seq[n] = s
  BY DEF ManagerTheorems!IsFiniteSet
<1> WITNESS <<x>> \in Seq({x})
<1> QED OBVIOUS

\* One job, one thread and one worker are a manager that the theorems are about ...
LEMMA ManagerAssumption == ManagerTheorems!ConstantsAssumption
BY SingletonIsFinite, ServiceAssumption DEF ManagerTheorems!ConstantsAssumption

\* ... and the constants of the service those of a run of HandBrake.
LEMMA HandBrakeAssumption == HandBrakeTheorems!RunnerAssumption
BY ServiceAssumption DEF HandBrakeTheorems!RunnerAssumption

\* The manager that the service contains is the one of the theorems, step by step.
LEMMA SameManager == Manager!Spec => ManagerTheorems!Spec
<1>1. Manager!Init => ManagerTheorems!Init
  BY DEF Manager!Init, ManagerTheorems!Init
<1>2. Manager!Next => ManagerTheorems!Next
  <2>1. \A S : Manager!Cardinality(S) = ManagerTheorems!Cardinality(S)
    BY DEF Manager!Cardinality, ManagerTheorems!Cardinality
  <2> QED
    BY <2>1
    DEF Manager!Next, Manager!Start, Manager!NumWorkers, Manager!Shutdown,
        Manager!ShutdownBegin, Manager!Unfinished, Manager!Terminal,
        Manager!ShutdownCancel, Manager!ShutdownStop, Manager!Sentinels,
        Manager!ShutdownPut, Manager!ShutdownReturn, Manager!Handler,
        Manager!SubmitRejected, Manager!SubmitFull, Manager!BacklogFull,
        Manager!SubmitStore, Manager!SubmitPut, Manager!Reply, Manager!Delete,
        Manager!WorkerStep, Manager!Get, Manager!Dec, Manager!Claim, Manager!Claimable,
        Manager!Return, Manager!Outcome, Manager!WriteFinishedAt,
        Manager!AfterFinishedAt, Manager!WriteError, Manager!WriteStatus,
        Manager!FinalStatus, Manager!AfterJob, Manager!SweepRead, Manager!SweepEvict,
        Manager!Expired, Manager!Tick, Manager!managerVars, Manager!jobVars,
        Manager!workerVars, Manager!shutdownVars, ManagerTheorems!Next,
        ManagerTheorems!Start, ManagerTheorems!NumWorkers, ManagerTheorems!Shutdown,
        ManagerTheorems!ShutdownBegin, ManagerTheorems!Unfinished,
        ManagerTheorems!Terminal, ManagerTheorems!ShutdownCancel,
        ManagerTheorems!ShutdownStop, ManagerTheorems!Sentinels,
        ManagerTheorems!ShutdownPut, ManagerTheorems!ShutdownReturn,
        ManagerTheorems!Handler, ManagerTheorems!SubmitRejected,
        ManagerTheorems!SubmitFull, ManagerTheorems!BacklogFull,
        ManagerTheorems!SubmitStore, ManagerTheorems!SubmitPut, ManagerTheorems!Reply,
        ManagerTheorems!Delete, ManagerTheorems!WorkerStep, ManagerTheorems!Get,
        ManagerTheorems!Dec, ManagerTheorems!Claim, ManagerTheorems!Claimable,
        ManagerTheorems!Return, ManagerTheorems!Outcome,
        ManagerTheorems!WriteFinishedAt, ManagerTheorems!AfterFinishedAt,
        ManagerTheorems!WriteError, ManagerTheorems!WriteStatus,
        ManagerTheorems!FinalStatus, ManagerTheorems!AfterJob,
        ManagerTheorems!SweepRead, ManagerTheorems!SweepEvict, ManagerTheorems!Expired,
        ManagerTheorems!Tick, ManagerTheorems!managerVars, ManagerTheorems!jobVars,
        ManagerTheorems!workerVars, ManagerTheorems!shutdownVars
<1>3. [Manager!Next]_(Manager!vars) => [ManagerTheorems!Next]_(ManagerTheorems!vars)
  BY <1>2
  DEF Manager!vars, Manager!managerVars, Manager!jobVars, Manager!workerVars,
      Manager!shutdownVars, ManagerTheorems!vars, ManagerTheorems!managerVars,
      ManagerTheorems!jobVars, ManagerTheorems!workerVars, ManagerTheorems!shutdownVars
<1> QED BY <1>1, <1>3, PTL DEF Manager!Spec, ManagerTheorems!Spec

\* So is the run of HandBrake.
LEMMA SameHandBrake == HandBrake!Spec => HandBrakeTheorems!Spec
<1>1. HandBrake!Init => HandBrakeTheorems!Init
  BY DEF HandBrake!Init, HandBrakeTheorems!Init
<1>2. [HandBrake!Next]_(HandBrake!vars) => [HandBrakeTheorems!Next]_(HandBrakeTheorems!vars)
  BY DEF HandBrake!Next, HandBrake!Main, HandBrake!Start, HandBrake!Read,
         HandBrake!EndOfFile, HandBrake!Finally, HandBrake!AbortKill, HandBrake!Died,
         HandBrake!Outlives, HandBrake!Waited,
         HandBrake!ExpiredKill, HandBrake!ExpiredRaise, HandBrake!Reap, HandBrake!Join,
         HandBrake!Decide, HandBrake!Verdict, HandBrake!StartFails, HandBrake!Raise,
         HandBrake!Expire, HandBrake!Watcher, HandBrake!WatchPoll, HandBrake!WatchWait,
         HandBrake!WatchGrace, HandBrake!WatchKill, HandBrake!Child,
         HandBrake!ChildPrint, HandBrake!ChildClose, HandBrake!ChildExit,
         HandBrake!ChildDie, HandBrake!Cancel, HandBrake!Kill, HandBrake!Go,
         HandBrake!Watch, HandBrake!vars, HandBrake!mainVars, HandBrake!childVars,
         HandBrakeTheorems!Next, HandBrakeTheorems!Main, HandBrakeTheorems!Start,
         HandBrakeTheorems!Read, HandBrakeTheorems!EndOfFile, HandBrakeTheorems!Finally,
         HandBrakeTheorems!AbortKill, HandBrakeTheorems!Died, HandBrakeTheorems!Outlives,
         HandBrakeTheorems!Waited,
         HandBrakeTheorems!ExpiredKill, HandBrakeTheorems!ExpiredRaise,
         HandBrakeTheorems!Reap, HandBrakeTheorems!Join, HandBrakeTheorems!Decide,
         HandBrakeTheorems!Verdict, HandBrakeTheorems!StartFails,
         HandBrakeTheorems!Raise, HandBrakeTheorems!Expire, HandBrakeTheorems!Watcher,
         HandBrakeTheorems!WatchPoll, HandBrakeTheorems!WatchWait,
         HandBrakeTheorems!WatchGrace, HandBrakeTheorems!WatchKill,
         HandBrakeTheorems!Child, HandBrakeTheorems!ChildPrint,
         HandBrakeTheorems!ChildClose, HandBrakeTheorems!ChildExit,
         HandBrakeTheorems!ChildDie, HandBrakeTheorems!Cancel, HandBrakeTheorems!Kill,
         HandBrakeTheorems!Go, HandBrakeTheorems!Watch, HandBrakeTheorems!vars,
         HandBrakeTheorems!mainVars, HandBrakeTheorems!childVars
<1> QED BY <1>1, <1>2, PTL DEF HandBrake!Spec, HandBrakeTheorems!Spec

-----------------------------------------------------------------------------
(* The implementations. *)

\* The steps of the service that leave the manager's variables alone.
NotManager ==
  \/ Drive(RunEncode) \/ Watch \/ Child(HandBrakeStep) \/ Opens \/ Operate \/ Disturb
  \/ UNCHANGED serviceVars

\* These are the steps that leave the manager alone ...
LEMMA NotManagerStep == NotManager => UNCHANGED jmVars
BY DEF NotManager, Drive, Watch, Child, Opens, Operate, Disturb, serviceVars

\* ... and there are no others but those of the manager and the return of its job.
LEMMA StepCases == [ServiceNext]_serviceVars => Manage(ManagerStep) \/ Return \/ NotManager
BY DEF ServiceNext, NotManager

\* A worker that is busy is so with the one job.
ManagerInv ==
  /\ queue \in Seq({TheJob, None})
  /\ wpc \in [{TheThread} -> Manager!WorkerPc]
  /\ wjob \in [{TheThread} -> {TheJob, None}]
  /\ cancel \in [{TheJob} -> BOOLEAN]
  /\ wpc[TheThread] \in Manager!Busy => wjob[TheThread] = TheJob

\* The manager starts with no thread that is busy.
LEMMA ManagerInvInit == ServiceInit => ManagerInv
BY DEF ServiceInit, Manager!Init, ManagerInv, Manager!WorkerPc, Manager!Busy

\* Only the manager takes jobs and gives them up, and it revokes no cancellation.
LEMMA ManagerKeepsInv ==
  ASSUME ManagerInv, ManagerStep
  PROVE  ManagerInv' /\ (cancel[TheJob] => cancel'[TheJob])
<1> USE DEF ManagerInv, Manager!WorkerPc, Manager!Busy
<1>1. CASE Manager!Start
  BY <1>1 DEF Manager!Start, Manager!jobVars
<1>2. CASE Manager!Shutdown
  <2>1. CASE Manager!ShutdownBegin \/ Manager!ShutdownStop \/ Manager!ShutdownReturn
    BY <1>2, <2>1 DEF Manager!ShutdownBegin, Manager!ShutdownStop, Manager!ShutdownReturn,
                      Manager!jobVars, Manager!workerVars, Manager!managerVars
  <2>2. CASE Manager!ShutdownPut
    BY <2>2 DEF Manager!ShutdownPut, Manager!jobVars, Manager!workerVars
  <2>3. CASE Manager!ShutdownCancel(TheJob)
    BY <2>3 DEF Manager!ShutdownCancel, Manager!managerVars, Manager!workerVars
  <2> QED BY <1>2, <2>1, <2>2, <2>3 DEF Manager!Shutdown
<1>3. CASE Manager!Handler(TheJob)
  <2>1. CASE Manager!SubmitPut(TheJob)
    BY <2>1 DEF Manager!SubmitPut, Manager!jobVars, Manager!workerVars
  <2>2. CASE Manager!SubmitRejected(TheJob) \/ Manager!SubmitFull(TheJob)
             \/ Manager!SubmitStore(TheJob) \/ Manager!Reply(TheJob)
    BY <2>2 DEF Manager!SubmitRejected, Manager!SubmitFull, Manager!SubmitStore, Manager!Reply,
                Manager!managerVars, Manager!jobVars, Manager!workerVars
  <2> QED BY <1>3, <2>1, <2>2 DEF Manager!Handler
<1>4. CASE Manager!Delete(TheJob)
  BY <1>4 DEF Manager!Delete, Manager!workerVars
<1>5. CASE Manager!WorkerStep(TheThread)
  <2>1. CASE Manager!Get(TheThread)
    <3>1. Head(queue) \in {TheJob, None} /\ Tail(queue) \in Seq({TheJob, None})
      BY <2>1 DEF Manager!Get
    <3> QED BY <2>1, <3>1 DEF Manager!Get, Manager!jobVars
  <2>2. CASE Manager!Dec(TheThread)
    BY <2>2 DEF Manager!Dec, Manager!jobVars
  <2>3. CASE Manager!Claim(TheThread)
    BY <2>3 DEF Manager!Claim, Manager!managerVars
  <2>4. CASE Manager!WriteFinishedAt(TheThread)
    BY <2>4 DEF Manager!WriteFinishedAt, Manager!AfterFinishedAt, Manager!managerVars
  <2>5. CASE Manager!WriteError(TheThread)
    BY <2>5 DEF Manager!WriteError, Manager!managerVars
  <2>6. CASE Manager!WriteStatus(TheThread)
    BY <2>6 DEF Manager!WriteStatus, Manager!AfterJob, Manager!managerVars
  <2> QED BY <1>5, <2>1, <2>2, <2>3, <2>4, <2>5, <2>6 DEF Manager!WorkerStep
<1> HIDE DEF ManagerInv, Manager!WorkerPc, Manager!Busy
<1> QED BY <1>1, <1>2, <1>3, <1>4, <1>5 DEF ManagerStep

LEMMA ManagerInvNext ==
  ManagerInv /\ [ServiceNext]_serviceVars => ManagerInv' /\ (cancel[TheJob] => cancel'[TheJob])
<1> SUFFICES ASSUME ManagerInv, [ServiceNext]_serviceVars
             PROVE  ManagerInv' /\ (cancel[TheJob] => cancel'[TheJob])
  OBVIOUS
<1>1. CASE Manage(ManagerStep)
  BY <1>1, ManagerKeepsInv DEF Manage
<1>2. CASE Return
  <2>1. /\ UNCHANGED <<queue, wjob, cancel>>
        /\ wpc' = [wpc EXCEPT ![TheThread] = "finish"] /\ wpc[TheThread] = "run"
    BY <1>2 DEF Return, InJob
  <2> QED BY <2>1 DEF ManagerInv, Manager!WorkerPc, Manager!Busy
<1>3. CASE NotManager
  BY <1>3, NotManagerStep DEF ManagerInv, jmVars
<1> QED BY <1>1, <1>2, <1>3, StepCases

\* What the watcher sees of the manager is a cancellation, and the job function
\* drives run_encode and nothing else.
THEOREM ServiceRunsHandBrake == ServiceSpec => HandBrake!Spec
<1>1. ServiceInit => HandBrake!Init
  BY DEF ServiceInit
<1>2. ManagerInv /\ [ServiceNext]_serviceVars => [HandBrake!Next]_(HandBrake!vars)
  <2> SUFFICES ASSUME ManagerInv, [ServiceNext]_serviceVars
               PROVE  [HandBrake!Next]_(HandBrake!vars)
    OBVIOUS
  <2> USE DEF HandBrake!vars, HandBrake!mainVars, HandBrake!childVars, hbVars
  <2>1. CASE UNCHANGED hbVars
    <3>1. CASE cancel'[TheJob] = cancel[TheJob]
      BY <2>1, <3>1
    <3>2. CASE cancel'[TheJob] # cancel[TheJob]
      BY <2>1, <3>2, ManagerInvNext DEF ManagerInv, HandBrake!Next, HandBrake!Cancel
    <3> QED BY <3>1, <3>2
  <2>2. CASE Manage(ManagerStep) \/ Return
    BY <2>1, <2>2 DEF Manage, Return
  <2>3. CASE NotManager
    <3>1. CASE Opens \/ Operate \/ Disturb \/ UNCHANGED serviceVars
      BY <2>1, <3>1 DEF Opens, Operate, Disturb, serviceVars
    <3>2. CASE Drive(RunEncode) \/ Watch \/ Child(HandBrakeStep)
      BY <3>2 DEF Drive, RunEncode, Watch, Child, HandBrakeStep, HandBrake!Next
    <3> QED BY <2>3, <3>1, <3>2 DEF NotManager
  <2> QED BY <2>2, <2>3, StepCases
<1> QED BY <1>1, <1>2, ManagerInvInit, ManagerInvNext, PTL DEF ServiceSpec, HandBrake!Spec

\* What is proved of run_encode holds of it in the service.
LEMMA HandBrakeHolds == ServiceSpec => []HandBrakeTheorems!Inv
BY ServiceRunsHandBrake, SameHandBrake, HandBrakeAssumption, HandBrakeTheorems!InvInit,
   HandBrakeTheorems!InvStep, PTL DEF HandBrakeTheorems!Spec

\* The job function makes the steps of run_encode_job, and the verdict of
\* run_encode is one of its two outcomes.
THEOREM ServiceRunsEncodeJob == ServiceSpec => Spec
<1>1. ServiceInit => Init
  BY DEF ServiceInit
<1>2. [ServiceNext]_serviceVars => [Next]_vars
  <2>1. Operate => Next
    BY DEF Operate, OperationStep, EncodeEnds, Next
  <2>2. Disturb \/ Opens => Next
    BY DEF Disturb, Opens, Next
  <2>3. Manage(ManagerStep) \/ Return => UNCHANGED vars
    BY DEF Manage, Return
  <2>4. NotManager /\ ~Operate /\ ~Disturb /\ ~Opens => UNCHANGED vars
    BY DEF NotManager, Drive, Watch, Child, serviceVars
  <2> QED BY <2>1, <2>2, <2>3, <2>4, StepCases
<1> QED BY <1>1, <1>2, PTL DEF ServiceSpec, Spec

\* What is proved of run_encode_job holds of it in the service.
LEMMA EncodeJobHolds == ServiceSpec => []Inv
BY ServiceRunsEncodeJob, InvInit, InvStep, PTL DEF Spec

\* What the worker files the job under is an outcome the manager allows it.
LEMMA FiledAsIsAllowed ==
  ASSUME ManagerInv, HandBrakeTheorems!Inv, Return
  PROVE  \E o \in Manager!Outcome : Manager!Return(TheThread, o)
<1>1. FiledAs \in {"completed", "failed", "cancelled"}
  BY DEF FiledAs
<1>2. wjob[TheThread] = TheJob
  BY DEF ManagerInv, Return, InJob, Manager!Busy
<1>3. FiledAs = "cancelled" => cancel[wjob[TheThread]]
  BY <1>2 DEF FiledAs, HandBrakeTheorems!Inv, HandBrakeTheorems!ReturnInv,
              HandBrakeTheorems!CleanExitIsKept
<1>4. Manager!Return(TheThread, FiledAs)
  BY <1>1, <1>3 DEF Return, InJob, Manager!Return, Manager!managerVars, Manager!jobVars,
                    Manager!shutdownVars
<1> QED BY <1>1, <1>4 DEF Manager!Outcome, Manager!Terminal

\* The composition of worker, job function and HandBrake implements the
\* manager of JobManager: run_encode and run_encode_job end as "cancelled" for a
\* cancelled job only, and touch nothing of the store.
THEOREM ServiceImplementsManager == ServiceSpec => ImplementsManager
<1>1. ServiceInit => Manager!Init
  BY DEF ServiceInit
<1>2. ManagerInv /\ HandBrakeTheorems!Inv /\ [ServiceNext]_serviceVars
      => [Manager!Next]_(Manager!vars)
  <2> SUFFICES ASSUME ManagerInv, HandBrakeTheorems!Inv, [ServiceNext]_serviceVars
               PROVE  [Manager!Next]_(Manager!vars)
    OBVIOUS
  <2>1. CASE Manage(ManagerStep)
    BY <2>1 DEF Manage, ManagerStep, Manager!Next
  <2>2. CASE Return
    BY <2>2, FiledAsIsAllowed DEF Manager!Next
  <2>3. CASE NotManager
    BY <2>3, NotManagerStep DEF jmVars, Manager!vars, Manager!managerVars, Manager!jobVars,
                                Manager!workerVars, Manager!shutdownVars
  <2> QED BY <2>1, <2>2, <2>3, StepCases
<1> QED BY <1>1, <1>2, ManagerInvInit, ManagerInvNext, HandBrakeHolds, PTL
        DEF ServiceSpec, ImplementsManager, Manager!Spec

\* What is proved of the manager holds of it in the service.
LEMMA ManagerHolds == ServiceSpec => []ManagerTheorems!IInv
BY ServiceImplementsManager, SameManager, ManagerAssumption, ManagerTheorems!Invariance, PTL
   DEF ImplementsManager

\* So the service keeps what JobLifecycle promises to its clients: with the job function
\* of run_encode_job and the child of run_encode in it, a revoked job that has not begun
\* never begins, nobody is refused without a reason, and an outcome is final.
THEOREM ServiceKeepsPromises == ServiceSpec => ManagerTheorems!ImplementsLifecycle
BY ServiceImplementsManager, SameManager, ManagerAssumption, ManagerTheorems!KeepsPromises, PTL
   DEF ImplementsManager

-----------------------------------------------------------------------------
(* What the components' states say of each other.                            *)

\* Where the job function is when the job is filed under o.
Verdict(o) ==
  /\ pc \in {"validate", "returned", "raised"}
  /\ o = "completed" => pc = "returned"
  /\ o = "cancelled" => /\ cancel[TheJob]
                        /\ pc = "validate" \/ (pc = "raised" /\ encoded = "cancelled" /\ ~held)

\* The job function runs while the job is running, and is where the worker says
\* when it is over.
WorkerInv ==
  /\ status[TheJob] = "queued" => pc = "validate"
  /\ InJob => status[TheJob] = "running"
  /\ wpc[TheThread] \in {"finish", "explain", "publish"} => Verdict(outcome[TheThread])
  /\ status[TheJob] \in Manager!Terminal => Verdict(status[TheJob])

\* run_encode runs while the job function is at its call, and what is published
\* was said by it to be well.
EncodeInv ==
  /\ pc = "validate" => staging = "absent" /\ ~preset /\ ~open
  /\ child \in {"none", "unborn"} => hbPc = "start" /\ encoded = "none"
  /\ child \in {"gone", "left"} => hbPc = "returned"
  /\ child = "left" => encoded \in {"unwatched", "unreaped"}
  /\ pc \in {"check", "close", "replace"} => encoded = "ok"
  /\ pc = "remove" => raising
  /\ (pc \in {"finally", "unlink"} /\ ~raising) \/ pc = "returned" =>
       dst \notin {"absent", "planted"}
  /\ dst \notin {"absent", "planted"} => encoded = "ok" /\ pc \in Over

Components == ManagerInv /\ ManagerTheorems!IInv /\ HandBrakeTheorems!Inv /\ Inv

LinkInv == WorkerInv /\ EncodeInv

\* Each component's invariant holds of the service that runs it.
LEMMA ComponentsHold == ServiceSpec => []Components
BY ManagerInvInit, ManagerInvNext, ManagerHolds, HandBrakeHolds, EncodeJobHolds, PTL
   DEF ServiceSpec, Components

\* No job runs when the service starts.
LEMMA LinkInit == ServiceInit => LinkInv
BY DEF ServiceInit, Manager!Init, Init, HandBrake!Init, LinkInv, WorkerInv, EncodeInv,
       InJob, Manager!Terminal

\* The properties follow.
LEMMA LinkIsTrue == ASSUME Components, LinkInv PROVE StatusIsTrue
<1> USE DEF LinkInv, WorkerInv, EncodeInv
<1>1. ASSUME status[TheJob] = "completed" PROVE CompletedIsPublished
  <2>1. pc = "returned" /\ dst \notin {"absent", "planted"} /\ encoded = "ok"
    BY <1>1 DEF Verdict, Manager!Terminal
  <2>2. rc = 0
    BY <2>1 DEF Components, HandBrakeTheorems!Inv, HandBrakeTheorems!ReturnInv,
                HandBrakeTheorems!CleanExitIsKept
  <2> QED BY <2>1, <2>2 DEF CompletedIsPublished, Components, Inv, TypeOK, Entry, WholeInv,
                            SwapInv, Leads
<1>2. ASSUME status[TheJob] = "cancelled" PROVE CancelledLeavesNothing
  <2>1. Verdict("cancelled")
    BY <1>2 DEF Manager!Terminal
  <2>2. CASE pc = "validate"
    BY <2>1, <2>2 DEF CancelledLeavesNothing, Spawned, Verdict, Components, Inv, ChildInv,
                      Over, Ended
  <2>3. CASE pc = "raised" /\ encoded = "cancelled" /\ ~held
    <3>1. rc # 0
      BY <2>3 DEF Components, HandBrakeTheorems!Inv, HandBrakeTheorems!ReturnInv,
                  HandBrakeTheorems!CleanExitIsKept
    <3>2. child \notin {"none", "left"} /\ dst \in {"absent", "planted"}
      BY <2>3
    <3>3. ~unremoved => staging = "absent" /\ ~preset /\ ~open
      BY <2>3, <3>2 DEF Components, Inv, CleanInv
    <3> QED BY <2>1, <3>1, <3>2, <3>3 DEF CancelledLeavesNothing, Verdict
  <2> QED BY <2>1, <2>2, <2>3 DEF Verdict
<1>3. QuietWhenOver
  <2> SUFFICES ASSUME Spawned, encoded # "unwatched", status[TheJob] \in Manager!Terminal
               PROVE  ~alive \/ (killed /\ encoded = "unreaped")
    BY DEF QuietWhenOver
  <2>1. hbPc = "returned"
    BY DEF Verdict, Spawned, Components, Inv, ChildInv
  <2> QED BY <2>1 DEF Components, HandBrakeTheorems!Inv, HandBrakeTheorems!KillInv,
                      HandBrakeTheorems!ReturnInv
<1>4. status[TheJob] = "completed" => Look \/ earlySwap
  <2>1. ~source => earlySwap
    BY DEF Components, Inv, SwapInv
  <2> QED BY <1>1, <2>1 DEF CompletedIsPublished, Look, Leads
<1> QED BY <1>1, <1>2, <1>3, <1>4 DEF StatusIsTrue, CompletedIsPublished, CancelledLeavesNothing

\* What is proved of the manager, for the one job and the one worker.
LEMMA OwnerFacts ==
  ASSUME Components
  PROVE  /\ wpc[TheThread] \in Manager!WorkerPc
         /\ outcome[TheThread] \in Manager!Outcome
         /\ wpc[TheThread] \in Manager!Busy =>
              wjob[TheThread] = TheJob /\ post[TheJob] # "new" /\ status[TheJob] \notin Manager!Terminal
         /\ wpc[TheThread] \in {"dec", "claim"} => status[TheJob] = "queued"
         /\ post[TheJob] = "new" => status[TheJob] = "queued"
<1>1. wpc[TheThread] \in Manager!WorkerPc /\ (wpc[TheThread] \in Manager!Busy => wjob[TheThread] = TheJob)
  BY DEF Components, ManagerInv
<1>2. outcome[TheThread] \in Manager!Outcome
  BY DEF Components, ManagerTheorems!IInv, ManagerTheorems!TypeOK, ManagerTheorems!Outcome,
         ManagerTheorems!Terminal, Manager!Outcome, Manager!Terminal
<1>3. wpc[TheThread] \in Manager!Busy => post[TheJob] # "new"
  BY <1>1, ServiceAssumption
     DEF Components, ManagerTheorems!IInv, ManagerTheorems!OwnerInv, ManagerTheorems!Enqueued
<1>4. /\ wpc[TheThread] \in Manager!Busy => status[TheJob] \notin Manager!Terminal
      /\ wpc[TheThread] \in {"dec", "claim"} => status[TheJob] = "queued"
      /\ post[TheJob] = "new" => status[TheJob] = "queued"
  BY <1>1 DEF Components, ManagerTheorems!IInv, ManagerTheorems!StatusInv, ManagerTheorems!Busy,
              ManagerTheorems!Terminal, Manager!Busy, Manager!Terminal
<1> QED BY <1>1, <1>2, <1>3, <1>4

\* The manager's steps, by what they do to the worker and to the status: no step
\* gives a verdict but the owner's, on the verdict of the job function.
LEMMA LinkManager ==
  ASSUME Components, LinkInv, Manage(ManagerStep)
  PROVE  LinkInv'
<1>1. UNCHANGED <<vars, hbVars>> /\ ManagerStep /\ (cancel[TheJob] => cancel'[TheJob])
  BY ManagerKeepsInv DEF Manage, Components
<1>2. EncodeInv' /\ pc' = pc
  BY <1>1 DEF LinkInv, EncodeInv, vars, files, swaps, hbVars, Over, Ended
<1>3. ASSUME NEW o, Verdict(o) PROVE Verdict(o)'
  BY <1>1, <1>3 DEF Verdict, vars, hbVars
<1>4. wpc \in [{TheThread} -> Manager!WorkerPc] /\ TheJob \in DOMAIN status /\ TheThread \in DOMAIN outcome
  BY DEF Components, ManagerInv, ManagerTheorems!IInv, ManagerTheorems!TypeOK
<1> DEFINE Told == {"finish", "explain", "publish"}
<1>5. CASE /\ status'[TheJob] = status[TheJob] /\ outcome'[TheThread] = outcome[TheThread]
           /\ \/ wpc'[TheThread] \in {wpc[TheThread], "get", "exited", "dec", "claim"}
              \/ wpc[TheThread] \in Told /\ wpc'[TheThread] \in Told
  BY <1>1, <1>2, <1>3, <1>5 DEF LinkInv, WorkerInv, InJob
<1>6. CASE Manager!SubmitRejected(TheJob)
  <2>1. /\ post[TheJob] = "new" /\ status'[TheJob] = "failed"
        /\ UNCHANGED <<wpc, outcome>>
    BY <1>4, <1>6 DEF Manager!SubmitRejected, Manager!workerVars
  <2>2. status[TheJob] = "queued" /\ wpc[TheThread] # "run"
    BY <2>1, OwnerFacts DEF Manager!Busy
  <2>3. Verdict("failed")
    BY <2>2 DEF LinkInv, WorkerInv, Verdict
  <2> QED BY <1>1, <1>2, <1>3, <2>1, <2>2, <2>3 DEF LinkInv, WorkerInv, InJob
<1>7. CASE Manager!Claim(TheThread)
  <2>1. wpc[TheThread] = "claim" /\ status[TheJob] = "queued" /\ wjob[TheThread] = TheJob
    BY <1>7, OwnerFacts DEF Manager!Claim, Manager!Busy
  <2>2. CASE Manager!Claimable(TheJob)
    <3>1. wpc'[TheThread] = "run" /\ status'[TheJob] = "running"
      BY <1>4, <1>7, <2>1, <2>2 DEF Manager!Claim
    <3> QED BY <1>1, <1>2, <2>1, <3>1 DEF LinkInv, WorkerInv, InJob, Manager!Terminal
  <2>3. CASE ~Manager!Claimable(TheJob)
    <3>1. wpc'[TheThread] = "finish" /\ outcome'[TheThread] = "cancelled" /\ status' = status
      BY <1>4, <1>7, <2>1, <2>3 DEF Manager!Claim
    <3>2. Verdict("cancelled")
      BY <2>1, <2>3 DEF LinkInv, WorkerInv, Verdict, Manager!Claimable
    <3> QED BY <1>1, <1>2, <1>3, <2>1, <3>1, <3>2 DEF LinkInv, WorkerInv, InJob, Manager!Terminal
  <2> QED BY <2>2, <2>3
<1>8. CASE Manager!WriteStatus(TheThread)
  <2>1. wpc[TheThread] = "publish" /\ wjob[TheThread] = TheJob /\ status[TheJob] \notin Manager!Terminal
    BY <1>8, OwnerFacts DEF Manager!WriteStatus, Manager!Busy
  <2>2. /\ status'[TheJob] = Manager!FinalStatus(TheThread)
        /\ wpc'[TheThread] \in {"get", "died"}
    BY <1>4, <1>8, <2>1 DEF Manager!WriteStatus, Manager!AfterJob
  <2>3. Manager!FinalStatus(TheThread) \in Manager!Terminal
    BY OwnerFacts DEF Manager!FinalStatus, Manager!Outcome, Manager!Terminal
  <2>4. Verdict(Manager!FinalStatus(TheThread))
    BY <2>1 DEF Manager!FinalStatus, LinkInv, WorkerInv, Verdict
  <2>5. Verdict(status[TheJob])'
    BY <1>3, <2>2, <2>4 DEF Verdict
  <2> QED BY <1>1, <1>2, <2>2, <2>3, <2>5 DEF LinkInv, WorkerInv, InJob, Manager!Terminal
<1>9. CASE Manager!Start \/ Manager!Shutdown \/ Manager!Delete(TheJob)
  <2>1. CASE Manager!Start
    BY <1>4, <1>5, <2>1 DEF Manager!Start, Manager!jobVars
  <2>2. CASE Manager!Shutdown
    BY <1>5, <2>2 DEF Manager!Shutdown, Manager!ShutdownBegin, Manager!ShutdownStop,
                      Manager!ShutdownPut, Manager!ShutdownReturn, Manager!ShutdownCancel,
                      Manager!jobVars, Manager!workerVars
  <2>3. CASE Manager!Delete(TheJob)
    BY <1>5, <2>3 DEF Manager!Delete, Manager!workerVars
  <2> QED BY <1>9, <2>1, <2>2, <2>3
<1>10. CASE Manager!Handler(TheJob)
  BY <1>5, <1>6, <1>10 DEF Manager!Handler, Manager!SubmitFull, Manager!SubmitStore, Manager!SubmitPut,
                           Manager!Reply, Manager!jobVars, Manager!workerVars
<1>11. CASE Manager!WorkerStep(TheThread)
  <2>1. CASE Manager!Get(TheThread) \/ Manager!Dec(TheThread)
    BY <1>4, <1>5, <2>1 DEF Manager!Get, Manager!Dec, Manager!jobVars
  <2>2. CASE Manager!WriteFinishedAt(TheThread) \/ Manager!WriteError(TheThread)
    BY <1>4, <1>5, <2>2 DEF Manager!WriteFinishedAt, Manager!AfterFinishedAt, Manager!WriteError
  <2> QED BY <1>7, <1>8, <1>11, <2>1, <2>2 DEF Manager!WorkerStep
<1> QED BY <1>1, <1>6, <1>9, <1>10, <1>11 DEF ManagerStep

\* run_encode_job's steps: the worker is in the job function, so the job is
\* running and no verdict has been given.
LEMMA LinkOperate ==
  ASSUME Components, LinkInv, Operate \/ Opens \/ Disturb
  PROVE  LinkInv'
<1>1. UNCHANGED <<jmVars, hbVars>>
  BY DEF Operate, Opens, Disturb
<1>2. WorkerInv'
  <2>1. CASE Operate \/ (InJob /\ Crash)
    BY <1>1, <2>1 DEF Operate, LinkInv, WorkerInv, InJob, jmVars, Manager!Terminal
  <2>2. CASE Opens \/ Swap \/ Plant
    BY <1>1, <2>2 DEF Opens, OpenOutput, Swap, Plant, LinkInv, WorkerInv, InJob, Verdict,
                      jmVars, hbVars
  <2> QED BY <2>1, <2>2 DEF Disturb
<1>3. EncodeInv'
  <2> USE DEF LinkInv, EncodeInv, Go, Over, Ended, files, hbVars
  <2>1. CASE Validate \/ Claim \/ ClaimFails \/ MakeTemp \/ Dump
    BY <1>1, <2>1 DEF Validate, Claim, ClaimFails, MakeTemp, Dump, Components, Inv, ChildInv
  <2>2. CASE StartEncode \/ StartFails
    BY <1>1, <2>2 DEF StartEncode, StartFails, Components, Inv, ChildInv
  <2>3. CASE EncodeEnds
    BY <1>1, <2>3 DEF EncodeEnds, EncodeReturns, EncodeRaises, AfterFailedEncode, Components,
                      HandBrakeTheorems!Inv, HandBrakeTheorems!ReturnInv
  <2>4. CASE Check \/ CloseFd \/ ReplaceFails
    BY <1>1, <2>4 DEF Check, CloseFd, ReplaceFails
  <2>5. CASE Replace
    BY <1>1, <2>5 DEF Replace, Components, Inv, TypeOK, Entry
  <2>6. CASE Except \/ RemovePartial
    BY <1>1, <2>6 DEF Except, RemovePartial
  <2>7. CASE Finally \/ Unlink
    BY <1>1, <2>7 DEF Finally, Unlink
  <2>8. CASE Crash \/ Swap \/ Plant
    BY <1>1, <2>8 DEF Crash, Swap, Plant
  <2>9. CASE Opens
    BY <1>1, <2>9 DEF Opens, OpenOutput, Spawned, Components, Inv, ChildInv
  <2> QED BY <2>1, <2>2, <2>3, <2>4, <2>5, <2>6, <2>7, <2>8, <2>9 DEF Operate, OperationStep, Disturb
<1> QED BY <1>2, <1>3 DEF LinkInv

\* Return hands the verdict of the job function to the worker; run_encode gives
\* its own before the job function has one.
LEMMA LinkReturn ==
  ASSUME Components, LinkInv, Return
  PROVE  LinkInv'
<1>1. /\ wpc[TheThread] = "run" /\ pc \in {"returned", "raised"}
      /\ wpc'[TheThread] = "finish" /\ outcome'[TheThread] = FiledAs
      /\ UNCHANGED <<status, cancel, vars, hbVars>>
  BY DEF Return, InJob, Components, ManagerInv, ManagerTheorems!IInv, ManagerTheorems!TypeOK
<1>2. FiledAs = "cancelled" => cancel[TheJob]
  BY DEF FiledAs, Components, HandBrakeTheorems!Inv, HandBrakeTheorems!ReturnInv,
         HandBrakeTheorems!CleanExitIsKept
<1>3. Verdict(FiledAs)
  BY <1>1, <1>2 DEF Verdict, FiledAs
<1>4. Verdict(outcome[TheThread])'
  BY <1>1, <1>3 DEF Verdict, vars, hbVars
<1>5. EncodeInv'
  BY <1>1 DEF LinkInv, EncodeInv, vars, files, hbVars, Over, Ended
<1> QED BY <1>1, <1>4, <1>5 DEF LinkInv, WorkerInv, InJob, Manager!Terminal, vars, swaps

\* What run_encode, its watcher and HandBrake do keeps the components in agreement.
LEMMA LinkHandBrake ==
  ASSUME Components, LinkInv,
         Drive(RunEncode) \/ Watch \/ Child(HandBrakeStep)
  PROVE  LinkInv'
<1>1. UNCHANGED <<jmVars, vars>>
  BY DEF Drive, Watch, Child
<1>2. CASE pc = "encode"
  BY <1>1, <1>2 DEF LinkInv, WorkerInv, EncodeInv, Verdict, InJob, jmVars, vars, files,
                    swaps, Over, Ended, Manager!Terminal, Components, Inv, ChildInv
<1>3. CASE pc # "encode"
  <2>1. UNCHANGED <<hbPc, encoded>>
    BY <1>3 DEF Drive, Watch, Child, HandBrakeStep, HandBrake!Watcher, HandBrake!WatchPoll, HandBrake!WatchWait,
                HandBrake!WatchGrace, HandBrake!WatchKill, HandBrake!Child, HandBrake!ChildPrint,
                HandBrake!ChildClose, HandBrake!ChildExit, HandBrake!ChildDie, HandBrake!mainVars
  <2> QED BY <1>1, <2>1 DEF LinkInv, WorkerInv, EncodeInv, Verdict, InJob, jmVars, vars,
                            files, swaps, Over, Ended, Manager!Terminal
<1> QED BY <1>2, <1>3

\* A stutter changes none of it.
LEMMA LinkStutter ==
  ASSUME LinkInv, UNCHANGED serviceVars
  PROVE  LinkInv'
BY DEF LinkInv, WorkerInv, EncodeInv, Verdict, InJob, serviceVars, jmVars, vars, hbVars, files,
       Over, Ended, Manager!Terminal

\* What a status says is what lies on the disk: a completed job is published, a
\* cancelled one has left nothing and was not finished, no watched HandBrake runs on
\* unkilled for a job that is over, and the client of the end-to-end script finds
\* what it was promised.
THEOREM StatusTold == ServiceSpec => []StatusIsTrue
<1>1. Components /\ LinkInv /\ [ServiceNext]_serviceVars => LinkInv'
  BY StepCases, LinkManager, LinkOperate, LinkReturn, LinkHandBrake, LinkStutter DEF NotManager
<1>2. Components /\ LinkInv => StatusIsTrue
  BY LinkIsTrue
<1> QED BY <1>1, <1>2, LinkInit, ComponentsHold, PTL DEF ServiceSpec
=============================================================================
