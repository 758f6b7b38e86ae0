-------------------------- MODULE JobManagerProofs --------------------------
(***************************************************************************)
(* Theorems about JobManager, for any jobs, threads, limits and times.     *)
(***************************************************************************)
EXTENDS JobManager, FiniteSetTheorems, SequenceTheorems, TLAPS

Owned(j) == \E t \in Thread : Owns(t, j)

\* The queue holds a job once, after its put and before its get.
QueueInv ==
  /\ \A i \in 1..Len(queue) : queue[i] # None =>
       /\ post[queue[i]] \in Enqueued
       /\ status[queue[i]] = "queued"
       /\ ~Owned(queue[i])
  /\ \A i, k \in 1..Len(queue) : i # k /\ queue[i] = queue[k] => queue[i] = None

\* A worker owns a job exactly at its busy points, and shares it with nobody.
OwnerInv ==
  /\ \A t \in Thread : wjob[t] # None <=> wpc[t] \in Busy
  /\ \A t, u \in Thread : wjob[t] # None /\ wjob[t] = wjob[u] => t = u
  /\ \A t \in Thread : wjob[t] # None => post[wjob[t]] \in Enqueued

\* What the owner's program counter says of the status of its job.
StatusInv ==
  /\ \A j \in Job : post[j] \in {"new", "stored", "full"} => status[j] = "queued"
  /\ \A t \in Thread :
       /\ wpc[t] \in {"dec", "claim"} => status[wjob[t]] = "queued"
       /\ wpc[t] \in Busy => status[wjob[t]] \notin Terminal

\* A job that was accepted and has not ended is in the store, or cancelled, or
\* about to be.
ReachInv ==
  /\ \A j \in jobs : post[j] \in {"stored"} \cup Enqueued
  /\ \A j \in Job : Accepted(j) =>
       \/ running /\ j \in jobs
       \/ cancel[j]
       \/ shPc = "cancel" /\ j \in shTodo

IInv == TypeOK /\ QueueInv /\ OwnerInv /\ StatusInv /\ ReachInv

-----------------------------------------------------------------------------
(* Types. *)

\* Every step keeps the types of the manager's state: cited wherever an
\* inductive step needs to know what a variable holds.
LEMMA TypeStep == TypeOK /\ [Next]_vars => TypeOK'
<1> SUFFICES ASSUME TypeOK, [Next]_vars PROVE TypeOK'
  OBVIOUS
<1> USE ConstantsAssumption
<1>1. CASE Start
  BY <1>1 DEF Start, TypeOK, WorkerPc, jobVars, shutdownVars
<1>2. CASE ShutdownBegin
  BY <1>2 DEF ShutdownBegin, Unfinished, TypeOK, jobVars, workerVars
<1>3. ASSUME NEW j \in Job, ShutdownCancel(j) PROVE TypeOK'
  BY <1>3 DEF ShutdownCancel, TypeOK, managerVars, workerVars
<1>4. CASE ShutdownStop
  <2>1. Cardinality(threads) \in Nat
    BY FS_Subset, FS_CardinalityType DEF TypeOK, ConstantsAssumption
  <2> QED BY <1>4, <2>1 DEF ShutdownStop, Sentinels, TypeOK, managerVars, jobVars, workerVars
<1>5. CASE ShutdownPut
  BY <1>5 DEF ShutdownPut, TypeOK, jobVars, workerVars
<1>6. CASE ShutdownReturn
  BY <1>6 DEF ShutdownReturn, TypeOK, jobVars, workerVars
<1>7. ASSUME NEW j \in Job, Handler(j) PROVE TypeOK'
  <2>1. CASE SubmitRejected(j)
    BY <2>1 DEF SubmitRejected, TypeOK, Status, Terminal, Post, managerVars, workerVars, shutdownVars
  <2>2. CASE SubmitFull(j)
    BY <2>2 DEF SubmitFull, TypeOK, Post, managerVars, jobVars, workerVars, shutdownVars
  <2>3. CASE SubmitStore(j)
    BY <2>3 DEF SubmitStore, TypeOK, Post, jobVars, workerVars, shutdownVars
  <2>4. CASE SubmitPut(j)
    BY <2>4 DEF SubmitPut, TypeOK, Post, jobVars, workerVars, shutdownVars
  <2>5. CASE Reply(j)
    BY <2>5 DEF Reply, TypeOK, Post, managerVars, jobVars, workerVars, shutdownVars
  <2> QED BY <1>7, <2>1, <2>2, <2>3, <2>4, <2>5 DEF Handler
<1>8. ASSUME NEW j \in Job, Delete(j) PROVE TypeOK'
  BY <1>8 DEF Delete, TypeOK, workerVars, shutdownVars
<1>9. ASSUME NEW t \in Thread, WorkerStep(t) PROVE TypeOK'
  <2>1. CASE Get(t)
    <3>1. Head(queue) \in Job \cup {None} /\ Tail(queue) \in Seq(Job \cup {None})
      BY <2>1 DEF Get, TypeOK
    <3> QED BY <2>1, <3>1 DEF Get, TypeOK, WorkerPc, Busy, jobVars, shutdownVars
  <2>2. CASE Dec(t)
    BY <2>2 DEF Dec, TypeOK, WorkerPc, Busy, jobVars, shutdownVars
  <2>3. CASE Claim(t)
    BY <2>3 DEF Claim, TypeOK, WorkerPc, Busy, Status, Outcome, Terminal,
                managerVars, shutdownVars
  <2>4. CASE WriteFinishedAt(t)
    BY <2>4 DEF WriteFinishedAt, AfterFinishedAt, TypeOK, WorkerPc, Busy,
                managerVars, shutdownVars
  <2>5. CASE WriteError(t)
    BY <2>5 DEF WriteError, TypeOK, WorkerPc, Busy, managerVars, shutdownVars
  <2>6. CASE WriteStatus(t)
    <3>1. FinalStatus(t) \in Status
      BY DEF FinalStatus, TypeOK, Outcome, Status, Terminal
    <3> QED BY <2>6, <3>1 DEF WriteStatus, AfterJob, TypeOK, WorkerPc, managerVars, shutdownVars
  <2> QED BY <1>9, <2>1, <2>2, <2>3, <2>4, <2>5, <2>6 DEF WorkerStep
<1>10. ASSUME NEW t \in Thread, NEW o \in Outcome, Return(t, o) PROVE TypeOK'
  BY <1>10 DEF Return, TypeOK, WorkerPc, Busy, managerVars, jobVars, shutdownVars
<1>11. CASE SweepRead
  BY <1>11 DEF SweepRead, TypeOK, managerVars, jobVars, workerVars, shutdownVars
<1>12. CASE SweepEvict
  BY <1>12 DEF SweepEvict, TypeOK, jobVars, workerVars, shutdownVars
<1>13. CASE Tick
  BY <1>13 DEF Tick, TypeOK, managerVars, jobVars, workerVars, shutdownVars
<1>14. CASE UNCHANGED vars
  BY <1>14 DEF TypeOK, vars, managerVars, jobVars, workerVars, shutdownVars
<1> QED
  BY <1>1, <1>2, <1>3, <1>4, <1>5, <1>6, <1>7, <1>8, <1>9, <1>10, <1>11, <1>12,
     <1>13, <1>14 DEF Next, Shutdown

\* Before the first start() everything has its type.
LEMMA TypeInit == Init => TypeOK
<1> SUFFICES ASSUME Init PROVE TypeOK
  OBVIOUS
<1>1. queue \in Seq(Job \cup {None})
  BY DEF Init
<1>2. jobs \subseteq Job /\ threads \subseteq Thread /\ shTodo \subseteq Job
  BY DEF Init
<1>3. /\ status \in [Job -> Status] /\ post \in [Job -> Post]
      /\ finishedAt \in [Job -> Nat \cup {None}] /\ cancel \in [Job -> BOOLEAN]
      /\ error \in [Job -> {"none", "not_accepted", "raised"}]
  BY DEF Init, Status, Post
<1>4. /\ wpc \in [Thread -> WorkerPc] /\ wjob \in [Thread -> Job \cup {None}]
      /\ outcome \in [Thread -> Outcome]
  BY DEF Init, WorkerPc, Outcome, Terminal
<1>5. pending \in Int /\ shPuts \in Nat /\ now \in Nat
  BY DEF Init
<1>6. running \in BOOLEAN
  BY DEF Init
<1>7. shPc \in {"idle", "cancel", "stop"}
  BY DEF Init
<1>8. sweepNow \in Nat \cup {None}
  BY DEF Init
<1> QED BY <1>1, <1>2, <1>3, <1>4, <1>5, <1>6, <1>7, <1>8 DEF TypeOK

\* Every variable keeps the type the code gives it, in particular the terminal
\* status of a job whose function raised a BaseException.
THEOREM TypeCorrect == Spec => []TypeOK
BY TypeInit, TypeStep, PTL DEF Spec

-----------------------------------------------------------------------------
(* The inductive invariant. *)

\* Before the first start() nothing is queued, owned or accepted.
LEMMA InvInit == Init => IInv
<1> SUFFICES ASSUME Init PROVE IInv
  OBVIOUS
<1>1. QueueInv /\ OwnerInv
  BY DEF Init, QueueInv, OwnerInv, Owned, Owns, Busy
<1>2. StatusInv
  BY DEF Init, StatusInv, Busy
<1>3. ReachInv
  BY DEF Init, ReachInv, Accepted, Enqueued
<1> QED BY <1>1, <1>2, <1>3, TypeInit DEF IInv

\* The queue is touched by a put of a job, a put of a sentinel and a get.
LEMMA QueueStep == IInv /\ [Next]_vars => QueueInv'
<1> SUFFICES ASSUME IInv, [Next]_vars PROVE QueueInv'
  OBVIOUS
<1> USE ConstantsAssumption DEF IInv, Owned, Owns
<1>1. CASE UNCHANGED <<queue, post, status, wjob>>
  BY <1>1 DEF QueueInv
<1>2. ASSUME NEW j \in Job, SubmitRejected(j) \/ SubmitFull(j) \/ SubmitStore(j) \/ Reply(j)
      PROVE QueueInv'
  <2>1. queue' = queue /\ wjob' = wjob
    BY <1>2 DEF SubmitRejected, SubmitFull, SubmitStore, Reply, managerVars, workerVars
  <2>2. \A k \in Job : post[k] \in Enqueued =>
          post'[k] \in Enqueued /\ status'[k] = status[k]
    BY <1>2 DEF SubmitRejected, SubmitFull, SubmitStore, Reply, Enqueued, TypeOK, jobVars
  <2>3. \A i \in 1..Len(queue) : queue[i] # None => queue[i] \in Job
    BY DEF TypeOK
  <2> QED BY <2>1, <2>2, <2>3 DEF QueueInv
<1>3. ASSUME NEW j \in Job, SubmitPut(j) PROVE QueueInv'
  <2>1. \A i \in 1..Len(queue) : queue'[i] = queue[i] /\ queue[i] # j
    BY <1>3 DEF SubmitPut, QueueInv, Enqueued, TypeOK
  <2>2. Len(queue') = Len(queue) + 1 /\ queue'[Len(queue) + 1] = j
    BY <1>3 DEF SubmitPut, TypeOK
  <2>3. post'[j] \in Enqueued /\ status'[j] = "queued" /\ ~Owned(j)'
    BY <1>3 DEF SubmitPut, StatusInv, OwnerInv, Enqueued, TypeOK, jobVars, workerVars
  <2> QED BY <1>3, <2>1, <2>2, <2>3 DEF SubmitPut, QueueInv, Enqueued, TypeOK, jobVars, workerVars
<1>4. CASE ShutdownPut
  <2>1. \A i \in 1..Len(queue) : queue'[i] = queue[i]
    BY <1>4 DEF ShutdownPut, TypeOK
  <2>2. Len(queue') = Len(queue) + 1 /\ queue'[Len(queue) + 1] = None
    BY <1>4 DEF ShutdownPut, TypeOK
  <2> QED BY <1>4, <2>1, <2>2 DEF ShutdownPut, QueueInv, TypeOK, jobVars, workerVars
<1>5. ASSUME NEW t \in Thread, Get(t) PROVE QueueInv'
  <2>1. /\ Len(queue') = Len(queue) - 1
        /\ \A i \in 1..Len(queue') : i + 1 \in 1..Len(queue) /\ queue'[i] = queue[i + 1]
    BY <1>5 DEF Get, TypeOK
  <2>2. 1 \in 1..Len(queue) /\ Head(queue) = queue[1]
    BY <1>5 DEF Get, TypeOK
  <2>3. \A u \in Thread : wjob'[u] = wjob[u] \/ (wjob'[u] = queue[1])
    BY <1>5, <2>2 DEF Get, TypeOK
  <2>4. post' = post /\ status' = status
    BY <1>5 DEF Get, jobVars
  <2>5. \A i \in 1..Len(queue') : queue'[i] # None => queue'[i] # queue[1]
    <3> TAKE i \in 1..Len(queue')
    <3>1. i + 1 \in 1..Len(queue) /\ queue'[i] = queue[i + 1] /\ i + 1 # 1
      BY <2>1
    <3> QED BY <3>1, <2>2 DEF QueueInv
  <2>6. \A i \in 1..Len(queue') : queue'[i] # None => \A u \in Thread : wjob'[u] # queue'[i]
    <3> TAKE i \in 1..Len(queue')
    <3>1. i + 1 \in 1..Len(queue) /\ queue'[i] = queue[i + 1]
      BY <2>1
    <3> QED BY <3>1, <2>3, <2>5 DEF QueueInv
  <2>7. \A i, k \in 1..Len(queue') : i # k /\ queue'[i] = queue'[k] => queue'[i] = None
    <3> TAKE i, k \in 1..Len(queue')
    <3>1. i + 1 \in 1..Len(queue) /\ k + 1 \in 1..Len(queue) /\ (i # k => i + 1 # k + 1)
      BY <2>1
    <3> QED BY <3>1, <2>1 DEF QueueInv
  <2>8. \A i \in 1..Len(queue') : queue'[i] # None =>
          post'[queue'[i]] \in Enqueued /\ status'[queue'[i]] = "queued"
    BY <2>1, <2>4 DEF QueueInv
  <2> QED BY <2>6, <2>7, <2>8 DEF QueueInv, Enqueued
<1>6. ASSUME NEW t \in Thread, Claim(t) \/ WriteStatus(t) PROVE QueueInv'
  <2>1. wjob[t] # None /\ Owned(wjob[t])
    BY <1>6 DEF Claim, WriteStatus, OwnerInv, Busy
  <2>2. \A j \in Job : j # wjob[t] => status'[j] = status[j]
    BY <1>6 DEF Claim, WriteStatus, TypeOK
  <2>3. queue' = queue /\ post' = post
    BY <1>6 DEF Claim, WriteStatus, managerVars
  <2>4. \A j \in Job : Owned(j)' => Owned(j)
    BY <1>6 DEF Claim, WriteStatus, TypeOK
  <2>5. \A i \in 1..Len(queue) : queue[i] # None => queue[i] \in Job
    BY DEF TypeOK
  <2> QED BY <2>1, <2>2, <2>3, <2>4, <2>5 DEF QueueInv, Enqueued
<1>7. CASE Start \/ ShutdownBegin \/ ShutdownStop \/ ShutdownReturn \/ SweepRead
           \/ SweepEvict \/ Tick \/ UNCHANGED vars
  BY <1>7, <1>1 DEF Start, ShutdownBegin, ShutdownStop, ShutdownReturn, SweepRead,
                    SweepEvict, Tick, vars, managerVars, jobVars, workerVars
<1>8. ASSUME NEW j \in Job, ShutdownCancel(j) \/ Delete(j) PROVE QueueInv'
  BY <1>8, <1>1 DEF ShutdownCancel, Delete, managerVars, workerVars
<1>9. ASSUME NEW t \in Thread, NEW o \in Outcome,
             Dec(t) \/ Return(t, o) \/ WriteFinishedAt(t) \/ WriteError(t)
      PROVE QueueInv'
  BY <1>9, <1>1 DEF Dec, Return, WriteFinishedAt, WriteError, managerVars, jobVars
<1> QED
  <2>1. Outcome # {}
    BY DEF Outcome
  <2> QED BY <2>1, <1>2, <1>3, <1>4, <1>5, <1>6, <1>7, <1>8, <1>9
          DEF Next, Shutdown, Handler, WorkerStep

\* A get makes an owner, the last write ends the ownership.
LEMMA OwnerStep == IInv /\ [Next]_vars => OwnerInv'
<1> SUFFICES ASSUME IInv, [Next]_vars PROVE OwnerInv'
  OBVIOUS
<1> USE ConstantsAssumption DEF IInv
<1>1. ASSUME wjob' = wjob, post' = post,
             \A t \in Thread : wpc'[t] \in Busy <=> wpc[t] \in Busy
      PROVE OwnerInv'
  BY <1>1 DEF OwnerInv, Enqueued
<1>2. ASSUME NEW j \in Job, Handler(j) PROVE OwnerInv'
  <2>1. wjob' = wjob /\ wpc' = wpc
    BY <1>2 DEF Handler, SubmitRejected, SubmitFull, SubmitStore, SubmitPut, Reply, workerVars
  <2>2. \A k \in Job : post[k] \in Enqueued => post'[k] \in Enqueued
    BY <1>2 DEF Handler, SubmitRejected, SubmitFull, SubmitStore, SubmitPut, Reply,
                Enqueued, TypeOK
  <2> QED BY <2>1, <2>2 DEF OwnerInv, TypeOK
<1>3. CASE Start
  BY <1>3, <1>1 DEF Start, OwnerInv, Busy, TypeOK
<1>4. ASSUME NEW t \in Thread, Get(t) PROVE OwnerInv'
  <2>1. Head(queue) = queue[1] /\ 1 \in 1..Len(queue) /\ Head(queue) \in Job \cup {None}
    BY <1>4 DEF Get, TypeOK
  <2>2. wjob[t] = None
    BY <1>4 DEF Get, OwnerInv, Busy, TypeOK
  <2>3. post' = post /\ \A u \in Thread : u # t => wpc'[u] = wpc[u] /\ wjob'[u] = wjob[u]
    BY <1>4 DEF Get, TypeOK
  <2>4. CASE Head(queue) = None
    BY <1>4, <2>2, <2>3, <2>4 DEF Get, OwnerInv, Busy, TypeOK
  <2>5. CASE Head(queue) # None
    <3>1. post[Head(queue)] \in Enqueued /\ \A u \in Thread : wjob[u] # Head(queue)
      BY <2>1, <2>5 DEF QueueInv, Owned, Owns
    <3>2. wjob'[t] = Head(queue) /\ wpc'[t] = "dec"
      BY <1>4, <2>5 DEF Get, TypeOK
    <3> QED BY <2>3, <2>5, <3>1, <3>2 DEF OwnerInv, Busy
  <2> QED BY <2>4, <2>5
<1>5. ASSUME NEW t \in Thread, NEW o \in Outcome,
             Dec(t) \/ Claim(t) \/ Return(t, o) \/ WriteFinishedAt(t) \/ WriteError(t)
      PROVE OwnerInv'
  BY <1>5, <1>1 DEF Dec, Claim, Return, WriteFinishedAt, AfterFinishedAt, WriteError,
                    Busy, TypeOK
<1>6. ASSUME NEW t \in Thread, WriteStatus(t) PROVE OwnerInv'
  <2>1. /\ wjob'[t] = None /\ wpc'[t] \notin Busy /\ post' = post
        /\ \A u \in Thread : u # t => wpc'[u] = wpc[u] /\ wjob'[u] = wjob[u]
    BY <1>6 DEF WriteStatus, AfterJob, Busy, TypeOK
  <2> QED BY <2>1 DEF OwnerInv
<1>7. CASE ShutdownBegin \/ ShutdownStop \/ ShutdownPut \/ ShutdownReturn \/ SweepRead
           \/ SweepEvict \/ Tick \/ UNCHANGED vars
  BY <1>7, <1>1 DEF ShutdownBegin, ShutdownStop, ShutdownPut, ShutdownReturn, SweepRead,
                    SweepEvict, Tick, vars, workerVars
<1>8. ASSUME NEW j \in Job, ShutdownCancel(j) \/ Delete(j) PROVE OwnerInv'
  BY <1>8, <1>1 DEF ShutdownCancel, Delete, workerVars
<1> QED
  <2>1. Outcome # {}
    BY DEF Outcome
  <2> QED BY <2>1, <1>2, <1>3, <1>4, <1>5, <1>6, <1>7, <1>8 DEF Next, Shutdown, WorkerStep

\* Only the owner changes the status of a job that was put, and the job leaves
\* its hands with the terminal status.
LEMMA StatusStep == IInv /\ [Next]_vars => StatusInv'
<1> SUFFICES ASSUME IInv, [Next]_vars PROVE StatusInv'
  OBVIOUS
<1> USE ConstantsAssumption DEF IInv
<1>1. CASE UNCHANGED <<status, post, wpc, wjob>>
  BY <1>1 DEF StatusInv
<1>2. ASSUME NEW j \in Job, Handler(j) PROVE StatusInv'
  <2>1. wjob' = wjob /\ wpc' = wpc
    BY <1>2 DEF Handler, SubmitRejected, SubmitFull, SubmitStore, SubmitPut, Reply, workerVars
  <2>2. \A k \in Job : post[k] # "new" => status'[k] = status[k]
    BY <1>2 DEF Handler, SubmitRejected, SubmitFull, SubmitStore, SubmitPut, Reply,
                jobVars, TypeOK
  <2>3. \A k \in Job : post'[k] \in {"new", "stored", "full"} => status'[k] = "queued"
    BY <1>2 DEF Handler, SubmitRejected, SubmitFull, SubmitStore, SubmitPut, Reply,
                jobVars, StatusInv, TypeOK
  <2>4. \A t \in Thread : wpc[t] \in Busy => wjob[t] \in Job /\ post[wjob[t]] # "new"
    BY DEF OwnerInv, Enqueued, TypeOK
  <2> QED BY <2>1, <2>2, <2>3, <2>4 DEF StatusInv, Busy
<1>3. CASE Start
  BY <1>3 DEF Start, StatusInv, Busy, TypeOK, jobVars
<1>4. ASSUME NEW t \in Thread, Get(t) PROVE StatusInv'
  <2>1. Head(queue) = queue[1] /\ 1 \in 1..Len(queue)
    BY <1>4 DEF Get, TypeOK
  <2>2. Head(queue) # None => status[Head(queue)] = "queued"
    BY <2>1 DEF QueueInv
  <2>3. /\ post' = post /\ status' = status
        /\ \A u \in Thread : u # t => wpc'[u] = wpc[u] /\ wjob'[u] = wjob[u]
        /\ \/ wpc'[t] = "exited"
           \/ Head(queue) # None /\ wjob'[t] = Head(queue)
    BY <1>4 DEF Get, TypeOK, jobVars
  <2> QED BY <2>2, <2>3 DEF StatusInv, Busy, Terminal
<1>5. ASSUME NEW t \in Thread, NEW o \in Outcome,
             Dec(t) \/ Return(t, o) \/ WriteFinishedAt(t) \/ WriteError(t)
      PROVE StatusInv'
  BY <1>5 DEF Dec, Return, WriteFinishedAt, AfterFinishedAt, WriteError,
              StatusInv, Busy, TypeOK, jobVars
<1>6. ASSUME NEW t \in Thread, Claim(t) \/ WriteStatus(t) PROVE StatusInv'
  <2>1. /\ post' = post /\ \A u \in Thread : u # t => wpc'[u] = wpc[u] /\ wjob'[u] = wjob[u]
        /\ \A j \in Job : j # wjob[t] => status'[j] = status[j]
    BY <1>6 DEF Claim, WriteStatus, TypeOK
  <2>2. wpc[t] \in Busy /\ wjob[t] \in Job /\ post[wjob[t]] \in Enqueued
    BY <1>6 DEF Claim, WriteStatus, OwnerInv, Busy, TypeOK
  <2>3. \A u \in Thread : u # t /\ wpc[u] \in Busy => wjob[u] \in Job /\ wjob[u] # wjob[t]
    BY <2>2 DEF OwnerInv, TypeOK
  <2>4. \/ /\ wjob'[t] = wjob[t] /\ wpc'[t] \in {"run", "finish"}
           /\ status'[wjob[t]] \notin Terminal
        \/ wpc'[t] \notin Busy
    BY <1>6, <2>2 DEF Claim, WriteStatus, AfterJob, StatusInv, Busy, Terminal, TypeOK
  <2>5. \A j \in Job : post'[j] \in {"new", "stored", "full"} => status'[j] = "queued"
    BY <2>1, <2>2 DEF StatusInv, Enqueued
  <2> QED BY <2>1, <2>3, <2>4, <2>5 DEF StatusInv, Busy
<1>7. CASE ShutdownBegin \/ ShutdownStop \/ ShutdownPut \/ ShutdownReturn \/ SweepRead
           \/ SweepEvict \/ Tick \/ UNCHANGED vars
  BY <1>7, <1>1 DEF ShutdownBegin, ShutdownStop, ShutdownPut, ShutdownReturn, SweepRead,
                    SweepEvict, Tick, vars, workerVars, jobVars
<1>8. ASSUME NEW j \in Job, ShutdownCancel(j) \/ Delete(j) PROVE StatusInv'
  BY <1>8, <1>1 DEF ShutdownCancel, Delete, workerVars
<1> QED
  <2>1. Outcome # {}
    BY DEF Outcome
  <2> QED BY <2>1, <1>2, <1>3, <1>4, <1>5, <1>6, <1>7, <1>8 DEF Next, Shutdown, WorkerStep

\* shutdown() takes its snapshot where it stops accepting, so no job slips
\* between the two; delete() cancels what it removes, and the sweep removes
\* only what has ended.
LEMMA ReachStep == IInv /\ [Next]_vars => ReachInv'
<1> SUFFICES ASSUME IInv, [Next]_vars PROVE ReachInv'
  OBVIOUS
<1> USE ConstantsAssumption DEF IInv
\* A step that ends jobs, cancels jobs or adds to the store only helps.
<1>1. ASSUME running' = running, shPc' = shPc, shTodo' = shTodo, post' = post,
             jobs' = jobs,
             \A j \in Job : cancel[j] => cancel'[j],
             \A j \in Job : status[j] \in Terminal => status'[j] \in Terminal
      PROVE ReachInv'
  BY <1>1 DEF ReachInv, Accepted, Enqueued, TypeOK
<1>2. ASSUME NEW j \in Job, Handler(j) PROVE ReachInv'
  <2>1. /\ running' = running /\ shPc' = shPc /\ shTodo' = shTodo /\ cancel' = cancel
        /\ jobs \subseteq jobs' /\ jobs' \subseteq jobs \cup {j}
        /\ \A k \in Job : k # j => post'[k] = post[k] /\ status'[k] = status[k]
    BY <1>2 DEF Handler, SubmitRejected, SubmitFull, SubmitStore, SubmitPut, Reply,
                managerVars, jobVars, shutdownVars, TypeOK
  <2>2. \/ post'[j] \in Enqueued /\ status'[j] \in Terminal /\ jobs' = jobs
        \/ post'[j] = "full" /\ post[j] = "new" /\ jobs' = jobs
        \/ post'[j] = "stored" /\ running /\ j \in jobs'
        \/ /\ post[j] \in {"stored"} \cup Enqueued /\ post'[j] \in Enqueued
           /\ status'[j] = status[j] /\ jobs' = jobs
    BY <1>2 DEF Handler, SubmitRejected, SubmitFull, SubmitStore, SubmitPut, Reply,
                managerVars, jobVars, Enqueued, Terminal, TypeOK
  <2>3. jobs \subseteq Job /\ (post[j] = "new" => j \notin jobs)
    BY DEF ReachInv, Enqueued, TypeOK
  <2> QED BY <2>1, <2>2, <2>3 DEF ReachInv, Accepted, Enqueued
<1>3. CASE Start
  BY <1>3 DEF Start, jobVars, shutdownVars, ReachInv, Accepted, Enqueued
<1>4. CASE ShutdownBegin
  BY <1>4 DEF ShutdownBegin, Unfinished, jobVars, ReachInv, Accepted, Enqueued
<1>5. ASSUME NEW j \in Job, ShutdownCancel(j) PROVE ReachInv'
  BY <1>5 DEF ShutdownCancel, managerVars, ReachInv, Accepted, Enqueued, TypeOK
<1>6. CASE ShutdownStop \/ ShutdownReturn
  BY <1>6 DEF ShutdownStop, ShutdownReturn, managerVars, jobVars, ReachInv, Accepted, Enqueued
<1>7. ASSUME NEW j \in Job, Delete(j) PROVE ReachInv'
  BY <1>7 DEF Delete, shutdownVars, ReachInv, Accepted, Enqueued, TypeOK
<1>8. CASE SweepEvict
  BY <1>8 DEF SweepEvict, Expired, jobVars, shutdownVars, ReachInv, Accepted, Enqueued, TypeOK
<1>9. ASSUME NEW t \in Thread, WorkerStep(t) PROVE ReachInv'
  <2>1. \A j \in Job : status[j] \in Terminal => status'[j] \in Terminal
    <3>1. wpc[t] \in Busy => wjob[t] \in Job /\ status[wjob[t]] \notin Terminal
      BY DEF OwnerInv, StatusInv, TypeOK
    <3> QED BY <1>9, <3>1 DEF WorkerStep, Get, Dec, Claim, WriteFinishedAt, WriteError,
                WriteStatus, Busy, jobVars, TypeOK
  <2>2. /\ running' = running /\ shPc' = shPc /\ shTodo' = shTodo /\ post' = post
        /\ jobs' = jobs /\ cancel' = cancel
    BY <1>9 DEF WorkerStep, Get, Dec, Claim, WriteFinishedAt, WriteError,
                WriteStatus, managerVars, jobVars, shutdownVars
  <2> QED BY <2>1, <2>2, <1>1
<1>10. CASE ShutdownPut \/ SweepRead \/ Tick \/ UNCHANGED vars
  BY <1>10, <1>1 DEF ShutdownPut, SweepRead, Tick, vars, managerVars, jobVars, shutdownVars
<1>11. ASSUME NEW t \in Thread, NEW o \in Outcome, Return(t, o) PROVE ReachInv'
  BY <1>11, <1>1 DEF Return, managerVars, jobVars, shutdownVars
<1> QED
  BY <1>2, <1>3, <1>4, <1>5, <1>6, <1>7, <1>8, <1>9, <1>10, <1>11 DEF Next, Shutdown

\* The inductive invariant holds in every behaviour of the manager.
THEOREM Invariance == Spec => []IInv
<1>1. IInv /\ [Next]_vars => IInv'
  BY TypeStep, QueueStep, OwnerStep, StatusStep, ReachStep DEF IInv
<1> QED BY InvInit, <1>1, PTL DEF Spec

\* No job is enqueued and escapes the snapshot of shutdown(), whatever submit(),
\* delete(), the sweep and the workers do meanwhile.
THEOREM ShutdownReaches == Spec => []ShutdownReachesEveryJob
<1>1. IInv => ShutdownReachesEveryJob
  BY DEF IInv, ReachInv, ShutdownReachesEveryJob
<1> QED BY Invariance, <1>1, PTL

\* Of two threads never both write a job: Job's lock-free fields have one writer.
THEOREM OneWriter == Spec => SingleWriter
<1> DEFINE Fields(j) == <<status[j], finishedAt[j], error[j]>>
           Mine(j) == \E t \in Thread : \A u \in Thread : Owns(u, j) <=> u = t
<1>1. ASSUME IInv, [Next]_vars, NEW j \in Job, Fields(j)' # Fields(j)
      PROVE post[j] = "new" \/ Mine(j)
  <2> USE <1>1 DEF IInv
  <2>1. CASE \E k \in Job : Handler(k) \/ Delete(k)
    BY <2>1 DEF Handler, SubmitRejected, SubmitFull, SubmitStore, SubmitPut, Reply, Delete,
                jobVars, TypeOK
  <2>2. ASSUME NEW t \in Thread, NEW o \in Outcome, WorkerStep(t) \/ Return(t, o)
        PROVE Mine(j)
    <3>1. wjob[t] = j
      BY <2>2 DEF WorkerStep, Return, Get, Dec, Claim, WriteFinishedAt, WriteError,
                  WriteStatus, jobVars, TypeOK
    <3> QED BY <3>1, ConstantsAssumption DEF OwnerInv, Owns, ConstantsAssumption
  <2>3. CASE Start \/ Shutdown \/ SweepRead \/ SweepEvict \/ Tick \/ UNCHANGED vars
    BY <2>3 DEF Start, Shutdown, ShutdownBegin, ShutdownCancel, ShutdownStop, ShutdownPut,
                ShutdownReturn, SweepRead, SweepEvict, Tick, vars, jobVars
  <2>4. Outcome # {}
    BY DEF Outcome
  <2> QED BY <2>1, <2>2, <2>3, <2>4 DEF Next
<1>2. IInv /\ [Next]_vars => [\A j \in Job : WrittenByOwner(j)]_vars
  BY <1>1 DEF WrittenByOwner
<1> QED BY Invariance, <1>2, PTL DEF Spec, SingleWriter

-----------------------------------------------------------------------------
(* Nothing is lost. *)

Held(j) == post[j] = "stored" \/ InQueue(j) \/ Owned(j)
HeldInv == \A j \in Job : Accepted(j) => Held(j)

\* A get passes the job from the queue to its worker, a put from its handler to
\* the queue; only the last write of the worker lets go of it, and then it has
\* ended.
LEMMA HeldStep == IInv /\ HeldInv /\ [Next]_vars => HeldInv'
<1> SUFFICES ASSUME IInv, HeldInv, [Next]_vars, NEW k \in Job, Accepted(k)'
             PROVE Held(k)'
  BY DEF HeldInv
<1> USE ConstantsAssumption DEF IInv
<1>1. ASSUME Accepted(k), post'[k] = post[k],
             \A i \in 1..Len(queue) : i \in 1..Len(queue') /\ queue'[i] = queue[i],
             \A t \in Thread : wjob[t] = k => wjob'[t] = k
      PROVE Held(k)'
  BY <1>1 DEF HeldInv, Held, InQueue, Owned, Owns
<1>2. ASSUME NEW j \in Job, Handler(j) PROVE Held(k)'
  <2>1. CASE SubmitPut(j) /\ j = k
    <3>1. Len(queue') = Len(queue) + 1 /\ queue'[Len(queue) + 1] = k /\ Len(queue) \in Nat
      BY <2>1 DEF SubmitPut, TypeOK
    <3>2. Len(queue) + 1 \in 1..Len(queue')
      BY <3>1
    <3> QED BY <3>1, <3>2 DEF Held, InQueue
  <2>2. CASE SubmitPut(j) /\ j # k
    <3>1. \A i \in 1..Len(queue) : i \in 1..Len(queue') /\ queue'[i] = queue[i]
      BY <2>2 DEF SubmitPut, TypeOK
    <3>2. Accepted(k) /\ post'[k] = post[k] /\ wjob' = wjob
      BY <2>2 DEF SubmitPut, Accepted, TypeOK, jobVars, workerVars
    <3> QED BY <3>1, <3>2, <1>1
  <2>3. CASE SubmitStore(j) /\ j = k
    BY <2>3 DEF SubmitStore, Held, TypeOK
  <2>4. CASE SubmitRejected(j) \/ SubmitFull(j) \/ Reply(j) \/ (SubmitStore(j) /\ j # k)
    <3>1. queue' = queue /\ wjob' = wjob
      BY <2>4 DEF SubmitRejected, SubmitFull, SubmitStore, Reply, managerVars, workerVars
    <3>2. Accepted(k) /\ (post[k] = "stored" => post'[k] = "stored")
      BY <2>4 DEF SubmitRejected, SubmitFull, SubmitStore, Reply, Accepted, Enqueued,
                  Terminal, TypeOK, jobVars
    <3> QED BY <3>1, <3>2 DEF HeldInv, Held, InQueue, Owned, Owns
  <2> QED BY <1>2, <2>1, <2>2, <2>3, <2>4 DEF Handler
<1>3. ASSUME NEW t \in Thread, Get(t) PROVE Held(k)'
  <2>1. /\ Len(queue') = Len(queue) - 1 /\ Len(queue) \in Nat /\ queue[1] = Head(queue)
        /\ \A i \in 1..Len(queue) : i # 1 => i - 1 \in 1..Len(queue') /\ queue'[i - 1] = queue[i]
    BY <1>3 DEF Get, TypeOK
  <2>2. post' = post /\ Accepted(k)
    BY <1>3 DEF Get, jobVars, Accepted
  <2>3. wjob[t] = None
    BY <1>3 DEF Get, OwnerInv, Busy, TypeOK
  <2>4. \A u \in Thread : wjob[u] = k => wjob'[u] = k
    BY <1>3, <2>3 DEF Get, TypeOK
  <2>5. Head(queue) = k => wjob'[t] = k
    BY <1>3 DEF Get, TypeOK
  <2>6. ASSUME NEW i \in 1..Len(queue), queue[i] = k PROVE Held(k)'
    BY <2>1, <2>5, <2>6 DEF Held, InQueue, Owned, Owns
  <2> QED BY <2>2, <2>4, <2>6 DEF HeldInv, Held, InQueue, Owned, Owns
<1>4. ASSUME NEW t \in Thread, WriteStatus(t) PROVE Held(k)'
  <2>1. wjob[t] # k
    <3> SUFFICES ASSUME wjob[t] = k PROVE FALSE
      OBVIOUS
    <3>1. status'[k] \in Terminal
      BY <1>4 DEF WriteStatus, FinalStatus, Outcome, Terminal, TypeOK
    <3> QED BY <3>1 DEF Accepted
  <2>2. Accepted(k) /\ queue' = queue /\ post' = post
    BY <1>4, <2>1 DEF WriteStatus, Accepted, managerVars, TypeOK
  <2>3. \A u \in Thread : wjob[u] = k => wjob'[u] = k
    BY <1>4, <2>1 DEF WriteStatus, TypeOK
  <2> QED BY <2>2, <2>3, <1>1
<1>5. ASSUME NEW t \in Thread, NEW o \in Outcome,
             Dec(t) \/ Claim(t) \/ Return(t, o) \/ WriteFinishedAt(t) \/ WriteError(t)
      PROVE Held(k)'
  <2>1. queue' = queue /\ post' = post /\ wjob' = wjob
    BY <1>5 DEF Dec, Claim, Return, WriteFinishedAt, WriteError, managerVars
  <2>2. Accepted(k)
    BY <1>5 DEF Dec, Claim, Return, WriteFinishedAt, WriteError, managerVars, jobVars,
                Accepted, StatusInv, OwnerInv, Busy, TypeOK
  <2> QED BY <2>1, <2>2, <1>1
<1>6. CASE Start \/ ShutdownBegin \/ ShutdownStop \/ ShutdownReturn \/ SweepRead
           \/ SweepEvict \/ Tick \/ UNCHANGED vars
  BY <1>6, <1>1 DEF Start, ShutdownBegin, ShutdownStop, ShutdownReturn, SweepRead,
                    SweepEvict, Tick, vars, managerVars, jobVars, workerVars, Accepted
<1>7. CASE ShutdownPut
  <2>1. \A i \in 1..Len(queue) : i \in 1..Len(queue') /\ queue'[i] = queue[i]
    BY <1>7 DEF ShutdownPut, TypeOK
  <2> QED BY <1>7, <2>1, <1>1 DEF ShutdownPut, jobVars, workerVars, Accepted
<1>8. ASSUME NEW j \in Job, ShutdownCancel(j) \/ Delete(j) PROVE Held(k)'
  BY <1>8, <1>1 DEF ShutdownCancel, Delete, managerVars, workerVars, Accepted
<1> QED
  <2>1. Outcome # {}
    BY DEF Outcome
  <2> QED BY <2>1, <1>2, <1>3, <1>4, <1>5, <1>6, <1>7, <1>8 DEF Next, Shutdown, WorkerStep

\* No exit of a worker, no shutdown and no restart drops a job that was accepted
\* and has not ended: its handler, the queue or a live worker has it.
THEOREM NothingLost == Spec => []NoJobLost
<1>1. Init => HeldInv
  BY DEF Init, HeldInv, Accepted, Enqueued
<1>2. IInv /\ HeldInv => NoJobLost
  <2> SUFFICES ASSUME OwnerInv, HeldInv PROVE NoJobLost
    BY DEF IInv
  <2>1. ASSUME NEW j \in Job, NEW t \in Thread, Owns(t, j) PROVE wpc[t] \in Busy
    BY <2>1, ConstantsAssumption DEF Owns, OwnerInv, ConstantsAssumption
  <2> QED BY <2>1 DEF HeldInv, Held, Owned, NoJobLost
<1> QED BY Invariance, HeldStep, <1>1, <1>2, PTL DEF Spec

-----------------------------------------------------------------------------
(* A terminal status comes last. *)

\* What the owner has written by the time it is at a point.
WrittenInv ==
  \A t \in Thread :
    /\ wpc[t] \in {"explain", "publish"} => finishedAt[wjob[t]] # None
    /\ wpc[t] = "publish" /\ outcome[t] \in {"failed", "fatal"} => error[wjob[t]] # "none"

\* The fields that explain a terminal status are written before it, and nobody
\* takes them back.
LEMMA WrittenStep ==
  IInv /\ WrittenInv /\ TerminalIsComplete /\ [Next]_vars => WrittenInv' /\ TerminalIsComplete'
<1> SUFFICES ASSUME IInv, WrittenInv, TerminalIsComplete, [Next]_vars
             PROVE WrittenInv' /\ TerminalIsComplete'
  OBVIOUS
<1> USE ConstantsAssumption DEF IInv
<1>1. ASSUME UNCHANGED <<status, finishedAt, error>>, UNCHANGED <<wjob, outcome>>,
             \A t \in Thread : wpc'[t] \in {"explain", "publish"} => wpc'[t] = wpc[t]
      PROVE WrittenInv' /\ TerminalIsComplete'
  BY <1>1 DEF WrittenInv, TerminalIsComplete
<1>2. ASSUME NEW j \in Job, Handler(j) PROVE WrittenInv' /\ TerminalIsComplete'
  <2>1. CASE SubmitRejected(j)
    <3>1. \A t \in Thread : wpc[t] \in Busy => wjob[t] # j
      BY <2>1 DEF SubmitRejected, OwnerInv, Enqueued
    <3>2. /\ wpc' = wpc /\ wjob' = wjob /\ outcome' = outcome
          /\ \A k \in Job : k # j => /\ status'[k] = status[k] /\ error'[k] = error[k]
                                     /\ finishedAt'[k] = finishedAt[k]
          /\ finishedAt'[j] # None /\ error'[j] # "none"
      BY <2>1 DEF SubmitRejected, workerVars, TypeOK
    <3>3. \A t \in Thread : wpc[t] \in Busy => wjob[t] \in Job
      BY DEF OwnerInv, TypeOK
    <3> QED BY <3>1, <3>2, <3>3 DEF WrittenInv, TerminalIsComplete, Busy
  <2>2. CASE ~SubmitRejected(j)
    BY <1>2, <2>2, <1>1 DEF Handler, SubmitFull, SubmitStore, SubmitPut, Reply,
                            jobVars, workerVars
  <2> QED BY <2>1, <2>2
<1>3. ASSUME NEW t \in Thread, NEW o \in Outcome,
             Claim(t) \/ Return(t, o) \/ WriteFinishedAt(t) \/ WriteError(t) \/ WriteStatus(t)
      PROVE WrittenInv' /\ TerminalIsComplete'
  <2>1. wpc[t] \in Busy /\ wjob[t] \in Job /\ status[wjob[t]] \notin Terminal
    BY <1>3 DEF Claim, Return, WriteFinishedAt, WriteError, WriteStatus, OwnerInv,
                StatusInv, Busy, TypeOK
  <2>2. \A u \in Thread : u # t /\ wpc[u] \in Busy => wjob[u] \in Job /\ wjob[u] # wjob[t]
    BY <2>1 DEF OwnerInv, TypeOK
  <2>3. /\ \A u \in Thread : u # t => /\ wpc'[u] = wpc[u] /\ wjob'[u] = wjob[u]
                                      /\ outcome'[u] = outcome[u]
        /\ \A k \in Job : k # wjob[t] => /\ status'[k] = status[k] /\ error'[k] = error[k]
                                         /\ finishedAt'[k] = finishedAt[k]
    BY <1>3, <2>1 DEF Claim, Return, WriteFinishedAt, WriteError, WriteStatus, jobVars, TypeOK
  <2>4. /\ wpc'[t] \in {"explain", "publish"} =>
             wjob'[t] = wjob[t] /\ finishedAt'[wjob[t]] # None
        /\ wpc'[t] = "publish" /\ outcome'[t] \in {"failed", "fatal"} =>
             error'[wjob[t]] # "none"
    BY <1>3, <2>1 DEF Claim, Return, WriteFinishedAt, AfterFinishedAt, WriteError,
                      WriteStatus, AfterJob, jobVars, WrittenInv, TypeOK
  <2>5. status'[wjob[t]] \in Terminal =>
          /\ finishedAt'[wjob[t]] # None
          /\ status'[wjob[t]] = "failed" => error'[wjob[t]] # "none"
    <3>1. CASE WriteStatus(t)
      BY <3>1, <2>1 DEF WriteStatus, FinalStatus, WrittenInv, Outcome, Terminal, TypeOK
    <3>2. CASE ~WriteStatus(t)
      BY <1>3, <3>2, <2>1 DEF Claim, Return, WriteFinishedAt, WriteError, jobVars, Terminal, TypeOK
    <3> QED BY <3>1, <3>2
  <2> QED BY <2>2, <2>3, <2>4, <2>5 DEF WrittenInv, TerminalIsComplete, Busy
<1>4. ASSUME NEW t \in Thread, Get(t) \/ Dec(t) PROVE WrittenInv' /\ TerminalIsComplete'
  <2>1. /\ UNCHANGED <<status, finishedAt, error, outcome>>
        /\ wpc'[t] \notin {"explain", "publish"}
        /\ \A u \in Thread : u # t => wpc'[u] = wpc[u] /\ wjob'[u] = wjob[u]
    BY <1>4 DEF Get, Dec, jobVars, TypeOK
  <2> QED BY <2>1 DEF WrittenInv, TerminalIsComplete
<1>5. CASE Start
  BY <1>5, <1>1 DEF Start, jobVars, TypeOK
<1>6. CASE ShutdownBegin \/ ShutdownStop \/ ShutdownPut \/ ShutdownReturn \/ SweepRead
           \/ SweepEvict \/ Tick \/ UNCHANGED vars
  BY <1>6, <1>1 DEF ShutdownBegin, ShutdownStop, ShutdownPut, ShutdownReturn, SweepRead,
                    SweepEvict, Tick, vars, workerVars, jobVars
<1>7. ASSUME NEW j \in Job, ShutdownCancel(j) \/ Delete(j)
      PROVE WrittenInv' /\ TerminalIsComplete'
  BY <1>7, <1>1 DEF ShutdownCancel, Delete, workerVars
<1> QED
  <2>1. Outcome # {}
    BY DEF Outcome
  <2> QED BY <2>1, <1>2, <1>3, <1>4, <1>5, <1>6, <1>7 DEF Next, Shutdown, WorkerStep

\* Whoever sees a terminal status sees when the job finished and why it failed.
THEOREM TerminalLast == Spec => []TerminalIsComplete
<1>1. Init => WrittenInv /\ TerminalIsComplete
  BY DEF Init, WrittenInv, TerminalIsComplete, Terminal
<1> QED BY Invariance, WrittenStep, <1>1, PTL DEF Spec

-----------------------------------------------------------------------------
(* The counter agrees with the jobs it counts. *)

\* The backlog can be counted.
LEMMA WaitingFinite == IInv => IsFiniteSet(Waiting) /\ Cardinality(Waiting) \in Nat
BY ConstantsAssumption, FS_Subset, FS_CardinalityType DEF Waiting, ConstantsAssumption

\* A job starts to wait in SubmitStore and stops in Dec; the put and the get
\* between them change where it waits, not whether.
LEMMA WaitingStep ==
  IInv /\ [Next]_vars =>
    \/ Waiting' = Waiting /\ pending' = pending
    \/ /\ \E j \in Job : j \notin Waiting /\ Waiting' = Waiting \cup {j}
       /\ pending' = pending + 1 /\ ~BacklogFull
    \/ /\ \E j \in Waiting : Waiting' = Waiting \ {j}
       /\ pending' = pending - 1
<1> DEFINE Goal == \/ Waiting' = Waiting /\ pending' = pending
                   \/ /\ \E j \in Job : j \notin Waiting /\ Waiting' = Waiting \cup {j}
                      /\ pending' = pending + 1 /\ ~BacklogFull
                   \/ /\ \E j \in Waiting : Waiting' = Waiting \ {j}
                      /\ pending' = pending - 1
           Queued(j) == InQueue(j)
           Taken(j) == \E t \in Thread : Owns(t, j) /\ wpc[t] = "dec"
<1> SUFFICES ASSUME IInv, [Next]_vars PROVE Goal
  OBVIOUS
<1> USE ConstantsAssumption DEF IInv
<1> HIDE DEF Goal, Queued, Taken
<1>1. Waiting = {j \in Job : post[j] = "stored" \/ Queued(j) \/ Taken(j)}
  BY DEF Waiting, Queued, Taken
<1>2. Waiting' = {j \in Job : post'[j] = "stored" \/ Queued(j)' \/ Taken(j)'}
  BY DEF Waiting, Queued, Taken
<1>3. ASSUME \A j \in Job : post'[j] = "stored" <=> post[j] = "stored",
             \A j \in Job : Queued(j)' <=> Queued(j),
             \A j \in Job : Taken(j)' <=> Taken(j)
      PROVE Waiting' = Waiting
  BY <1>3, <1>1, <1>2
<1>4. ASSUME UNCHANGED queue PROVE \A j \in Job : Queued(j)' <=> Queued(j)
  BY <1>4 DEF Queued, InQueue
<1>5. ASSUME UNCHANGED wjob, \A t \in Thread : wpc'[t] = "dec" <=> wpc[t] = "dec"
      PROVE \A j \in Job : Taken(j)' <=> Taken(j)
  BY <1>5 DEF Taken, Owns
<1>6. ASSUME NEW j \in Job, Handler(j) PROVE Goal
  <2>1. \A k \in Job : Taken(k)' <=> Taken(k)
    BY <1>6, <1>5 DEF Handler, SubmitRejected, SubmitFull, SubmitStore, SubmitPut, Reply, workerVars
  <2>2. CASE SubmitStore(j)
    <3>1. post[j] # "stored" /\ ~Queued(j) /\ ~Taken(j)
      BY <2>2 DEF SubmitStore, Queued, InQueue, Taken, Owns, QueueInv, OwnerInv, Enqueued
    <3>2. \A k \in Job : (post'[k] = "stored" <=> post[k] = "stored" \/ k = j)
      BY <2>2 DEF SubmitStore, TypeOK
    <3>3. \A k \in Job : Queued(k)' <=> Queued(k)
      BY <2>2, <1>4 DEF SubmitStore
    <3>4. j \notin Waiting /\ Waiting' = Waiting \cup {j}
      BY <3>1, <3>2, <3>3, <2>1, <1>1, <1>2
    <3> QED BY <2>2, <3>4 DEF SubmitStore, Goal
  <2>3. CASE SubmitPut(j)
    <3>1. \A k \in Job : Queued(k)' <=> Queued(k) \/ k = j
      <4>1. /\ Len(queue) \in Nat /\ Len(queue') = Len(queue) + 1 /\ queue'[Len(queue) + 1] = j
            /\ \A i \in 1..Len(queue) : queue'[i] = queue[i]
        BY <2>3 DEF SubmitPut, TypeOK
      <4> QED BY <4>1 DEF Queued, InQueue
    <3>2. post[j] = "stored" /\ \A k \in Job : k # j => post'[k] = post[k]
      BY <2>3 DEF SubmitPut, TypeOK
    <3>3. post'[j] # "stored"
      BY <2>3 DEF SubmitPut, TypeOK
    <3>4. Waiting' = Waiting
      BY <3>1, <3>2, <3>3, <2>1, <1>1, <1>2
    <3> QED BY <2>3, <3>4 DEF SubmitPut, Goal
  <2>4. CASE SubmitRejected(j) \/ SubmitFull(j) \/ Reply(j)
    <3>1. queue' = queue /\ pending' = pending
      BY <2>4 DEF SubmitRejected, SubmitFull, Reply, managerVars
    <3>2. \A k \in Job : post'[k] = "stored" <=> post[k] = "stored"
      BY <2>4 DEF SubmitRejected, SubmitFull, Reply, TypeOK
    <3> QED BY <3>1, <3>2, <2>1, <1>3, <1>4 DEF Goal
  <2> QED BY <1>6, <2>2, <2>3, <2>4 DEF Handler
<1>7. ASSUME NEW t \in Thread, Get(t) PROVE Goal
  <2>1. /\ Len(queue) \in Nat /\ Len(queue) > 0 /\ Len(queue') = Len(queue) - 1
        /\ queue[1] = Head(queue)
        /\ \A i \in 1..Len(queue') : queue'[i] = queue[i + 1]
    BY <1>7 DEF Get, TypeOK
  <2>2. post' = post /\ pending' = pending
    BY <1>7 DEF Get
  <2>3. \A k \in Job : Queued(k) <=> Queued(k)' \/ k = Head(queue)
    <3> TAKE k \in Job
    <3>1. ASSUME NEW i \in 1..Len(queue), queue[i] = k PROVE Queued(k)' \/ k = Head(queue)
      <4>1. CASE i = 1
        BY <4>1, <3>1, <2>1
      <4>2. CASE i # 1
        <5>1. i - 1 \in 1..Len(queue') /\ queue'[i - 1] = k
          BY <4>2, <3>1, <2>1
        <5> QED BY <5>1 DEF Queued, InQueue
      <4> QED BY <4>1, <4>2
    <3>2. ASSUME NEW i \in 1..Len(queue'), queue'[i] = k PROVE Queued(k)
      <4>1. i + 1 \in 1..Len(queue) /\ queue[i + 1] = k
        BY <3>2, <2>1
      <4> QED BY <4>1 DEF Queued, InQueue
    <3>3. k = Head(queue) => Queued(k)
      BY <2>1 DEF Queued, InQueue
    <3> QED BY <3>1, <3>2, <3>3 DEF Queued, InQueue
  <2>4. wjob[t] = None /\ wpc[t] = "get"
    BY <1>7 DEF Get, OwnerInv, Busy, TypeOK
  <2>5. \A u \in Thread : u # t => wpc'[u] = wpc[u] /\ wjob'[u] = wjob[u]
    BY <1>7 DEF Get, TypeOK
  <2>6. \/ Head(queue) = None /\ wpc'[t] = "exited"
        \/ Head(queue) # None /\ wpc'[t] = "dec" /\ wjob'[t] = Head(queue)
    BY <1>7 DEF Get, TypeOK
  <2>7. \A k \in Job : Taken(k)' <=> Taken(k) \/ k = Head(queue)
    BY <2>4, <2>5, <2>6, ConstantsAssumption DEF Taken, Owns, ConstantsAssumption
  <2>8. Waiting' = Waiting
    BY <2>2, <2>3, <2>7, <1>1, <1>2
  <2> QED BY <2>2, <2>8 DEF Goal
<1>8. ASSUME NEW t \in Thread, Dec(t) PROVE Goal
  <2>1. wjob[t] \in Job /\ post[wjob[t]] # "stored" /\ wpc[t] = "dec"
    BY <1>8 DEF Dec, OwnerInv, Busy, Enqueued, TypeOK
  <2>2. Taken(wjob[t]) /\ ~Queued(wjob[t])
    BY <2>1 DEF Taken, Owns, Queued, InQueue, QueueInv, Owned
  <2>3. /\ wjob' = wjob /\ queue' = queue /\ post' = post /\ pending' = pending - 1
        /\ wpc'[t] = "claim" /\ \A u \in Thread : u # t => wpc'[u] = wpc[u]
    BY <1>8 DEF Dec, TypeOK
  <2>4. \A k \in Job : Taken(k)' <=> Taken(k) /\ k # wjob[t]
    BY <2>1, <2>3 DEF Taken, Owns, OwnerInv
  <2>5. \A k \in Job : Queued(k)' <=> Queued(k)
    BY <2>3, <1>4
  <2>6. wjob[t] \in Waiting /\ Waiting' = Waiting \ {wjob[t]}
    BY <2>1, <2>2, <2>3, <2>4, <2>5, <1>1, <1>2
  <2> QED BY <2>3, <2>6 DEF Goal
<1>9. ASSUME NEW t \in Thread, NEW o \in Outcome,
             \/ Claim(t) \/ Return(t, o) \/ WriteFinishedAt(t) \/ WriteError(t)
      PROVE Goal
  <2>1. queue' = queue /\ pending' = pending /\ post' = post /\ wjob' = wjob
    BY <1>9 DEF Claim, Return, WriteFinishedAt, WriteError, managerVars
  <2>2. \A u \in Thread : wpc'[u] = "dec" <=> wpc[u] = "dec"
    BY <1>9 DEF Claim, Return, WriteFinishedAt, AfterFinishedAt, WriteError, TypeOK
  <2> QED BY <2>1, <2>2, <1>3, <1>4, <1>5 DEF Goal
<1>10. ASSUME NEW t \in Thread, WriteStatus(t) PROVE Goal
  <2>1. queue' = queue /\ pending' = pending /\ post' = post
    BY <1>10 DEF WriteStatus, managerVars
  <2>2. /\ wpc[t] # "dec" /\ wpc'[t] # "dec"
        /\ \A u \in Thread : u # t => wpc'[u] = wpc[u] /\ wjob'[u] = wjob[u]
    BY <1>10 DEF WriteStatus, AfterJob, TypeOK
  <2>3. \A k \in Job : Taken(k)' <=> Taken(k)
    BY <2>2 DEF Taken, Owns
  <2> QED BY <2>1, <2>3, <1>3, <1>4 DEF Goal
<1>11. CASE ShutdownPut
  <2>1. /\ Len(queue) \in Nat /\ Len(queue') = Len(queue) + 1 /\ queue'[Len(queue) + 1] = None
        /\ \A i \in 1..Len(queue) : queue'[i] = queue[i]
    BY <1>11 DEF ShutdownPut, TypeOK
  <2>2. \A k \in Job : Queued(k)' <=> Queued(k)
    BY <2>1, ConstantsAssumption DEF Queued, InQueue, ConstantsAssumption
  <2>3. pending' = pending /\ post' = post /\ wjob' = wjob /\ wpc' = wpc
    BY <1>11 DEF ShutdownPut, workerVars
  <2> QED BY <2>2, <2>3, <1>3, <1>5 DEF Goal
<1>12. CASE Start
  <2>1. \A u \in Thread : wpc'[u] = "dec" <=> wpc[u] = "dec"
    BY <1>12 DEF Start, TypeOK
  <2> QED BY <1>12, <2>1, <1>3, <1>4, <1>5 DEF Start, Goal
<1>13. CASE ShutdownBegin \/ ShutdownStop \/ ShutdownReturn \/ SweepRead
            \/ SweepEvict \/ Tick \/ UNCHANGED vars
  BY <1>13, <1>3, <1>4, <1>5 DEF ShutdownBegin, ShutdownStop, ShutdownReturn, SweepRead,
                    SweepEvict, Tick, vars, managerVars, workerVars, Goal
<1>14. ASSUME NEW j \in Job, ShutdownCancel(j) \/ Delete(j) PROVE Goal
  BY <1>14, <1>3, <1>4, <1>5 DEF ShutdownCancel, Delete, managerVars, workerVars, Goal
<1> QED
  <2>1. Outcome # {}
    BY DEF Outcome
  <2> QED BY <2>1, <1>6, <1>7, <1>8, <1>9, <1>10, <1>11, <1>12, <1>13, <1>14
          DEF Next, Shutdown, WorkerStep

\* _pending, raised under the lock before the put and lowered under the lock
\* after the get, is the number of jobs that wait, and respects the limit.
THEOREM PendingCounts == Spec => []PendingCountsWaiting
<1> USE ConstantsAssumption DEF ConstantsAssumption
<1>1. Init => PendingCountsWaiting
  <2> SUFFICES ASSUME Init PROVE PendingCountsWaiting
    OBVIOUS
  <2>1. Waiting = {}
    BY DEF Init, Waiting, InQueue, Owns
  <2> QED BY <2>1, FS_EmptySet DEF Init, PendingCountsWaiting
<1>2. IInv /\ IInv' /\ PendingCountsWaiting /\ [Next]_vars => PendingCountsWaiting'
  <2> SUFFICES ASSUME IInv, IInv', PendingCountsWaiting, [Next]_vars
               PROVE PendingCountsWaiting'
    OBVIOUS
  <2>1. IsFiniteSet(Waiting) /\ Cardinality(Waiting) \in Nat
    BY WaitingFinite
  <2>2. CASE Waiting' = Waiting /\ pending' = pending
    BY <2>2 DEF PendingCountsWaiting
  <2>3. ASSUME NEW j \in Job, j \notin Waiting, Waiting' = Waiting \cup {j},
               pending' = pending + 1, ~BacklogFull
        PROVE PendingCountsWaiting'
    <3>1. Cardinality(Waiting') = Cardinality(Waiting) + 1
      BY <2>1, <2>3, FS_AddElement
    <3> QED BY <3>1, <2>1, <2>3 DEF PendingCountsWaiting, BacklogFull
  <2>4. ASSUME NEW j \in Waiting, Waiting' = Waiting \ {j}, pending' = pending - 1
        PROVE PendingCountsWaiting'
    <3>1. Cardinality(Waiting') = Cardinality(Waiting) - 1
      BY <2>1, <2>4, FS_RemoveElement
    <3> QED BY <3>1, <2>1, <2>4 DEF PendingCountsWaiting
  <2> QED BY WaitingStep, <2>2, <2>3, <2>4
<1> QED BY Invariance, <1>1, <1>2, PTL DEF Spec
-----------------------------------------------------------------------------
(* Eviction. *)

\* The time that sweep() has read, before it takes the lock, has passed.
SweepInv == sweepNow # None => sweepNow <= now

\* The time sweep() has read is never ahead of the clock.
LEMMA SweepStep == IInv /\ SweepInv /\ [Next]_vars => SweepInv'
<1> SUFFICES ASSUME IInv, SweepInv, [Next]_vars PROVE SweepInv'
  OBVIOUS
<1>1. now \in Nat /\ sweepNow \in Nat \cup {None} /\ None \notin Nat
  BY ConstantsAssumption DEF IInv, TypeOK, ConstantsAssumption
<1>2. CASE SweepRead \/ SweepEvict \/ Tick
  BY <1>1, <1>2 DEF SweepInv, SweepRead, SweepEvict, Tick
<1>3. CASE UNCHANGED <<sweepNow, now>>
  BY <1>3 DEF SweepInv
<1>4. CASE Start \/ Shutdown \/ UNCHANGED vars
  BY <1>3, <1>4 DEF Start, Shutdown, ShutdownBegin, ShutdownCancel, ShutdownStop, ShutdownPut,
                    ShutdownReturn, vars
<1>5. ASSUME NEW j \in Job, Handler(j) \/ Delete(j) PROVE SweepInv'
  BY <1>3, <1>5 DEF Handler, SubmitRejected, SubmitFull, SubmitStore, SubmitPut, Reply, Delete
<1>6. ASSUME NEW t \in Thread, WorkerStep(t) \/ \E o \in Outcome : Return(t, o) PROVE SweepInv'
  BY <1>3, <1>6 DEF WorkerStep, Get, Dec, Claim, WriteFinishedAt, WriteError, WriteStatus, Return
<1> QED BY <1>2, <1>4, <1>5, <1>6 DEF Next

\* A job leaves the store by its client's DELETE, or when it has been over for its
\* time to live, although the sweep compares with a time it read before.
THEOREM EvictedLate == Spec => EvictedOnlyWhenOld
<1>1. ASSUME IInv, SweepInv, [Next]_vars, NEW j \in jobs \ jobs' PROVE GoneRightly(j)
  <2>1. CASE \E k \in Job : Delete(k)
    BY <1>1, <2>1 DEF Delete, IInv, TypeOK, GoneRightly
  <2>2. CASE SweepEvict
    <3>1. Expired(j) /\ sweepNow \in Nat /\ now \in Nat /\ sweepNow <= now
      BY <1>1, <2>2 DEF SweepEvict, SweepInv, IInv, TypeOK
    <3>2. finishedAt[j] \in Nat /\ Ttl \in Int
      BY <1>1, <3>1, ConstantsAssumption DEF Expired, IInv, TypeOK, ConstantsAssumption
    <3>3. status[j] \in Terminal /\ sweepNow - finishedAt[j] >= Ttl
      BY <3>1 DEF Expired
    <3>4. now - finishedAt[j] >= Ttl
      BY <3>1, <3>2, <3>3
    <3> QED BY <3>3, <3>4 DEF GoneRightly
  <2>3. CASE jobs \subseteq jobs'
    BY <1>1, <2>3
  <2>4. CASE Start \/ Shutdown \/ SweepRead \/ Tick \/ UNCHANGED vars
    BY <2>3, <2>4 DEF Start, Shutdown, ShutdownBegin, ShutdownCancel, ShutdownStop, ShutdownPut,
                      ShutdownReturn, SweepRead, Tick, vars, managerVars
  <2>5. ASSUME NEW k \in Job, Handler(k) PROVE jobs \subseteq jobs'
    BY <2>5 DEF Handler, SubmitRejected, SubmitFull, SubmitStore, SubmitPut, Reply, managerVars
  <2>6. ASSUME NEW t \in Thread, WorkerStep(t) \/ \E o \in Outcome : Return(t, o)
        PROVE  jobs \subseteq jobs'
    BY <2>6 DEF WorkerStep, Get, Dec, Claim, WriteFinishedAt, WriteError, WriteStatus, Return,
                managerVars
  <2> QED BY <1>1, <2>1, <2>2, <2>3, <2>4, <2>5, <2>6 DEF Next
<1>2. IInv /\ SweepInv /\ [Next]_vars
      => [\A j \in jobs \ jobs' : GoneRightly(j)]_vars
  BY <1>1
<1>3. Init => SweepInv
  BY DEF Init, SweepInv
<1> QED BY <1>2, <1>3, Invariance, SweepStep, PTL DEF Spec, EvictedOnlyWhenOld

-----------------------------------------------------------------------------
(* The workers of earlier lives. *)

\* The threads that may still take a job, and the sentinels that wait for them.
Alive == {t \in Thread : wpc[t] \in {"get"} \cup Busy}
SentinelsIn(q) == {i \in 1..Len(q) : q[i] = None}

\* Where start() and shutdown() are.
LivesInv ==
  /\ running => shPc = "idle"
  /\ shPc # "stop" => shPuts = 0
  /\ ~running /\ shPc = "idle" => threads = {}
  /\ running \/ shPc = "cancel" => Cardinality(threads) = NumWorkers

\* A sentinel is put when everything that was accepted before is cancelled; so
\* there is none behind a job that is wanted, and none at all while one is with
\* a worker.
BehindInv ==
  /\ \A i, k \in 1..Len(queue) :
       i < k /\ queue[i] # None /\ queue[k] = None => cancel[queue[i]]
  /\ \A t \in Thread : wjob[t] # None /\ ~cancel[wjob[t]] => SentinelsIn(queue) = {}

\* Whoever is alive has a sentinel in the queue, or one that shutdown() will put,
\* or belongs to the present life.
Allowed == IF running \/ shPc = "cancel" THEN NumWorkers ELSE shPuts
CountInv == Cardinality(Alive) <= Cardinality(SentinelsIn(queue)) + Allowed

WorkersInv == LivesInv /\ BehindInv /\ CountInv

\* A sentinel that is put is counted, a job is not.
LEMMA SentinelsAppend ==
  ASSUME NEW q \in Seq(Job \cup {None}), NEW x \in Job \cup {None}
  PROVE  /\ IsFiniteSet(SentinelsIn(q)) /\ Cardinality(SentinelsIn(q)) \in Nat
         /\ SentinelsIn(Append(q, x)) =
              IF x = None THEN SentinelsIn(q) \cup {Len(q) + 1} ELSE SentinelsIn(q)
         /\ Cardinality(SentinelsIn(Append(q, x))) =
              Cardinality(SentinelsIn(q)) + (IF x = None THEN 1 ELSE 0)
<1>1. Len(q) \in Nat /\ Len(q) + 1 \notin SentinelsIn(q)
  BY DEF SentinelsIn
<1>2. SentinelsIn(q) \subseteq 1..Len(q) /\ IsFiniteSet(1..Len(q))
  BY <1>1, FS_Interval DEF SentinelsIn
<1>3. IsFiniteSet(SentinelsIn(q)) /\ Cardinality(SentinelsIn(q)) \in Nat
  BY <1>2, FS_Subset, FS_CardinalityType
<1>4. /\ Len(Append(q, x)) = Len(q) + 1 /\ Append(q, x)[Len(q) + 1] = x
      /\ \A i \in 1..Len(q) : Append(q, x)[i] = q[i]
  OBVIOUS
<1>5. SentinelsIn(Append(q, x)) =
        IF x = None THEN SentinelsIn(q) \cup {Len(q) + 1} ELSE SentinelsIn(q)
  BY <1>1, <1>4 DEF SentinelsIn
<1>6. Cardinality(SentinelsIn(q) \cup {Len(q) + 1}) = Cardinality(SentinelsIn(q)) + 1
  BY <1>1, <1>3, FS_AddElement
<1> QED BY <1>3, <1>5, <1>6

\* A get takes one sentinel away or none.
LEMMA SentinelsTail ==
  ASSUME NEW q \in Seq(Job \cup {None}), q # <<>>
  PROVE  Cardinality(SentinelsIn(Tail(q))) =
           Cardinality(SentinelsIn(q)) - (IF Head(q) = None THEN 1 ELSE 0)
<1> DEFINE rest == SentinelsIn(q) \ {1}
           shift == [i \in SentinelsIn(Tail(q)) |-> i + 1]
<1>1. /\ Len(q) \in Nat /\ Len(Tail(q)) = Len(q) - 1 /\ Head(q) = q[1] /\ 1 \in 1..Len(q)
      /\ \A i \in 1..Len(Tail(q)) : i + 1 \in 2..Len(q) /\ Tail(q)[i] = q[i + 1]
  OBVIOUS
<1>2. shift \in Bijection(SentinelsIn(Tail(q)), rest)
  <2>1. \A i \in SentinelsIn(Tail(q)) : i \in Int /\ i + 1 \in rest
    BY <1>1 DEF SentinelsIn
  <2>2. ASSUME NEW k \in rest PROVE \E i \in SentinelsIn(Tail(q)) : shift[i] = k
    <3>1. k - 1 \in 1..Len(Tail(q)) /\ q[k] = None /\ k = (k - 1) + 1
      BY <1>1, <2>2 DEF SentinelsIn
    <3>2. k - 1 \in SentinelsIn(Tail(q))
      BY <1>1, <3>1 DEF SentinelsIn
    <3> QED BY <3>1, <3>2
  <2>3. shift \in [SentinelsIn(Tail(q)) -> rest]
    BY <2>1
  <2>4. \A i, k \in SentinelsIn(Tail(q)) : shift[i] = shift[k] => i = k
    BY <2>1
  <2> QED BY <2>2, <2>3, <2>4 DEF Bijection, Injection, Surjection, IsInjective
<1>3. Tail(q) \in Seq(Job \cup {None})
  OBVIOUS
<1>4. IsFiniteSet(SentinelsIn(q)) /\ IsFiniteSet(SentinelsIn(Tail(q)))
  BY <1>3, SentinelsAppend
<1>5. Cardinality(rest) = Cardinality(SentinelsIn(Tail(q)))
  BY <1>2, <1>4, FS_Bijection DEF ExistsBijection
<1>6. 1 \in SentinelsIn(q) <=> Head(q) = None
  BY <1>1 DEF SentinelsIn
<1>7. Cardinality(SentinelsIn(q)) \in Nat
  BY SentinelsAppend
<1>8. Cardinality(rest) = IF 1 \in SentinelsIn(q) THEN Cardinality(SentinelsIn(q)) - 1
                                                 ELSE Cardinality(SentinelsIn(q))
  BY <1>4, FS_RemoveElement
<1> QED BY <1>5, <1>6, <1>7, <1>8

\* There are finitely many threads.
LEMMA AliveFinite ==
  IsFiniteSet(Alive) /\ Cardinality(Alive) \in Nat
BY ConstantsAssumption, FS_Subset, FS_CardinalityType DEF Alive, ConstantsAssumption

\* start() opens a life of NumWorkers threads, shutdown() closes it.
LEMMA LivesStep == IInv /\ LivesInv /\ [Next]_vars => LivesInv'
<1> SUFFICES ASSUME IInv, LivesInv, [Next]_vars PROVE LivesInv'
  OBVIOUS
<1>1. CASE Start
  <2>1. threads = {} /\ shPuts = 0
    BY <1>1 DEF Start, LivesInv
  <2> QED BY <1>1, <2>1 DEF Start, LivesInv, shutdownVars
<1>2. CASE ShutdownBegin \/ ShutdownStop \/ ShutdownPut \/ ShutdownReturn
  BY <1>2 DEF ShutdownBegin, ShutdownStop, ShutdownPut, ShutdownReturn, LivesInv, managerVars
<1>3. CASE UNCHANGED <<running, threads, shPc, shPuts>>
  BY <1>3 DEF LivesInv
<1>4. CASE SweepRead \/ SweepEvict \/ Tick \/ UNCHANGED vars
  BY <1>3, <1>4 DEF SweepRead, SweepEvict, Tick, vars, managerVars, shutdownVars
<1>5. ASSUME NEW j \in Job, ShutdownCancel(j) \/ Handler(j) \/ Delete(j) PROVE LivesInv'
  BY <1>3, <1>5 DEF ShutdownCancel, Handler, SubmitRejected, SubmitFull, SubmitStore, SubmitPut,
                    Reply, Delete, managerVars, shutdownVars
<1>6. ASSUME NEW t \in Thread, WorkerStep(t) \/ \E o \in Outcome : Return(t, o) PROVE LivesInv'
  BY <1>3, <1>6 DEF WorkerStep, Get, Dec, Claim, WriteFinishedAt, WriteError, WriteStatus,
                    Return, managerVars, shutdownVars
<1> QED BY <1>1, <1>2, <1>4, <1>5, <1>6 DEF Next, Shutdown

\* Everything that was accepted is cancelled when the first sentinel is put.
LEMMA BehindStep == IInv /\ LivesInv /\ BehindInv /\ [Next]_vars => BehindInv'
<1> SUFFICES ASSUME IInv, LivesInv, BehindInv, [Next]_vars PROVE BehindInv'
  OBVIOUS
<1> USE ConstantsAssumption DEF IInv
<1>1. /\ \A i \in 1..Len(queue) : queue[i] \in Job \cup {None}
      /\ \A t \in Thread : wjob[t] \in Job \cup {None}
      /\ Len(queue) \in Nat
  BY DEF TypeOK
<1>2. ASSUME queue' = queue, \A t \in Thread : wjob'[t] \in {wjob[t], None},
             \A j \in Job : cancel[j] => cancel'[j]
      PROVE BehindInv'
  <2>1. SentinelsIn(queue)' = SentinelsIn(queue)
    BY <1>2 DEF SentinelsIn
  <2> QED BY <1>1, <1>2, <2>1 DEF BehindInv
<1>3. ASSUME NEW j \in Job, SubmitPut(j) PROVE BehindInv'
  <2>1. /\ Len(queue') = Len(queue) + 1 /\ queue'[Len(queue) + 1] = j
        /\ \A i \in 1..Len(queue) : queue'[i] = queue[i]
        /\ cancel' = cancel /\ wjob' = wjob
    BY <1>3 DEF SubmitPut, TypeOK, jobVars, workerVars
  <2>2. SentinelsIn(queue)' = SentinelsIn(queue)
    BY <1>1, <2>1 DEF SentinelsIn, ConstantsAssumption
  <2> QED BY <1>1, <2>1, <2>2 DEF BehindInv, ConstantsAssumption
<1>4. CASE ShutdownPut
  <2>1. /\ Len(queue') = Len(queue) + 1 /\ \A i \in 1..Len(queue) : queue'[i] = queue[i]
        /\ cancel' = cancel /\ wjob' = wjob
    BY <1>4 DEF ShutdownPut, TypeOK, jobVars, workerVars
  <2>2. \A j \in Job : Accepted(j) => cancel[j]
    BY <1>4 DEF ShutdownPut, LivesInv, ReachInv
  <2>3. \A i \in 1..Len(queue) : queue[i] # None => cancel[queue[i]]
    BY <1>1, <2>2 DEF QueueInv, Accepted, Terminal
  <2>4. \A t \in Thread : wjob[t] # None => cancel[wjob[t]]
    BY <1>1, <2>2 DEF OwnerInv, StatusInv, Accepted
  <2> QED BY <1>1, <2>1, <2>3, <2>4 DEF BehindInv
<1>5. ASSUME NEW t \in Thread, Get(t) PROVE BehindInv'
  <2>1. /\ Len(queue') = Len(queue) - 1 /\ queue[1] = Head(queue) /\ 1 \in 1..Len(queue)
        /\ \A i \in 1..Len(queue') : i + 1 \in 2..Len(queue) /\ queue'[i] = queue[i + 1]
        /\ cancel' = cancel
    BY <1>5 DEF Get, TypeOK, jobVars
  <2>2. \A u \in Thread : wjob'[u] \in {wjob[u], queue[1]}
    BY <1>5, <2>1 DEF Get, TypeOK
  <2>3. SentinelsIn(queue) = {} => SentinelsIn(queue)' = {}
    BY <2>1 DEF SentinelsIn
  <2>4. queue[1] # None /\ ~cancel[queue[1]] => SentinelsIn(queue)' = {}
    BY <2>1 DEF SentinelsIn, BehindInv
  <2>5. \A u \in Thread : wjob'[u] # None /\ ~cancel[wjob'[u]] => SentinelsIn(queue)' = {}
    BY <2>2, <2>3, <2>4 DEF BehindInv
  <2>6. ASSUME NEW i \in 1..Len(queue'), NEW k \in 1..Len(queue'), i < k,
               queue'[i] # None, queue'[k] = None
        PROVE  cancel[queue'[i]]
    <3>1. i + 1 \in 1..Len(queue) /\ k + 1 \in 1..Len(queue) /\ i + 1 < k + 1
      BY <2>1, <2>6
    <3> QED BY <2>1, <2>6, <3>1 DEF BehindInv
  <2> QED BY <2>1, <2>5, <2>6 DEF BehindInv
<1>6. ASSUME NEW t \in Thread, NEW o \in Outcome,
             \/ Dec(t) \/ Claim(t) \/ Return(t, o)
             \/ WriteFinishedAt(t) \/ WriteError(t) \/ WriteStatus(t)
      PROVE  BehindInv'
  BY <1>2, <1>6 DEF Dec, Claim, Return, WriteFinishedAt, WriteError, WriteStatus, managerVars,
                    jobVars, TypeOK
<1>7. ASSUME NEW j \in Job,
             \/ ShutdownCancel(j) \/ Delete(j)
             \/ SubmitRejected(j) \/ SubmitFull(j) \/ SubmitStore(j) \/ Reply(j)
      PROVE  BehindInv'
  BY <1>2, <1>7 DEF ShutdownCancel, Delete, SubmitRejected, SubmitFull, SubmitStore, Reply,
                    managerVars, jobVars, workerVars, TypeOK
<1>8. CASE Start \/ ShutdownBegin \/ ShutdownStop \/ ShutdownReturn \/ SweepRead
           \/ SweepEvict \/ Tick \/ UNCHANGED vars
  BY <1>2, <1>8 DEF Start, ShutdownBegin, ShutdownStop, ShutdownReturn, SweepRead, SweepEvict,
                    Tick, vars, managerVars, jobVars, workerVars
<1> QED
  <2>1. Outcome # {}
    BY DEF Outcome
  <2> QED BY <2>1, <1>3, <1>4, <1>5, <1>6, <1>7, <1>8
          DEF Next, Shutdown, Handler, WorkerStep

\* A life begins with as many workers as it may have, and ends with a sentinel
\* for each of them; a worker ends with a sentinel, or dies.
LEMMA CountStep == IInv /\ LivesInv /\ CountInv /\ [Next]_vars => CountInv'
<1> SUFFICES ASSUME IInv, LivesInv, CountInv, [Next]_vars PROVE CountInv'
  OBVIOUS
<1> USE ConstantsAssumption DEF IInv
<1> DEFINE alive == Cardinality(Alive)
           ahead == Cardinality(SentinelsIn(queue))
<1>1. /\ IsFiniteSet(Alive) /\ alive \in Nat /\ ahead \in Nat
      /\ NumWorkers \in Nat /\ shPuts \in Nat /\ None \in Job \cup {None}
      /\ queue \in Seq(Job \cup {None})
  BY AliveFinite, SentinelsAppend DEF TypeOK, NumWorkers, ConstantsAssumption
<1>2. Alive' = {t \in Thread : wpc'[t] \in {"get"} \cup Busy}
  BY DEF Alive
<1>3. ASSUME Alive' \subseteq Alive PROVE alive' \in Nat /\ alive' <= alive
  <2>1. IsFiniteSet(Alive') /\ Cardinality(Alive') <= Cardinality(Alive)
    BY <1>1, <1>3, FS_Subset
  <2> QED BY <2>1, FS_CardinalityType
<1>4. ASSUME Alive' \subseteq Alive, UNCHANGED <<queue, running, shPc, shPuts>> PROVE CountInv'
  <2>1. ahead' = ahead /\ Allowed' = Allowed
    BY <1>4 DEF SentinelsIn, Allowed
  <2> QED BY <1>1, <1>3, <1>4, <2>1 DEF CountInv, Allowed
<1>5. ASSUME UNCHANGED wpc PROVE Alive' \subseteq Alive
  BY <1>2, <1>5 DEF Alive
<1>6. CASE Start
  <2>1. PICK new \in SUBSET {t \in Thread : wpc[t] = "unborn"} :
          /\ Cardinality(new) = NumWorkers
          /\ wpc' = [t \in Thread |-> IF t \in new THEN "get" ELSE wpc[t]]
    BY <1>6 DEF Start
  <2>2. Alive' = Alive \cup new /\ Alive \cap new = {}
    BY <1>2, <2>1 DEF Alive, Busy
  <2>3. IsFiniteSet(new)
    BY <2>1, FS_Subset DEF ConstantsAssumption
  <2>4. alive' = alive + NumWorkers
    <3>1. Cardinality(Alive \cup new)
            = Cardinality(Alive) + Cardinality(new) - Cardinality(Alive \cap new)
      BY <1>1, <2>3, FS_Union
    <3>2. Cardinality(Alive \cap new) = 0
      BY <2>2, FS_EmptySet
    <3>3. alive' = Cardinality(Alive \cup new)
      BY <2>2
    <3> QED BY <1>1, <2>1, <3>1, <3>2, <3>3
  <2>5. ahead' = ahead /\ Allowed = 0 /\ Allowed' = NumWorkers
    BY <1>6 DEF Start, LivesInv, Allowed, SentinelsIn
  <2> QED BY <1>1, <2>4, <2>5 DEF CountInv
<1>7. CASE ShutdownBegin \/ ShutdownStop \/ ShutdownReturn
  <2>1. Alive' \subseteq Alive /\ ahead' = ahead
    BY <1>5, <1>7 DEF ShutdownBegin, ShutdownStop, ShutdownReturn, workerVars, managerVars,
                      SentinelsIn
  <2>2. Allowed' = Allowed
    BY <1>7 DEF ShutdownBegin, ShutdownStop, Sentinels, ShutdownReturn, LivesInv, Allowed,
                managerVars
  <2>3. Allowed \in Nat
    BY <1>1 DEF Allowed
  <2> QED BY <1>1, <1>3, <2>1, <2>2, <2>3 DEF CountInv
<1>8. CASE ShutdownPut
  <2>1. Alive' \subseteq Alive
    BY <1>5, <1>8 DEF ShutdownPut, workerVars
  <2>2. ahead' = ahead + 1
    BY <1>1, <1>8, SentinelsAppend DEF ShutdownPut
  <2>3. Allowed' = Allowed - 1 /\ Allowed \in Nat
    BY <1>1, <1>8 DEF ShutdownPut, LivesInv, Allowed
  <2> QED BY <1>1, <1>3, <2>1, <2>2, <2>3 DEF CountInv
<1>9. ASSUME NEW t \in Thread, Get(t) PROVE CountInv'
  <2>1. ahead' = ahead - (IF Head(queue) = None THEN 1 ELSE 0)
    BY <1>1, <1>9, SentinelsTail DEF Get
  <2>2. t \in Alive /\ Alive' = IF Head(queue) = None THEN Alive \ {t} ELSE Alive
    BY <1>2, <1>9 DEF Get, Alive, Busy, TypeOK
  <2>3. alive' = alive - (IF Head(queue) = None THEN 1 ELSE 0)
    <3>1. Cardinality(Alive \ {t}) = Cardinality(Alive) - 1
      BY <1>1, <2>2, FS_RemoveElement
    <3> QED BY <1>1, <2>2, <3>1
  <2>4. Allowed' = Allowed /\ Allowed \in Nat
    BY <1>1, <1>9 DEF Get, shutdownVars, Allowed
  <2> QED BY <1>1, <2>1, <2>3, <2>4 DEF CountInv
<1>10. ASSUME NEW t \in Thread, NEW o \in Outcome,
              \/ Dec(t) \/ Claim(t) \/ Return(t, o)
              \/ WriteFinishedAt(t) \/ WriteError(t) \/ WriteStatus(t)
       PROVE  CountInv'
  <2>1. t \in Alive /\ \A u \in Thread : u # t => wpc'[u] = wpc[u]
    BY <1>10 DEF Dec, Claim, Return, WriteFinishedAt, WriteError, WriteStatus, Alive, Busy, TypeOK
  <2>2. Alive' \subseteq Alive
    BY <1>2, <2>1 DEF Alive
  <2> QED BY <1>4, <1>10, <2>2 DEF Dec, Claim, Return, WriteFinishedAt, WriteError, WriteStatus,
                    managerVars, shutdownVars
<1>11. ASSUME NEW j \in Job, SubmitPut(j) PROVE CountInv'
  <2>1. ahead' = ahead
    <3>1. j # None
      BY DEF ConstantsAssumption
    <3> QED BY <1>1, <1>11, <3>1, SentinelsAppend DEF SubmitPut
  <2>2. Alive' \subseteq Alive /\ Allowed' = Allowed /\ Allowed \in Nat
    BY <1>1, <1>5, <1>11 DEF SubmitPut, workerVars, shutdownVars, Allowed
  <2> QED BY <1>1, <1>3, <2>1, <2>2 DEF CountInv
<1>12. ASSUME NEW j \in Job,
              \/ ShutdownCancel(j) \/ Delete(j)
              \/ SubmitRejected(j) \/ SubmitFull(j) \/ SubmitStore(j) \/ Reply(j)
       PROVE  CountInv'
  BY <1>4, <1>5, <1>12 DEF ShutdownCancel, Delete, SubmitRejected, SubmitFull, SubmitStore, Reply,
                    managerVars, workerVars, shutdownVars
<1>13. CASE SweepRead \/ SweepEvict \/ Tick \/ UNCHANGED vars
  BY <1>4, <1>5, <1>13 DEF SweepRead, SweepEvict, Tick, vars, managerVars, workerVars, shutdownVars
<1> QED
  <2>1. Outcome # {}
    BY DEF Outcome
  <2> QED BY <2>1, <1>6, <1>7, <1>8, <1>9, <1>10, <1>11, <1>12, <1>13
          DEF Next, Shutdown, Handler, WorkerStep

\* The three hold in every behaviour of the manager.
LEMMA WorkersInvariance == Spec => []WorkersInv
<1>1. Init => WorkersInv
  <2> SUFFICES ASSUME Init PROVE WorkersInv
    OBVIOUS
  <2>1. Alive = {} /\ SentinelsIn(queue) = {}
    BY DEF Init, Alive, Busy, SentinelsIn
  <2>2. LivesInv /\ BehindInv
    BY DEF Init, LivesInv, BehindInv
  <2>3. Cardinality(Alive) = 0 /\ Cardinality(SentinelsIn(queue)) = 0 /\ Allowed = 0
    BY <2>1, FS_EmptySet DEF Init, Allowed
  <2> QED BY <2>2, <2>3 DEF WorkersInv, CountInv
<1>2. IInv /\ WorkersInv /\ [Next]_vars => WorkersInv'
  BY LivesStep, BehindStep, CountStep DEF WorkersInv
<1> QED BY Invariance, <1>1, <1>2, PTL DEF Spec

\* While a job is wanted there is no sentinel left to wait for, so the threads
\* that are alive are those of one life.
LEMMA WantedAlive ==
  IInv /\ WorkersInv /\ (\E t \in Thread : wjob[t] # None /\ ~cancel[wjob[t]])
  => Cardinality(Alive) <= NumWorkers
<1> SUFFICES ASSUME IInv, WorkersInv, NEW t \in Thread, wjob[t] # None, ~cancel[wjob[t]]
             PROVE  Cardinality(Alive) <= NumWorkers
  OBVIOUS
<1>1. SentinelsIn(queue) = {}
  BY DEF WorkersInv, BehindInv
<1>2. wjob[t] \in Job /\ Accepted(wjob[t])
  BY DEF IInv, TypeOK, OwnerInv, StatusInv, Accepted
<1>3. running \/ shPc = "cancel"
  BY <1>2 DEF IInv, ReachInv
<1>4. NumWorkers \in Nat /\ Cardinality(Alive) \in Nat
  BY ConstantsAssumption, AliveFinite DEF ConstantsAssumption, NumWorkers
<1> QED BY <1>1, <1>3, <1>4, FS_EmptySet DEF WorkersInv, CountInv, Allowed

\* ENCODER_WORKERS bounds the wanted encodes across restarts, although shutdown()
\* waits two seconds only and old workers share the queue with the new ones.
THEOREM WithinWorkers == Spec => []EncodesWithinWorkers
<1>1. IInv /\ WorkersInv => EncodesWithinWorkers
  <2> SUFFICES ASSUME IInv, WorkersInv PROVE EncodesWithinWorkers
    OBVIOUS
  <2> DEFINE encoding == {t \in Thread : wpc[t] = "run" /\ ~cancel[wjob[t]]}
  <2>1. encoding \subseteq Alive /\ IsFiniteSet(Alive) /\ Cardinality(Alive) \in Nat
    BY AliveFinite DEF Alive, Busy
  <2>2. Cardinality(encoding) <= Cardinality(Alive) /\ Cardinality(encoding) \in Nat
    BY <2>1, FS_Subset, FS_CardinalityType
  <2>3. CASE encoding = {}
    BY <2>3, FS_EmptySet, ConstantsAssumption
       DEF EncodesWithinWorkers, NumWorkers, ConstantsAssumption
  <2>4. CASE encoding # {}
    <3>1. \E t \in Thread : wjob[t] # None /\ ~cancel[wjob[t]]
      BY <2>4 DEF IInv, OwnerInv, Busy
    <3>2. Cardinality(Alive) <= NumWorkers /\ NumWorkers \in Nat
      BY <3>1, WantedAlive, ConstantsAssumption DEF NumWorkers, ConstantsAssumption
    <3> QED BY <2>1, <2>2, <3>2 DEF EncodesWithinWorkers
  <2> QED BY <2>3, <2>4
<1> QED BY Invariance, WorkersInvariance, <1>1, PTL

-----------------------------------------------------------------------------
(* The manager implements JobLifecycle. *)

\* A job that was refused is never stored, and one that shutdown() will cancel was
\* accepted.
RefusedInv ==
  /\ \A j \in Job : error[j] = "not_accepted" =>
       post[j] \in Enqueued /\ status[j] = "failed" /\ j \notin jobs
  /\ \A j \in shTodo : post[j] \in {"stored"} \cup Enqueued /\ error[j] # "not_accepted"

\* A job is "running" while its owner is past the claim; one whose owner is past
\* the claim and that is not was cancelled, and so was one that ends "cancelled".
RunInv ==
  /\ \A j \in Job : status[j] = "running" => Owned(j)
  /\ \A t \in Thread :
       /\ wpc[t] = "run" => status[wjob[t]] = "running"
       /\ wpc[t] \in {"finish", "explain", "publish"} =>
            /\ status[wjob[t]] = "queued" => outcome[t] = "cancelled"
            /\ outcome[t] = "cancelled" => cancel[wjob[t]]

LifeInv == RefusedInv /\ RunInv

\* No handler stores what it refuses, no worker gets a refused job.
LEMMA RefusedStep == IInv /\ RefusedInv /\ [Next]_vars => RefusedInv'
<1> SUFFICES ASSUME IInv, RefusedInv, [Next]_vars PROVE RefusedInv'
  OBVIOUS
<1> USE ConstantsAssumption DEF IInv
<1>1. ASSUME UNCHANGED <<error, post, status>>, jobs' \subseteq jobs, shTodo' \subseteq shTodo
      PROVE  RefusedInv'
  BY <1>1 DEF RefusedInv, Enqueued
<1>2. ASSUME NEW j \in Job, Handler(j) PROVE RefusedInv'
  <2>1. /\ \A k \in Job : k # j => /\ error'[k] = error[k] /\ post'[k] = post[k]
                                   /\ status'[k] = status[k]
        /\ jobs' \subseteq jobs \cup {j} /\ shTodo' = shTodo /\ shTodo \subseteq Job
    BY <1>2 DEF Handler, SubmitRejected, SubmitFull, SubmitStore, SubmitPut, Reply,
                managerVars, jobVars, shutdownVars, TypeOK
  <2>2. \/ /\ post[j] = "new" /\ post'[j] \in Enqueued /\ status'[j] = "failed"
           /\ jobs' = jobs
        \/ /\ post[j] = "new" /\ error' = error
        \/ /\ post[j] \in {"stored"} \cup Enqueued /\ post'[j] \in Enqueued
           /\ error' = error /\ status' = status /\ jobs' = jobs
    BY <1>2 DEF Handler, SubmitRejected, SubmitFull, SubmitStore, SubmitPut, Reply,
                managerVars, jobVars, Enqueued, TypeOK
  <2>3. post[j] = "new" => j \notin jobs /\ j \notin shTodo
    BY DEF ReachInv, RefusedInv, Enqueued
  <2> QED BY <2>1, <2>2, <2>3 DEF RefusedInv, Enqueued
<1>3. CASE ShutdownBegin
  <2>1. UNCHANGED <<error, post, status, jobs>> /\ shTodo' \subseteq jobs
    BY <1>3 DEF ShutdownBegin, Unfinished, jobVars
  <2> QED BY <2>1 DEF RefusedInv, ReachInv, TypeOK
<1>4. ASSUME NEW t \in Thread, WriteError(t) \/ Claim(t) \/ WriteStatus(t) PROVE RefusedInv'
  <2>1. wjob[t] \in Job /\ error[wjob[t]] # "not_accepted"
    BY <1>4 DEF WriteError, Claim, WriteStatus, OwnerInv, StatusInv, RefusedInv, Busy, Terminal, TypeOK
  <2>2. /\ UNCHANGED <<post, jobs, shTodo>>
        /\ \A k \in Job : error'[k] = "not_accepted" => error[k] = "not_accepted"
        /\ \A k \in Job : k # wjob[t] => status'[k] = status[k]
    BY <1>4 DEF WriteError, Claim, WriteStatus, managerVars, jobVars, shutdownVars, TypeOK
  <2>3. shTodo \subseteq Job
    BY DEF TypeOK
  <2>4. error'[wjob[t]] # "not_accepted"
    BY <2>1, <2>2
  <2> QED BY <2>2, <2>3, <2>4 DEF RefusedInv
<1>5. ASSUME NEW t \in Thread, NEW o \in Outcome,
             Get(t) \/ Dec(t) \/ WriteFinishedAt(t) \/ Return(t, o)
      PROVE  RefusedInv'
  BY <1>1, <1>5 DEF Get, Dec, WriteFinishedAt, Return, managerVars, jobVars, shutdownVars
<1>6. CASE Start \/ ShutdownStop \/ ShutdownPut \/ ShutdownReturn \/ SweepRead
           \/ SweepEvict \/ Tick \/ UNCHANGED vars
  BY <1>1, <1>6 DEF Start, ShutdownStop, ShutdownPut, ShutdownReturn, SweepRead,
                    SweepEvict, Tick, vars, managerVars, jobVars, shutdownVars
<1>7. ASSUME NEW j \in Job, ShutdownCancel(j) \/ Delete(j) PROVE RefusedInv'
  BY <1>1, <1>7 DEF ShutdownCancel, Delete, managerVars, shutdownVars
<1> QED
  <2>1. Outcome # {}
    BY DEF Outcome
  <2> QED BY <2>1, <1>2, <1>3, <1>4, <1>5, <1>6, <1>7 DEF Next, Shutdown, WorkerStep

\* A worker's steps keep the job's status in line with its outcome.
LEMMA RunStep == IInv /\ RunInv /\ [Next]_vars => RunInv'
<1> SUFFICES ASSUME IInv, RunInv, [Next]_vars PROVE RunInv'
  OBVIOUS
<1> USE ConstantsAssumption DEF IInv
<1>1. ASSUME UNCHANGED <<status, wjob, outcome>>, \A j \in Job : cancel[j] => cancel'[j],
             \A t \in Thread : wpc'[t] = wpc[t] \/ wpc'[t] = "get"
      PROVE  RunInv'
  <2>1. \A t \in Thread : wpc[t] \in Busy => wjob[t] \in Job
    BY DEF OwnerInv, TypeOK
  <2> QED BY <1>1, <2>1 DEF RunInv, Owned, Owns, Busy
<1>2. ASSUME NEW j \in Job, Handler(j) PROVE RunInv'
  <2>1. CASE SubmitRejected(j)
    <3>1. \A t \in Thread : wpc[t] \in Busy => wjob[t] \in Job /\ wjob[t] # j
      BY <2>1 DEF SubmitRejected, OwnerInv, Enqueued, TypeOK
    <3>2. /\ UNCHANGED <<wpc, wjob, outcome, cancel>> /\ status'[j] = "failed"
          /\ \A k \in Job : k # j => status'[k] = status[k]
      BY <2>1 DEF SubmitRejected, workerVars, TypeOK
    <3> QED BY <3>1, <3>2 DEF RunInv, Owned, Owns, Busy
  <2>2. CASE ~SubmitRejected(j)
    BY <1>1, <1>2, <2>2 DEF Handler, SubmitFull, SubmitStore, SubmitPut, Reply, jobVars, workerVars
  <2> QED BY <2>1, <2>2
<1>3. ASSUME NEW t \in Thread, Get(t) \/ Dec(t) PROVE RunInv'
  <2>1. /\ UNCHANGED <<status, outcome, cancel>> /\ wpc'[t] \notin {"run", "finish", "explain", "publish"}
        /\ \A u \in Thread : u # t => wpc'[u] = wpc[u] /\ wjob'[u] = wjob[u]
        /\ wjob[t] = None \/ wjob'[t] = wjob[t]
    BY <1>3 DEF Get, Dec, jobVars, OwnerInv, Busy, TypeOK
  <2>2. \A k \in Job : Owned(k) => Owned(k)'
    BY <2>1 DEF Owned, Owns, ConstantsAssumption
  <2> QED BY <2>1, <2>2 DEF RunInv
<1>4. ASSUME NEW t \in Thread, NEW o \in Outcome,
             Claim(t) \/ Return(t, o) \/ WriteFinishedAt(t) \/ WriteError(t) \/ WriteStatus(t)
      PROVE  RunInv'
  <2>1. wpc[t] \in Busy /\ wjob[t] \in Job
    BY <1>4 DEF Claim, Return, WriteFinishedAt, WriteError, WriteStatus, OwnerInv, Busy, TypeOK
  <2>2. \A u \in Thread : u # t /\ wpc[u] \in Busy => wjob[u] \in Job /\ wjob[u] # wjob[t]
    BY <2>1 DEF OwnerInv, TypeOK
  <2>3. /\ \A u \in Thread : u # t => /\ wpc'[u] = wpc[u] /\ wjob'[u] = wjob[u]
                                      /\ outcome'[u] = outcome[u]
        /\ \A k \in Job : k # wjob[t] => status'[k] = status[k]
        /\ cancel' = cancel
    BY <1>4, <2>1 DEF Claim, Return, WriteFinishedAt, WriteError, WriteStatus, jobVars, TypeOK
  <2>4. \A k \in Job : k # wjob[t] /\ Owned(k) => Owned(k)'
    BY <2>1, <2>3 DEF Owned, Owns
  <2>5. status'[wjob[t]] = "running" => wjob'[t] = wjob[t]
    BY <1>4, <2>1 DEF Claim, Return, WriteFinishedAt, WriteError, WriteStatus, FinalStatus,
                      Outcome, Terminal, TypeOK
  <2>6. wpc'[t] = "run" => wjob'[t] = wjob[t] /\ status'[wjob[t]] = "running"
    BY <1>4, <2>1 DEF Claim, Return, WriteFinishedAt, AfterFinishedAt, WriteError, WriteStatus,
                      AfterJob, TypeOK
  <2>7. wpc'[t] \in {"finish", "explain", "publish"} =>
          /\ wjob'[t] = wjob[t]
          /\ status'[wjob[t]] = "queued" => outcome'[t] = "cancelled"
          /\ outcome'[t] = "cancelled" => cancel[wjob[t]]
    <3>1. CASE Claim(t)
      BY <2>1, <3>1 DEF Claim, Claimable, TypeOK
    <3>2. CASE Return(t, o)
      BY <2>1, <3>2 DEF Return, RunInv, jobVars, TypeOK
    <3>3. CASE WriteFinishedAt(t) \/ WriteError(t)
      BY <2>1, <3>3 DEF WriteFinishedAt, AfterFinishedAt, WriteError, RunInv, jobVars, TypeOK
    <3>4. CASE WriteStatus(t)
      BY <2>1, <3>4 DEF WriteStatus, AfterJob, TypeOK
    <3> QED BY <1>4, <3>1, <3>2, <3>3, <3>4
  <2>8. \A k \in Job : k = wjob[t] /\ status'[k] = "running" => Owned(k)'
    BY <2>5 DEF Owned, Owns
  <2> QED BY <2>1, <2>2, <2>3, <2>4, <2>6, <2>7, <2>8 DEF RunInv, Busy
<1>5. CASE Start
  BY <1>1, <1>5 DEF Start, jobVars, TypeOK
<1>6. CASE ShutdownBegin \/ ShutdownStop \/ ShutdownPut \/ ShutdownReturn \/ SweepRead
           \/ SweepEvict \/ Tick \/ UNCHANGED vars
  BY <1>1, <1>6 DEF ShutdownBegin, ShutdownStop, ShutdownPut, ShutdownReturn, SweepRead,
                    SweepEvict, Tick, vars, managerVars, jobVars, workerVars
<1>7. ASSUME NEW j \in Job, ShutdownCancel(j) \/ Delete(j) PROVE RunInv'
  BY <1>1, <1>7 DEF ShutdownCancel, Delete, workerVars, TypeOK
<1> QED
  <2>1. Outcome # {}
    BY DEF Outcome
  <2> QED BY <2>1, <1>2, <1>3, <1>4, <1>5, <1>6, <1>7 DEF Next, Shutdown, WorkerStep

\* Both hold in every behaviour of the manager.
LEMMA LifeInvariance == Spec => []LifeInv
<1>1. Init => LifeInv
  BY DEF Init, LifeInv, RefusedInv, RunInv
<1>2. IInv /\ LifeInv /\ [Next]_vars => LifeInv'
  BY RefusedStep, RunStep DEF LifeInv
<1> QED BY Invariance, <1>1, <1>2, PTL DEF Spec

\* The phases are apart, and every job is in one.
Clear(j) ==
  /\ post[j] = "new" => Phase(j) = "unknown"
  /\ Refused(j) => Phase(j) = "refused"
  /\ j \in Waiting => Phase(j) = "waiting"
  /\ status[j] = "running" => Phase(j) = "encoding"
  /\ status[j] \in Terminal /\ ~Refused(j) => Phase(j) = status[j]
  /\ post[j] # "new" /\ ~Refused(j) /\ j \notin Waiting /\ status[j] = "queued"
       => Phase(j) = "taken"

\* What a phase says of the request and of the status.
Apart(j) ==
  /\ j \in Waiting => status[j] = "queued" /\ post[j] \in {"stored"} \cup Enqueued
  /\ status[j] # "queued" => post[j] \in Enqueued
  /\ Refused(j) => post[j] # "new" /\ j \notin Waiting /\ status[j] # "running"

\* The phases partition the jobs: Phase is no choice between two of them.
LEMMA PhaseOf == IInv /\ LifeInv => \A j \in Job : Clear(j) /\ Apart(j)
<1> SUFFICES ASSUME IInv, LifeInv, NEW j \in Job PROVE Clear(j) /\ Apart(j)
  OBVIOUS
<1> USE DEF IInv, LifeInv
<1>1. j \in Waiting => status[j] = "queued" /\ post[j] \in {"stored"} \cup Enqueued
  BY ConstantsAssumption
     DEF Waiting, InQueue, Owns, QueueInv, OwnerInv, StatusInv, Busy, ConstantsAssumption
<1>2. status[j] # "queued" => post[j] \in Enqueued
  BY DEF StatusInv, TypeOK, Post, Enqueued
<1>3. Refused(j) => post[j] # "new" /\ j \notin Waiting /\ status[j] # "running"
  BY <1>1, <1>2 DEF Refused, RefusedInv, Enqueued
<1>4. post[j] = "new" => ~Refused(j) /\ j \notin Waiting /\ status[j] = "queued"
  BY <1>1, <1>2, <1>3 DEF Enqueued, StatusInv
<1>5. status[j] \in Status /\ Apart(j)
  BY <1>1, <1>2, <1>3 DEF TypeOK, Apart
<1>6. CASE post[j] = "new"
  BY <1>4, <1>5, <1>6 DEF Phase, Clear, Terminal
<1>7. CASE Refused(j)
  BY <1>3, <1>5, <1>7 DEF Phase, Clear, Terminal
<1>8. CASE j \in Waiting
  BY <1>1, <1>3, <1>4, <1>5, <1>8 DEF Phase, Clear, Terminal
<1>9. CASE status[j] = "running" /\ post[j] # "new" /\ ~Refused(j) /\ j \notin Waiting
  BY <1>5, <1>9 DEF Phase, Clear, Terminal
<1>10. CASE status[j] \in Terminal /\ post[j] # "new" /\ ~Refused(j) /\ j \notin Waiting
  BY <1>5, <1>10 DEF Phase, Clear, Terminal
<1>11. CASE status[j] = "queued" /\ post[j] # "new" /\ ~Refused(j) /\ j \notin Waiting
  BY <1>5, <1>11 DEF Phase, Clear, Terminal
<1> QED BY <1>5, <1>6, <1>7, <1>8, <1>9, <1>10, <1>11 DEF Status

\* JobLifecycle counts as the manager does.
LEMMA SameCardinality == ASSUME NEW S PROVE Lifecycle!Cardinality(S) = Cardinality(S)
BY DEF Cardinality, Lifecycle!Cardinality

\* The backlog of the abstract specification is what the counter counts.
LEMMA FullIsFull ==
  IInv /\ LifeInv /\ PendingCountsWaiting => (Lifecycle!Full <=> BacklogFull)
<1> SUFFICES ASSUME IInv, LifeInv, PendingCountsWaiting PROVE Lifecycle!Full <=> BacklogFull
  OBVIOUS
<1>1. \A j \in Job : Phase(j) = "waiting" <=> j \in Waiting
  BY PhaseOf DEF Clear, Apart, IInv, TypeOK, Status, Terminal
<1>2. Lifecycle!In("waiting") = Waiting
  BY <1>1 DEF Lifecycle!In, Waiting
<1> QED BY <1>2, SameCardinality DEF Lifecycle!Full, BacklogFull, PendingCountsWaiting

\* A worker that claims a wanted job is alive and encodes nothing yet.
LEMMA RoomToEncode ==
  ASSUME IInv, LifeInv, WorkersInv, NEW t \in Thread, Claim(t), Claimable(wjob[t])
  PROVE  Lifecycle!Cardinality(Lifecycle!In("encoding") \ {j \in Job : cancel[j]}) < NumWorkers
<1> DEFINE wanted == Lifecycle!In("encoding") \ {j \in Job : cancel[j]}
           others == Alive \ {t}
           owner == [j \in wanted |-> CHOOSE u \in Thread : wjob[u] = j]
<1> USE ConstantsAssumption DEF IInv
<1>1. \A j \in wanted : j \in Job /\ status[j] = "running"
  BY PhaseOf DEF Clear, Apart, Lifecycle!In, TypeOK, Status, Terminal
<1>2. t \in Alive /\ wjob[t] # None /\ status[wjob[t]] = "queued" /\ ~cancel[wjob[t]]
  BY DEF Claim, Claimable, Alive, OwnerInv, StatusInv, Busy
<1>3. \A j \in wanted : owner[j] \in others /\ wjob[owner[j]] = j
  <2> TAKE j \in wanted
  <2>1. \E u \in Thread : wjob[u] = j
    BY <1>1 DEF LifeInv, RunInv, Owned, Owns
  <2>2. owner[j] \in Thread /\ wjob[owner[j]] = j
    BY <2>1
  <2>3. owner[j] # t /\ wjob[owner[j]] # None
    BY <1>1, <1>2, <2>2 DEF ConstantsAssumption
  <2> QED BY <2>2, <2>3 DEF Alive, OwnerInv
<1>4. owner \in Injection(wanted, others)
  BY <1>3 DEF Injection, IsInjective
<1>5. IsFiniteSet(others) /\ Cardinality(others) = Cardinality(Alive) - 1
  BY <1>2, AliveFinite, FS_RemoveElement
<1>6. Cardinality(wanted) <= Cardinality(others) /\ Cardinality(wanted) \in Nat
  BY <1>4, <1>5, FS_Injection, FS_CardinalityType
<1>7. Cardinality(Alive) <= NumWorkers /\ NumWorkers \in Nat /\ Cardinality(Alive) \in Nat
  BY <1>2, WantedAlive, AliveFinite DEF NumWorkers, ConstantsAssumption
<1> QED BY <1>5, <1>6, <1>7, SameCardinality

-----------------------------------------------------------------------------
(* Every step of the manager is a step of JobLifecycle, or none. *)

\* What a phase depends on.
Same(j) ==
  /\ post'[j] = "new" <=> post[j] = "new"
  /\ Refused(j)' <=> Refused(j)
  /\ j \in Waiting' <=> j \in Waiting
  /\ status'[j] = status[j]

\* A job whose request, refusal, wait and status stay is in the same phase.
LEMMA SamePhase ==
  ASSUME IInv, IInv', NEW j \in Job, Clear(j), Clear(j)', Same(j)
  PROVE  Phase(j)' = Phase(j)
<1>1. post[j] = "new" \/ Refused(j) \/ j \in Waiting \/ status[j] = "running"
      \/ status[j] \in Terminal \/ status[j] = "queued"
  BY DEF IInv, TypeOK, Status
<1>2. CASE post[j] = "new"
  BY <1>2 DEF Clear, Same
<1>3. CASE Refused(j)
  BY <1>3 DEF Clear, Same
<1>4. CASE j \in Waiting
  BY <1>4 DEF Clear, Same
<1>5. CASE status[j] = "running"
  BY <1>5 DEF Clear, Same
<1>6. CASE status[j] \in Terminal /\ ~Refused(j)
  BY <1>6 DEF Clear, Same
<1>7. CASE status[j] = "queued" /\ post[j] # "new" /\ ~Refused(j) /\ j \notin Waiting
  BY <1>7 DEF Clear, Same
<1> QED BY <1>1, <1>2, <1>3, <1>4, <1>5, <1>6, <1>7

\* Every step of the manager is one of JobLifecycle, or none.
LEMMA LifecycleStep ==
  /\ IInv /\ IInv' /\ LifeInv /\ LifeInv' /\ WorkersInv /\ PendingCountsWaiting
  /\ (\A j \in Job : Clear(j) /\ Apart(j)) /\ (\A j \in Job : Clear(j) /\ Apart(j))'
  /\ [Next]_vars
  => [Lifecycle!LifecycleNext]_(Lifecycle!lifecycleVars)
<1> SUFFICES ASSUME IInv, IInv', LifeInv, LifeInv', WorkersInv, PendingCountsWaiting,
                    \A j \in Job : Clear(j) /\ Apart(j),
                    (\A j \in Job : Clear(j) /\ Apart(j))',
                    [Next]_vars
             PROVE  [Lifecycle!LifecycleNext]_(Lifecycle!lifecycleVars)
  OBVIOUS
<1> DEFINE phase == [j \in Job |-> Phase(j)]
           revoked == {j \in Job : cancel[j]}
           Stutter == UNCHANGED <<phase, revoked, running>>
           Move(j, from, to) == phase[j] = from /\ phase' = [phase EXCEPT ![j] = to]
<1> USE ConstantsAssumption
<1>1. ASSUME \A j \in Job : Same(j) PROVE phase' = phase
  BY <1>1, SamePhase
<1>2. ASSUME NEW j \in Job, \A k \in Job : k # j => Same(k)
      PROVE  Move(j, Phase(j), Phase(j)')
  <2>1. \A k \in Job : k # j => Phase(k)' = Phase(k)
    BY <1>2, SamePhase
  <2> QED BY <2>1
<1>3. /\ Stutter => UNCHANGED Lifecycle!lifecycleVars
      /\ \A j \in Job : \A from, to : Lifecycle!Move(j, from, to) <=> Move(j, from, to)
  BY DEF Lifecycle!lifecycleVars, Lifecycle!Move
<1> HIDE DEF phase, revoked, Stutter, Move
\* The backlog changes with the counter.
<1>4. pending' = pending => Waiting' = Waiting
  <2>1. pending \in Int
    BY DEF IInv, TypeOK
  <2> QED BY <2>1, WaitingStep
<1>5. ASSUME pending' = pending, UNCHANGED status,
             \A j \in Job : post'[j] = "new" <=> post[j] = "new",
             \A j \in Job : Refused(j)' <=> Refused(j)
      PROVE  \A j \in Job : Same(j)
  BY <1>4, <1>5 DEF Same
<1>6. ASSUME pending' = pending, UNCHANGED <<status, post, error>>
      PROVE  phase' = phase
  BY <1>1, <1>5, <1>6 DEF Refused
<1>7. CASE Start
  <2>1. phase' = phase /\ revoked' = revoked /\ ~running /\ running'
    BY <1>6, <1>7 DEF Start, jobVars, revoked
  <2>2. ASSUME NEW j \in Job, Phase(j) \in Lifecycle!Live PROVE j \in revoked
    <3>1. Accepted(j)
      BY <2>2 DEF Lifecycle!Live, Clear, Accepted, Refused, Enqueued, Terminal, Post, IInv, TypeOK
    <3> QED BY <1>7, <3>1 DEF Start, IInv, ReachInv, revoked
  <2>3. {j \in Job : phase[j] \in Lifecycle!Live} \subseteq revoked
    BY <2>2 DEF phase
  <2>4. Lifecycle!Reopen
    BY <1>7, <2>1, <2>3 DEF Start, Lifecycle!Reopen, phase, revoked
  <2> QED BY <2>4 DEF Lifecycle!LifecycleNext
<1>8. CASE ShutdownBegin
  <2>1. phase' = phase /\ revoked' = revoked /\ running /\ running' = FALSE
    BY <1>6, <1>8 DEF ShutdownBegin, jobVars, revoked
  <2>2. Lifecycle!Close
    BY <2>1 DEF Lifecycle!Close, phase, revoked
  <2> QED BY <2>2 DEF Lifecycle!LifecycleNext
<1>9. ASSUME NEW j \in Job, ShutdownCancel(j) \/ Delete(j)
      PROVE  Lifecycle!LifecycleNext
  <2>1. phase' = phase /\ running' = running /\ cancel' = [cancel EXCEPT ![j] = TRUE]
    BY <1>6, <1>9 DEF ShutdownCancel, Delete, managerVars
  <2>2. revoked' = revoked \cup {j}
    BY <2>1 DEF revoked, IInv, TypeOK
  <2>3. post[j] \in {"stored"} \cup Enqueued /\ error[j] # "not_accepted"
    BY <1>9 DEF ShutdownCancel, Delete, LifeInv, RefusedInv, Enqueued
  <2>4. Phase(j) \notin {"unknown", "refused"}
    BY <2>3 DEF Clear, Refused, Enqueued, IInv, TypeOK, Status, Terminal
  <2>5. Lifecycle!Revoke(j)
    BY <2>1, <2>2, <2>4 DEF Lifecycle!Revoke, phase, revoked
  <2> QED BY <2>5 DEF Lifecycle!LifecycleNext
<1>10. ASSUME NEW j \in Job, SubmitRejected(j) \/ SubmitFull(j) PROVE Lifecycle!LifecycleNext
  <2>1. /\ Phase(j) = "unknown" /\ pending' = pending /\ running' = running /\ cancel' = cancel
        /\ ~running \/ Lifecycle!Full
    BY <1>10, FullIsFull DEF SubmitRejected, SubmitFull, managerVars, jobVars, Clear
  <2>2. Refused(j)'
    BY <1>10 DEF SubmitRejected, SubmitFull, Refused, IInv, TypeOK
  <2>3. \A k \in Job : k # j => Same(k)
    BY <1>4, <1>10, <2>1 DEF SubmitRejected, SubmitFull, Same, Refused, jobVars, IInv, TypeOK
  <2>4. Move(j, "unknown", "refused")
    BY <1>2, <2>1, <2>2, <2>3 DEF Clear
  <2>5. Lifecycle!Refuse(j)
    BY <1>3, <2>1, <2>4 DEF Lifecycle!Refuse, revoked
  <2> QED BY <2>5 DEF Lifecycle!LifecycleNext
<1>11. ASSUME NEW j \in Job, SubmitStore(j) PROVE Lifecycle!LifecycleNext
  <2>1. /\ Phase(j) = "unknown" /\ running /\ running' = running /\ cancel' = cancel
        /\ ~Lifecycle!Full
    BY <1>11, FullIsFull DEF SubmitStore, jobVars, Clear
  <2>2. j \in Waiting' /\ j \notin Waiting
    BY <1>11 DEF SubmitStore, Waiting, Apart, Enqueued, IInv, TypeOK
  <2>3. Waiting' = Waiting \cup {j}
    <3>1. pending' = pending + 1 /\ pending \in Int
      BY <1>11 DEF SubmitStore, IInv, TypeOK
    <3> QED BY <2>2, <3>1, WaitingStep
  <2>4. \A k \in Job : k # j => Same(k)
    BY <1>11, <2>3 DEF SubmitStore, Same, Refused, jobVars, IInv, TypeOK
  <2>5. Move(j, "unknown", "waiting")
    BY <1>2, <2>1, <2>2, <2>4 DEF Clear
  <2>6. Lifecycle!Accept(j)
    BY <1>3, <2>1, <2>5 DEF Lifecycle!Accept, revoked
  <2> QED BY <2>6 DEF Lifecycle!LifecycleNext
<1>12. ASSUME NEW j \in Job, SubmitPut(j) \/ Reply(j) PROVE Stutter
  <2>1. /\ pending' = pending /\ running' = running /\ cancel' = cancel /\ UNCHANGED <<status, error>>
        /\ post[j] \in {"stored", "submitted"} /\ post'[j] \in Enqueued
        /\ \A k \in Job : k # j => post'[k] = post[k]
    BY <1>12 DEF SubmitPut, Reply, managerVars, jobVars, Enqueued, IInv, TypeOK
  <2>2. phase' = phase
    BY <1>1, <1>5, <2>1 DEF Refused, Enqueued
  <2> QED BY <2>1, <2>2 DEF Stutter, revoked
<1>13. ASSUME NEW t \in Thread, NEW j \in Job, wjob[t] = j, Dec(t)
       PROVE  Lifecycle!LifecycleNext
  <2>1. /\ wpc[t] = "dec" /\ j \in Job /\ status[j] = "queued" /\ j \in Waiting
        /\ post[j] \in Enqueued
    BY <1>13 DEF Dec, IInv, TypeOK, OwnerInv, StatusInv, Busy, Waiting, Owns
  <2>2. UNCHANGED <<status, post, error, cancel, running, wjob>> /\ pending' = pending - 1
    BY <1>13 DEF Dec, jobVars
  <2>3. j \notin Waiting'
    <3>1. \A u \in Thread : wjob'[u] = j => wpc'[u] = "claim"
      BY <1>13, <2>1, <2>2 DEF Dec, IInv, OwnerInv, TypeOK
    <3>2. ~InQueue(j)'
      <4>1. \A i \in 1..Len(queue) : queue[i] # j
        BY <1>13, <2>1 DEF IInv, QueueInv, Owned, Owns
      <4> QED BY <1>13, <4>1, <2>2 DEF Dec, InQueue
    <3> QED BY <2>1, <2>2, <3>1, <3>2 DEF Waiting, Owns, Enqueued
  <2>4. Waiting' = Waiting \ {j}
    <3>1. pending \in Int
      BY DEF IInv, TypeOK
    <3> QED BY <2>1, <2>2, <2>3, <3>1, WaitingStep
  <2>5. \A k \in Job : k # j => Same(k)
    BY <2>2, <2>4 DEF Same, Refused
  <2>6. ~Refused(j)' /\ post'[j] # "new" /\ status'[j] = "queued"
    BY <2>1, <2>2 DEF Refused, LifeInv, RefusedInv, Enqueued
  <2>7. Phase(j) = "waiting" /\ Phase(j)' = "taken"
    BY <2>1, <2>2, <2>3, <2>6 DEF Clear
  <2>8. Move(j, "waiting", "taken")
    BY <1>2, <2>1, <2>5, <2>7
  <2>9. Lifecycle!Take(j)
    BY <1>3, <2>1, <2>2, <2>8 DEF Lifecycle!Take, revoked
  <2> QED BY <2>1, <2>9 DEF Lifecycle!LifecycleNext
\* A worker past the dec has its job to itself: it waits no more, and was not refused.
<1>14. ASSUME NEW t \in Thread, wpc[t] \in Busy \ {"dec"}
       PROVE  /\ wjob[t] \in Job /\ wjob[t] \notin Waiting /\ ~Refused(wjob[t])
              /\ post[wjob[t]] \in Enqueued /\ status[wjob[t]] \in {"queued", "running"}
  <2>1. /\ wjob[t] \in Job /\ wjob[t] # None /\ post[wjob[t]] \in Enqueued
        /\ status[wjob[t]] \in {"queued", "running"}
    BY <1>14 DEF IInv, OwnerInv, StatusInv, TypeOK, Status, Busy
  <2>2. ~InQueue(wjob[t])
    BY <2>1 DEF IInv, QueueInv, InQueue, Owned, Owns
  <2>3. \A u \in Thread : Owns(u, wjob[t]) => u = t
    BY <2>1 DEF IInv, OwnerInv, Owns
  <2> QED BY <1>14, <2>1, <2>2, <2>3 DEF Waiting, Refused, LifeInv, RefusedInv, Enqueued
<1>15. ASSUME NEW t \in Thread, NEW j \in Job, wjob[t] = j, Claim(t)
       PROVE  Lifecycle!LifecycleNext \/ Stutter
  <2>1. /\ j \in Job /\ j \notin Waiting /\ ~Refused(j) /\ post[j] \in Enqueued
        /\ status[j] = "queued"
    BY <1>14, <1>15 DEF Claim, Busy, IInv, StatusInv
  <2>2. UNCHANGED <<pending, post, error, cancel, running>>
    BY <1>15 DEF Claim, managerVars
  <2>3. CASE Claimable(j)
    <3>1. status' = [status EXCEPT ![j] = "running"]
      BY <1>15, <2>3 DEF Claim
    <3>2. \A k \in Job : k # j => Same(k)
      BY <1>4, <2>2, <3>1 DEF Same, Refused, IInv, TypeOK
    <3>3. Phase(j) = "taken" /\ Phase(j)' = "encoding"
      BY <2>1, <3>1 DEF Clear, Enqueued, IInv, TypeOK
    <3>4. Move(j, "taken", "encoding")
      BY <1>2, <2>1, <3>2, <3>3
    <3>5. Lifecycle!Cardinality(Lifecycle!In("encoding") \ revoked) < NumWorkers
      BY <1>15, <2>3, RoomToEncode DEF revoked
    <3>6. Lifecycle!Encode(j)
      BY <1>3, <2>1, <2>2, <2>3, <3>4, <3>5 DEF Lifecycle!Encode, Claimable, revoked
    <3> QED BY <2>1, <3>6 DEF Lifecycle!LifecycleNext
  <2>4. CASE ~Claimable(j)
    BY <1>6, <1>15, <2>2, <2>4 DEF Claim, Stutter, revoked
  <2> QED BY <2>3, <2>4
<1>16. ASSUME NEW t \in Thread, NEW j \in Job, wjob[t] = j,
              NEW o, o = FinalStatus(t), WriteStatus(t)
       PROVE  Lifecycle!LifecycleNext
  <2>1. /\ j \in Job /\ j \notin Waiting /\ ~Refused(j) /\ post[j] \in Enqueued
        /\ status[j] \in {"queued", "running"}
    BY <1>14, <1>16 DEF WriteStatus, Busy
  <2>2. /\ UNCHANGED <<pending, post, error, cancel, running>>
        /\ status' = [status EXCEPT ![j] = o]
    BY <1>16 DEF WriteStatus, managerVars
  <2>3. o \in Terminal /\ (o = "cancelled" => cancel[j]) /\ (status[j] = "queued" => o = "cancelled")
    BY <1>16, <2>1 DEF WriteStatus, FinalStatus, LifeInv, RunInv, IInv, TypeOK, Outcome, Terminal
  <2>4. \A k \in Job : k # j => Same(k)
    BY <1>4, <2>2 DEF Same, Refused, IInv, TypeOK
  <2>5. Phase(j)' = o
    BY <2>1, <2>2, <2>3 DEF Clear, Refused, IInv, TypeOK
  <2>6. Phase(j) = IF status[j] = "running" THEN "encoding" ELSE "taken"
    BY <2>1 DEF Clear, Enqueued
  <2>7. Move(j, Phase(j), o) /\ revoked' = revoked
    BY <1>2, <2>1, <2>2, <2>4, <2>5 DEF revoked
  <2>8. CASE status[j] = "running"
    <3>1. Lifecycle!End(j, o)
      BY <1>3, <2>1, <2>2, <2>3, <2>6, <2>7, <2>8 DEF Lifecycle!End, revoked
    <3> QED BY <2>1, <2>3, <3>1 DEF Lifecycle!LifecycleNext, Lifecycle!Outcomes, Terminal
  <2>9. CASE status[j] = "queued"
    <3>1. Lifecycle!Drop(j)
      BY <1>3, <2>1, <2>2, <2>3, <2>6, <2>7, <2>9 DEF Lifecycle!Drop, revoked
    <3> QED BY <2>1, <3>1 DEF Lifecycle!LifecycleNext
  <2> QED BY <2>1, <2>8, <2>9
<1>17. ASSUME NEW t \in Thread, WriteError(t) PROVE Stutter
  <2>1. wjob[t] \in Job /\ ~Refused(wjob[t])
    BY <1>14, <1>17 DEF WriteError, Busy
  <2>2. UNCHANGED <<pending, post, status, cancel, running>>
        /\ error' = [error EXCEPT ![wjob[t]] = "raised"]
    BY <1>17 DEF WriteError, managerVars
  <2>3. \A k \in Job : Refused(k)' <=> Refused(k)
    BY <2>1, <2>2 DEF Refused, IInv, TypeOK
  <2>4. phase' = phase
    BY <1>1, <1>5, <2>2, <2>3
  <2> QED BY <2>2, <2>4 DEF Stutter, revoked
<1>18. ASSUME NEW t \in Thread, NEW o \in Outcome,
              Get(t) \/ Return(t, o) \/ WriteFinishedAt(t)
       PROVE  Stutter
  BY <1>6, <1>18 DEF Get, Return, WriteFinishedAt, managerVars, jobVars, Stutter, revoked
<1>19. CASE ShutdownStop \/ ShutdownPut \/ ShutdownReturn \/ SweepRead \/ SweepEvict \/ Tick
            \/ UNCHANGED vars
  <2>1. Stutter
    BY <1>6, <1>19 DEF ShutdownStop, ShutdownPut, ShutdownReturn, SweepRead, SweepEvict, Tick,
                       vars, managerVars, jobVars, Stutter, revoked
  <2> QED BY <1>3, <2>1
<1> QED
  <2>1. Outcome # {}
    BY DEF Outcome
  <2>2. ASSUME NEW t \in Thread, Dec(t) \/ Claim(t) \/ WriteStatus(t)
        PROVE  Lifecycle!LifecycleNext \/ Stutter
    <3>1. wjob[t] \in Job
      BY <2>2 DEF Dec, Claim, WriteStatus, Busy, IInv, TypeOK, OwnerInv
    <3> QED BY <2>2, <3>1, <1>13, <1>15, <1>16
  <2> QED BY <2>1, <2>2, <1>3, <1>7, <1>8, <1>9, <1>10, <1>11, <1>12, <1>17, <1>18, <1>19
          DEF Next, Shutdown, Handler, WorkerStep

\* The manager keeps what JobLifecycle promises to its clients: its limits, a reason
\* for every refusal, no start after a revocation, and one outcome.
THEOREM KeepsPromises == Spec => ImplementsLifecycle
<1>1. Init => Lifecycle!LifecycleInit
  <2> SUFFICES ASSUME Init PROVE Lifecycle!LifecycleInit
    OBVIOUS
  <2>1. Waiting = {} /\ \A j \in Job : ~Refused(j)
    BY ConstantsAssumption DEF Init, Waiting, InQueue, Owns, Refused, ConstantsAssumption
  <2>2. \A j \in Job : Phase(j) = "unknown"
    BY <2>1 DEF Init, Phase, Terminal
  <2> QED BY <2>2 DEF Init, Lifecycle!LifecycleInit
<1>2. Spec => [](\A j \in Job : Clear(j) /\ Apart(j))
  BY Invariance, LifeInvariance, PhaseOf, PTL
<1> QED BY Invariance, LifeInvariance, WorkersInvariance, PendingCounts, LifecycleStep,
           <1>1, <1>2, PTL DEF Spec, ImplementsLifecycle, Lifecycle!LifecycleSpec
=============================================================================
