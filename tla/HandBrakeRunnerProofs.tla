------------------------ MODULE HandBrakeRunnerProofs ------------------------
(***************************************************************************)
(* Theorems about HandBrakeRunner, for any output and any pipe.            *)
(***************************************************************************)
EXTENDS HandBrakeRunner, TLAPS

\* The child has been reaped once the worker is past its last wait.
ReapedInv == pc \in {"join", "decide"} => ~alive

\* The wait for the timeout, and the verdict, come after the end of stdout.
PathInv == pc \in {"wait", "expired", "lost", "decide"} => completed

\* The worker's own kill comes before its last ten seconds.
KillInv == /\ pc \in {"dying", "lost"} => killed \/ ~alive
           /\ outcome = "unreaped" => killed

\* How a call returns; an exit code that was judged does not change.
ReturnInv ==
  /\ watcher = "new" <=> pc = "start" \/ outcome = "unwatched"
  /\ outcome # "none" => pc = "returned"
  /\ pc = "returned" /\ outcome \notin {"unwatched", "unreaped"} => ~alive
  /\ CleanExitIsKept
  /\ AbortKeepsItsCause

Inv == TypeOK /\ ReapedInv /\ PathInv /\ KillInv /\ ReturnInv

\* A call of run_encode begins with values of these types ...
LEMMA TypeInit == Init => TypeOK
<1> SUFFICES ASSUME Init PROVE TypeOK
  OBVIOUS
<1>1. pipe \in 0..PipeSize /\ left \in 0..Lines
  BY RunnerAssumption DEF RunnerAssumption, Init
<1>2. completed \in BOOLEAN /\ cancel \in BOOLEAN /\ alive \in BOOLEAN
      /\ killed \in BOOLEAN /\ stdout \in BOOLEAN /\ rc \in {0, 1, -9}
  BY DEF Init
<1> QED BY <1>1, <1>2 DEF Init, TypeOK

\* ... and run_encode, _watch_cancel, HandBrake and whoever cancels keep them.
LEMMA TypeStep == TypeOK /\ [Next]_vars => TypeOK'
<1> SUFFICES ASSUME TypeOK, [Next]_vars PROVE TypeOK'
  OBVIOUS
<1> USE DEF TypeOK, Go, Watch, Kill, mainVars, childVars
<1>1. CASE Start \/ EndOfFile \/ Finally \/ AbortKill \/ Died \/ Waited
  BY <1>1 DEF Start, EndOfFile, Finally, AbortKill, Died, Waited
<1>2. CASE ExpiredKill \/ ExpiredRaise \/ Reap \/ Join \/ Decide
  BY <1>2 DEF ExpiredKill, ExpiredRaise, Reap, Join, Decide, Verdict
<1>3. CASE Read
  <2>1. pipe' \in 0..PipeSize
    BY <1>3, RunnerAssumption DEF Read, RunnerAssumption
  <2> QED BY <1>3, <2>1 DEF Read
<1>4. CASE StartFails \/ Raise \/ Expire \/ Outlives
  BY <1>4 DEF StartFails, Raise, Expire, Outlives
<1>5. CASE Cancel \/ UNCHANGED vars
  <2>1. cancel' \in BOOLEAN
    BY <1>5 DEF Cancel, vars
  <2>2. UNCHANGED <<mainVars, watcher, childVars>>
    BY <1>5 DEF Cancel, vars
  <2> QED BY <2>1, <2>2
<1>6. CASE Watcher
  BY <1>6 DEF Watcher, WatchPoll, WatchWait, WatchGrace, WatchKill
<1>7. CASE ChildPrint
  <2>1. pipe' \in 0..PipeSize /\ left' \in 0..Lines
    BY <1>7, RunnerAssumption DEF ChildPrint, RunnerAssumption
  <2> QED BY <1>7, <2>1 DEF ChildPrint
<1>8. CASE ChildClose \/ ChildExit \/ ChildDie
  BY <1>8 DEF ChildClose, ChildExit, ChildDie
<1> QED BY <1>1, <1>2, <1>3, <1>4, <1>5, <1>6, <1>7, <1>8 DEF Next, Main, Child

\* No child lives before run_encode has started it ...
LEMMA InvInit == Init => Inv
BY TypeInit DEF Init, Inv, ReapedInv, PathInv, KillInv, ReturnInv, CleanExitIsKept,
                AbortKeepsItsCause

\* ... and none is left behind by a step of either thread.
LEMMA InvStep == Inv /\ [Next]_vars => Inv'
<1> SUFFICES ASSUME Inv, [Next]_vars PROVE ReapedInv' /\ PathInv' /\ KillInv' /\ ReturnInv'
  BY TypeStep DEF Inv
<1> USE DEF Inv, TypeOK, ReapedInv, PathInv, KillInv, ReturnInv, CleanExitIsKept,
            AbortKeepsItsCause, Go, Watch, Kill, mainVars, childVars
<1>1. CASE Main
  <2>1. CASE Start \/ Read \/ EndOfFile \/ Finally \/ AbortKill
    BY <2>1 DEF Start, Read, EndOfFile, Finally, AbortKill
  <2>2. CASE Died \/ Waited \/ ExpiredKill \/ ExpiredRaise \/ Reap \/ Join
    BY <2>2 DEF Died, Waited, ExpiredKill, ExpiredRaise, Reap, Join
  <2>3. CASE Decide
    BY <2>3 DEF Decide, Verdict
  <2> QED BY <1>1, <2>1, <2>2, <2>3 DEF Main
<1>2. CASE StartFails \/ Raise \/ Expire \/ Outlives \/ Cancel \/ UNCHANGED vars
  BY <1>2 DEF StartFails, Raise, Expire, Outlives, Cancel, vars
<1>3. CASE Watcher
  BY <1>3 DEF Watcher, WatchPoll, WatchWait, WatchGrace, WatchKill
<1>4. CASE Child
  BY <1>4 DEF Child, ChildPrint, ChildClose, ChildExit, ChildDie
<1> QED BY <1>1, <1>2, <1>3, <1>4 DEF Next

\* An encode that finished cleanly is reported as such, however a cancellation
\* races it, and "cancelled" is reported of a child that did not.
THEOREM CleanExitKept == Spec => []CleanExitIsKept
<1>1. Inv => CleanExitIsKept
  BY DEF Inv, ReturnInv
<1> QED BY InvInit, InvStep, <1>1, PTL DEF Spec

\* Every way out of run_encode with a watcher leaves a dead child behind, or one
\* that was killed and outlived its last ten seconds.
THEOREM NoneOrphaned == Spec => []NoOrphan
<1>1. Inv => NoOrphan
  BY DEF Inv, TypeOK, KillInv, ReturnInv, NoOrphan
<1> QED BY InvInit, InvStep, <1>1, PTL DEF Spec

\* A loop that raised is reported by its own exception, never as a timeout.
THEOREM CauseKept == Spec => []AbortKeepsItsCause
<1>1. Inv => AbortKeepsItsCause
  BY DEF Inv, ReturnInv
<1> QED BY InvInit, InvStep, <1>1, PTL DEF Spec

\* The worker, the watcher and the child keep their variables' types.
THEOREM RunnerTypeCorrect == Spec => []TypeOK
<1>1. Inv => TypeOK
  BY DEF Inv
<1> QED BY InvInit, InvStep, <1>1, PTL DEF Spec
=============================================================================
