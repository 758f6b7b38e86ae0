---------------------------- MODULE JobLifecycle ----------------------------
(***************************************************************************)
(* What the job manager promises to its clients, with no queue, no threads *)
(* and no locks: a job is refused or waits, leaves the backlog, is encoded *)
(* unless it was revoked before, and ends once.  JobManager implements it. *)
(***************************************************************************)
EXTENDS Integers, FiniteSets

CONSTANTS Job, Workers, MaxQueue

VARIABLES phase,    \* where every job is in its life
          revoked,  \* the jobs that were deleted or shut down
          open      \* whether jobs are accepted

lifecycleVars == <<phase, revoked, open>>

Outcomes == {"completed", "failed", "cancelled"}
Live     == {"waiting", "taken", "encoding"}
Phases   == {"unknown", "refused"} \cup Live \cup Outcomes

In(p) == {j \in Job : phase[j] = p}
Move(j, from, to) == phase[j] = from /\ phase' = [phase EXCEPT ![j] = to]

Full == MaxQueue > 0 /\ Cardinality(In("waiting")) >= MaxQueue

LifecycleInit ==
  /\ phase = [j \in Job |-> "unknown"]
  /\ revoked = {}
  /\ open = FALSE

\* The doors close at any time.  They open again only when every job of the
\* time before has been revoked.
Close == open /\ open' = FALSE /\ UNCHANGED <<phase, revoked>>

Reopen ==
  /\ ~open /\ open' = TRUE
  /\ {j \in Job : phase[j] \in Live} \subseteq revoked
  /\ UNCHANGED <<phase, revoked>>

Accept(j) ==
  /\ open /\ ~Full
  /\ Move(j, "unknown", "waiting")
  /\ UNCHANGED <<revoked, open>>

\* Nobody is refused without a reason.
Refuse(j) ==
  /\ ~open \/ Full
  /\ Move(j, "unknown", "refused")
  /\ UNCHANGED <<revoked, open>>

Revoke(j) ==
  /\ phase[j] \notin {"unknown", "refused"}
  /\ revoked' = revoked \cup {j}
  /\ UNCHANGED <<phase, open>>

Take(j) == Move(j, "waiting", "taken") /\ UNCHANGED <<revoked, open>>

\* A revoked job is never started; the others never outnumber the workers.
Encode(j) ==
  /\ j \notin revoked
  /\ Cardinality(In("encoding") \ revoked) < Workers
  /\ Move(j, "taken", "encoding")
  /\ UNCHANGED <<revoked, open>>

Drop(j) ==
  /\ j \in revoked
  /\ Move(j, "taken", "cancelled")
  /\ UNCHANGED <<revoked, open>>

End(j, o) ==
  /\ o = "cancelled" => j \in revoked
  /\ Move(j, "encoding", o)
  /\ UNCHANGED <<revoked, open>>

LifecycleNext ==
  \/ Close \/ Reopen
  \/ \E j \in Job : \/ Accept(j) \/ Refuse(j) \/ Revoke(j)
                    \/ Take(j) \/ Encode(j) \/ Drop(j)
                    \/ \E o \in Outcomes : End(j, o)

LifecycleSpec == LifecycleInit /\ [][LifecycleNext]_lifecycleVars
=============================================================================
