----------------------------- MODULE JobLifecycle -----------------------------
(***************************************************************************)
(* What the processing-job queue promises its producers and handlers, with *)
(* no lease, clock or heartbeat in it: every job is granted to one worker  *)
(* at a time, at most MaxAttempts times between two openings, and only the *)
(* worker of the latest grant may settle it.  A worker whose grant was     *)
(* revoked can do nothing but leave.                                       *)
(* ProcessingJobQueue implements this specification.                       *)
(***************************************************************************)
EXTENDS Naturals

CONSTANTS Jobs, NoJob, Workers, NoWorker, MaxAttempts

VARIABLES
  phase,    \* "none", "pending", "running", "succeeded" or "dead"
  holder,   \* the worker of the latest grant, while the job runs
  tries,    \* grants of an active job since it was last opened
  working   \* the job each worker believes it is working on

vars == <<phase, holder, tries, working>>

Init ==
  /\ phase = [j \in Jobs |-> "none"]
  /\ holder = [j \in Jobs |-> NoWorker]
  /\ tries = [j \in Jobs |-> 0]
  /\ working = [w \in Workers |-> NoJob]

Become(j, p, h, n) ==
  /\ phase' = [phase EXCEPT ![j] = p]
  /\ holder' = [holder EXCEPT ![j] = h]
  /\ tries' = [tries EXCEPT ![j] = n]

Open(j) ==
  /\ phase[j] \notin {"pending", "running"}
  /\ Become(j, "pending", NoWorker, 0)
  /\ UNCHANGED working

Forget(j) ==
  /\ phase[j] \in {"succeeded", "dead"}
  /\ Become(j, "none", NoWorker, 0)
  /\ UNCHANGED working

(* A running job is granted anew only in place of its present holder.      *)
Grant(w, j) ==
  /\ phase[j] \in {"pending", "running"}
  /\ tries[j] < MaxAttempts
  /\ working[w] = NoJob
  /\ Become(j, "running", w, tries[j] + 1)
  /\ working' = [working EXCEPT ![w] = j]

(* The holder reports: success, a failure to try again, or a final one.    *)
SettleAs(w, j, p) ==
  /\ phase[j] = "running" /\ holder[j] = w /\ working[w] = j
  /\ p = "pending" => tries[j] < MaxAttempts
  /\ Become(j, p, NoWorker, IF p = "pending" THEN tries[j] ELSE 0)
  /\ working' = [working EXCEPT ![w] = NoJob]

Leave(w) ==
  /\ working[w] # NoJob
  /\ working' = [working EXCEPT ![w] = NoJob]
  /\ UNCHANGED <<phase, holder, tries>>

Revoke(j) ==
  /\ phase[j] = "running"
  /\ \/ tries[j] < MaxAttempts /\ Become(j, "pending", NoWorker, tries[j])
     \/ tries[j] >= MaxAttempts /\ Become(j, "dead", NoWorker, 0)
  /\ UNCHANGED working

Next ==
  \/ \E j \in Jobs : Open(j) \/ Forget(j) \/ Revoke(j)
  \/ \E w \in Workers, j \in Jobs :
       Grant(w, j) \/ \E p \in {"pending", "succeeded", "dead"} : SettleAs(w, j, p)
  \/ \E w \in Workers : Leave(w)

Spec == Init /\ [][Next]_vars
=============================================================================
