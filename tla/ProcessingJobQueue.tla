-------------------------- MODULE ProcessingJobQueue --------------------------
(***************************************************************************)
(* The durable processing-job queue: producers that enqueue and reactivate *)
(* rows, AI workers that claim, heartbeat and settle them, the recovery of *)
(* expired leases, and the operator and user actions on terminal rows.     *)
(* Sources: server/services/jobs/processingJobQueue.js,                    *)
(* processingJobHandlers.js (executeClaimedProcessingJob),                 *)
(* processingJobOperator.js, server/src/workers/aiWorker.js.               *)
(*                                                                         *)
(* A slot is one in-flight execution of one worker process; a claim with   *)
(* limit n is n claims by n free slots.  The UUID a claim draws for        *)
(* leaseOwner is never drawn again, and a slot executes one job at a time, *)
(* so the slot itself stands for the UUID of its present claim.            *)
(***************************************************************************)
EXTENDS ProcessingJobRow

CONSTANTS
  Jobs,           \* (userId, type, dedupeKey) identities
  NoJob,          \* the job of an idle slot
  Rank,           \* claim order: priority, createdAt, id, all descending
  MaxActivations  \* bound: times a job may be enqueued, reactivated or requeued

ASSUME QueueAssumption ==
  /\ NoJob \notin Jobs
  /\ Rank \in [Jobs -> Nat]
  /\ \A i, j \in Jobs : Rank[i] = Rank[j] => i = j
  /\ MaxActivations \in Nat

VARIABLES
  row,         \* processing_jobs, by identity
  exec,        \* what each slot is executing: its program point and claim
  activation,  \* history: how often the job was (re)activated
  starts       \* history: handler invocations of the present activation

vars == <<row, exec, activation, starts>>

Point == {"idle", "claimed", "handling", "handled", "confirmed", "failing", "rejecting"}
IdleExec == [at |-> "idle", job |-> NoJob, attempt |-> 0, activation |-> 0, lost |-> FALSE]
Exec == [at: Point, job: Jobs \cup {NoJob}, attempt: 0..MaxAttempts,
         activation: 0..MaxActivations, lost: BOOLEAN]

TypeOK ==
  /\ row \in [Jobs -> Row]
  /\ exec \in [Slots -> Exec]
  /\ activation \in [Jobs -> 0..MaxActivations]
  /\ starts \in [Jobs -> Nat]

Init ==
  /\ row = [j \in Jobs |-> AbsentRow]
  /\ exec = [s \in Slots |-> IdleExec]
  /\ activation = [j \in Jobs |-> 0]
  /\ starts = [j \in Jobs |-> 0]

-----------------------------------------------------------------------------
(* Producers, the operator and the user.                                   *)

Activate(j, d) ==
  /\ activation[j] < MaxActivations
  /\ row' = [row EXCEPT ![j] = ActivatedRow(d)]
  /\ activation' = [activation EXCEPT ![j] = @ + 1]
  /\ starts' = [starts EXCEPT ![j] = 0]
  /\ UNCHANGED exec

(* enqueueProcessingJob: findOrCreate by identity, and with                *)
(* reactivateTerminal a row in a terminal status starts over. An active    *)
(* row is returned unchanged.                                              *)
Enqueue(j, d) == row[j].status \notin ActiveStatus /\ Activate(j, d)

(* requeueDeadProcessingJobs, under row locks on the dead rows.            *)
RequeueDead(j, d) == row[j].status = "dead" /\ Activate(j, d)

(* clearCompletedProcessingJobs: the user deletes terminal history.        *)
ClearHistory(j) ==
  /\ row[j].status \in TerminalStatus
  /\ row' = [row EXCEPT ![j] = AbsentRow]
  /\ starts' = [starts EXCEPT ![j] = 0]
  /\ UNCHANGED <<exec, activation>>

-----------------------------------------------------------------------------
(* Claiming.                                                               *)

(* claimProcessingJobs: the first claimable row in order that no other     *)
(* transaction has locked (SKIP LOCKED passes over those rows).            *)
FirstClaimable(j, d, locked) ==
  /\ Claimable(row[j], d)
  /\ \A i \in Jobs \ locked : Claimable(row[i], d) => Rank[i] <= Rank[j]

Claim(s, j, d) ==
  /\ exec[s].at = "idle"
  /\ \E locked \in SUBSET (Jobs \ {j}) : FirstClaimable(j, d, locked)
  /\ row' = [row EXCEPT ![j] = ClaimedRow(row[j], s, d)]
  /\ exec' = [exec EXCEPT ![s] = [at |-> "claimed", job |-> j,
                                  attempt |-> row[j].attempts + 1,
                                  activation |-> activation[j], lost |-> FALSE]]
  /\ UNCHANGED <<activation, starts>>

-----------------------------------------------------------------------------
(* executeClaimedProcessingJob on slot s.                                  *)

Job(s) == exec[s].job
Goto(s, point) == exec' = [exec EXCEPT ![s].at = point]
Vacate(s) == exec' = [exec EXCEPT ![s] = IdleExec]

Renewed(s, d) ==
  /\ ~exec[s].lost
  /\ Owned(row[Job(s)], s, d)
  /\ row' = [row EXCEPT ![Job(s)] = RenewedRow(row[Job(s)], d)]

(* renewLease rejects: the lease was already known to be lost, or the      *)
(* update matches no row, or the statement itself fails (so the row may    *)
(* still be owned).                                                        *)
RenewalRejected(s) ==
  /\ exec' = [exec EXCEPT ![s].at = "failing", ![s].lost = TRUE]
  /\ UNCHANGED <<row, activation, starts>>

Begin(s, d) ==
  /\ exec[s].at = "claimed"
  /\ Renewed(s, d)
  /\ Goto(s, "handling")
  /\ starts' = [starts EXCEPT ![Job(s)] = @ + 1]
  /\ UNCHANGED activation

(* No handler is registered for the type: a non-retryable failure.         *)
RejectUnknownType(s) ==
  /\ exec[s].at = "claimed"
  /\ Goto(s, "rejecting")
  /\ UNCHANGED <<row, activation, starts>>

(* The interval timer, which runs until the execution ends, and the        *)
(* handler's own assertLease calls.                                        *)
Heartbeat(s, d) ==
  /\ exec[s].at # "idle"
  /\ Renewed(s, d)
  /\ UNCHANGED <<exec, activation, starts>>

(* A heartbeat that finds the lease gone, or whose statement fails: the    *)
(* loss is remembered and the handler's abort signal fires.                *)
HeartbeatLost(s) ==
  /\ exec[s].at # "idle"
  /\ ~exec[s].lost
  /\ exec' = [exec EXCEPT ![s].lost = TRUE]
  /\ UNCHANGED <<row, activation, starts>>

HandlerReturns(s) ==
  /\ exec[s].at = "handling"
  /\ Goto(s, "handled")
  /\ UNCHANGED <<row, activation, starts>>

HandlerThrows(s, point) ==
  /\ exec[s].at = "handling"
  /\ Goto(s, point)
  /\ UNCHANGED <<row, activation, starts>>

Confirm(s, d) ==
  /\ exec[s].at = "handled"
  /\ Renewed(s, d)
  /\ Goto(s, "confirmed")
  /\ UNCHANGED <<activation, starts>>

RenewalRefused(s) ==
  /\ exec[s].at \in {"claimed", "handled"}
  /\ RenewalRejected(s)

(* completeProcessingJob; matching no row is reported as a lost lease.     *)
Complete(s, d) ==
  /\ exec[s].at = "confirmed"
  /\ \/ /\ Owned(row[Job(s)], s, d)
        /\ row' = [row EXCEPT ![Job(s)] = Released(row[Job(s)], "succeeded")]
        /\ Vacate(s)
     \/ /\ ~Owned(row[Job(s)], s, d)
        /\ Goto(s, "failing")
        /\ UNCHANGED row
  /\ UNCHANGED <<activation, starts>>

(* retryProcessingJob after a retryable error. The row is read FOR UPDATE  *)
(* SKIP LOCKED, so a row that is no longer owned, or one that another      *)
(* transaction has locked (this execution's own heartbeat among them), is  *)
(* not found: nothing changes and the execution ends as lease_lost.        *)
Retry(s, d) ==
  /\ exec[s].at = "failing"
  /\ \/ /\ Owned(row[Job(s)], s, d)
        /\ \E delay \in RetryDelays(row[Job(s)].attempts) :
             row' = [row EXCEPT ![Job(s)] = RetriedRow(row[Job(s)], d, delay)]
     \/ UNCHANGED row
  /\ Vacate(s)
  /\ UNCHANGED <<activation, starts>>

(* deadLetterProcessingJob after a non-retryable error.                    *)
DeadLetter(s, d) ==
  /\ exec[s].at = "rejecting"
  /\ \/ /\ Owned(row[Job(s)], s, d)
        /\ row' = [row EXCEPT ![Job(s)] = Released(row[Job(s)], "dead")]
     \/ ~Owned(row[Job(s)], s, d) /\ UNCHANGED row
  /\ Vacate(s)
  /\ UNCHANGED <<activation, starts>>

(* The process dies, the shutdown grace period ends, the lifecycle         *)
(* statement itself throws, or runLoop leaves between claiming a job and   *)
(* tracking it: the row keeps its lease.                                   *)
Abandon(s) ==
  /\ exec[s].at # "idle"
  /\ Vacate(s)
  /\ UNCHANGED <<row, activation, starts>>

-----------------------------------------------------------------------------
(* recoverExpiredProcessingJobs, run by every worker loop.                 *)
Recover(j, d) ==
  /\ Recoverable(row[j], d)
  /\ row' = [row EXCEPT ![j] = RecoveredRow(row[j], d)]
  /\ UNCHANGED <<exec, activation, starts>>

Tick ==
  /\ row' = [j \in Jobs |-> AgedRow(row[j])]
  /\ UNCHANGED <<exec, activation, starts>>

-----------------------------------------------------------------------------
Producer(j) ==
  \/ \E d \in Readings : Enqueue(j, d) \/ RequeueDead(j, d)
  \/ ClearHistory(j)

Settle(s) ==
  \/ \E d \in Readings : Complete(s, d) \/ Retry(s, d) \/ DeadLetter(s, d)

Advance(s) ==
  \/ \E d \in Readings : Begin(s, d) \/ Confirm(s, d)
  \/ HandlerReturns(s)
  \/ \E point \in {"failing", "rejecting"} : HandlerThrows(s, point)
  \/ RenewalRefused(s)
  \/ RejectUnknownType(s)
  \/ Settle(s)

Execution(s) ==
  \/ Advance(s)
  \/ \E d \in Readings : Heartbeat(s, d)
  \/ HeartbeatLost(s)
  \/ Abandon(s)

Polling ==
  \/ \E s \in Slots, j \in Jobs, d \in Readings : Claim(s, j, d)

Recovery(j) == \E d \in Readings : Recover(j, d)

Next ==
  \/ \E j \in Jobs : Producer(j)
  \/ Polling
  \/ \E s \in Slots : Execution(s)
  \/ \E j \in Jobs : Recovery(j)
  \/ Tick

Spec == Init /\ [][Next]_vars

(* A worker process is up and polling (its supervisor restarts it), its    *)
(* loop recovers expired leases, handlers end (inference calls time out)   *)
(* and time passes. Nothing makes a producer or a crash happen.            *)
Fairness ==
  /\ WF_vars(Polling)
  /\ \A s \in Slots : WF_vars(Advance(s))
  /\ \A j \in Jobs : WF_vars(Recovery(j))
  /\ WF_vars(Tick)

FairSpec == Spec /\ Fairness

-----------------------------------------------------------------------------
(* Safety.                                                                 *)

(* A row has a lease owner exactly while it runs, and nothing but a        *)
(* running row has a lease that could still be live: no path through       *)
(* settlement, recovery, requeue or reactivation leaves a stale lease that *)
(* would keep pending work from being claimed.                             *)
LeaseOnlyWhileRunning ==
  \A j \in Jobs :
    /\ row[j].owner # NoOwner <=> row[j].status = "running"
    /\ row[j].status # "running" => \A d \in Readings : ~LeaseIsLive(row[j], d)

(* The execution a row names as its owner holds the row's present attempt  *)
(* of its present activation, however often the job was abandoned,         *)
(* reclaimed, cleared and enqueued again in between.                       *)
OwnerHoldsCurrentAttempt ==
  \A j \in Jobs, s \in Slots :
    row[j].owner = s /\ exec[s].job = j =>
      /\ exec[s].attempt = row[j].attempts
      /\ exec[s].activation = activation[j]

(* Retries are bounded: in one activation the handler is invoked at most   *)
(* once per claimed attempt, so at most MaxAttempts times, whatever        *)
(* crashes, expired leases and late executions happen.                     *)
HandlerStartsWithinBudget ==
  \A j \in Jobs : starts[j] <= row[j].attempts /\ row[j].attempts <= MaxAttempts

(* The inductive invariant behind the three above. A slot has a job        *)
(* exactly while it is busy, a pending row can still be claimed, and a     *)
(* claim that still owns its row and has not begun has not spent its       *)
(* attempt's handler invocation.                                           *)
ExecConsistent == \A s \in Slots : exec[s].at = "idle" <=> exec[s].job = NoJob

PendingHasBudget == \A j \in Jobs : row[j].status = "pending" => row[j].attempts < MaxAttempts

UnspentClaim ==
  \A j \in Jobs, s \in Slots :
    row[j].owner = s /\ exec[s].job = j /\ exec[s].at = "claimed" =>
      starts[j] < row[j].attempts

InductiveInvariant ==
  /\ TypeOK /\ ExecConsistent
  /\ LeaseOnlyWhileRunning
  /\ OwnerHoldsCurrentAttempt
  /\ HandlerStartsWithinBudget
  /\ PendingHasBudget
  /\ UnspentClaim

(* A job counts as succeeded only through the handler run of its latest    *)
(* claim: an execution that lost its lease cannot complete the attempt or  *)
(* the activation that replaced it.                                        *)
SuccessIsCurrent ==
  [][\A j \in Jobs :
       row[j].status # "succeeded" /\ row'[j].status = "succeeded" =>
         \E s \in Slots : /\ exec[s].at = "confirmed" /\ exec[s].job = j
                          /\ exec[s].attempt = row[j].attempts
                          /\ exec[s].activation = activation[j]]_vars

(* While a lease is live its row changes hands only by the holder's own    *)
(* settlement: no claim, recovery, requeue or late settlement of another   *)
(* execution ends it early.                                                *)
LiveLeaseEndsByHolder ==
  [][\A j \in Jobs :
       row[j].lease > 0 /\ row'[j].owner # row[j].owner =>
         \E s \in Slots : /\ row[j].owner = s /\ exec[s].job = j
                          /\ exec[s].at \in {"confirmed", "failing", "rejecting"}
                          /\ exec'[s].at = "idle"]_vars

(* A job dies only for a reason: its attempts are spent, or the handler of *)
(* its latest claim refused it for good.                                   *)
DeadForAReason ==
  [][\A j \in Jobs :
       row[j].status # "dead" /\ row'[j].status = "dead" =>
         \/ row[j].attempts = MaxAttempts
         \/ \E s \in Slots : /\ row[j].owner = s /\ exec[s].job = j
                             /\ exec[s].at = "rejecting"]_vars

-----------------------------------------------------------------------------
(* Liveness. Accepted work is settled: no interleaving of crashes, expired *)
(* leases, lost heartbeats and backoff leaves a job pending or running     *)
(* for ever.                                                               *)
AcceptedWorkSettles ==
  \A j \in Jobs : row[j].status \in ActiveStatus ~> row[j].status \in TerminalStatus

-----------------------------------------------------------------------------
(* What the queue promises without mentioning leases or clocks.            *)
Tries(r) == IF r.status \in ActiveStatus THEN r.attempts ELSE 0

Lifecycle == INSTANCE JobLifecycle WITH
  Workers <- Slots,
  NoWorker <- NoOwner,
  phase <- [j \in Jobs |-> row[j].status],
  holder <- [j \in Jobs |-> row[j].owner],
  tries <- [j \in Jobs |-> Tries(row[j])],
  working <- [s \in Slots |-> exec[s].job]

ImplementsLifecycle == Lifecycle!Spec
=============================================================================
