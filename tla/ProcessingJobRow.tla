--------------------------- MODULE ProcessingJobRow ---------------------------
(***************************************************************************)
(* One row of the processing_jobs table and the SQL predicates and updates *)
(* that server/services/jobs/processingJobQueue.js applies to it.  A row   *)
(* is shared by every server, crawl worker and AI worker process; each     *)
(* operator below is the effect of one committed statement or transaction. *)
(*                                                                         *)
(* Timestamps are kept relative to the database's present: `lease' is      *)
(* leaseUntil minus now and `wait' is availableAt minus now, in ticks.  A  *)
(* statement is given the `now' its process read before it waited for a    *)
(* row lock (and on that process's own clock), so each predicate takes the *)
(* age d \in 0..Skew of that reading.                                      *)
(***************************************************************************)
EXTENDS Integers

CONSTANTS
  Slots,        \* execution slots; the leaseOwner UUID of a claim is its slot
  NoOwner,      \* leaseOwner IS NULL
  MaxAttempts,  \* processing_jobs.maxAttempts
  LeaseTicks,   \* leaseMs
  Skew,         \* oldest `now' a statement may carry
  BaseDelay,    \* DEFAULT_RETRY_BASE_DELAY_MS
  MaxDelay      \* DEFAULT_RETRY_MAX_DELAY_MS

ASSUME RowAssumption ==
  /\ NoOwner \notin Slots
  /\ MaxAttempts \in Nat \ {0}
  /\ LeaseTicks \in Nat \ {0}
  /\ Skew \in Nat
  /\ BaseDelay \in Nat \ {0}
  /\ MaxDelay \in Nat
  /\ BaseDelay <= MaxDelay

(* "none" is the absence of the row. The schema's fifth status, cancelled, *)
(* is never written by the code.                                           *)
JobStatus == {"none", "pending", "running", "succeeded", "dead"}
ActiveStatus == {"pending", "running"}
TerminalStatus == {"succeeded", "dead"}

(* A timestamp in the past by more than Skew is past for every reader, so  *)
(* ages stop there; a null leaseUntil satisfies the same predicates.       *)
Past == -Skew

Row == [status: JobStatus, attempts: 0..MaxAttempts, owner: Slots \cup {NoOwner},
        lease: Past..LeaseTicks, wait: Past..MaxDelay]

AbsentRow == [status |-> "none", attempts |-> 0, owner |-> NoOwner,
              lease |-> Past, wait |-> Past]

Readings == 0..Skew

-----------------------------------------------------------------------------
(* Predicates of the WHERE clauses.                                        *)

LeaseIsLive(row, d) == row.lease + d > 0

(* Faulty variants, here and before other definitions below: the slip a    *)
(* change of the code could make, which one of the properties must notice. *)

(* Faulty variant: running rows are claimed whatever their lease. *)
ClaimableWhileLeased(row, d) ==
  /\ row.attempts < MaxAttempts
  /\ row.status = "running" \/ (row.status = "pending" /\ row.wait + d <= 0)

Claimable(row, d) ==
  /\ row.attempts < MaxAttempts
  /\ \/ row.status = "pending" /\ row.wait + d <= 0 /\ ~LeaseIsLive(row, d)
     \/ row.status = "running" /\ ~LeaseIsLive(row, d)

(* Faulty variant: any running row matches, whoever leases it. *)
OwnedByAnyone(row, s, d) == row.status = "running" /\ LeaseIsLive(row, d)

Owned(row, s, d) == row.status = "running" /\ row.owner = s /\ LeaseIsLive(row, d)

(* Faulty variant: only pending rows without budget are recovered. *)
RecoverablePendingOnly(row, d) == row.status = "pending" /\ row.attempts >= MaxAttempts

Recoverable(row, d) ==
  \/ row.status = "running" /\ ~LeaseIsLive(row, d)
  \/ row.status = "pending" /\ row.attempts >= MaxAttempts

-----------------------------------------------------------------------------
(* Updates.                                                                *)

ClaimedRow(row, s, d) ==
  [row EXCEPT !.status = "running", !.attempts = @ + 1,
              !.owner = s, !.lease = LeaseTicks - d]

RenewedRow(row, d) == [row EXCEPT !.lease = LeaseTicks - d]

Released(row, status) == [row EXCEPT !.status = status, !.owner = NoOwner, !.lease = Past]

(* min(max, base * 2^(attempts-1)) plus up to a quarter of jitter, clamped. *)
RetryDelays(attempts) ==
  LET exponential == BaseDelay * 2 ^ (attempts - 1)
      capped      == IF exponential < MaxDelay THEN exponential ELSE MaxDelay
  IN  {w \in BaseDelay..MaxDelay : capped <= w /\ w <= capped + (capped \div 4)}

(* Faulty variant: off by one in the budget check of the retry. *)
RetriedRowOffByOne(row, d, delay) ==
  IF row.attempts > MaxAttempts
    THEN Released(row, "dead")
    ELSE [Released(row, "pending") EXCEPT !.wait = delay - d]

RetriedRow(row, d, delay) ==
  IF row.attempts >= MaxAttempts
    THEN Released(row, "dead")
    ELSE [Released(row, "pending") EXCEPT !.wait = delay - d]

RecoveredRow(row, d) ==
  [Released(row, IF row.attempts >= MaxAttempts THEN "dead" ELSE "pending")
     EXCEPT !.wait = -d]

(* A fresh row, an idempotent re-enqueue of terminal work and an operator's *)
(* requeue all leave the same row: pending with its whole attempt budget.   *)
ActivatedRow(d) == [AbsentRow EXCEPT !.status = "pending", !.wait = -d]

-----------------------------------------------------------------------------
(* One tick of the clock.                                                  *)
Aged(t) == IF t > Past THEN t - 1 ELSE t
AgedRow(row) == [row EXCEPT !.lease = Aged(@), !.wait = Aged(@)]
=============================================================================
