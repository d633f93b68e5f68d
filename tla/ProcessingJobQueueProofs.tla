----------------------- MODULE ProcessingJobQueueProofs -----------------------
(***************************************************************************)
(* Theorems about ProcessingJobQueue for every set of jobs and slots and   *)
(* every value of the bounds.                                              *)
(***************************************************************************)
EXTENDS ProcessingJobQueue, TLAPS

-----------------------------------------------------------------------------
(* Every update of a row yields a row.                                     *)

(* The arithmetic of the relative timestamps.                              *)
LEMMA Times ==
  /\ Past \in Past..LeaseTicks /\ Past \in Past..MaxDelay /\ 0 \in Readings
  /\ \A d \in Readings : /\ d \in Nat /\ Past + d <= 0
                         /\ -d \in Past..MaxDelay
                         /\ LeaseTicks - d \in Past..LeaseTicks
  /\ \A d \in Readings, delay \in BaseDelay..MaxDelay : delay - d \in Past..MaxDelay
  /\ \A t \in Past..LeaseTicks : t \in Int /\ Aged(t) \in Past..LeaseTicks
  /\ \A t \in Past..MaxDelay : Aged(t) \in Past..MaxDelay
BY RowAssumption DEF Past, Readings, Aged

LEMMA AgedRowType ==
  ASSUME NEW r \in Row
  PROVE  AgedRow(r) \in Row
BY Times DEF AgedRow, Row

LEMMA ActivatedRowType ==
  ASSUME NEW d \in Readings
  PROVE  ActivatedRow(d) \in Row /\ AbsentRow \in Row
<1>1. AbsentRow \in Row
  BY RowAssumption, Times DEF AbsentRow, Row, JobStatus
<1>2. /\ "pending" \in JobStatus
      /\ -d \in Past..MaxDelay
  BY Times DEF JobStatus
<1>3. [AbsentRow EXCEPT !.status = "pending", !.wait = -d] \in Row
  BY <1>1, <1>2 DEF Row
<1>4. QED
  BY <1>1, <1>3 DEF ActivatedRow

LEMMA ClaimedRowType ==
  ASSUME NEW r \in Row, NEW s \in Slots, NEW d \in Readings, r.attempts < MaxAttempts
  PROVE  ClaimedRow(r, s, d) \in Row
<1>1. /\ "running" \in JobStatus
      /\ LeaseTicks - d \in Past..LeaseTicks
  BY Times DEF JobStatus
<1>2. r.attempts + 1 \in 0..MaxAttempts
  BY RowAssumption DEF Row
<1>3. QED
  BY <1>1, <1>2 DEF ClaimedRow, Row

LEMMA RenewedRowType ==
  ASSUME NEW r \in Row, NEW d \in Readings
  PROVE  RenewedRow(r, d) \in Row
BY Times DEF RenewedRow, Row

LEMMA ReleasedRowType ==
  ASSUME NEW r \in Row, NEW status \in JobStatus
  PROVE  Released(r, status) \in Row
BY Times DEF Released, Row

LEMMA RetriedRowType ==
  ASSUME NEW r \in Row, NEW d \in Readings, NEW delay \in RetryDelays(r.attempts)
  PROVE  RetriedRow(r, d, delay) \in Row
<1>1. delay - d \in Past..MaxDelay
  BY Times DEF RetryDelays
<1>2. Released(r, "dead") \in Row /\ Released(r, "pending") \in Row
  BY ReleasedRowType DEF JobStatus
<1>3. [Released(r, "pending") EXCEPT !.wait = delay - d] \in Row
  BY <1>1, <1>2 DEF Row
<1>4. QED
  BY <1>2, <1>3 DEF RetriedRow

LEMMA RecoveredRowType ==
  ASSUME NEW r \in Row, NEW d \in Readings
  PROVE  RecoveredRow(r, d) \in Row
<1>1. /\ Released(r, "dead") \in Row /\ Released(r, "pending") \in Row
      /\ -d \in Past..MaxDelay
  BY ReleasedRowType, Times DEF JobStatus
<1>2. QED
  BY <1>1 DEF RecoveredRow, Row

-----------------------------------------------------------------------------
(* Type correctness.                                                       *)

TypeInv == TypeOK /\ ExecConsistent

LEMMA ActivateType ==
  ASSUME TypeInv, NEW j \in Jobs, NEW d \in Readings, Activate(j, d)
  PROVE  TypeInv'
<1>1. row' \in [Jobs -> Row]
  BY ActivatedRowType DEF TypeInv, TypeOK, Activate
<1>2. activation' \in [Jobs -> 0..MaxActivations] /\ starts' \in [Jobs -> Nat]
  BY QueueAssumption DEF TypeInv, TypeOK, Activate
<1>3. QED
  BY <1>1, <1>2 DEF TypeInv, TypeOK, ExecConsistent, Activate

LEMMA ProducerType ==
  ASSUME TypeInv, NEW j \in Jobs, Producer(j)
  PROVE  TypeInv'
<1>1. ASSUME NEW d \in Readings, Enqueue(j, d) \/ RequeueDead(j, d)
      PROVE  TypeInv'
  BY <1>1, ActivateType DEF Enqueue, RequeueDead
<1>2. ASSUME ClearHistory(j)
      PROVE  TypeInv'
  <2>1. row' \in [Jobs -> Row]
    BY <1>2, ActivatedRowType, Times DEF TypeInv, TypeOK, ClearHistory
  <2>2. starts' \in [Jobs -> Nat]
    BY <1>2 DEF TypeInv, TypeOK, ClearHistory
  <2>3. QED
    BY <1>2, <2>1, <2>2 DEF TypeInv, TypeOK, ExecConsistent, ClearHistory
<1>3. QED
  BY <1>1, <1>2 DEF Producer

LEMMA ClaimType ==
  ASSUME TypeInv, NEW s \in Slots, NEW j \in Jobs, NEW d \in Readings, Claim(s, j, d)
  PROVE  TypeInv'
<1>1. row[j] \in Row /\ row[j].attempts < MaxAttempts
  BY DEF TypeInv, TypeOK, Claim, FirstClaimable, Claimable
<1>2. row' \in [Jobs -> Row]
  BY <1>1, ClaimedRowType DEF TypeInv, TypeOK, Claim
<1>3. row[j].attempts + 1 \in 0..MaxAttempts
  BY <1>1, RowAssumption DEF Row
<1>4. [at |-> "claimed", job |-> j, attempt |-> row[j].attempts + 1,
       activation |-> activation[j], lost |-> FALSE] \in Exec
  BY <1>3 DEF TypeInv, TypeOK, Exec, Point
<1>5. exec' \in [Slots -> Exec]
  BY <1>4 DEF TypeInv, TypeOK, Claim
<1>6. ExecConsistent'
  BY QueueAssumption DEF TypeInv, TypeOK, ExecConsistent, Claim, Exec
<1>7. QED
  BY <1>2, <1>5, <1>6 DEF TypeInv, TypeOK, Claim

LEMMA GotoType ==
  ASSUME TypeInv, NEW s \in Slots, exec[s].at # "idle",
         NEW point \in Point \ {"idle"}, Goto(s, point)
  PROVE  exec' \in [Slots -> Exec] /\ ExecConsistent'
<1>1. [exec[s] EXCEPT !.at = point] \in Exec
  BY DEF TypeInv, TypeOK, Exec
<1>2. QED
  BY <1>1 DEF TypeInv, TypeOK, ExecConsistent, Goto, Exec

LEMMA VacateType ==
  ASSUME TypeInv, NEW s \in Slots, Vacate(s)
  PROVE  exec' \in [Slots -> Exec] /\ ExecConsistent'
<1>1. IdleExec \in Exec
  BY RowAssumption, QueueAssumption DEF IdleExec, Exec, Point
<1>2. QED
  BY <1>1 DEF TypeInv, TypeOK, ExecConsistent, Vacate, IdleExec

LEMMA LoseType ==
  ASSUME TypeInv, NEW s \in Slots, exec[s].at # "idle",
         \/ exec' = [exec EXCEPT ![s].lost = TRUE]
         \/ exec' = [exec EXCEPT ![s].at = "failing", ![s].lost = TRUE]
  PROVE  exec' \in [Slots -> Exec] /\ ExecConsistent'
<1>1. /\ [exec[s] EXCEPT !.lost = TRUE] \in Exec
      /\ [exec[s] EXCEPT !.at = "failing", !.lost = TRUE] \in Exec
  BY DEF TypeInv, TypeOK, Exec, Point
<1>2. exec' \in [Slots -> Exec]
  BY <1>1 DEF TypeInv, TypeOK
<1>3. ExecConsistent'
  BY DEF TypeInv, TypeOK, ExecConsistent, Exec
<1>4. QED
  BY <1>2, <1>3

(* A busy slot's job is a job, and what it may do to the job's row keeps   *)
(* the row a row.                                                          *)
LEMMA ExecutionRowType ==
  ASSUME TypeInv, NEW s \in Slots, exec[s].at # "idle", NEW d \in Readings
  PROVE  /\ Job(s) \in Jobs
         /\ row[Job(s)] \in Row
         /\ Renewed(s, d) => row' \in [Jobs -> Row]
         /\ \A status \in JobStatus :
              row' = [row EXCEPT ![Job(s)] = Released(row[Job(s)], status)]
                => row' \in [Jobs -> Row]
         /\ \A delay \in RetryDelays(row[Job(s)].attempts) :
              row' = [row EXCEPT ![Job(s)] = RetriedRow(row[Job(s)], d, delay)]
                => row' \in [Jobs -> Row]
<1>1. Job(s) \in Jobs /\ row[Job(s)] \in Row
  BY DEF TypeInv, TypeOK, ExecConsistent, Exec, Job
<1>2. Renewed(s, d) => row' \in [Jobs -> Row]
  BY <1>1, RenewedRowType DEF TypeInv, TypeOK, Renewed
<1>3. ASSUME NEW status \in JobStatus,
             row' = [row EXCEPT ![Job(s)] = Released(row[Job(s)], status)]
      PROVE  row' \in [Jobs -> Row]
  BY <1>1, <1>3, ReleasedRowType DEF TypeInv, TypeOK
<1>4. ASSUME NEW delay \in RetryDelays(row[Job(s)].attempts),
             row' = [row EXCEPT ![Job(s)] = RetriedRow(row[Job(s)], d, delay)]
      PROVE  row' \in [Jobs -> Row]
  BY <1>1, <1>4, RetriedRowType DEF TypeInv, TypeOK
<1>5. QED
  BY <1>1, <1>2, <1>3, <1>4

LEMMA ExecutionType ==
  ASSUME TypeInv, NEW s \in Slots, Execution(s)
  PROVE  TypeInv'
<1> USE DEF TypeInv, TypeOK
<1>1. ASSUME NEW d \in Readings, Begin(s, d)
      PROVE  TypeInv'
  <2>1. starts' \in [Jobs -> Nat]
    <3>1. Job(s) \in Jobs
      BY <1>1, ExecutionRowType DEF Begin
    <3>2. starts[Job(s)] + 1 \in Nat
      BY <3>1
    <3>3. starts' = [starts EXCEPT ![Job(s)] = starts[Job(s)] + 1]
      BY <1>1 DEF Begin
    <3>4. QED
      BY <3>2, <3>3
  <2>2. row' \in [Jobs -> Row]
    BY <1>1, ExecutionRowType DEF Begin
  <2>3. exec' \in [Slots -> Exec] /\ ExecConsistent'
    BY <1>1, GotoType DEF Begin, Point
  <2>4. QED
    BY <1>1, <2>1, <2>2, <2>3 DEF Begin
<1>2. ASSUME NEW d \in Readings, Confirm(s, d)
      PROVE  TypeInv'
  BY <1>2, ExecutionRowType, GotoType DEF Confirm, Point
<1>3. CASE HandlerReturns(s)
  BY <1>3, GotoType DEF HandlerReturns, Point
<1>4. ASSUME NEW point \in {"failing", "rejecting"}, HandlerThrows(s, point)
      PROVE  TypeInv'
  BY <1>4, GotoType DEF HandlerThrows, Point
<1>5. CASE RenewalRefused(s)
  BY <1>5, LoseType DEF RenewalRefused, RenewalRejected
<1>6. CASE RejectUnknownType(s)
  BY <1>6, GotoType DEF RejectUnknownType, Point
<1>7. ASSUME NEW d \in Readings, Complete(s, d)
      PROVE  TypeInv'
  BY <1>7, ExecutionRowType, GotoType, VacateType DEF Complete, Point, JobStatus
<1>8. ASSUME NEW d \in Readings, Retry(s, d)
      PROVE  TypeInv'
  BY <1>8, ExecutionRowType, VacateType DEF Retry
<1>9. ASSUME NEW d \in Readings, DeadLetter(s, d)
      PROVE  TypeInv'
  BY <1>9, ExecutionRowType, VacateType DEF DeadLetter, JobStatus
<1>10. ASSUME NEW d \in Readings, Heartbeat(s, d)
       PROVE  TypeInv'
  BY <1>10, ExecutionRowType DEF Heartbeat, ExecConsistent
<1>11. CASE HeartbeatLost(s)
  BY <1>11, LoseType DEF HeartbeatLost
<1>12. CASE Abandon(s)
  BY <1>12, VacateType DEF Abandon
<1>13. QED
  BY <1>1, <1>2, <1>3, <1>4, <1>5, <1>6, <1>7, <1>8, <1>9, <1>10, <1>11, <1>12
  DEF Execution, Advance, Settle

LEMMA RecoverType ==
  ASSUME TypeInv, NEW j \in Jobs, NEW d \in Readings, Recover(j, d)
  PROVE  TypeInv'
<1>1. row' \in [Jobs -> Row]
  BY RecoveredRowType DEF TypeInv, TypeOK, Recover
<1>2. QED
  BY <1>1 DEF TypeInv, TypeOK, ExecConsistent, Recover

LEMMA TickType ==
  ASSUME TypeInv, Tick
  PROVE  TypeInv'
<1>1. row' \in [Jobs -> Row]
  BY AgedRowType DEF TypeInv, TypeOK, Tick
<1>2. QED
  BY <1>1 DEF TypeInv, TypeOK, ExecConsistent, Tick

LEMMA InitType == Init => TypeInv
<1>1. IdleExec \in Exec /\ AbsentRow \in Row
  BY RowAssumption, QueueAssumption, ActivatedRowType, Times DEF IdleExec, Exec, Point
<1>2. QED
  BY <1>1, QueueAssumption DEF Init, TypeInv, TypeOK, ExecConsistent, IdleExec

LEMMA NextType == TypeInv /\ [Next]_vars => TypeInv'
<1> SUFFICES ASSUME TypeInv, [Next]_vars
             PROVE  TypeInv'
  OBVIOUS
<1>1. ASSUME NEW j \in Jobs, Producer(j)
      PROVE  TypeInv'
  BY <1>1, ProducerType
<1>2. CASE Polling
  BY <1>2, ClaimType DEF Polling
<1>3. ASSUME NEW s \in Slots, Execution(s)
      PROVE  TypeInv'
  BY <1>3, ExecutionType
<1>4. ASSUME NEW j \in Jobs, Recovery(j)
      PROVE  TypeInv'
  BY <1>4, RecoverType DEF Recovery
<1>5. CASE Tick
  BY <1>5, TickType
<1>6. CASE UNCHANGED vars
  BY <1>6 DEF vars, TypeInv, TypeOK, ExecConsistent
<1>7. QED
  BY <1>1, <1>2, <1>3, <1>4, <1>5, <1>6 DEF Next

(* Every reachable row, execution and counter has the shape the rest of    *)
(* this module relies on, for any number of jobs, slots, attempts and      *)
(* ticks: processing_jobs.attempts never passes maxAttempts and no update  *)
(* writes a lease or an availability outside its range.                    *)
THEOREM TypeCorrect == Spec => []TypeOK
<1>1. TypeInv => TypeOK
  BY DEF TypeInv
<1>2. QED
  BY <1>1, InitType, NextType, PTL DEF Spec

-----------------------------------------------------------------------------
(* The inductive invariant.                                                *)

SafetyInv ==
  /\ LeaseOnlyWhileRunning
  /\ OwnerHoldsCurrentAttempt
  /\ HandlerStartsWithinBudget
  /\ PendingHasBudget
  /\ UnspentClaim

(* Steps that replace one row by a row without an owner.                   *)
Ownerless(r) ==
  /\ r.owner = NoOwner /\ r.status # "running"
  /\ \A d \in Readings : ~LeaseIsLive(r, d)

LEMMA ActivatedIsOwnerless ==
  ASSUME NEW d \in Readings
  PROVE  /\ Ownerless(ActivatedRow(d)) /\ ActivatedRow(d).attempts = 0
         /\ Ownerless(AbsentRow) /\ AbsentRow.attempts = 0
BY Times DEF Ownerless, ActivatedRow, AbsentRow, LeaseIsLive

LEMMA ReleasedIsOwnerless ==
  ASSUME NEW r \in Row, NEW status, status # "running"
  PROVE  /\ Ownerless(Released(r, status))
         /\ Released(r, status).attempts = r.attempts
         /\ Released(r, status).status = status
BY Times DEF Ownerless, Released, LeaseIsLive, Row

LEMMA RetriedIsOwnerless ==
  ASSUME NEW r \in Row, NEW d \in Readings, NEW delay
  PROVE  /\ Ownerless(RetriedRow(r, d, delay))
         /\ RetriedRow(r, d, delay).attempts = r.attempts
         /\ RetriedRow(r, d, delay).status =
              IF r.attempts >= MaxAttempts THEN "dead" ELSE "pending"
BY ReleasedIsOwnerless DEF RetriedRow, Released, Ownerless, LeaseIsLive, Row

LEMMA RecoveredIsOwnerless ==
  ASSUME NEW r \in Row, NEW d \in Readings
  PROVE  /\ Ownerless(RecoveredRow(r, d))
         /\ RecoveredRow(r, d).attempts = r.attempts
         /\ RecoveredRow(r, d).status =
              IF r.attempts >= MaxAttempts THEN "dead" ELSE "pending"
BY ReleasedIsOwnerless DEF RecoveredRow, Released, Ownerless, LeaseIsLive, Row

(* Releasing row j, with its attempts kept, by whatever step, preserves    *)
(* the invariant if no slot takes a new claim.                             *)
LEMMA ReleaseKeepsInv ==
  ASSUME TypeInv, SafetyInv, TypeInv',
         NEW j \in Jobs, NEW r \in Row, Ownerless(r), r.attempts = row[j].attempts,
         r.status = "pending" => row[j].attempts < MaxAttempts,
         row' = [row EXCEPT ![j] = r],
         UNCHANGED <<activation, starts>>,
         \A s \in Slots : exec'[s].at # "idle" =>
           /\ exec'[s].job = exec[s].job
           /\ exec'[s].attempt = exec[s].attempt
           /\ exec'[s].activation = exec[s].activation
           /\ exec'[s].at = "claimed" => exec[s].at = "claimed"
  PROVE  SafetyInv'
<1>1. \A s \in Slots, i \in Jobs : exec'[s].job = i => exec'[s].at # "idle"
  BY QueueAssumption DEF TypeInv, ExecConsistent
<1>2. LeaseOnlyWhileRunning'
  BY RowAssumption DEF TypeInv, TypeOK, SafetyInv, LeaseOnlyWhileRunning, Ownerless, LeaseIsLive
<1>3. OwnerHoldsCurrentAttempt'
  BY <1>1, RowAssumption DEF TypeInv, TypeOK, SafetyInv, OwnerHoldsCurrentAttempt, Ownerless
<1>4. HandlerStartsWithinBudget'
  BY DEF TypeInv, TypeOK, SafetyInv, HandlerStartsWithinBudget
<1>5. UnspentClaim'
  BY <1>1, RowAssumption DEF TypeInv, TypeOK, SafetyInv, UnspentClaim, Ownerless
<1>6. PendingHasBudget'
  BY DEF TypeInv, TypeOK, SafetyInv, PendingHasBudget
<1>7. QED
  BY <1>2, <1>3, <1>4, <1>5, <1>6 DEF SafetyInv

(* So does a step that leaves every row's owner, status and attempts.      *)
LEMMA KeepKeepsInv ==
  ASSUME TypeInv, SafetyInv, TypeInv',
         \A i \in Jobs : /\ row'[i].owner = row[i].owner
                         /\ row'[i].status = row[i].status
                         /\ row'[i].attempts = row[i].attempts
                         /\ row[i].status # "running" => row'[i].lease <= row[i].lease,
         UNCHANGED <<activation, starts>>,
         \A s \in Slots : exec'[s].at # "idle" =>
           /\ exec'[s].job = exec[s].job
           /\ exec'[s].attempt = exec[s].attempt
           /\ exec'[s].activation = exec[s].activation
           /\ exec'[s].at = "claimed" => exec[s].at = "claimed"
  PROVE  SafetyInv'
<1>1. \A s \in Slots, i \in Jobs : exec'[s].job = i => exec'[s].at # "idle"
  BY QueueAssumption DEF TypeInv, ExecConsistent
<1>2. LeaseOnlyWhileRunning'
  <2>1. SUFFICES ASSUME NEW i \in Jobs, row[i].status # "running", NEW d \in Readings
                 PROVE  ~LeaseIsLive(row'[i], d)
    BY DEF SafetyInv, LeaseOnlyWhileRunning
  <2>2. /\ row[i].lease + d <= 0 /\ row'[i].lease <= row[i].lease
        /\ row[i].lease \in Int /\ row'[i].lease \in Int /\ d \in Nat
    BY <2>1, Times DEF SafetyInv, LeaseOnlyWhileRunning, LeaseIsLive, TypeInv, TypeOK, Row
  <2>3. QED
    BY <2>2 DEF LeaseIsLive
<1>3. OwnerHoldsCurrentAttempt'
  BY <1>1 DEF SafetyInv, OwnerHoldsCurrentAttempt
<1>4. HandlerStartsWithinBudget'
  BY DEF SafetyInv, HandlerStartsWithinBudget
<1>5. UnspentClaim'
  BY <1>1 DEF SafetyInv, UnspentClaim
<1>6. PendingHasBudget'
  BY DEF SafetyInv, PendingHasBudget
<1>7. QED
  BY <1>2, <1>3, <1>4, <1>5, <1>6 DEF SafetyInv

LEMMA ActivateInv ==
  ASSUME TypeInv, SafetyInv, TypeInv', NEW j \in Jobs, NEW r \in Row,
         Ownerless(r), r.attempts = 0,
         row' = [row EXCEPT ![j] = r],
         starts' = [starts EXCEPT ![j] = 0],
         \A i \in Jobs \ {j} : activation'[i] = activation[i],
         UNCHANGED exec
  PROVE  SafetyInv'
<1>1. LeaseOnlyWhileRunning'
  BY RowAssumption DEF TypeInv, TypeOK, SafetyInv, LeaseOnlyWhileRunning, Ownerless, LeaseIsLive
<1>2. OwnerHoldsCurrentAttempt'
  BY RowAssumption DEF TypeInv, TypeOK, SafetyInv, OwnerHoldsCurrentAttempt, Ownerless
<1>3. HandlerStartsWithinBudget'
  BY RowAssumption DEF TypeInv, TypeOK, SafetyInv, HandlerStartsWithinBudget
<1>4. UnspentClaim'
  BY RowAssumption DEF TypeInv, TypeOK, SafetyInv, UnspentClaim, Ownerless
<1>5. PendingHasBudget'
  BY RowAssumption DEF TypeInv, TypeOK, SafetyInv, PendingHasBudget
<1>6. QED
  BY <1>1, <1>2, <1>3, <1>4, <1>5 DEF SafetyInv

LEMMA ProducerInv ==
  ASSUME TypeInv, SafetyInv, TypeInv', NEW j \in Jobs, Producer(j)
  PROVE  SafetyInv'
<1>1. ASSUME NEW d \in Readings, Activate(j, d)
      PROVE  SafetyInv'
  <2>1. ActivatedRow(d) \in Row /\ Ownerless(ActivatedRow(d)) /\ ActivatedRow(d).attempts = 0
    BY ActivatedRowType, ActivatedIsOwnerless
  <2>2. \A i \in Jobs \ {j} : activation'[i] = activation[i]
    BY <1>1 DEF Activate, TypeInv, TypeOK
  <2>3. QED
    BY <1>1, <2>1, <2>2, ActivateInv DEF Activate
<1>2. ASSUME ClearHistory(j)
      PROVE  SafetyInv'
  BY <1>2, ActivateInv, ActivatedRowType, ActivatedIsOwnerless, Times DEF ClearHistory
<1>3. QED
  BY <1>1, <1>2 DEF Producer, Enqueue, RequeueDead

LEMMA ClaimInv ==
  ASSUME TypeInv, SafetyInv, TypeInv',
         NEW s \in Slots, NEW j \in Jobs, NEW d \in Readings, Claim(s, j, d)
  PROVE  SafetyInv'
<1>1. /\ row[j] \in Row /\ row[j].attempts < MaxAttempts
      /\ row[j].attempts \in Nat
      /\ row'[j].owner = s /\ row'[j].status = "running"
      /\ row'[j].attempts = row[j].attempts + 1
      /\ \A i \in Jobs \ {j} : row'[i] = row[i]
  BY DEF TypeInv, TypeOK, Row, Claim, FirstClaimable, Claimable, ClaimedRow
<1>2. /\ exec'[s].job = j /\ exec'[s].attempt = row[j].attempts + 1
      /\ exec'[s].activation = activation[j]
      /\ \A t \in Slots \ {s} : exec'[t] = exec[t]
  BY DEF TypeInv, TypeOK, Claim
<1>3. LeaseOnlyWhileRunning'
  BY <1>1, RowAssumption DEF SafetyInv, LeaseOnlyWhileRunning, LeaseIsLive
<1>4. OwnerHoldsCurrentAttempt'
  BY <1>1, <1>2 DEF SafetyInv, OwnerHoldsCurrentAttempt, Claim
<1>5. HandlerStartsWithinBudget'
  BY <1>1, RowAssumption DEF SafetyInv, HandlerStartsWithinBudget, Claim, TypeInv, TypeOK
<1>6. UnspentClaim'
  <2>1. starts[j] < row'[j].attempts /\ starts' = starts
    BY <1>1 DEF SafetyInv, HandlerStartsWithinBudget, TypeInv, TypeOK, Claim
  <2>2. QED
    BY <1>1, <1>2, <2>1 DEF SafetyInv, UnspentClaim
<1>7. PendingHasBudget'
  BY <1>1 DEF SafetyInv, PendingHasBudget
<1>8. QED
  BY <1>3, <1>4, <1>5, <1>6, <1>7 DEF SafetyInv

LEMMA BeginInv ==
  ASSUME TypeInv, SafetyInv, TypeInv', NEW s \in Slots, NEW d \in Readings, Begin(s, d)
  PROVE  SafetyInv'
<1> DEFINE j == Job(s)
<1>1. /\ j \in Jobs /\ row[j] \in Row /\ exec[s].at = "claimed" /\ exec[s].job = j
      /\ row[j].owner = s /\ row[j].status = "running"
  BY ExecutionRowType DEF Begin, Renewed, Owned, Job
<1>2. /\ row'[j].owner = s /\ row'[j].status = "running"
      /\ row'[j].attempts = row[j].attempts
      /\ \A i \in Jobs \ {j} : row'[i] = row[i]
  BY <1>1 DEF Begin, Renewed, RenewedRow, TypeInv, TypeOK, Row
<1>3. /\ exec'[s].at = "handling"
      /\ \A t \in Slots : /\ exec'[t].job = exec[t].job /\ exec'[t].attempt = exec[t].attempt
                          /\ exec'[t].activation = exec[t].activation
                          /\ t # s => exec'[t] = exec[t]
  BY DEF Begin, Goto, TypeInv, TypeOK, Exec
<1>4. LeaseOnlyWhileRunning'
  BY <1>1, <1>2, RowAssumption DEF SafetyInv, LeaseOnlyWhileRunning, LeaseIsLive
<1>5. OwnerHoldsCurrentAttempt'
  BY <1>1, <1>2, <1>3 DEF SafetyInv, OwnerHoldsCurrentAttempt, Begin
<1>6. /\ starts[j] < row[j].attempts /\ starts'[j] = starts[j] + 1
      /\ starts[j] \in Nat /\ row[j].attempts \in Nat
      /\ \A i \in Jobs \ {j} : starts'[i] = starts[i]
  BY <1>1 DEF SafetyInv, UnspentClaim, Begin, TypeInv, TypeOK, Row
<1>7. HandlerStartsWithinBudget'
  BY <1>2, <1>6 DEF SafetyInv, HandlerStartsWithinBudget
<1>8. UnspentClaim'
  BY <1>1, <1>2, <1>3, <1>6 DEF SafetyInv, UnspentClaim
<1>9. PendingHasBudget'
  BY <1>1, <1>2 DEF SafetyInv, PendingHasBudget
<1>10. QED
  BY <1>4, <1>5, <1>7, <1>8, <1>9 DEF SafetyInv

LEMMA ExecutionInv ==
  ASSUME TypeInv, SafetyInv, TypeInv', NEW s \in Slots, Execution(s)
  PROVE  SafetyInv'
<1> DEFINE j == Job(s)
<1>1. exec[s].at # "idle" /\ j \in Jobs /\ row[j] \in Row
  BY ExecutionRowType, Times
  DEF Execution, Advance, Settle, Begin, Confirm, HandlerReturns, HandlerThrows,
      RenewalRefused, RejectUnknownType, Complete, Retry, DeadLetter, Heartbeat,
      HeartbeatLost, Abandon
<1>2. ASSUME Goto(s, "handling") \/ Goto(s, "handled") \/ Goto(s, "confirmed")
             \/ Goto(s, "failing") \/ Goto(s, "rejecting") \/ Vacate(s)
             \/ exec' = [exec EXCEPT ![s].lost = TRUE]
             \/ exec' = [exec EXCEPT ![s].at = "failing", ![s].lost = TRUE]
             \/ UNCHANGED exec
      PROVE  \A t \in Slots : exec'[t].at # "idle" =>
               /\ exec'[t].job = exec[t].job
               /\ exec'[t].attempt = exec[t].attempt
               /\ exec'[t].activation = exec[t].activation
               /\ exec'[t].at = "claimed" => exec[t].at = "claimed"
  BY <1>2 DEF Goto, Vacate, IdleExec, TypeInv, TypeOK, Exec
<1>3. ASSUME NEW d \in Readings, Renewed(s, d)
      PROVE  \A i \in Jobs : /\ row'[i].owner = row[i].owner
                             /\ row'[i].status = row[i].status
                             /\ row'[i].attempts = row[i].attempts
                             /\ row[i].status # "running" => row'[i].lease <= row[i].lease
  BY <1>1, <1>3, Times DEF Renewed, RenewedRow, Owned, Job, TypeInv, TypeOK, Row
<1>4. UNCHANGED row =>
        \A i \in Jobs : /\ row'[i].owner = row[i].owner
                        /\ row'[i].status = row[i].status
                        /\ row'[i].attempts = row[i].attempts
                        /\ row[i].status # "running" => row'[i].lease <= row[i].lease
  BY Times DEF TypeInv, TypeOK, Row
<1>5. ASSUME NEW d \in Readings, Begin(s, d)
      PROVE  SafetyInv'
  BY <1>5, BeginInv
<1>6. ASSUME NEW d \in Readings, Confirm(s, d) \/ Heartbeat(s, d)
      PROVE  SafetyInv'
  BY <1>2, <1>3, <1>6, KeepKeepsInv DEF Confirm, Heartbeat
<1>7. CASE HandlerReturns(s) \/ RenewalRefused(s) \/ RejectUnknownType(s)
           \/ HeartbeatLost(s) \/ Abandon(s)
  BY <1>2, <1>4, <1>7, KeepKeepsInv
  DEF HandlerReturns, RenewalRefused, RenewalRejected, RejectUnknownType, HeartbeatLost, Abandon
<1>8. ASSUME NEW point \in {"failing", "rejecting"}, HandlerThrows(s, point)
      PROVE  SafetyInv'
  BY <1>2, <1>4, <1>8, KeepKeepsInv DEF HandlerThrows
<1>9. ASSUME NEW d \in Readings, Complete(s, d)
      PROVE  SafetyInv'
  <2>1. CASE UNCHANGED row
    BY <1>2, <1>4, <1>9, <2>1, KeepKeepsInv DEF Complete
  <2>2. CASE row' = [row EXCEPT ![j] = Released(row[j], "succeeded")]
    BY <1>1, <1>2, <1>9, <2>2, ReleaseKeepsInv, ReleasedIsOwnerless, ReleasedRowType
    DEF Complete, JobStatus
  <2>3. QED
    BY <1>9, <2>1, <2>2 DEF Complete
<1>10. ASSUME NEW d \in Readings, Retry(s, d)
       PROVE  SafetyInv'
  <2>1. CASE UNCHANGED row
    BY <1>2, <1>4, <1>10, <2>1, KeepKeepsInv DEF Retry
  <2>2. ASSUME NEW delay \in RetryDelays(row[j].attempts),
               row' = [row EXCEPT ![j] = RetriedRow(row[j], d, delay)]
        PROVE  SafetyInv'
    <3>1. /\ RetriedRow(row[j], d, delay) \in Row /\ Ownerless(RetriedRow(row[j], d, delay))
          /\ RetriedRow(row[j], d, delay).attempts = row[j].attempts
          /\ RetriedRow(row[j], d, delay).status = "pending" => row[j].attempts < MaxAttempts
      BY <1>1, <2>2, RetriedIsOwnerless, RetriedRowType, RowAssumption DEF Row
    <3>2. QED
      BY <1>1, <1>2, <1>10, <2>2, <3>1, ReleaseKeepsInv DEF Retry
  <2>3. QED
    BY <1>10, <2>1, <2>2 DEF Retry
<1>11. ASSUME NEW d \in Readings, DeadLetter(s, d)
       PROVE  SafetyInv'
  <2>1. CASE UNCHANGED row
    BY <1>2, <1>4, <1>11, <2>1, KeepKeepsInv DEF DeadLetter
  <2>2. CASE row' = [row EXCEPT ![j] = Released(row[j], "dead")]
    BY <1>1, <1>2, <1>11, <2>2, ReleaseKeepsInv, ReleasedIsOwnerless, ReleasedRowType
    DEF DeadLetter, JobStatus
  <2>3. QED
    BY <1>11, <2>1, <2>2 DEF DeadLetter
<1>12. QED
  BY <1>5, <1>6, <1>7, <1>8, <1>9, <1>10, <1>11 DEF Execution, Advance, Settle

LEMMA RecoverInv ==
  ASSUME TypeInv, SafetyInv, TypeInv', NEW j \in Jobs, NEW d \in Readings, Recover(j, d)
  PROVE  SafetyInv'
<1>1. row[j] \in Row
  BY DEF TypeInv, TypeOK
<1>2. /\ RecoveredRow(row[j], d) \in Row /\ Ownerless(RecoveredRow(row[j], d))
      /\ RecoveredRow(row[j], d).attempts = row[j].attempts
      /\ RecoveredRow(row[j], d).status = "pending" => row[j].attempts < MaxAttempts
  BY <1>1, RecoveredIsOwnerless, RecoveredRowType, RowAssumption DEF Row
<1>3. QED
  BY <1>2, ReleaseKeepsInv DEF Recover

LEMMA TickInv ==
  ASSUME TypeInv, SafetyInv, TypeInv', Tick
  PROVE  SafetyInv'
<1>1. \A i \in Jobs : /\ row'[i].owner = row[i].owner
                      /\ row'[i].status = row[i].status
                      /\ row'[i].attempts = row[i].attempts
                      /\ row'[i].lease <= row[i].lease
  <2> SUFFICES ASSUME NEW i \in Jobs
               PROVE  /\ row'[i].owner = row[i].owner
                      /\ row'[i].status = row[i].status
                      /\ row'[i].attempts = row[i].attempts
                      /\ row'[i].lease <= row[i].lease
    OBVIOUS
  <2>1. row'[i] = AgedRow(row[i]) /\ row[i] \in Row
    BY DEF Tick, TypeInv, TypeOK
  <2>2. row[i].lease \in Int /\ Aged(row[i].lease) <= row[i].lease
    BY <2>1, Times DEF Aged, Row
  <2>3. QED
    BY <2>1, <2>2 DEF AgedRow, Row
<1>2. QED
  BY <1>1, KeepKeepsInv DEF Tick

LEMMA InitInv == Init => SafetyInv
<1> SUFFICES ASSUME Init
             PROVE  SafetyInv
  OBVIOUS
<1>1. \A j \in Jobs : Ownerless(row[j]) /\ row[j].attempts = 0 /\ starts[j] = 0
  BY ActivatedIsOwnerless, Times DEF Init
<1>2. LeaseOnlyWhileRunning
  BY <1>1 DEF LeaseOnlyWhileRunning, Ownerless
<1>3. OwnerHoldsCurrentAttempt /\ UnspentClaim
  BY <1>1, RowAssumption DEF OwnerHoldsCurrentAttempt, UnspentClaim, Ownerless
<1>4. HandlerStartsWithinBudget
  BY <1>1, RowAssumption DEF HandlerStartsWithinBudget
<1>5. PendingHasBudget
  BY <1>1, RowAssumption DEF PendingHasBudget
<1>6. QED
  BY <1>2, <1>3, <1>4, <1>5 DEF SafetyInv

LEMMA NextInv == TypeInv /\ SafetyInv /\ [Next]_vars => SafetyInv'
<1> SUFFICES ASSUME TypeInv, SafetyInv, [Next]_vars
             PROVE  SafetyInv'
  OBVIOUS
<1>1. TypeInv'
  BY NextType
<1>2. ASSUME NEW j \in Jobs, Producer(j)
      PROVE  SafetyInv'
  BY <1>1, <1>2, ProducerInv
<1>3. CASE Polling
  BY <1>1, <1>3, ClaimInv DEF Polling
<1>4. ASSUME NEW s \in Slots, Execution(s)
      PROVE  SafetyInv'
  BY <1>1, <1>4, ExecutionInv
<1>5. ASSUME NEW j \in Jobs, Recovery(j)
      PROVE  SafetyInv'
  BY <1>1, <1>5, RecoverInv DEF Recovery
<1>6. CASE Tick
  BY <1>1, <1>6, TickInv
<1>7. CASE UNCHANGED vars
  BY <1>7 DEF vars, SafetyInv, LeaseOnlyWhileRunning, OwnerHoldsCurrentAttempt,
              HandlerStartsWithinBudget, PendingHasBudget, UnspentClaim
<1>8. QED
  BY <1>2, <1>3, <1>4, <1>5, <1>6, <1>7 DEF Next

(* The conjunction of the type invariant, the two facts only the proof     *)
(* needs and the three safety invariants is inductive.                     *)
THEOREM Invariance == Spec => []InductiveInvariant
<1>1. TypeInv /\ SafetyInv => InductiveInvariant
  BY DEF TypeInv, SafetyInv, InductiveInvariant
<1>2. QED
  BY <1>1, InitType, InitInv, NextType, NextInv, PTL DEF Spec

(* No path through settlement, recovery, requeue, reactivation or clearing *)
(* leaves a lease on a row that is not running, or a running row unowned.  *)
THEOREM LeasesBelongToRunningRows == Spec => []LeaseOnlyWhileRunning
<1>1. InductiveInvariant => LeaseOnlyWhileRunning
  BY DEF InductiveInvariant
<1>2. QED
  BY <1>1, Invariance, PTL

(* The slot a row names as its owner executes that row's present attempt   *)
(* of its present activation.                                              *)
THEOREM OwnerIsCurrent == Spec => []OwnerHoldsCurrentAttempt
<1>1. InductiveInvariant => OwnerHoldsCurrentAttempt
  BY DEF InductiveInvariant
<1>2. QED
  BY <1>1, Invariance, PTL

(* No interleaving of crashes, lost leases and late executions invokes the *)
(* handler more than MaxAttempts times in one activation of a job.         *)
THEOREM RetriesAreBounded == Spec => []HandlerStartsWithinBudget
<1>1. InductiveInvariant => HandlerStartsWithinBudget
  BY DEF InductiveInvariant
<1>2. QED
  BY <1>1, Invariance, PTL

-----------------------------------------------------------------------------
(* Action properties: what one step may do to one row.                     *)

SuccessStep(j) ==
  row[j].status # "succeeded" /\ row'[j].status = "succeeded" =>
    \E s \in Slots : /\ exec[s].at = "confirmed" /\ exec[s].job = j
                     /\ exec[s].attempt = row[j].attempts
                     /\ exec[s].activation = activation[j]

LeaseStep(j) ==
  row[j].lease > 0 /\ row'[j].owner # row[j].owner =>
    \E s \in Slots : /\ row[j].owner = s /\ exec[s].job = j
                     /\ exec[s].at \in {"confirmed", "failing", "rejecting"}
                     /\ exec'[s].at = "idle"

DeathStep(j) ==
  row[j].status # "dead" /\ row'[j].status = "dead" =>
    \/ row[j].attempts = MaxAttempts
    \/ \E s \in Slots : /\ row[j].owner = s /\ exec[s].job = j
                        /\ exec[s].at = "rejecting"

GoodStep(j) == SuccessStep(j) /\ LeaseStep(j) /\ DeathStep(j)

LEMMA UnchangedStep ==
  ASSUME NEW j \in Jobs, row'[j].status = row[j].status, row'[j].owner = row[j].owner
  PROVE  GoodStep(j)
BY DEF GoodStep, SuccessStep, LeaseStep, DeathStep

(* A row without a live lease that is recovered, claimed or activated.     *)
LEMMA ForeignStep ==
  ASSUME NEW j \in Jobs, ~(row[j].lease > 0), row'[j].status # "succeeded",
         row'[j].status = "dead" => row[j].attempts = MaxAttempts
  PROVE  GoodStep(j)
BY DEF GoodStep, SuccessStep, LeaseStep, DeathStep

LEMMA LeaseOver ==
  ASSUME TypeInv, SafetyInv, NEW j \in Jobs
  PROVE  /\ row[j].status # "running" => ~(row[j].lease > 0)
         /\ \A d \in Readings : ~LeaseIsLive(row[j], d) => ~(row[j].lease > 0)
BY Times DEF TypeInv, TypeOK, SafetyInv, LeaseOnlyWhileRunning, LeaseIsLive, Row

LEMMA ProducerSteps ==
  ASSUME TypeInv, SafetyInv, NEW i \in Jobs, Producer(i), NEW j \in Jobs
  PROVE  GoodStep(j)
<1>1. CASE j # i
  <2>1. row'[j] = row[j]
    BY <1>1 DEF Producer, Enqueue, RequeueDead, ClearHistory, Activate, TypeInv, TypeOK
  <2>2. QED
    BY <2>1, UnchangedStep
<1>2. CASE j = i
  <2>1. row[j].status # "running"
    BY <1>2 DEF Producer, Enqueue, RequeueDead, ClearHistory, ActiveStatus, TerminalStatus
  <2>2. ASSUME NEW d \in Readings, Activate(i, d)
        PROVE  row'[j].status = "pending"
    BY <1>2, <2>2 DEF Activate, ActivatedRow, AbsentRow, TypeInv, TypeOK
  <2>3. ASSUME ClearHistory(i)
        PROVE  row'[j].status = "none"
    BY <1>2, <2>3 DEF ClearHistory, AbsentRow, TypeInv, TypeOK
  <2>4. row'[j].status \in {"pending", "none"}
    BY <2>2, <2>3 DEF Producer, Enqueue, RequeueDead
  <2>5. QED
    BY <2>1, <2>4, LeaseOver, ForeignStep
<1>3. QED
  BY <1>1, <1>2

LEMMA ClaimSteps ==
  ASSUME TypeInv, SafetyInv, NEW s \in Slots, NEW i \in Jobs, NEW d \in Readings,
         Claim(s, i, d), NEW j \in Jobs
  PROVE  GoodStep(j)
<1>1. CASE j # i
  BY <1>1, UnchangedStep DEF Claim, TypeInv, TypeOK
<1>2. CASE j = i
  <2>1. row'[j].status = "running" /\ ~LeaseIsLive(row[j], d)
    BY <1>2 DEF Claim, FirstClaimable, Claimable, ClaimedRow, TypeInv, TypeOK, Row
  <2>2. QED
    BY <2>1, LeaseOver, ForeignStep
<1>3. QED
  BY <1>1, <1>2

LEMMA RecoverSteps ==
  ASSUME TypeInv, SafetyInv, NEW i \in Jobs, NEW d \in Readings, Recover(i, d), NEW j \in Jobs
  PROVE  GoodStep(j)
<1>1. CASE j # i
  BY <1>1, UnchangedStep DEF Recover, TypeInv, TypeOK
<1>2. CASE j = i
  <2>1. row[j].status # "running" \/ ~LeaseIsLive(row[j], d)
    BY <1>2 DEF Recover, Recoverable
  <2>2. row'[j] = RecoveredRow(row[j], d) /\ row[j] \in Row
    BY <1>2 DEF Recover, TypeInv, TypeOK
  <2>3. /\ row'[j].status = IF row[j].attempts >= MaxAttempts THEN "dead" ELSE "pending"
        /\ row[j].attempts \in 0..MaxAttempts
    BY <2>2, RecoveredIsOwnerless DEF Row
  <2>4. row'[j].status = "dead" => row[j].attempts = MaxAttempts
    BY <2>3, RowAssumption
  <2>5. QED
    BY <2>1, <2>3, <2>4, LeaseOver, ForeignStep
<1>3. QED
  BY <1>1, <1>2

LEMMA ExecutionSteps ==
  ASSUME TypeInv, SafetyInv, NEW s \in Slots, Execution(s), NEW j \in Jobs
  PROVE  GoodStep(j)
<1>1. exec[s].at # "idle" /\ Job(s) \in Jobs /\ row[Job(s)] \in Row
  BY ExecutionRowType, Times
  DEF Execution, Advance, Settle, Begin, Confirm, HandlerReturns, HandlerThrows,
      RenewalRefused, RejectUnknownType, Complete, Retry, DeadLetter, Heartbeat,
      HeartbeatLost, Abandon
<1>2. CASE UNCHANGED row
  BY <1>2, UnchangedStep
<1>3. ASSUME NEW d \in Readings, Renewed(s, d)
      PROVE  GoodStep(j)
  BY <1>1, <1>3, UnchangedStep DEF Renewed, RenewedRow, TypeInv, TypeOK, Row
<1>4. CASE j # Job(s)
  <2>1. row'[j] = row[j]
    BY <1>4 DEF Execution, Advance, Settle, Begin, Confirm, HandlerReturns, HandlerThrows,
                RenewalRefused, RenewalRejected, RejectUnknownType, Complete, Retry, DeadLetter,
                Heartbeat, HeartbeatLost, Abandon, Renewed, TypeInv, TypeOK
  <2>2. QED
    BY <2>1, UnchangedStep
<1> DEFINE Ended == /\ row[j].owner = s /\ exec[s].job = j /\ exec'[s].at = "idle"
                    /\ exec[s].attempt = row[j].attempts
                    /\ exec[s].activation = activation[j]
<1>5. ASSUME NEW d \in Readings, Owned(row[j], s, d), Vacate(s), j = Job(s)
      PROVE  Ended
  BY <1>5 DEF Owned, Vacate, IdleExec, Job, SafetyInv, OwnerHoldsCurrentAttempt, TypeInv, TypeOK
<1>6. ASSUME NEW d \in Readings, Complete(s, d), ~UNCHANGED row, j = Job(s)
      PROVE  GoodStep(j)
  <2>1. /\ Ended /\ exec[s].at = "confirmed"
        /\ row'[j] = Released(row[j], "succeeded")
    BY <1>1, <1>5, <1>6 DEF Complete, TypeInv, TypeOK
  <2>2. row'[j].status = "succeeded"
    BY <1>1, <1>6, <2>1, ReleasedIsOwnerless
  <2>3. QED
    BY <2>1, <2>2 DEF GoodStep, SuccessStep, LeaseStep, DeathStep
<1>7. ASSUME NEW d \in Readings, Retry(s, d), ~UNCHANGED row, j = Job(s)
      PROVE  GoodStep(j)
  <2>1. Ended /\ exec[s].at = "failing"
    BY <1>5, <1>7 DEF Retry
  <2>2. PICK delay \in RetryDelays(row[j].attempts) : row'[j] = RetriedRow(row[j], d, delay)
    BY <1>1, <1>7 DEF Retry, TypeInv, TypeOK
  <2>3. /\ row'[j].status = IF row[j].attempts >= MaxAttempts THEN "dead" ELSE "pending"
        /\ row[j].attempts \in 0..MaxAttempts
    BY <1>1, <1>7, <2>2, RetriedIsOwnerless DEF Row
  <2>4. /\ row'[j].status = "dead" => row[j].attempts = MaxAttempts
        /\ row'[j].status # "succeeded"
    BY <2>3, RowAssumption
  <2>5. QED
    BY <2>1, <2>4 DEF GoodStep, SuccessStep, LeaseStep, DeathStep
<1>8. ASSUME NEW d \in Readings, DeadLetter(s, d), ~UNCHANGED row, j = Job(s)
      PROVE  GoodStep(j)
  <2>1. /\ Ended /\ exec[s].at = "rejecting"
        /\ row'[j] = Released(row[j], "dead")
    BY <1>1, <1>5, <1>8 DEF DeadLetter, TypeInv, TypeOK
  <2>2. row'[j].status = "dead"
    BY <1>1, <1>8, <2>1, ReleasedIsOwnerless
  <2>3. QED
    BY <2>1, <2>2 DEF GoodStep, SuccessStep, LeaseStep, DeathStep
<1>9. QED
  BY <1>2, <1>3, <1>4, <1>6, <1>7, <1>8
  DEF Execution, Advance, Settle, Begin, Confirm, HandlerReturns, HandlerThrows,
      RenewalRefused, RenewalRejected, RejectUnknownType, Heartbeat, HeartbeatLost, Abandon

LEMMA NextSteps ==
  ASSUME InductiveInvariant, [Next]_vars, NEW j \in Jobs
  PROVE  GoodStep(j)
<1>1. TypeInv /\ SafetyInv
  BY DEF InductiveInvariant, TypeInv, SafetyInv
<1>2. ASSUME NEW i \in Jobs, Producer(i)
      PROVE  GoodStep(j)
  BY <1>1, <1>2, ProducerSteps
<1>3. CASE Polling
  BY <1>1, <1>3, ClaimSteps DEF Polling
<1>4. ASSUME NEW s \in Slots, Execution(s)
      PROVE  GoodStep(j)
  BY <1>1, <1>4, ExecutionSteps
<1>5. ASSUME NEW i \in Jobs, Recovery(i)
      PROVE  GoodStep(j)
  BY <1>1, <1>5, RecoverSteps DEF Recovery
<1>6. CASE Tick
  <2>1. row'[j].status = row[j].status /\ row'[j].owner = row[j].owner
    BY <1>1, <1>6 DEF Tick, AgedRow, TypeInv, TypeOK, Row
  <2>2. QED
    BY <2>1, UnchangedStep
<1>7. CASE UNCHANGED vars
  BY <1>7, UnchangedStep DEF vars
<1>8. QED
  BY <1>2, <1>3, <1>4, <1>5, <1>6, <1>7 DEF Next

(* An execution that lost its lease can never complete the attempt, or the *)
(* activation, that took its place.                                        *)
THEOREM LateSuccessIsImpossible == Spec => SuccessIsCurrent
<1>1. InductiveInvariant /\ [Next]_vars =>
        [\A j \in Jobs :
           row[j].status # "succeeded" /\ row'[j].status = "succeeded" =>
             \E s \in Slots : /\ exec[s].at = "confirmed" /\ exec[s].job = j
                              /\ exec[s].attempt = row[j].attempts
                              /\ exec[s].activation = activation[j]]_vars
  BY NextSteps DEF GoodStep, SuccessStep
<1>2. QED
  BY <1>1, Invariance, PTL DEF Spec, SuccessIsCurrent

(* Whatever the readings of the other processes' clocks within Skew, a     *)
(* live lease is ended by nobody but its holder.                           *)
THEOREM LiveLeasesAreExclusive == Spec => LiveLeaseEndsByHolder
<1>1. InductiveInvariant /\ [Next]_vars =>
        [\A j \in Jobs :
           row[j].lease > 0 /\ row'[j].owner # row[j].owner =>
             \E s \in Slots : /\ row[j].owner = s /\ exec[s].job = j
                              /\ exec[s].at \in {"confirmed", "failing", "rejecting"}
                              /\ exec'[s].at = "idle"]_vars
  BY NextSteps DEF GoodStep, LeaseStep
<1>2. QED
  BY <1>1, Invariance, PTL DEF Spec, LiveLeaseEndsByHolder

(* No job is dead-lettered before its budget is spent unless the handler   *)
(* of its latest claim refused it.                                         *)
THEOREM DeathHasAReason == Spec => DeadForAReason
<1>1. InductiveInvariant /\ [Next]_vars =>
        [\A j \in Jobs :
           row[j].status # "dead" /\ row'[j].status = "dead" =>
             \/ row[j].attempts = MaxAttempts
             \/ \E s \in Slots : /\ row[j].owner = s /\ exec[s].job = j
                                 /\ exec[s].at = "rejecting"]_vars
  BY NextSteps DEF GoodStep, DeathStep
<1>2. QED
  BY <1>1, Invariance, PTL DEF Spec, DeadForAReason

-----------------------------------------------------------------------------
(* Refinement: the queue implements JobLifecycle.                          *)

(* Replacing one row, seen through the refinement mapping.                 *)
LEMMA AbstractRow ==
  ASSUME TypeInv, NEW j \in Jobs, NEW r \in Row, row' = [row EXCEPT ![j] = r]
  PROVE  /\ row'[j].status = r.status /\ row'[j].owner = r.owner
         /\ row'[j].attempts = r.attempts /\ Tries(row'[j]) = Tries(r)
         /\ \A i \in Jobs \ {j} : row'[i] = row[i]
BY DEF TypeInv, TypeOK, Tries

LEMMA AbstractRowKept ==
  ASSUME TypeInv,
         \A i \in Jobs : /\ row'[i].status = row[i].status
                         /\ row'[i].owner = row[i].owner
                         /\ row'[i].attempts = row[i].attempts
  PROVE  /\ [i \in Jobs |-> row'[i].status] = [i \in Jobs |-> row[i].status]
         /\ [i \in Jobs |-> row'[i].owner] = [i \in Jobs |-> row[i].owner]
         /\ [i \in Jobs |-> Tries(row'[i])] = [i \in Jobs |-> Tries(row[i])]
BY DEF Tries

LEMMA AbstractVacate ==
  ASSUME TypeInv, NEW s \in Slots, Vacate(s)
  PROVE  [t \in Slots |-> exec'[t].job] = [[t \in Slots |-> exec[t].job] EXCEPT ![s] = NoJob]
BY DEF TypeInv, TypeOK, Vacate, IdleExec

LEMMA AbstractStay ==
  ASSUME TypeInv, NEW s \in Slots,
         Goto(s, "handling") \/ Goto(s, "handled") \/ Goto(s, "confirmed")
           \/ Goto(s, "failing") \/ Goto(s, "rejecting")
           \/ exec' = [exec EXCEPT ![s].lost = TRUE]
           \/ exec' = [exec EXCEPT ![s].at = "failing", ![s].lost = TRUE]
           \/ UNCHANGED exec
  PROVE  [t \in Slots |-> exec'[t].job] = [t \in Slots |-> exec[t].job]
BY DEF TypeInv, TypeOK, Goto, Exec

LEMMA ProducerRefines ==
  ASSUME TypeInv, NEW j \in Jobs, Producer(j)
  PROVE  Lifecycle!Open(j) \/ Lifecycle!Forget(j)
<1>1. ASSUME NEW d \in Readings, row[j].status \notin ActiveStatus, Activate(j, d)
      PROVE  Lifecycle!Open(j)
  <2>1. Lifecycle!Become(j, "pending", NoOwner, 0)
    <3>1. ActivatedRow(d) \in Row /\ ActivatedRow(d).status = "pending"
          /\ ActivatedRow(d).owner = NoOwner /\ ActivatedRow(d).attempts = 0
      BY ActivatedRowType DEF ActivatedRow, AbsentRow
    <3>2. /\ row'[j].status = "pending" /\ row'[j].owner = NoOwner /\ Tries(row'[j]) = 0
          /\ \A i \in Jobs \ {j} : row'[i] = row[i]
      BY <1>1, <3>1, AbstractRow DEF Activate, Tries
    <3>3. QED
      BY <3>2 DEF Lifecycle!Become
  <2>2. QED
    BY <1>1, <2>1 DEF Activate, ActiveStatus, Lifecycle!Open
<1>2. ASSUME ClearHistory(j)
      PROVE  Lifecycle!Forget(j)
  <2>1. Lifecycle!Become(j, "none", NoOwner, 0)
    <3>1. AbsentRow \in Row /\ AbsentRow.status = "none"
          /\ AbsentRow.owner = NoOwner /\ AbsentRow.attempts = 0
      BY ActivatedRowType, Times DEF AbsentRow
    <3>2. /\ row'[j].status = "none" /\ row'[j].owner = NoOwner /\ Tries(row'[j]) = 0
          /\ \A i \in Jobs \ {j} : row'[i] = row[i]
      BY <1>2, <3>1, AbstractRow DEF ClearHistory, Tries, ActiveStatus
    <3>3. QED
      BY <3>2 DEF Lifecycle!Become
  <2>2. QED
    BY <1>2, <2>1 DEF ClearHistory, TerminalStatus, Lifecycle!Forget
<1>3. QED
  BY <1>1, <1>2 DEF Producer, Enqueue, RequeueDead, ActiveStatus

LEMMA ClaimRefines ==
  ASSUME TypeInv, NEW s \in Slots, NEW j \in Jobs, NEW d \in Readings, Claim(s, j, d)
  PROVE  Lifecycle!Grant(s, j)
<1>1. /\ row[j] \in Row /\ row[j].attempts < MaxAttempts
      /\ row[j].status \in {"pending", "running"}
      /\ ClaimedRow(row[j], s, d) \in Row
      /\ row' = [row EXCEPT ![j] = ClaimedRow(row[j], s, d)]
  BY ClaimedRowType DEF Claim, FirstClaimable, Claimable, TypeInv, TypeOK
<1>2. /\ ClaimedRow(row[j], s, d).status = "running"
      /\ ClaimedRow(row[j], s, d).owner = s
      /\ ClaimedRow(row[j], s, d).attempts = row[j].attempts + 1
  BY <1>1 DEF ClaimedRow, Row
<1>3. /\ row'[j].status = "running"
      /\ row'[j].owner = s /\ Tries(row'[j]) = Tries(row[j]) + 1
      /\ Tries(row[j]) = row[j].attempts
      /\ \A i \in Jobs \ {j} : row'[i] = row[i]
  BY <1>1, <1>2, AbstractRow DEF Tries, ActiveStatus
<1>4. exec[s].job = NoJob /\ exec'[s].job = j /\ \A t \in Slots \ {s} : exec'[t] = exec[t]
  BY DEF Claim, TypeInv, TypeOK, ExecConsistent
<1>5. [t \in Slots |-> exec'[t].job] = [[t \in Slots |-> exec[t].job] EXCEPT ![s] = j]
  BY <1>4
<1>6. /\ [i \in Jobs |-> row'[i].status] = [[i \in Jobs |-> row[i].status] EXCEPT ![j] = "running"]
      /\ [i \in Jobs |-> row'[i].owner] = [[i \in Jobs |-> row[i].owner] EXCEPT ![j] = s]
      /\ [i \in Jobs |-> Tries(row'[i])] =
           [[i \in Jobs |-> Tries(row[i])] EXCEPT ![j] = Tries(row[j]) + 1]
  BY <1>3
<1>7. /\ [i \in Jobs |-> row[i].status][j] \in {"pending", "running"}
      /\ [i \in Jobs |-> Tries(row[i])][j] = Tries(row[j])
      /\ [t \in Slots |-> exec[t].job][s] = NoJob
  BY <1>1, <1>4
<1>8. QED
  BY <1>1, <1>3, <1>5, <1>6, <1>7 DEF Lifecycle!Grant, Lifecycle!Become

LEMMA ExecutionRefines ==
  ASSUME TypeInv, NEW s \in Slots, Execution(s), NEW j \in Jobs, j = Job(s)
  PROVE  \/ \E p \in {"pending", "succeeded", "dead"} : Lifecycle!SettleAs(s, j, p)
         \/ Lifecycle!Leave(s)
         \/ UNCHANGED Lifecycle!vars
<1> DEFINE Settled == \E p \in {"pending", "succeeded", "dead"} : Lifecycle!SettleAs(s, j, p)
<1>1. exec[s].at # "idle" /\ exec[s].job = j /\ j # NoJob /\ row[j] \in Row
  BY ExecutionRowType, Times, QueueAssumption
  DEF Execution, Advance, Settle, Begin, Confirm, HandlerReturns, HandlerThrows,
      RenewalRefused, RejectUnknownType, Complete, Retry, DeadLetter, Heartbeat,
      HeartbeatLost, Abandon, Job
<1>2. ASSUME NEW d \in Readings, Owned(row[j], s, d), NEW r \in Row,
             r.status \in {"pending", "succeeded", "dead"}, r.owner = NoOwner,
             r.attempts = row[j].attempts,
             r.status = "pending" => row[j].attempts < MaxAttempts,
             row' = [row EXCEPT ![j] = r], Vacate(s)
      PROVE  Settled
  <2>1. /\ row'[j].status = r.status
        /\ row'[j].owner = NoOwner
        /\ Tries(row'[j]) = IF r.status = "pending" THEN Tries(row[j]) ELSE 0
        /\ Tries(row[j]) = row[j].attempts
        /\ \A i \in Jobs \ {j} : row'[i] = row[i]
    BY <1>1, <1>2, AbstractRow DEF Tries, ActiveStatus, Owned
  <2>2. [t \in Slots |-> exec'[t].job] = [[t \in Slots |-> exec[t].job] EXCEPT ![s] = NoJob]
    BY <1>2, AbstractVacate
  <2>3. /\ [i \in Jobs |-> row'[i].status] = [[i \in Jobs |-> row[i].status] EXCEPT ![j] = r.status]
        /\ [i \in Jobs |-> row'[i].owner] = [[i \in Jobs |-> row[i].owner] EXCEPT ![j] = NoOwner]
        /\ [i \in Jobs |-> Tries(row'[i])] =
             [[i \in Jobs |-> Tries(row[i])] EXCEPT
                ![j] = IF r.status = "pending" THEN Tries(row[j]) ELSE 0]
    BY <2>1
  <2>4. /\ [i \in Jobs |-> row[i].status][j] = "running"
        /\ [i \in Jobs |-> row[i].owner][j] = s
        /\ [i \in Jobs |-> Tries(row[i])][j] = Tries(row[j])
        /\ [t \in Slots |-> exec[t].job][s] = j
    BY <1>1, <1>2 DEF Owned
  <2>5. Lifecycle!SettleAs(s, j, r.status)
    BY <1>2, <2>1, <2>2, <2>3, <2>4 DEF Lifecycle!SettleAs, Lifecycle!Become
  <2>6. QED
    BY <1>2, <2>5
<1>3. ASSUME UNCHANGED row, Vacate(s)
      PROVE  Lifecycle!Leave(s)
  BY <1>1, <1>3, AbstractVacate, AbstractRowKept DEF Lifecycle!Leave
<1>4. ASSUME UNCHANGED row \/ \E d \in Readings : Renewed(s, d),
             [t \in Slots |-> exec'[t].job] = [t \in Slots |-> exec[t].job]
      PROVE  UNCHANGED Lifecycle!vars
  <2>1. \A i \in Jobs : /\ row'[i].status = row[i].status
                        /\ row'[i].owner = row[i].owner
                        /\ row'[i].attempts = row[i].attempts
    BY <1>1, <1>4 DEF Renewed, RenewedRow, TypeInv, TypeOK, Row
  <2>2. QED
    BY <1>4, <2>1, AbstractRowKept DEF Lifecycle!vars
<1>5. ASSUME NEW d \in Readings, Begin(s, d) \/ Confirm(s, d) \/ Heartbeat(s, d)
      PROVE  UNCHANGED Lifecycle!vars
  BY <1>4, <1>5, AbstractStay DEF Begin, Confirm, Heartbeat
<1>6. ASSUME NEW point \in {"failing", "rejecting"}, HandlerThrows(s, point)
      PROVE  UNCHANGED Lifecycle!vars
  BY <1>4, <1>6, AbstractStay DEF HandlerThrows
<1>7. CASE HandlerReturns(s) \/ RenewalRefused(s) \/ RejectUnknownType(s) \/ HeartbeatLost(s)
  BY <1>4, <1>7, AbstractStay
  DEF HandlerReturns, RenewalRefused, RenewalRejected, RejectUnknownType, HeartbeatLost
<1>8. CASE Abandon(s)
  BY <1>3, <1>8 DEF Abandon
<1>9. ASSUME NEW status \in {"succeeded", "dead"}
      PROVE  /\ Released(row[j], status) \in Row
             /\ Released(row[j], status).status = status
             /\ Released(row[j], status).owner = NoOwner
             /\ Released(row[j], status).attempts = row[j].attempts
  BY <1>1, ReleasedRowType, ReleasedIsOwnerless DEF JobStatus, Ownerless
<1>10. ASSUME NEW d \in Readings, Complete(s, d)
       PROVE  Settled \/ UNCHANGED Lifecycle!vars
  <2>1. CASE Owned(row[j], s, d)
    BY <1>2, <1>9, <1>10, <2>1 DEF Complete
  <2>2. CASE ~Owned(row[j], s, d)
    BY <1>4, <1>10, <2>2, AbstractStay DEF Complete
  <2>3. QED
    BY <2>1, <2>2
<1>11. ASSUME NEW d \in Readings, Retry(s, d)
       PROVE  Settled \/ Lifecycle!Leave(s)
  <2>1. CASE ~UNCHANGED row
    <3>0. Owned(row[j], s, d)
      BY <1>11, <2>1 DEF Retry
    <3>1. PICK delay \in RetryDelays(row[j].attempts) :
            row' = [row EXCEPT ![j] = RetriedRow(row[j], d, delay)]
      BY <1>11, <2>1 DEF Retry
    <3>2. /\ RetriedRow(row[j], d, delay) \in Row
          /\ RetriedRow(row[j], d, delay).owner = NoOwner
          /\ RetriedRow(row[j], d, delay).attempts = row[j].attempts
          /\ RetriedRow(row[j], d, delay).status =
               IF row[j].attempts >= MaxAttempts THEN "dead" ELSE "pending"
      BY <1>1, RetriedRowType, RetriedIsOwnerless DEF Ownerless
    <3>3. row[j].attempts \in Int /\ MaxAttempts \in Int
      BY <1>1, RowAssumption DEF Row
    <3>4. /\ RetriedRow(row[j], d, delay).status \in {"pending", "succeeded", "dead"}
          /\ RetriedRow(row[j], d, delay).status = "pending" => row[j].attempts < MaxAttempts
      BY <3>2, <3>3
    <3>5. Vacate(s)
      BY <1>11 DEF Retry
    <3>6. QED
      BY <1>2, <3>0, <3>1, <3>2, <3>4, <3>5
  <2>2. CASE UNCHANGED row
    BY <1>3, <1>11, <2>2 DEF Retry
  <2>3. QED
    BY <2>1, <2>2
<1>12. ASSUME NEW d \in Readings, DeadLetter(s, d)
       PROVE  Settled \/ Lifecycle!Leave(s)
  BY <1>2, <1>3, <1>9, <1>12 DEF DeadLetter
<1>13. QED
  BY <1>5, <1>6, <1>7, <1>8, <1>10, <1>11, <1>12 DEF Execution, Advance, Settle

LEMMA RecoverRefines ==
  ASSUME TypeInv, SafetyInv, NEW j \in Jobs, NEW d \in Readings, Recover(j, d)
  PROVE  Lifecycle!Revoke(j)
<1>1. /\ row[j] \in Row /\ row[j].attempts \in Int /\ MaxAttempts \in Int
      /\ row[j].status = "running"
      /\ row' = [row EXCEPT ![j] = RecoveredRow(row[j], d)] /\ UNCHANGED exec
  BY RowAssumption DEF Recover, Recoverable, TypeInv, TypeOK, SafetyInv, PendingHasBudget, Row
<1>2. /\ RecoveredRow(row[j], d) \in Row /\ RecoveredRow(row[j], d).owner = NoOwner
      /\ RecoveredRow(row[j], d).attempts = row[j].attempts
      /\ RecoveredRow(row[j], d).status =
           IF row[j].attempts < MaxAttempts THEN "pending" ELSE "dead"
  BY <1>1, RecoveredRowType, RecoveredIsOwnerless DEF Ownerless
<1>3. /\ row'[j].status = IF row[j].attempts < MaxAttempts THEN "pending" ELSE "dead"
      /\ row'[j].owner = NoOwner
      /\ Tries(row'[j]) = IF row[j].attempts < MaxAttempts THEN Tries(row[j]) ELSE 0
      /\ Tries(row[j]) = row[j].attempts
      /\ \A i \in Jobs \ {j} : row'[i] = row[i]
  BY <1>1, <1>2, AbstractRow DEF Tries, ActiveStatus
<1>4. /\ [i \in Jobs |-> row'[i].status] = [[i \in Jobs |-> row[i].status] EXCEPT ![j] = IF row[j].attempts < MaxAttempts THEN "pending" ELSE "dead"]
      /\ [i \in Jobs |-> row'[i].owner] = [[i \in Jobs |-> row[i].owner] EXCEPT ![j] = NoOwner]
      /\ [i \in Jobs |-> Tries(row'[i])] =
           [[i \in Jobs |-> Tries(row[i])] EXCEPT
              ![j] = IF row[j].attempts < MaxAttempts THEN Tries(row[j]) ELSE 0]
  BY <1>3
<1>5. /\ [i \in Jobs |-> row[i].status][j] = "running"
      /\ [i \in Jobs |-> Tries(row[i])][j] = Tries(row[j])
  BY <1>1
<1>6. QED
  <2>1. CASE row[j].attempts < MaxAttempts
    BY <1>1, <1>3, <1>4, <1>5, <2>1 DEF Lifecycle!Revoke, Lifecycle!Become
  <2>2. CASE ~(row[j].attempts < MaxAttempts)
    BY <1>1, <1>3, <1>4, <1>5, <2>2 DEF Lifecycle!Revoke, Lifecycle!Become
  <2>3. QED
    BY <2>1, <2>2

LEMMA TickRefines ==
  ASSUME TypeInv, Tick
  PROVE  UNCHANGED Lifecycle!vars
<1>1. \A i \in Jobs : /\ row'[i].status = row[i].status
                      /\ row'[i].owner = row[i].owner
                      /\ row'[i].attempts = row[i].attempts
  BY DEF Tick, AgedRow, TypeInv, TypeOK, Row
<1>2. QED
  BY <1>1, AbstractRowKept DEF Tick, Lifecycle!vars

LEMMA InitRefines == Init => Lifecycle!Init
BY DEF Init, AbsentRow, IdleExec, Tries, Lifecycle!Init

LEMMA NextRefines ==
  ASSUME InductiveInvariant, [Next]_vars
  PROVE  [Lifecycle!Next]_(Lifecycle!vars)
<1>1. TypeInv /\ SafetyInv
  BY DEF InductiveInvariant, TypeInv, SafetyInv
<1>2. ASSUME NEW j \in Jobs, Producer(j)
      PROVE  Lifecycle!Next
  BY <1>1, <1>2, ProducerRefines DEF Lifecycle!Next
<1>3. CASE Polling
  BY <1>1, <1>3, ClaimRefines DEF Polling, Lifecycle!Next
<1>4. ASSUME NEW s \in Slots, Execution(s)
      PROVE  [Lifecycle!Next]_(Lifecycle!vars)
  <2>1. Job(s) \in Jobs
    BY <1>1, <1>4, ExecutionRowType, Times
    DEF Execution, Advance, Settle, Begin, Confirm, HandlerReturns, HandlerThrows,
        RenewalRefused, RejectUnknownType, Complete, Retry, DeadLetter, Heartbeat,
        HeartbeatLost, Abandon
  <2>2. PICK j \in Jobs : j = Job(s)
    BY <2>1
  <2>3. QED
    BY <1>1, <1>4, <2>2, ExecutionRefines DEF Lifecycle!Next
<1>5. ASSUME NEW j \in Jobs, Recovery(j)
      PROVE  Lifecycle!Next
  BY <1>1, <1>5, RecoverRefines DEF Recovery, Lifecycle!Next
<1>6. CASE Tick
  BY <1>1, <1>6, TickRefines
<1>7. CASE UNCHANGED vars
  BY <1>7 DEF vars, Lifecycle!vars
<1>8. QED
  BY <1>2, <1>3, <1>4, <1>5, <1>6, <1>7 DEF Next

(* With all its leases, stale clock readings, crashes and late statements, *)
(* the queue does only what JobLifecycle allows: one grant at a time, at   *)
(* most MaxAttempts of them, settled by the latest holder or revoked.      *)
THEOREM QueueImplementsLifecycle == Spec => ImplementsLifecycle
<1>1. Init => Lifecycle!Init
  BY InitRefines
<1>2. InductiveInvariant /\ [Next]_vars => [Lifecycle!Next]_(Lifecycle!vars)
  BY NextRefines
<1>3. QED
  BY <1>1, <1>2, Invariance, PTL DEF Spec, ImplementsLifecycle, Lifecycle!Spec
=============================================================================
