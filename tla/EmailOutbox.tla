---------------------------- MODULE EmailOutbox ----------------------------
(***************************************************************************)
(* The outbox of outgoing email: rows of email_deliveries                   *)
(* (server/services/email/emailOutbox.js), the web processes that claim     *)
(* them in batches (emailDeliveryWorker.js) and the sending of one claimed  *)
(* delivery through SMTP (emailService.js).                                 *)
(*                                                                         *)
(* Every claim gives a batch one lease owner and one lease of two minutes.  *)
(* The batch is sent one delivery at a time, and only the delivery being    *)
(* sent has a heartbeat, so the leases of those behind it may lapse while   *)
(* they wait.  A claim is told from another of the same row by its attempt: *)
(* every claim counts one and draws a new leaseOwner.  A batch is kept as    *)
(* the set of its claims: they are handled in the order of their ids.       *)
(***************************************************************************)
EXTENDS Integers, FiniteSets, FiniteSetsExt

CONSTANTS Workers,       \* web processes that run the delivery loop
          NumDeliveries, \* deliveries, numbered in the order of scheduledAt
          BatchSize,     \* rows of one claim (EMAIL_DELIVERY_BATCH_SIZE)
          MaxAttempts,   \* email_deliveries.maxAttempts
          MaxFaults      \* bound on crashes, stalls and lost answers

ASSUME BoundsAssumption == /\ IsFiniteSet(Workers)
                           /\ NumDeliveries \in Nat \ {0}
                           /\ BatchSize \in Nat \ {0}
                           /\ MaxAttempts \in Nat \ {0}
                           /\ MaxFaults \in Nat

VARIABLES row,     \* [delivery -> the row]
          batch,   \* [worker -> the claims it has still to handle]
          phase,   \* [worker -> where the sending of its current claim stands]
          lost,    \* [worker -> leaseLost of sendClaimedEmail]
          hist,    \* history: what SMTP saw of each delivery
          faults   \* history: faults so far
vars == <<row, batch, phase, lost, hist, faults>>

Deliveries == 1..NumDeliveries
Statuses == {"absent", "pending", "sending", "sent", "failed"}
Terminal == {"sent", "failed"}
Phases == {"next", "smtp", "accepted", "temporary", "permanent"}
Claims == [id : Deliveries, attempt : 1..MaxAttempts, first : BOOLEAN]

\* The claimed row with its attempt, as the identity of a claim in a WHERE.
OwnedByAnyone(c) == row[c.id].status = "sending" /\ row[c.id].lease = "live"
Owns(c) == /\ row[c.id].status = "sending"
           /\ row[c.id].attempts = c.attempt
           /\ row[c.id].lease = "live"

Sending(w) == batch[w] # {} /\ phase[w] # "next"
Current(w) == CHOOSE c \in batch[w] : \A e \in batch[w] : c.id <= e.id

Init ==
  /\ row = [d \in Deliveries |->
              [status |-> "absent", attempts |-> 0, lease |-> "none", due |-> FALSE]]
  /\ batch = [w \in Workers |-> {}]
  /\ phase = [w \in Workers |-> "next"]
  /\ lost = [w \in Workers |-> FALSE]
  /\ hist = [d \in Deliveries |-> [accepted |-> {}, tried |-> FALSE, headed |-> FALSE]]
  /\ faults = 0

Fault == faults < MaxFaults /\ faults' = faults + 1

-----------------------------------------------------------------------------
(* Producers and time. *)

\* A producer persists the rendered message; a repeated call finds the row.
Enqueue(d) ==
  /\ row[d].status = "absent"
  /\ row' = [row EXCEPT ![d].status = "pending", ![d].due = TRUE]
  /\ UNCHANGED <<batch, phase, lost, hist, faults>>

\* The backoff of a delivery that failed for a while is over.
Due(d) ==
  /\ row[d].status = "pending" /\ ~row[d].due
  /\ row' = [row EXCEPT ![d].due = TRUE]
  /\ UNCHANGED <<batch, phase, lost, hist, faults>>

\* The delivery a worker has in hand, kept by a heartbeat that still renews,
\* or the first of a batch, which the worker takes up at once.
Kept(d) == \E w \in Workers :
  /\ batch[w] # {} /\ Current(w).id = d /\ Owns(Current(w))
  /\ \/ phase[w] # "next" /\ ~lost[w]
     \/ phase[w] = "next" /\ Current(w).first

\* A lease runs out.  While a delivery is kept that takes a stall of the
\* process or of the database; behind another delivery it takes only time.
Lapse(d) ==
  /\ row[d].lease = "live"
  /\ row' = [row EXCEPT ![d].lease = "lapsed"]
  /\ IF Kept(d) THEN Fault ELSE UNCHANGED faults
  /\ UNCHANGED <<batch, phase, lost, hist>>

-----------------------------------------------------------------------------
(* Claims. *)

Exhausted(r) ==
  /\ r.attempts >= MaxAttempts
  /\ r.status = "pending" \/ (r.status = "sending" /\ r.lease = "lapsed")

Terminalized(r) == IF Exhausted(r) THEN [r EXCEPT !.status = "failed", !.lease = "none"]
                                   ELSE r

ClaimableBriefly(r) == r.attempts < MaxAttempts /\ r.status = "pending" /\ r.due
Claimable(r) ==
  /\ r.attempts < MaxAttempts
  /\ (r.status = "pending" /\ r.due) \/ (r.status = "sending" /\ r.lease = "lapsed")

Leased(r) == [status |-> "sending", attempts |-> r.attempts + 1,
              lease |-> "live", due |-> FALSE]

\* order and limit of the query.
Earliest(S) == {d \in S : Cardinality({e \in S : e < d}) < BatchSize}

\* Exhausted rows end, then the earliest claimable rows, BatchSize at most, are
\* leased to the worker with an attempt counted for each.
Claim(w) ==
  LET settled   == [d \in Deliveries |-> Terminalized(row[d])]
      claimable == {d \in Deliveries : Claimable(settled[d])}
      chosen    == Earliest(claimable)
  IN  /\ batch[w] = {}
      /\ claimable # {} \/ settled # row
      /\ row' = [d \in Deliveries |->
           IF d \in chosen THEN Leased(settled[d]) ELSE settled[d]]
      /\ batch' = [batch EXCEPT ![w] =
           {[id |-> d, attempt |-> row[d].attempts + 1, first |-> d = Min(chosen)] : d \in chosen}]
      /\ hist' = [d \in Deliveries |->
           [hist[d] EXCEPT !.headed = @ \/ (chosen # {} /\ d = Min(chosen))]]
      /\ UNCHANGED <<phase, lost, faults>>

-----------------------------------------------------------------------------
(* Sending one claimed delivery. *)

\* The worker is done with its current claim and turns to the next.
TurnToNext(w) ==
  /\ batch' = [batch EXCEPT ![w] = @ \ {Current(w)}]
  /\ phase' = [phase EXCEPT ![w] = "next"]
  /\ lost' = [lost EXCEPT ![w] = FALSE]

\* The first renewal decides whether the message is sent: a claim whose lease
\* lapsed while it waited is dropped.
StartableLapsed(c) == TRUE
Startable(c) == Owns(c)

Start(w) ==
  /\ batch[w] # {} /\ phase[w] = "next"
  /\ IF Startable(Current(w))
     THEN /\ phase' = [phase EXCEPT ![w] = "smtp"]
          /\ hist' = [hist EXCEPT ![Current(w).id].tried = TRUE]
          /\ UNCHANGED <<batch, lost>>
     ELSE TurnToNext(w) /\ UNCHANGED hist
  /\ UNCHANGED <<row, faults>>

\* The renewal itself fails: the worker logs the error and goes on, and the row
\* stays leased until its lease lapses.
StartFails(w) ==
  /\ batch[w] # {} /\ phase[w] = "next"
  /\ TurnToNext(w) /\ Fault
  /\ UNCHANGED <<row, hist>>

\* The provider takes the message.
Accepted(w) ==
  hist' = [hist EXCEPT ![Current(w).id].accepted = @ \union {Current(w).attempt}]

Accept(w) ==
  /\ Sending(w) /\ phase[w] = "smtp"
  /\ Accepted(w)
  /\ phase' = [phase EXCEPT ![w] = "accepted"]
  /\ UNCHANGED <<row, batch, lost, faults>>

\* The provider takes the message, but its answer never arrives.
LoseAnswer(w) ==
  /\ Sending(w) /\ phase[w] = "smtp"
  /\ Accepted(w)
  /\ phase' = [phase EXCEPT ![w] = "temporary"]
  /\ Fault
  /\ UNCHANGED <<row, batch, lost>>

\* The provider or the connection refuses it, for now or for good.
Refuse(w) ==
  /\ Sending(w) /\ phase[w] = "smtp"
  /\ \E kind \in {"temporary", "permanent"} : phase' = [phase EXCEPT ![w] = kind]
  /\ UNCHANGED <<row, batch, lost, hist, faults>>

\* A heartbeat that throws marks the lease lost, whatever the row says.
HeartbeatFails(w) ==
  /\ Sending(w) /\ ~lost[w]
  /\ lost' = [lost EXCEPT ![w] = TRUE]
  /\ Fault
  /\ UNCHANGED <<row, batch, phase, hist>>

\* Faulty variant: only the worker's own doubt keeps it from recording.
RecordableUnowned(w) == ~lost[w]

\* An accepted message is recorded as sent, if the claim still owns the row.
Recordable(w) == ~lost[w] /\ Owns(Current(w))

Complete(w) ==
  /\ Sending(w) /\ phase[w] = "accepted"
  /\ row' = IF Recordable(w)
            THEN [row EXCEPT ![Current(w).id] =
                    [@ EXCEPT !.status = "sent", !.lease = "none"]]
            ELSE row
  /\ TurnToNext(w)
  /\ UNCHANGED <<hist, faults>>

\* The database fails while the message is recorded: an error without a code
\* counts as temporary, and the delivery is requeued.
CompleteFails(w) ==
  /\ Sending(w) /\ phase[w] = "accepted" /\ ~lost[w]
  /\ phase' = [phase EXCEPT ![w] = "temporary"]
  /\ Fault
  /\ UNCHANGED <<row, batch, lost, hist>>

\* A refused delivery is requeued with a backoff, or ends.
Requeued(r) == [r EXCEPT !.status = "pending", !.lease = "none", !.due = FALSE]
Ended(r)    == [r EXCEPT !.status = "failed", !.lease = "none"]

Retries(w) == phase[w] = "temporary" /\ row[Current(w).id].attempts < MaxAttempts

Fail(w) ==
  /\ Sending(w) /\ phase[w] \in {"temporary", "permanent"}
  /\ row' = IF ~lost[w] /\ Owns(Current(w))
            THEN [row EXCEPT ![Current(w).id] = IF Retries(w) THEN Requeued(@) ELSE Ended(@)]
            ELSE row
  /\ TurnToNext(w)
  /\ UNCHANGED <<hist, faults>>

\* The process dies and starts again with an empty batch.
Crash(w) ==
  /\ batch[w] # {}
  /\ batch' = [batch EXCEPT ![w] = {}]
  /\ phase' = [phase EXCEPT ![w] = "next"]
  /\ lost' = [lost EXCEPT ![w] = FALSE]
  /\ Fault
  /\ UNCHANGED <<row, hist>>

Next == \/ \E d \in Deliveries : Enqueue(d) \/ Due(d) \/ Lapse(d)
        \/ \E w \in Workers :
             \/ Claim(w) \/ Start(w) \/ StartFails(w) \/ Accept(w) \/ LoseAnswer(w)
             \/ Refuse(w) \/ HeartbeatFails(w) \/ Complete(w) \/ CompleteFails(w)
             \/ Fail(w) \/ Crash(w)

Spec == Init /\ [][Next]_vars

\* The loop polls for ever and its sends end; time passes.
Fairness ==
  /\ \A d \in Deliveries : WF_vars(Due(d)) /\ WF_vars(Lapse(d) /\ ~Kept(d))
  /\ \A w \in Workers :
       /\ WF_vars(Claim(w)) /\ WF_vars(Start(w)) /\ WF_vars(Accept(w) \/ Refuse(w))
       /\ WF_vars(Complete(w)) /\ WF_vars(Fail(w))
FairSpec == Spec /\ Fairness

-----------------------------------------------------------------------------
(* Properties. *)

\* Every variable stays within its type: attempts never pass maxAttempts.
TypeOK ==
  /\ row \in [Deliveries -> [status : Statuses, attempts : 0..MaxAttempts,
                             lease : {"none", "live", "lapsed"}, due : BOOLEAN]]
  /\ batch \in [Workers -> SUBSET Claims]
  /\ \A w \in Workers : Cardinality(batch[w]) <= BatchSize
  /\ phase \in [Workers -> Phases]
  /\ lost \in [Workers -> BOOLEAN]
  /\ hist \in [Deliveries -> [accepted : SUBSET (1..MaxAttempts),
                              tried : BOOLEAN, headed : BOOLEAN]]
  /\ faults \in 0..MaxFaults

\* What the provider took: the deliveries, and the attempts that carried them.
Delivered   == {d \in Deliveries : hist[d].accepted # {}}
Acceptances == {pair \in Deliveries \X (1..MaxAttempts) : pair[2] \in hist[pair[1]].accepted}

\* At-least-once delivery repeats a message only for a reason: over all
\* deliveries, the messages the provider took beyond the first cost at least
\* one fault each, so renewals before the send and the claims' attempts keep
\* workers from sending what another has sent (emailService.js:178,195).
DuplicatesNeedFaults ==
  Cardinality(Acceptances) <= Cardinality(Delivered) + faults

\* "Multiple workers cannot intentionally send the same row concurrently": two
\* workers talk to SMTP about one row only after a fault took the lease of the
\* first from under it.
OneSenderUnlessFault ==
  \A v, w \in Workers :
    /\ v # w /\ batch[v] # {} /\ batch[w] # {}
    /\ phase[v] = "smtp" /\ phase[w] = "smtp"
    /\ Current(v).id = Current(w).id
    => faults > 0

\* A final status tells what happened: a sent delivery was taken in the very
\* claim that recorded it, and a failed one was taken by the provider only if a
\* fault hid that from the worker.
StatusTellsTheTruth ==
  \A d \in Deliveries :
    /\ row[d].status = "sent" => row[d].attempts \in hist[d].accepted
    /\ row[d].status = "failed" /\ hist[d].accepted # {} => faults > 0

\* A delivery that was once the first of a batch fails only after SMTP was asked
\* to send it, unless a fault came between.  Those behind it have no such
\* promise: their attempts may all be spent waiting.
FirstInLineIsTried ==
  \A d \in Deliveries :
    row[d].status = "failed" /\ hist[d].headed => hist[d].tried \/ faults > 0

\* The run's invariant on single states: types and the three promises above.
OutboxConsistent ==
  TypeOK /\ OneSenderUnlessFault /\ StatusTellsTheTruth /\ FirstInLineIsTried

\* Every delivery that fails was handed to SMTP at least once: its attempts are
\* "delivery attempts".  The code does not keep this (see FirstInLineIsTried).
FailedWasTried ==
  \A d \in Deliveries : row[d].status = "failed" /\ faults = 0 => hist[d].tried

\* Leases, batches and crashes do not show: the deliveries are an outbox, in
\* which an attempt has the provider take the message at most once, a delivery
\* called sent was taken, and what a row says in the end stands.
Stage(d) ==
  CASE row[d].status = "absent" -> "none"
    [] row[d].status \in {"pending", "sending"} -> "open"
    [] OTHER -> row[d].status

Promised == INSTANCE Outbox WITH
  Messages <- Deliveries,
  stage  <- [d \in Deliveries |-> Stage(d)],
  copies <- [d \in Deliveries |-> hist[d].accepted],
  taken  <- [d \in Deliveries |-> hist[d].accepted]

ImplementsOutbox == Promised!Spec

\* Every queued delivery is sent or fails in the end: lapsed leases are taken
\* over, retries come due, and attempts are bounded.
EveryDeliveryConcludes ==
  \A d \in Deliveries : row[d].status = "pending" ~> row[d].status \in Terminal
=============================================================================
