---------------------------- MODULE WebhookDelivery ----------------------------
(***************************************************************************)
(* Deliveries of one webhook: the rows that new articles enqueue           *)
(* (webhookMatching.js), the places of the webhook workers that claim and  *)
(* send them (webhookDelivery.js, webhookWorker.js), and the user who      *)
(* enables, disables and deletes the webhook meanwhile.                    *)
(*                                                                         *)
(* A claim takes the next attempt number and puts nextAttemptAt one lease  *)
(* ahead.  A place that finds its webhook disabled gives the number back,  *)
(* so numbers are reused: what keeps the requests within the budget is     *)
(* that every write of a place is conditional on the number it claimed.    *)
(***************************************************************************)
EXTENDS Naturals

CONSTANTS
  Delivery,     \* webhook_deliveries rows, one per article matched
  Place,        \* places for a delivery in flight, of every worker process
  MaxAttempts,  \* WEBHOOK_DELIVERY_POLICY.maxAttempts
  MaxToggles    \* bound: times the user enables or disables the webhook

ASSUME WebhookDeliveryAssumption ==
  MaxAttempts \in Nat \ {0} /\ MaxToggles \in Nat

VARIABLES
  row,          \* [Delivery -> its row]
  place,        \* [Place -> the attempt held there]
  enabled,      \* Webhook.enabled
  toggles,
  heard         \* history: [Delivery -> [attempt number -> what became of it]]

vars == <<row, place, enabled, toggles, heard>>

Number == 1 .. MaxAttempts
\* A 2xx; an error or status worth a retry; any other answer.
Answer == {"success", "retry", "final"}
\* What became of an attempt number.  "sourceless": nothing was sent, because
\* the article or its feed was not found.
Outcome == Answer \cup {"unsent", "sourceless"}
\* nextAttemptAt against now: null, passed, or still ahead.
When   == {"null", "due", "ahead"}

\* "none" before the article's create transaction, "gone" once deleted.
Row == [status : {"none", "pending", "success", "failed", "gone"},
        attempts : 0 .. MaxAttempts, tried : BOOLEAN, next : When]
NoRow == [status |-> "none", attempts |-> 0, tried |-> FALSE, next |-> "null"]

\* `tried` is previousLastAttemptAt: had the row been attempted before?
Attempt == [at : {"claimed", "sending", "disabled", "answered", "failing"},
            of : Delivery, number : Number, tried : BOOLEAN, answer : Answer]
Idle    == [at |-> "idle"]

Holds(p)   == place[p].at # "idle"
Exists(d)  == row[d].status \notin {"none", "gone"}
\* Faulty variants of Current.
CurrentByStatus(p) == row[place[p].of].status = "pending"
CurrentByNumber(p) == row[place[p].of].attempts = place[p].number

\* The row is as place p claimed it: the WHERE of every write by a place.
Current(p) == /\ row[place[p].of].status = "pending"
              /\ row[place[p].of].attempts = place[p].number
Claimable(d) == /\ row[d].status \in {"pending", "failed"}
                /\ row[d].attempts < MaxAttempts /\ row[d].next = "due"
Settled(d) == Exists(d) /\ row[d].next = "null"

----------------------------------------------------------------------------
TypeOK ==
  /\ row \in [Delivery -> Row]
  /\ place \in [Place -> Attempt \cup {Idle}]
  /\ enabled \in BOOLEAN
  /\ toggles \in 0 .. MaxToggles
  /\ heard \in [Delivery -> [Number -> Outcome]]

Init ==
  /\ row = [d \in Delivery |-> NoRow]
  /\ place = [p \in Place |-> Idle]
  /\ enabled = TRUE
  /\ toggles = 0
  /\ heard = [d \in Delivery |-> [n \in Number |-> "unsent"]]

----------------------------------------------------------------------------
(* The article's transaction, time, and the user.                          *)

Enqueue(d) ==
  /\ enabled /\ row[d].status = "none"
  /\ row' = [row EXCEPT ![d] = [NoRow EXCEPT !.status = "pending", !.next = "due"]]
  /\ UNCHANGED <<place, enabled, toggles, heard>>

Elapse(d) ==
  /\ row[d].next = "ahead"
  /\ row' = [row EXCEPT ![d].next = "due"]
  /\ UNCHANGED <<place, enabled, toggles, heard>>

Toggle ==
  /\ toggles < MaxToggles
  /\ toggles' = toggles + 1
  /\ enabled' = ~enabled
  /\ UNCHANGED <<row, place, heard>>

\* The article is deleted, and its deliveries with it.
Delete(d) ==
  /\ Exists(d)
  /\ row' = [row EXCEPT ![d].status = "gone", ![d].next = "null"]
  /\ UNCHANGED <<place, enabled, toggles, heard>>

----------------------------------------------------------------------------
(* The worker's loop: finish the last attempts that never reported, claim. *)

\* Faulty variant of ExpireFinal.
ExpireFinalOffByOne(d) ==
  /\ row[d].status = "pending" /\ row[d].attempts > MaxAttempts
  /\ row[d].tried /\ row[d].next = "due"
  /\ row' = [row EXCEPT ![d].status = "failed", ![d].next = "null"]
  /\ UNCHANGED <<place, enabled, toggles, heard>>

ExpireFinal(d) ==
  /\ row[d].status = "pending" /\ row[d].attempts >= MaxAttempts
  /\ row[d].tried /\ row[d].next = "due"
  /\ row' = [row EXCEPT ![d].status = "failed", ![d].next = "null"]
  /\ UNCHANGED <<place, enabled, toggles, heard>>

Claim(p, d) ==
  /\ ~Holds(p)
  /\ enabled /\ Claimable(d)
  /\ row' = [row EXCEPT ![d] = [status |-> "pending", attempts |-> @.attempts + 1,
                                tried |-> TRUE, next |-> "ahead"]]
  /\ place' = [place EXCEPT ![p] =
       [at |-> "claimed", of |-> d, number |-> row[d].attempts + 1,
        tried |-> row[d].tried, answer |-> "retry"]]
  /\ UNCHANGED <<enabled, toggles, heard>>

----------------------------------------------------------------------------
(* One delivery in flight: processWebhookDelivery.                         *)

Free(p) == place' = [place EXCEPT ![p] = Idle]

\* Read the webhook.  What is read here may be stale at the next step.
ReadWebhook(p) ==
  /\ place[p].at = "claimed"
  /\ place' = [place EXCEPT ![p].at = IF enabled THEN "sending" ELSE "disabled"]
  /\ UNCHANGED <<row, enabled, toggles, heard>>

GiveBack(p) ==
  /\ place[p].at = "disabled"
  /\ row' = IF Current(p)
            THEN [row EXCEPT ![place[p].of] =
                    [@ EXCEPT !.attempts = place[p].number - 1,
                              !.tried = place[p].tried, !.next = "due"]]
            ELSE row
  /\ Free(p)
  /\ UNCHANGED <<enabled, toggles, heard>>

\* The request, and its answer.  The article was read before: it may be gone.
Send(p) ==
  /\ place[p].at = "sending"
  /\ \E answer \in Answer :
       /\ place' = [place EXCEPT ![p].at = "answered", ![p].answer = answer]
       /\ heard' = [heard EXCEPT ![place[p].of][place[p].number] = answer]
  /\ UNCHANGED <<row, enabled, toggles>>

\* The article or its feed is not found: the article was deleted, or its feed
\* was merged into another between the two reads, and then the row is still there.
SourceUnavailable(p) ==
  /\ place[p].at = "sending"
  /\ place' = [place EXCEPT ![p].at = "answered", ![p].answer = "final"]
  /\ heard' = [heard EXCEPT ![place[p].of][place[p].number] = "sourceless"]
  /\ UNCHANGED <<row, enabled, toggles>>

\* recordResult's conditional update.
Recorded(p) ==
  IF Current(p)
  THEN [row EXCEPT ![place[p].of] =
          [@ EXCEPT !.status = IF place[p].answer = "success" THEN "success" ELSE "failed",
                    !.next = IF place[p].answer = "retry" /\ place[p].number < MaxAttempts
                             THEN "ahead" ELSE "null"]]
  ELSE row

Record(p) ==
  /\ place[p].at \in {"answered", "failing"}
  /\ row' = Recorded(p)
  /\ Free(p)
  /\ UNCHANGED <<enabled, toggles, heard>>

\* The update throws, applied or not: the catch records a network error.
RecordThrows(p) ==
  /\ place[p].at = "answered"
  /\ row' \in {row, Recorded(p)}
  /\ place' = [place EXCEPT ![p].at = "failing", ![p].answer = "retry"]
  /\ UNCHANGED <<enabled, toggles, heard>>

\* A database error, a crash, or a claim made while the worker was stopping.
Drop(p) ==
  /\ Holds(p)
  /\ Free(p)
  /\ UNCHANGED <<row, enabled, toggles, heard>>

Process(p) == \/ ReadWebhook(p) \/ GiveBack(p) \/ Send(p) \/ SourceUnavailable(p)
              \/ Record(p) \/ RecordThrows(p)

Next ==
  \/ Toggle
  \/ \E d \in Delivery : Enqueue(d) \/ Elapse(d) \/ Delete(d) \/ ExpireFinal(d)
  \/ \E p \in Place : Process(p) \/ Drop(p)
  \/ \E p \in Place, d \in Delivery : Claim(p, d)

Spec == Init /\ [][Next]_vars

\* Time passes, the worker polls, its requests end (each has a timeout), and
\* the oldest due row is claimed first, so that none is passed over for ever.
Fairness ==
  /\ \A d \in Delivery : WF_vars(Elapse(d)) /\ WF_vars(ExpireFinal(d))
  /\ \A d \in Delivery : SF_vars(\E p \in Place : Claim(p, d))
  /\ \A p \in Place : WF_vars(Process(p))

FairSpec == Spec /\ Fairness

----------------------------------------------------------------------------
(* Properties.                                                             *)

\* An attempt number is never sent twice, although numbers are given back
\* and late places go on after their lease: a receiver sees at most
\* MaxAttempts requests of a delivery ("up to five attempts").
EachNumberSentOnce ==
  \A p \in Place : place[p].at \in {"claimed", "sending", "disabled"} =>
    heard[place[p].of][place[p].number] = "unsent"

\* No row is left that neither a claim nor the expiry of final attempts will
\* take up: an unfinished row has a time, and is still within the budget or
\* is a pending final attempt that was made.
NothingIsStranded ==
  \A d \in Delivery :
    /\ row[d].status = "pending" =>
         row[d].next # "null" /\ (row[d].attempts < MaxAttempts \/ row[d].tried)
    /\ row[d].status = "failed" /\ row[d].next # "null" => row[d].attempts < MaxAttempts
    /\ row[d].status = "success" => row[d].next = "null"

\* What the row says is what happened to the attempt it counts: success only
\* if that request got a 2xx, and a failure is final only if the request was
\* refused for good, the budget is spent, or that very attempt did not find
\* what it was to send: then nothing was sent and no attempt is made again.
VerdictIsEarned ==
  \A d \in Delivery :
    /\ row[d].status = "success" => heard[d][row[d].attempts] = "success"
    /\ row[d].status = "failed" /\ row[d].next = "null" /\ row[d].attempts < MaxAttempts =>
         heard[d][row[d].attempts] \in {"final", "sourceless"}

\* The run's invariant: types and the three promises just stated.
DeliveriesConsistent ==
  TypeOK /\ EachNumberSentOnce /\ NothingIsStranded /\ VerdictIsEarned

\* Leases, numbers given back and retries do not show: the deliveries are an
\* outbox, of which a receiver gets at most one request for each attempt, a
\* success is one that the receiver confirmed, and a verdict is the last one.
Stage(d) ==
  CASE row[d].status \in {"none", "gone"} -> row[d].status
    [] row[d].status = "success" -> "sent"
    [] row[d].status = "failed" /\ row[d].next = "null" -> "failed"
    [] OTHER -> "open"

Promised == INSTANCE Outbox WITH
  Messages <- Delivery,
  stage  <- [d \in Delivery |-> Stage(d)],
  copies <- [d \in Delivery |-> {n \in Number : heard[d][n] \in Answer}],
  taken  <- [d \in Delivery |-> {n \in Number : heard[d][n] = "success"}]

ImplementsOutbox == Promised!Spec

\* A settled delivery stays as it is until it is deleted: a result that
\* arrives after its attempt was given up changes nothing.
SettledIsFinal ==
  [][\A d \in Delivery : Settled(d) => row'[d] = row[d] \/ row'[d].status = "gone"]_vars

\* Every delivery is settled, or deleted, unless its webhook is disabled.
DeliveryConcludes ==
  \A d \in Delivery : Exists(d) ~> Settled(d) \/ row[d].status = "gone" \/ ~enabled
=============================================================================
