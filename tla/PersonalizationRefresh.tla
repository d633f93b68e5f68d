------------------------ MODULE PersonalizationRefresh ------------------------
(***************************************************************************)
(* The one reusable refresh job of a user: reader actions and the timer    *)
(* request it, a worker recalibrates the user's islands and rescores the   *)
(* articles, and completion compares request identifiers so that an action *)
(* racing it leaves a follow-up.                                           *)
(* Sources: server/services/jobs/personalizationRefresh.js,                *)
(* personalizationRefreshScheduler.js, islands/runIslandCalibration.js,    *)
(* score/scoreArticlesFromIslands.js, articles/updateArticleBehavior.js.   *)
(*                                                                         *)
(* The queue is taken at the level of JobLifecycle: a lease that expires   *)
(* is a Revoke that may come at any time. One article stands for all of    *)
(* them, as each is scored by itself. Settings and the crawler also score, *)
(* without a job; Manual is that scorer.                                   *)
(***************************************************************************)
EXTENDS Naturals

CONSTANTS
  Refresh, NoJob,      \* the job (personalization_refresh, current)
  Slots, NoSlot,       \* execution slots of the AI workers
  Manual,              \* the scorer that runs without a job
  Stored,              \* the article's stored score, among the scorers
  RequestIds,          \* requestId UUIDs; one is drawn that nobody holds
  NoRequest,
  MaxAttempts

ASSUME RefreshAssumption ==
  /\ NoJob # Refresh
  /\ NoSlot \notin Slots /\ Manual \notin Slots
  /\ Stored \notin Slots \cup {Manual}
  /\ NoRequest \notin RequestIds
  /\ MaxAttempts \in Nat \ {0}

Scorers == Slots \cup {Manual}

VARIABLES
  phase, holder, tries, working,  \* the queue, see JobLifecycle
  wait,        \* availableAt: "now", "soon" (the two-second window) or "later"
  payload,     \* requestId, calibration.requestId and triggerReasons, of which
               \* an action makes the timer's forgotten: all that matters is
               \* whether the timer alone asked
  at,          \* program point of each scorer
  snapshot,    \* the requestId in the row each worker claimed
  order,       \* <<a, b>> when b was evaluated in a later second than a, of the
               \* scorers that took an evaluation time and of the stored score
  islands,     \* ghost: the islands account for every reader action
  current,     \* ghost: scorers whose loaded evidence does too
  score,       \* ghost: "current" if the stored score does too; of the stale
               \* ones, "mixed" bears the evaluation time of another scorer, and
               \* "tied" was put by a scorer of the same second over another
  calibrated   \* ghost: requests that a job calibrated the islands for

Queue == INSTANCE JobLifecycle WITH Jobs <- {Refresh}, Workers <- Slots, NoWorker <- NoSlot

queueVars == <<phase, holder, tries, working>>
ghosts == <<islands, current, score, calibrated>>
workerVars == <<at, snapshot, order>>
refreshVars == <<queueVars, wait, payload, workerVars, ghosts>>

Waits == {"now", "soon", "later"}
Reasons == {"action", "elapsed_time"}
Compared == {"compared", "overtaken"}
Dated == {"dated", "loaded"} \cup Compared
Point == {"idle", "claimed", "begun", "calibrated", "scored", "failing"} \cup Dated

Evaluated == {Stored} \cup {s \in Scorers : at[s] \in Dated}

RefreshTypeOK ==
  /\ phase \in [{Refresh} -> {"none", "pending", "running", "succeeded", "dead"}]
  /\ holder \in [{Refresh} -> Slots \cup {NoSlot}]
  /\ tries \in [{Refresh} -> 0..MaxAttempts]
  /\ working \in [Slots -> {Refresh, NoJob}]
  /\ wait \in Waits
  /\ payload \in [request: RequestIds \cup {NoRequest}, reasons: SUBSET Reasons,
                  checkpoint: RequestIds \cup {NoRequest}]
  /\ at \in [Scorers -> Point]
  /\ snapshot \in [Slots -> RequestIds \cup {NoRequest}]
  /\ order \subseteq Evaluated \X Evaluated
  /\ islands \in BOOLEAN /\ score \in {"current", "stale", "mixed", "tied"}
  /\ current \subseteq Scorers
  /\ calibrated \subseteq RequestIds

NoPayload == [request |-> NoRequest, reasons |-> {}, checkpoint |-> NoRequest]

RefreshInit ==
  /\ Queue!Init
  /\ wait = "now"
  /\ payload = NoPayload
  /\ at = [s \in Scorers |-> "idle"]
  /\ snapshot = [w \in Slots |-> NoRequest]
  /\ order = {}
  /\ islands = TRUE /\ score = "current"
  /\ current = {}
  /\ calibrated = {}

Status == phase[Refresh]
Outstanding == {"pending", "running"}
HeldIds == {snapshot[w] : w \in Slots} \cup {payload.checkpoint}

-----------------------------------------------------------------------------
(* Requests, under the user's row lock.                                    *)

AwaitsTimer == Status = "pending" /\ payload.reasons = {"elapsed_time"}

(* Faulty variant: each request starts the window anew.                    *)
DeadlineAfresh == IF Status = "pending" THEN "soon" ELSE wait

(* The first pending deadline stays, but a real action does not wait       *)
(* behind the timer's spread: min(availableAt, now + two seconds).         *)
Deadline == IF AwaitsTimer /\ wait = "later" THEN "soon" ELSE wait

Draw(r, reasons) ==
  /\ r \in RequestIds \ HeldIds
  /\ payload' = [payload EXCEPT !.request = r, !.reasons = reasons]
  /\ calibrated' = (calibrated \cap HeldIds) \ {r}

DrawAfresh(r, reasons) ==
  /\ r \in RequestIds \ HeldIds
  /\ payload' = [NoPayload EXCEPT !.request = r, !.reasons = reasons]
  /\ calibrated' = (calibrated \cap HeldIds) \ {r}

(* The behavior write and its request commit together: nothing computed so *)
(* far accounts for it.                                                    *)
Behave ==
  /\ islands' = FALSE /\ score' = "stale"
  /\ current' = {}
  /\ UNCHANGED workerVars

(* requestRefresh on an active row: a new identifier.                      *)
RequestActive(r) ==
  /\ Status \in Outstanding
  /\ Draw(r, {"action"})
  /\ wait' = Deadline
  /\ Behave
  /\ UNCHANGED queueVars

(* requestRefresh without a row or on a terminal one.                      *)
RequestNew(r) ==
  /\ Queue!Open(Refresh)
  /\ DrawAfresh(r, {"action"})
  /\ wait' = "soon"
  /\ Behave

(* enqueueDuePersonalizationRefreshes, rechecked under the locks, with the *)
(* batch spread over the check interval. Which users are due (more than a  *)
(* day since personalizationRefreshedAt) is left open.                     *)
Schedule(r, delay) ==
  /\ Status \in {"none", "succeeded"}
  /\ Queue!Open(Refresh)
  /\ DrawAfresh(r, {"elapsed_time"})
  /\ wait' = delay
  /\ UNCHANGED <<workerVars, islands, current, score>>

(* The user's retry and the clearing of history.                           *)
RequeueDead ==
  /\ Status = "dead"
  /\ Queue!Open(Refresh)
  /\ wait' = "now"
  /\ UNCHANGED <<payload, workerVars, ghosts>>

ClearHistory ==
  /\ Queue!Forget(Refresh)
  /\ payload' = NoPayload
  /\ wait' = "now"
  /\ UNCHANGED <<workerVars, ghosts>>

-----------------------------------------------------------------------------
(* handlePersonalizationRefresh on worker w. Its first lease checks only   *)
(* filter claims and are taken with the claim.                             *)

Goto(s, point) == at' = [at EXCEPT ![s] = point]
HoldsLease(w) == Status = "running" /\ holder[Refresh] = w

Claim(w) ==
  /\ at[w] = "idle"
  /\ Status = "pending" => wait = "now"
  /\ Queue!Grant(w, Refresh)
  /\ Goto(w, "claimed")
  /\ snapshot' = [snapshot EXCEPT ![w] = payload.request]
  /\ UNCHANGED <<wait, payload, order, ghosts>>

(* A checkpoint of the same request spares the calibration.                *)
BeginRefresh(w) ==
  /\ at[w] = "claimed"
  /\ Goto(w, IF Status # "none" /\ payload.checkpoint = snapshot[w] THEN "calibrated" ELSE "begun")
  /\ UNCHANGED <<queueVars, wait, payload, snapshot, order, ghosts>>

(* Faulty variant: the calibration is committed without the lease. *)
CalibrationUnfenced(w) == Status # "none"

(* The lease that afterPersist requires, under the job's row lock.         *)
CalibrationFenced(w) == HoldsLease(w)

(* persistIslandProfilesForUser: evidence is read and the islands and the  *)
(* checkpoint are committed in one transaction, under the user's lock.     *)
Calibrate(w) ==
  /\ at[w] = "begun"
  /\ CalibrationFenced(w)
  /\ Goto(w, "calibrated")
  /\ islands' = TRUE
  /\ payload' = [payload EXCEPT !.checkpoint = snapshot[w]]
  /\ calibrated' = calibrated \cup {snapshot[w]}
  /\ UNCHANGED <<queueVars, wait, snapshot, order, current, score>>

Latest == {x \in Evaluated : \A y \in Evaluated : <<x, y>> \notin order}

(* loadIslandEvidence takes the evaluation time, then reads the evidence.  *)
(* interestScoredAt has whole seconds: the time may be that of the latest. *)
Date(s) ==
  /\ at[s] = "calibrated"
  /\ Goto(s, "dated")
  /\ \E before \in {Evaluated, Evaluated \ Latest} : order' = order \cup (before \X {s})
  /\ UNCHANGED <<queueVars, wait, payload, snapshot, ghosts>>

Load(s) ==
  /\ at[s] = "dated"
  /\ Goto(s, "loaded")
  /\ current' = IF islands THEN current \cup {s} ELSE current
  /\ UNCHANGED <<queueVars, wait, payload, snapshot, order, islands, score, calibrated>>

(* The article is read, for a worker under its lease, and its stored score *)
(* compared with the one that s computes; the write shows whether they     *)
(* differ.                                                                 *)
Compare(s) ==
  /\ at[s] = "loaded"
  /\ s \in Slots => HoldsLease(s)
  /\ Goto(s, "compared")
  /\ UNCHANGED <<queueVars, wait, payload, snapshot, order, ghosts>>

Without(s) == {pair \in order : s \notin {pair[1], pair[2]}}

(* The stored score takes over the evaluation time of s.                   *)
InPlaceOf(s) ==
  LET renamed(x) == IF x = s THEN Stored ELSE x
  IN  {<<renamed(pair[1]), renamed(pair[2])>> : pair \in Without(Stored)}

(* Faulty variant: scores are written whatever is stored. *)
NotNewerIgnored(s) == at[s] \in Compared

(* interestScoredAt <= evaluatedAt: the stored score was evaluated before  *)
(* the evidence of s was, or in the same second.                           *)
NotNewer(s) == <<s, Stored>> \notin order

Tied(s) == <<Stored, s>> \notin order /\ <<s, Stored>> \notin order

(* Article.update with the computed score: those who compared with the     *)
(* score it replaces are overtaken.                                        *)
StoreScore(s) ==
  /\ score' = CASE s \in current -> "current"
                [] s \notin current /\ Tied(s) /\ score # "stale" -> "tied"
                [] OTHER -> "stale"
  /\ at' = [x \in Scorers |-> CASE x = s -> "scored"
                                 [] x # s /\ at[x] = "compared" -> "overtaken"
                                 [] OTHER -> at[x]]

(* Article.update with the evaluation time alone, as the score repeats the *)
(* one that was read, which may have been replaced since.                  *)
StoreTime(s) ==
  /\ Goto(s, "scored")
  /\ score' = CASE at[s] = "overtaken" -> IF score = "stale" THEN "mixed" ELSE score
                [] at[s] = "compared" /\ s \in current -> "current"
                [] at[s] = "compared" /\ s \notin current /\ Tied(s) -> score
                [] OTHER -> "stale"

(* The batch's updates, which no lease fences. The stored evaluation time  *)
(* becomes that of s.                                                      *)
WriteScores(s) ==
  /\ at[s] \in Compared
  /\ \/ /\ NotNewer(s)
        /\ StoreScore(s) \/ StoreTime(s)
        /\ order' = InPlaceOf(s)
     \/ /\ ~NotNewer(s)
        /\ Goto(s, "scored")
        /\ order' = Without(s)
        /\ UNCHANGED score
  /\ current' = current \ {s}
  /\ UNCHANGED <<queueVars, wait, payload, snapshot, islands, calibrated>>

Forget(s) ==
  /\ order' = Without(s)
  /\ current' = current \ {s}
  /\ UNCHANGED <<islands, score, calibrated>>

Finish(w) ==
  /\ Goto(w, "idle")
  /\ snapshot' = [snapshot EXCEPT ![w] = NoRequest]
  /\ Forget(w)

FollowUp(w) ==
  /\ Queue!Become(Refresh, "pending", NoSlot, 0)
  /\ working' = [working EXCEPT ![w] = NoJob]
  /\ wait' = "soon"

IsAnswered(w) == payload.request = snapshot[w]

(* completePersonalizationRefresh.                                         *)
Complete(w) ==
  /\ at[w] = "scored"
  /\ HoldsLease(w)
  /\ \/ IsAnswered(w) /\ Queue!SettleAs(w, Refresh, "succeeded") /\ UNCHANGED wait
     \/ ~IsAnswered(w) /\ FollowUp(w)
  /\ Finish(w)
  /\ UNCHANGED <<payload>>

(* A lost lease or a database error.                                       *)
Fail(w) ==
  /\ at[w] \notin {"idle", "failing"}
  /\ Goto(w, "failing")
  /\ Forget(w)
  /\ UNCHANGED <<queueVars, wait, payload, snapshot>>

(* Faulty variant: a failure is followed up like an answered request.      *)
SettleByFollowUp(w) ==
  /\ at[w] = "failing"
  /\ \/ HoldsLease(w) /\ FollowUp(w)
     \/ ~HoldsLease(w) /\ Queue!Leave(w) /\ UNCHANGED wait
  /\ Finish(w)
  /\ UNCHANGED <<payload>>

(* retryProcessingJob.                                                     *)
Settle(w) ==
  /\ at[w] = "failing"
  /\ \/ /\ tries[Refresh] < MaxAttempts
        /\ Queue!SettleAs(w, Refresh, "pending")
        /\ wait' = "later"
     \/ /\ tries[Refresh] >= MaxAttempts
        /\ Queue!SettleAs(w, Refresh, "dead")
        /\ UNCHANGED wait
     \/ ~HoldsLease(w) /\ Queue!Leave(w) /\ UNCHANGED wait
  /\ Finish(w)
  /\ UNCHANGED <<payload>>

(* The worker process dies, or its lifecycle statement fails.              *)
Crash(w) ==
  /\ Queue!Leave(w)
  /\ Finish(w)
  /\ UNCHANGED <<wait, payload>>

(* recoverExpiredProcessingJobs.                                           *)
Expire ==
  /\ Queue!Revoke(Refresh)
  /\ wait' = "now"
  /\ UNCHANGED <<payload, workerVars, ghosts>>

Ripen ==
  /\ Status = "pending" /\ wait # "now"
  /\ wait' = IF wait = "later" THEN "soon" ELSE "now"
  /\ UNCHANGED <<queueVars, payload, workerVars, ghosts>>

-----------------------------------------------------------------------------
(* Settings recalibrates and rescores in a request, and the crawler        *)
(* rescores what it brought in: no job, no lease.                          *)

ManualStart(calibrates) ==
  /\ at[Manual] = "idle"
  /\ Goto(Manual, "calibrated")
  /\ islands' = (islands \/ calibrates)
  /\ UNCHANGED <<queueVars, wait, payload, snapshot, order, current, score, calibrated>>

ManualEnd ==
  /\ at[Manual] # "idle"
  /\ Goto(Manual, "idle")
  /\ Forget(Manual)
  /\ UNCHANGED <<queueVars, wait, payload, snapshot>>

-----------------------------------------------------------------------------
Request == \E r \in RequestIds : RequestActive(r) \/ RequestNew(r)

Timer == \E r \in RequestIds, delay \in Waits : Schedule(r, delay)

Score(s) == Date(s) \/ Load(s) \/ Compare(s) \/ WriteScores(s)

Advance(w) ==
  \/ BeginRefresh(w) \/ Calibrate(w) \/ Score(w) \/ Complete(w)
  \/ Fail(w) \/ Settle(w)

RefreshNext ==
  \/ Request
  \/ Timer
  \/ RequeueDead \/ ClearHistory
  \/ \E w \in Slots : Claim(w) \/ Advance(w) \/ Crash(w)
  \/ Expire \/ Ripen
  \/ \E b \in BOOLEAN : ManualStart(b)
  \/ Score(Manual) \/ ManualEnd

RefreshSpec == RefreshInit /\ [][RefreshNext]_refreshVars

(* Workers poll, executions proceed or fail, expired leases are recovered  *)
(* and time passes. Nothing makes a user act, or stop acting.              *)
RefreshFairSpec ==
  /\ RefreshSpec
  /\ WF_refreshVars(\E w \in Slots : Claim(w))
  /\ \A w \in Slots : WF_refreshVars(Advance(w))
  /\ WF_refreshVars(Expire)
  /\ WF_refreshVars(Ripen)

-----------------------------------------------------------------------------
(* Recommended reflects the updated scores once the job has completed      *)
(* (jobs/README.md:82): a succeeded job means that the stored score        *)
(* accounts for every reader action. It does not hold, in two ways: a      *)
(* scorer that finds the stored score equal to its own writes only its     *)
(* evaluation time, and a late scorer may have put an older score there in *)
(* between; and of the scorers of one second the last to write prevails,   *)
(* which may be the one that read its evidence before the action.          *)
NoActionIsLost == Status = "succeeded" => score = "current"

(* Those are the only ways to lose an action: no action racing completion  *)
(* (comment at personalizationRefresh.js:106), late execution, settings    *)
(* run or crawl of an earlier second leaves a succeeded job with a score   *)
(* older than an action.                                                   *)
OnlyMixedOrTiedScoresLoseActions == Status = "succeeded" => score # "stale"

(* A real interaction never waits behind the timer's spreading delay: only *)
(* the backoff after a failed attempt is longer than the ordinary window.  *)
InteractionIsPrompt ==
  Status = "pending" /\ "action" \in payload.reasons /\ tries[Refresh] = 0 => wait # "later"

(* The run's invariant: types, and the two promises just stated.           *)
RefreshConsistent == RefreshTypeOK /\ OnlyMixedOrTiedScoresLoseActions /\ InteractionIsPrompt

(* Retries do not blend vectors or append evidence again: the islands are  *)
(* calibrated by jobs at most once for each request, whatever leases are   *)
(* lost in between.                                                        *)
CalibratedOncePerRequest ==
  [][\A w \in Slots :
       at[w] = "begun" /\ at'[w] = "calibrated" => snapshot[w] \notin calibrated]_refreshVars

(* Continuous activity does not starve the refresh: however often the      *)
(* reader acts, a pending job is taken up.                                 *)
RefreshIsNotStarved == Status = "pending" ~> Status # "pending"

(* When the reader stops acting, the job comes to rest.                    *)
QuietRefreshSettles ==
  <>[][payload'.request = payload.request]_refreshVars => []<>(Status \notin Outstanding)
=============================================================================
