------------------------------ MODULE CrawlRuns ------------------------------
(* Crawls of users, their rows in crawl_runs, the slots for feeds of a      *)
(* process and the crawl-priority lease (server/controllers/crawl.js,       *)
(* services/crawl/crawlRunHeartbeat.js, startUserCrawl.js,                  *)
(* scripts/recoverCrawlRuns.js, scripts/runSemanticPipeline.js,             *)
(* services/jobs/crawlPriorityLease.js, src/workers/crawlWorker.js).        *)
(*                                                                          *)
(* A pipeline is a scheduled iteration over batches of users or a crawl one *)
(* user asked for.  It holds a row of the priority lease and runs a crawl   *)
(* per user.  A crawl looks for the user's running row, fails a stale one,  *)
(* inserts its own, claims feeds through the slots of its process, and ends *)
(* the row if it still owns it.  Processes freeze and die, heartbeats fail, *)
(* and an administrator resets what runs.  A living holder renews its lease *)
(* in time; its end is the deletion of the row.                             *)
EXTENDS Naturals, Sequences, FiniteSets, SequencesExt, FiniteSetsExt

CONSTANTS
  Users, Hosts, Pipelines,
  Batches,      \* per pipeline: the batches of users it crawls, in order
  HostOf,       \* per pipeline: the process it runs in
  Workers,      \* per process: 1, or the feed workers of a parallel crawl
  SlotLimit,    \* feeds a process works on at a time
  MaxFeeds,     \* feeds one crawl may claim
  MaxCrawls,    \* bound: crawls ever started
  MaxFaults     \* bound: freezes, crashes, failed statements and resets

ASSUME CrawlAssumption ==
  /\ Batches \in [Pipelines -> Seq(Seq(Users))]
  /\ \A p \in Pipelines : Len(Batches[p]) > 0
  /\ HostOf \in [Pipelines -> Hosts] /\ Workers \in [Hosts -> Nat \ {0}]
  /\ SlotLimit \in Nat \ {0} /\ MaxFeeds \in Nat /\ MaxCrawls \in Nat /\ MaxFaults \in Nat

Crawls == 1 .. MaxCrawls

VARIABLES
  row,        \* per crawl: its row's status, and whether its heartbeat is recent
  crawl,      \* per crawl: where performCrawlOperation is, and what it returned
  holding,    \* per crawl: the slots its feed workers hold
  active,     \* per process: parallelFeedSlots.active
  waiters,    \* per process: parallelFeedSlots.waiters
  pipeline,   \* per pipeline: its phase, its batch and the crawls it awaits
  gate,       \* per pipeline: whether it has a row in worker_leases
  next, faults,   \* what has been spent of the bounds
  resets      \* history: crawls an administrator reset

slots == <<holding, active, waiters>>
bounds == <<next, faults, resets>>
vars == <<row, crawl, slots, pipeline, gate, bounds>>

----------------------------------------------------------------------------
NoRow == [status |-> "none", fresh |-> FALSE]
NoCrawl == [pc |-> "unused", outcome |-> "none"]
Idle == [pc |-> "idle", batch |-> 0, mine |-> {}]

Host(c) == HostOf[crawl[c].pipe]
At(c, pc) == crawl[c].pc = pc
Started == {c \in Crawls : ~At(c, "unused")}
Same(c) == {d \in Started : crawl[d].user = crawl[c].user}
Living(c) == crawl[c].pc \notin {"unused", "done", "gone"}
Fault == faults < MaxFaults /\ faults' = faults + 1

\* Faulty variant of ActiveRun.
ActiveRunFresh(c) == {d \in Same(c) : row[d].status = "running" /\ row[d].fresh}

\* findActiveCrawlRun
ActiveRun(c) == {d \in Same(c) : row[d].status = "running"}

Statuses == {"none", "running", "failed", "completed"}
Places == {"looking", "recovering", "creating", "conflict", "crawling", "done", "gone"}
StartedCrawl == [pc : Places, outcome : {"none", "ok", "reused", "failed", "unrecorded"},
                 user : Users, pipe : Pipelines, lost : BOOLEAN, claims : 0 .. MaxFeeds,
                 over : BOOLEAN, failing : BOOLEAN]

TypeOK ==
  /\ row \in [Crawls -> [status : Statuses, fresh : BOOLEAN]]
  /\ crawl \in [Crawls -> StartedCrawl \cup {NoCrawl}]
  /\ \A c \in Crawls : /\ (crawl[c].outcome # "none") = At(c, "done")
                       /\ c < next <=> ~At(c, "unused")
  /\ holding \in [Crawls -> Nat] /\ active \in [Hosts -> 0 .. SlotLimit]
  /\ waiters \in [Hosts -> Seq(Crawls)]
  /\ \A h \in Hosts : waiters[h] # <<>> => active[h] = SlotLimit
  /\ pipeline \in [Pipelines -> [pc : {"idle", "crawling", "semantic"}, batch : Nat,
                                 mine : SUBSET Crawls]]
  /\ gate \in [Pipelines -> BOOLEAN]
  /\ next \in 1 .. MaxCrawls + 1 /\ faults \in 0 .. MaxFaults /\ resets \subseteq Crawls

Init ==
  /\ row = [c \in Crawls |-> NoRow] /\ crawl = [c \in Crawls |-> NoCrawl]
  /\ holding = [c \in Crawls |-> 0]
  /\ active = [h \in Hosts |-> 0] /\ waiters = [h \in Hosts |-> <<>>]
  /\ pipeline = [p \in Pipelines |-> Idle] /\ gate = [p \in Pipelines |-> FALSE]
  /\ next = 1 /\ faults = 0 /\ resets = {}

----------------------------------------------------------------------------
(* A pipeline: withCrawlPriorityLease around runSemanticPipelineOperation   *)
(* or performCrawlWithSemanticGroupingOperation.                            *)

\* The crawls of p's batch n start together.
StartBatch(p, n) ==
  LET users == Batches[p][n]
  IN /\ next + Len(users) <= MaxCrawls + 1
     /\ next' = next + Len(users)
     /\ crawl' = [c \in Crawls |->
          IF c \in next .. next' - 1
          THEN [pc |-> "looking", outcome |-> "none", user |-> users[c - next + 1], pipe |-> p,
                lost |-> FALSE, claims |-> 0, over |-> FALSE, failing |-> FALSE]
          ELSE crawl[c]]
     /\ pipeline' = [pipeline EXCEPT ![p] =
          [pc |-> "crawling", batch |-> n, mine |-> next .. next' - 1]]

Start(p) ==
  /\ pipeline[p].pc = "idle"
  /\ StartBatch(p, 1)
  /\ gate' = [gate EXCEPT ![p] = TRUE]
  /\ UNCHANGED <<row, slots, faults, resets>>

BatchSettled(p) == \A c \in pipeline[p].mine : At(c, "done")
Failed(c) == crawl[c].outcome \in {"failed", "unrecorded"}
BatchFailed(p) == \E c \in pipeline[p].mine : Failed(c)

NextBatch(p) ==
  /\ pipeline[p].pc = "crawling" /\ BatchSettled(p) /\ ~BatchFailed(p)
  /\ IF pipeline[p].batch < Len(Batches[p])
     THEN StartBatch(p, pipeline[p].batch + 1)
     ELSE /\ pipeline' = [pipeline EXCEPT ![p].pc = "semantic"]
          /\ UNCHANGED <<crawl, next>>
  /\ UNCHANGED <<row, slots, gate, faults, resets>>

\* The end of the semantic pipeline, or the first crawl of the batch that
\* fails: Promise.all does not wait for the others.
EndPipeline(p) ==
  /\ \/ pipeline[p].pc = "semantic"
     \/ pipeline[p].pc = "crawling" /\ BatchFailed(p)
  /\ pipeline' = [pipeline EXCEPT ![p] = Idle]
  /\ gate' = [gate EXCEPT ![p] = FALSE]
  /\ UNCHANGED <<row, crawl, slots, bounds>>

----------------------------------------------------------------------------
(* A crawl up to its row: performCrawlOperation.                            *)

Return(c, outcome) == [crawl EXCEPT ![c].pc = "done", ![c].outcome = outcome]

Look(c) ==
  /\ At(c, "looking")
  /\ LET found == ActiveRun(c)
     IN crawl' = IF found = {} THEN [crawl EXCEPT ![c].pc = "creating"]
                 ELSE IF \E d \in found : row[d].fresh THEN Return(c, "reused")
                 ELSE [crawl EXCEPT ![c].pc = "recovering"]
  /\ UNCHANGED <<row, slots, pipeline, gate, bounds>>

\* Faulty variant of Stale: the run that looked stale is failed by its identity.
StaleWhenSeen(d) == row[d].status = "running"

Stale(d) == row[d].status = "running" /\ ~row[d].fresh
FailedRows(S) == [d \in Crawls |-> IF d \in S THEN [row[d] EXCEPT !.status = "failed"] ELSE row[d]]

Recovered(c) == FailedRows({d \in Same(c) : Stale(d)})

\* recoverStaleCrawlRun
Recover(c) ==
  /\ At(c, "recovering")
  /\ row' = Recovered(c)
  /\ crawl' = [crawl EXCEPT ![c].pc = "creating"]
  /\ UNCHANGED <<slots, pipeline, gate, bounds>>

\* drainParallelFeedSlots: how many waiters get a slot, every limit being SlotLimit.
Granted(h, ws, busy) == Min({SlotLimit - busy, Len(ws)})

\* With "busy" slots of h in use, held as "kept" says, the waiters ws get the rest.
Drain(h, ws, busy, kept) ==
  LET n == Granted(h, ws, busy)
  IN /\ active' = [active EXCEPT ![h] = busy + n]
     /\ waiters' = [waiters EXCEPT ![h] = SubSeq(ws, n + 1, Len(ws))]
     /\ holding' = [d \in Crawls |->
          kept[d] + Cardinality({i \in 1 .. n : ws[i] = d})]

Inserted(c) == [row EXCEPT ![c] = [status |-> "running", fresh |-> TRUE]]

\* Insert the row, under the unique index of running rows, and start the feed
\* workers, each of which asks for a slot.
Create(c) ==
  /\ At(c, "creating")
  /\ IF ActiveRun(c) # {}
     THEN crawl' = [crawl EXCEPT ![c].pc = "conflict"] /\ UNCHANGED <<row, slots>>
     ELSE /\ row' = Inserted(c)
          /\ crawl' = [crawl EXCEPT ![c].pc = "crawling"]
          /\ Drain(Host(c), waiters[Host(c)] \o [i \in 1 .. Workers[Host(c)] |-> c],
                   active[Host(c)], holding)
  /\ UNCHANGED <<pipeline, gate, bounds>>

\* The run in the way is reused; if it has ended meanwhile, the start fails.
Conflict(c) ==
  /\ At(c, "conflict")
  /\ crawl' = Return(c, IF ActiveRun(c) # {} THEN "reused" ELSE "failed")
  /\ UNCHANGED <<row, slots, pipeline, gate, bounds>>

----------------------------------------------------------------------------
(* Its feeds: runCrawl.                                                     *)

\* A worker gives its slot back, and asks for another unless it is done.
Release(c, again) ==
  LET h == Host(c)
  IN Drain(h, IF again THEN Append(waiters[h], c) ELSE waiters[h], active[h] - 1,
           [holding EXCEPT ![c] = @ - 1])

Holds(c) == At(c, "crawling") /\ holding[c] > 0
Continues(c) == ~crawl'[c].over

FeedDone(c) ==
  /\ Holds(c) /\ ~crawl[c].over /\ crawl[c].claims < MaxFeeds
  /\ crawl' = [crawl EXCEPT ![c].claims = @ + 1]
  /\ Release(c, Continues(c))
  /\ UNCHANGED <<row, pipeline, gate, bounds>>

\* No feed is due, the crawl's time is up, or another worker found it so.
NoMoreFeeds(c) ==
  /\ Holds(c)
  /\ crawl' = [crawl EXCEPT ![c].over = TRUE]
  /\ Release(c, FALSE)
  /\ UNCHANGED <<row, pipeline, gate, bounds>>

\* Faulty variant of ReleaseFailed.
ReleaseFailedLeaks(c) == Drain(Host(c), waiters[Host(c)], active[Host(c)],
                               [holding EXCEPT ![c] = @ - 1])

ReleaseFailed(c) == Release(c, Continues(c))

\* The claim throws: a sequential crawl ends there, a parallel worker goes on.
ClaimFails(c) ==
  /\ Holds(c) /\ ~crawl[c].over /\ crawl[c].claims < MaxFeeds
  /\ crawl' = [crawl EXCEPT ![c].claims = @ + 1, ![c].failing = TRUE,
                            ![c].over = Workers[Host(c)] = 1]
  /\ ReleaseFailed(c)
  /\ UNCHANGED <<row, pipeline, gate, bounds>>

----------------------------------------------------------------------------
(* Its end: updateOwnedCrawlRun.                                            *)

Owned(c) == row[c].status = "running"

FeedsSettled(c) == holding[c] = 0 /\ c \notin ToSet(waiters[Host(c)])

\* Faulty variant of Succeeds.
SucceedsUnrecorded(c, fine) == fine

Succeeds(c, fine) == fine /\ Owned(c)

\* The row that crawl c ends with its verdict.
Ended(c, fine) ==
  IF Owned(c) THEN [row EXCEPT ![c].status = IF fine THEN "completed" ELSE "failed"] ELSE row

\* The work after the feeds may fail too.  The terminal write counts only while
\* the row is owned; a crawl that succeeded but lost its row fails.
End(c, fine) ==
  /\ At(c, "crawling") /\ FeedsSettled(c)
  /\ fine => ~crawl[c].failing
  /\ row' = Ended(c, fine)
  /\ crawl' = Return(c, IF Succeeds(c, fine) THEN "ok" ELSE "failed")
  /\ UNCHANGED <<slots, pipeline, gate, bounds>>

----------------------------------------------------------------------------
(* Heartbeats, and what goes wrong.                                         *)

\* A renewal that finds the row gone, or that throws, is the last one.
Heartbeat(c) ==
  /\ At(c, "crawling") /\ ~crawl[c].lost
  /\ \/ Stale(c) /\ row' = [row EXCEPT ![c].fresh = TRUE] /\ UNCHANGED crawl
     \/ ~Owned(c) /\ crawl' = [crawl EXCEPT ![c].lost = TRUE] /\ UNCHANGED row
  /\ UNCHANGED <<slots, pipeline, gate, bounds>>

HeartbeatThrows(c) ==
  /\ At(c, "crawling") /\ ~crawl[c].lost /\ Fault
  /\ crawl' = [crawl EXCEPT ![c].lost = TRUE]
  /\ UNCHANGED <<row, slots, pipeline, gate, next, resets>>

\* A statement of crawl c about its row throws, and the crawl fails with it: the
\* lookup, the recovery, the insertion or the terminal write.  What it was to
\* write is there only if just its answer was lost.
StatementThrows(c) ==
  /\ Living(c) /\ (At(c, "crawling") => FeedsSettled(c)) /\ Fault
  /\ crawl' = Return(c, "unrecorded")
  /\ \/ UNCHANGED row
     \/ At(c, "recovering") /\ row' = Recovered(c)
     \/ At(c, "creating") /\ ActiveRun(c) = {} /\ row' = Inserted(c)
     \/ /\ At(c, "crawling")
        /\ \E fine \in BOOLEAN : (fine => ~crawl[c].failing) /\ row' = Ended(c, fine)
  /\ UNCHANGED <<slots, pipeline, gate, next, resets>>

\* A row nobody renews grows stale; one whose process froze does too.
GrowStale(c) ==
  /\ row[c].status = "running" /\ row[c].fresh
  /\ IF At(c, "crawling") /\ ~crawl[c].lost THEN Fault ELSE UNCHANGED faults
  /\ row' = [row EXCEPT ![c].fresh = FALSE]
  /\ UNCHANGED <<crawl, slots, pipeline, gate, next, resets>>

\* The maintenance command, for stale rows or for all.
RecoverCrawlRuns(all) ==
  LET chosen == {c \in Crawls : IF all THEN row[c].status = "running" ELSE Stale(c)}
  IN /\ chosen # {} /\ Fault
     /\ row' = FailedRows(chosen)
     /\ resets' = IF all THEN resets \cup chosen ELSE resets
     /\ UNCHANGED <<crawl, slots, pipeline, gate, next>>

Crash(h) ==
  /\ \E p \in Pipelines : HostOf[p] = h /\ pipeline[p].pc # "idle"
  /\ Fault
  /\ crawl' = [c \in Crawls |-> IF Living(c) /\ Host(c) = h
                                THEN [crawl[c] EXCEPT !.pc = "gone"] ELSE crawl[c]]
  /\ holding' = [c \in Crawls |-> IF Living(c) /\ Host(c) = h THEN 0 ELSE holding[c]]
  /\ active' = [active EXCEPT ![h] = 0] /\ waiters' = [waiters EXCEPT ![h] = <<>>]
  /\ pipeline' = [p \in Pipelines |-> IF HostOf[p] = h THEN Idle ELSE pipeline[p]]
  /\ UNCHANGED <<row, gate, next, resets>>

----------------------------------------------------------------------------
Run(c) ==
  \/ Look(c) \/ Recover(c) \/ Create(c) \/ Conflict(c)
  \/ FeedDone(c) \/ NoMoreFeeds(c) \/ ClaimFails(c)
  \/ \E fine \in BOOLEAN : End(c, fine)

Next ==
  \/ \E p \in Pipelines : Start(p) \/ NextBatch(p) \/ EndPipeline(p)
  \/ \E c \in Started : \/ Run(c) \/ StatementThrows(c)
                       \/ Heartbeat(c) \/ HeartbeatThrows(c) \/ GrowStale(c)
  \/ \E all \in BOOLEAN : RecoverCrawlRuns(all)
  \/ \E h \in Hosts : Crash(h)

Spec == Init /\ [][Next]_vars

\* Promises resolve: a crawl and a pipeline of a living process take their next
\* step.  Nothing is assumed of heartbeats, faults and new starts.
FairSpec ==
  /\ Spec
  /\ \A c \in Crawls : WF_vars(c \in Started /\ Run(c))
  /\ \A p \in Pipelines : WF_vars(NextBatch(p) \/ EndPipeline(p))

----------------------------------------------------------------------------
(* Properties.                                                              *)

\* Two crawls of one user work at the same time only when one of them lost its
\* row to the recovery of stale runs, or to an administrator.
OverlapOnlyAfterRecovery ==
  \A c, d \in Started :
    c # d /\ d \in Same(c) /\ At(c, "crawling") /\ At(d, "crawling")
    => row[c].status = "failed" \/ row[d].status = "failed"

\* A crawl reports success exactly when its row says completed, unless it lost
\* the answer to its last statement: a crawl that was given up by others
\* meanwhile reports failure and leaves the row alone.
VerdictIsRecorded ==
  \A c \in Crawls :
    /\ crawl[c].outcome = "ok" => row[c].status = "completed"
    /\ row[c].status = "completed" => crawl[c].outcome \in {"ok", "unrecorded"}

\* A start is refused for a run in its way only when that run ended between the
\* failed insertion and the second look.
RefusedOnlyAfterAnEnd ==
  \A c \in Started :
    crawl[c].outcome = "failed" /\ row[c].status = "none"
    => \E d \in Same(c) : row[d].status \in {"failed", "completed"}

\* The slots of a process are those its crawls hold: none leaks on any path.
HeldOn(h) == UNION {{c} \X (1 .. holding[c]) : c \in {d \in Started : Host(d) = h}}
SlotsAreHeld == \A h \in Hosts : active[h] = Cardinality(HeldOn(h))

\* While a crawl of a living pipeline works, the pipeline's row keeps the AI
\* workers from claiming, except after another crawl of its batch failed.
GateHeldUnlessOneFailed ==
  \A c \in Started :
    Living(c) => \/ gate[crawl[c].pipe]
                 \/ \E d \in Started : crawl[d].pipe = crawl[c].pipe /\ Failed(d)

\* What rows, verdicts, slots and the gate have to do with each other at all
\* times: types and the promises above, but for overlaps and refusals.
CrawlConsistent == TypeOK /\ VerdictIsRecorded /\ SlotsAreHeld /\ GateHeldUnlessOneFailed

\* Only its own crawl, or an administrator, ends a run whose heartbeat is recent.
LiveRunIsKept ==
  [][\A c \in Crawls :
       row[c].status = "running" /\ row[c].fresh /\ row'[c].status # "running"
       => \/ At(c, "crawling") /\ crawl'[c].pc = "done"
          \/ c \in resets']_vars

\* Every crawl that starts comes to an end, unless its process dies: slots are
\* given back and handed on.
EveryCrawlEnds ==
  \A c \in Crawls : []<>~Living(c)

\* "Every scheduled, manual, and API-triggered crawl publishes its own renewable
\* database lease while its critical semantic pipeline is active."
\* (docs/how-rssmonster-works.md:84)
GateCoversCrawls ==
  \A c \in Started : Living(c) => gate[crawl[c].pipe]
=============================================================================
