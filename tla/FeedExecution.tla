---------------------------- MODULE FeedExecution ----------------------------
(***************************************************************************)
(* The crawl of one feed: the lease on its row (feedClaims.js), the work   *)
(* of an execution (processSingleFeed), the deadline that races it         *)
(* (runFeedWithTimeout, executionDeadline.js), the terminal fetch write    *)
(* (completeFeedLease, feedFetchState.js) and the edits a user makes       *)
(* meanwhile (updateFeedSubscription).                                     *)
(*                                                                         *)
(* Every execution runs as two threads: `work`, which may go on after its  *)
(* deadline, and `ctl`, which waits for it or for the deadline and then    *)
(* releases the lease.  Both hold the in-memory feed `mem` read at the     *)
(* claim.  A database transaction that locks the feed row is one step;     *)
(* the awaits between transactions are what interleaves.                   *)
(***************************************************************************)
EXTENDS Naturals, FiniteSets

CONSTANTS
  Crawl,        \* executions of this feed, each with a lease owner of its own
  NoCrawl,      \* the null leaseOwner
  MaxChanges    \* bound: edits by the user, new representations published and
                \* faults, which are crashes, stalls and database errors

ASSUME FeedExecutionAssumption ==
  /\ NoCrawl \notin Crawl
  /\ MaxChanges \in Nat

VARIABLES
  feed,         \* the feed's row
  body,         \* the representation the publisher serves now
  work,         \* [Crawl -> where processSingleFeed is]
  ctl,          \* [Crawl -> where runFeedWithTimeout is]
  mem,          \* [Crawl -> the feed as read at the claim]
  got,          \* [Crawl -> the acquisition outcome]
  plan,         \* [Crawl -> the terminal write being made]
  attempted,    \* terminalPersistenceAttemptedFeedIds, per execution
  aborted,      \* executions whose deadline has passed
  edits, faults,
  superseded,   \* history: executions superseded since their claim
  recorded      \* history: executions whose terminal write was made

execVars == <<work, ctl, mem, got, plan, attempted, aborted>>
vars     == <<feed, body, execVars, edits, faults, superseded, recorded>>

Rep      == (0 .. MaxChanges) \X (0 .. MaxChanges)   \* an endpoint and its body
NoRep    == <<>>
Fetched  == {"changed", "unchanged"}
Outcome  == Fetched \cup {"failed", "rejected", "timeout"}
NoPlan   == [outcome |-> "failed", complete |-> FALSE, live |-> FALSE,
             fallback |-> FALSE]
\* What the code still reads of the feed read at the claim.
Snapshot(f) == [status |-> f.status, automatic |-> f.automatic,
                endpoint |-> f.endpoint, validators |-> f.validators,
                imported |-> f.imported]
NoGot    == [type |-> "failed", rep |-> NoRep]

NewFeed  == [status |-> "active", automatic |-> TRUE, next |-> "due",
             quarantined |-> FALSE, owner |-> NoCrawl, live |-> FALSE,
             endpoint |-> 0, validators |-> NoRep, imported |-> FALSE]

Init ==
  /\ feed = NewFeed
  /\ body = 0
  /\ work = [c \in Crawl |-> "idle"] /\ ctl = [c \in Crawl |-> "idle"]
  /\ mem = [c \in Crawl |-> Snapshot(NewFeed)] /\ got = [c \in Crawl |-> NoGot]
  /\ plan = [c \in Crawl |-> NoPlan]
  /\ attempted = {} /\ aborted = {} /\ edits = 0 /\ faults = 0
  /\ superseded = {} /\ recorded = {}

Idle(c) == work[c] = "idle" /\ ctl[c] = "idle"

-----------------------------------------------------------------------------
(* The lease.                                                              *)

\* Faulty variant: any live lease will do.
OwnedByAnyone(c) == feed.live

\* The ownership test of every leased write: owner and a deadline to come.
Owned(c) == feed.owner = c /\ feed.live

\* Faulty variant: the deadline of a new lease is the time of the claim.
LeasedTillNow(f, c) == [f EXCEPT !.owner = c]
Leased(f, c) == [f EXCEPT !.owner = c, !.live = TRUE]
Unleased(f) == [f EXCEPT !.owner = NoCrawl, !.live = FALSE]

\* A scheduled crawl takes a due active feed, a manual one takes any.
Due == feed.status = "active" /\ feed.next = "due"

Claim(c) ==
  /\ Idle(c) /\ ~feed.live
  /\ feed' = Leased(feed, c)
  /\ mem' = [mem EXCEPT ![c] = Snapshot(feed)]
  /\ work' = [work EXCEPT ![c] = "attempt"]
  /\ ctl' = [ctl EXCEPT ![c] = "racing"]
  /\ superseded' = {d \in Crawl : ~Idle(d)}
  /\ UNCHANGED <<body, got, plan, attempted, aborted, edits, faults,
                 recorded>>

ClaimDue(c) == Due /\ Claim(c)
ClaimById(c) == ~Due /\ Claim(c)

\* The finally block: once the work has returned or the deadline is handled.
WorkDone(c) == work[c] \in {"succeeded", "failed"}

Released(c) == IF feed.owner = c THEN Unleased(feed) ELSE feed

Release(c) ==
  /\ ctl[c] = "release" \/ (ctl[c] = "racing" /\ WorkDone(c))
  /\ feed' = Released(c)
  /\ ctl' = [ctl EXCEPT ![c] = "observe"]
  /\ UNCHANGED <<body, work, mem, got, plan, attempted, aborted, edits, faults,
                 superseded, recorded>>

\* The heartbeat renews a live lease, so only a stalled or crashed holder
\* lets it run out; nothing renews it afterwards.
Fault == edits + faults + body < MaxChanges /\ faults' = faults + 1

LeaseExpires ==
  /\ feed.live
  /\ IF Idle(feed.owner) THEN UNCHANGED faults ELSE Fault
  /\ feed' = [feed EXCEPT !.live = FALSE]
  /\ UNCHANGED <<body, execVars, edits, superseded, recorded>>

-----------------------------------------------------------------------------
(* The terminal write.                                                     *)

\* persistTerminalFetchOutcome up to its first await: the write is planned
\* and the execution may plan no other.
Plan(c, outcome, complete) ==
  /\ attempted' = attempted \cup {c}
  /\ plan' = [plan EXCEPT ![c] = [outcome |-> outcome, complete |-> complete,
                                  live |-> Owned(c), fallback |-> FALSE]]

\* The row after the write: built from `mem`, but for the interval, which
\* completeFeedLease reads again under the lock.
\* Faulty variant: the interval read at the claim decides alone.
TerminalNextAsClaimed(c) ==
  IF ~mem[c].automatic \/ plan[c].outcome = "rejected" THEN "none" ELSE "later"

TerminalNext(c) ==
  IF ~mem[c].automatic \/ ~feed.automatic \/ plan[c].outcome = "rejected"
  THEN "none" ELSE "later"

TerminalStatus(c) ==
  IF plan[c].outcome = "rejected" THEN "error"
  ELSE IF plan[c].complete THEN mem[c].status ELSE "active"

TerminalRow(c) ==
  [Unleased(feed) EXCEPT
     !.status = TerminalStatus(c),
     !.next = TerminalNext(c),
     !.quarantined = plan[c].outcome = "rejected",
     !.validators = IF plan[c].outcome = "changed" THEN got[c].rep ELSE @,
     !.imported = @ \/ plan[c].complete]

\* The thread that planned the write makes it.
Persisting(c) == work[c] = "terminal" \/ ctl[c] = "terminal"

\* Of what it has in memory only the status is read again.
AfterTerminal(c, result, status) ==
  /\ plan' = [plan EXCEPT ![c] = NoPlan]
  /\ got' = [got EXCEPT ![c] = NoGot]
  /\ mem' = [mem EXCEPT ![c] = [Snapshot(NewFeed) EXCEPT !.status = status]]
  /\ IF work[c] = "terminal"
     THEN work' = [work EXCEPT ![c] = result] /\ UNCHANGED ctl
     ELSE ctl' = [ctl EXCEPT ![c] = "release"] /\ UNCHANGED work

\* completeFeedLease compares the deadline with the time of the plan.
CanComplete(c) == feed.owner = c /\ plan[c].live

Complete(c) ==
  /\ Persisting(c) /\ CanComplete(c)
  /\ feed' = TerminalRow(c)
  /\ recorded' = recorded \cup {c}
  /\ AfterTerminal(c, IF plan[c].outcome = "unchanged" \/ plan[c].complete
                      THEN "succeeded" ELSE "failed", TerminalStatus(c))
  /\ UNCHANGED <<body, attempted, aborted, edits, faults, superseded>>

CompleteRefused(c) ==
  /\ Persisting(c) /\ ~CanComplete(c)
  /\ AfterTerminal(c, "failed", mem[c].status)
  /\ UNCHANGED <<feed, body, attempted, aborted, edits, faults,
                 superseded, recorded>>

\* A database error: once, a transient failure is recorded in its place.
CompleteThrows(c) ==
  /\ Persisting(c) /\ Fault
  /\ IF plan[c].fallback
     THEN AfterTerminal(c, "failed", mem[c].status)
     ELSE /\ plan' = [plan EXCEPT ![c] = [outcome |-> "failed", complete |-> FALSE,
                                         live |-> Owned(c), fallback |-> TRUE]]
          /\ UNCHANGED <<work, ctl, mem, got>>
  /\ UNCHANGED <<feed, body, attempted, aborted, edits,
                 superseded, recorded>>

-----------------------------------------------------------------------------
(* processSingleFeed.                                                      *)

WorkUnchanged == UNCHANGED <<body, ctl, edits, aborted, superseded, recorded>>

\* The catch block: silent after the deadline, one terminal write before it.
Fails(c, acquired) ==
  IF c \in aborted
  THEN /\ work' = [work EXCEPT ![c] = "failed"]
       /\ got' = [got EXCEPT ![c] = NoGot]
       /\ UNCHANGED <<plan, attempted>>
  ELSE /\ work' = [work EXCEPT ![c] = "terminal"]
       /\ got' = [got EXCEPT ![c] = acquired]
       /\ Plan(c, acquired.type, FALSE)

\* An import that never completed starts without validators.
ForAnyAttempt(c, f) == f   \* faulty variant: partial imports keep their validators
ForAttempt(c, f) == IF mem[c].imported THEN f ELSE [f EXCEPT !.validators = NoRep]

BeginAttempt(c) ==
  /\ work[c] = "attempt"
  /\ IF c \notin aborted /\ Owned(c)
     THEN /\ feed' = ForAttempt(c, feed)
          /\ mem' = [mem EXCEPT ![c] = ForAttempt(c, @)]
          /\ work' = [work EXCEPT ![c] = "acquire"]
          /\ UNCHANGED <<got, plan, attempted>>
     ELSE Fails(c, NoGot) /\ UNCHANGED <<feed, mem>>
  /\ UNCHANGED faults /\ WorkUnchanged

\* Loading the feed's rules and caches fails: no terminal write at all.
SetupFails(c) ==
  /\ work[c] = "acquire" /\ c \notin aborted /\ Fault
  /\ work' = [work EXCEPT ![c] = "failed"]
  /\ UNCHANGED <<feed, mem, got, plan, attempted>> /\ WorkUnchanged

\* The request, without a lock, for the endpoint read at the claim; after the
\* ownership check only a changed representation has items to store.
Acquire(c) ==
  /\ work[c] = "acquire"
  /\ LET rep == <<mem[c].endpoint, body>> IN
     \E type \in {"failed", "rejected",
                  IF mem[c].validators = rep THEN "unchanged" ELSE "changed"} :
       IF c \notin aborted /\ Owned(c) /\ type = "changed"
       THEN /\ work' = [work EXCEPT ![c] = "items"]
            /\ got' = [got EXCEPT ![c] = [type |-> type, rep |-> rep]]
            /\ UNCHANGED <<plan, attempted>>
       ELSE Fails(c, [type |-> type, rep |-> rep])
  /\ UNCHANGED <<feed, mem, faults>> /\ WorkUnchanged

\* Items are stored one transaction each, under the row lock of the lease.
StoreItems(c) ==
  /\ work[c] = "items"
  /\ IF c \notin aborted /\ Owned(c)
     THEN \/ /\ work' = [work EXCEPT ![c] = "stored"]
             /\ UNCHANGED <<got, plan, attempted>>
          \/ Fails(c, got[c])
     ELSE Fails(c, got[c])
  /\ UNCHANGED <<feed, mem, faults>> /\ WorkUnchanged

\* Every item is stored; the deadline and the lease are looked at once more.
Finish(c) ==
  /\ work[c] = "stored"
  /\ IF c \notin aborted /\ Owned(c)
     THEN /\ work' = [work EXCEPT ![c] = "terminal"]
          /\ Plan(c, "changed", TRUE)
          /\ UNCHANGED got
     ELSE Fails(c, got[c])
  /\ UNCHANGED <<feed, mem, faults>> /\ WorkUnchanged

-----------------------------------------------------------------------------
(* runFeedWithTimeout.                                                     *)

Timeout(c) ==
  /\ ctl[c] = "racing" /\ ~WorkDone(c)
  /\ aborted' = aborted \cup {c}
  /\ IF c \in attempted
     THEN ctl' = [ctl EXCEPT ![c] = "release"] /\ UNCHANGED <<plan, attempted>>
     ELSE ctl' = [ctl EXCEPT ![c] = "terminal"] /\ Plan(c, "timeout", FALSE)
  /\ UNCHANGED <<feed, body, work, mem, got, edits, faults,
                 superseded, recorded>>

\* The execution is over, or its process has died.
Forget(c) ==
  /\ work' = [work EXCEPT ![c] = "idle"]
  /\ ctl' = [ctl EXCEPT ![c] = "idle"]
  /\ mem' = [mem EXCEPT ![c] = Snapshot(NewFeed)]
  /\ got' = [got EXCEPT ![c] = NoGot]
  /\ plan' = [plan EXCEPT ![c] = NoPlan]
  /\ attempted' = attempted \ {c}
  /\ aborted' = aborted \ {c}
  /\ superseded' = superseded \ {c}
  /\ recorded' = recorded \ {c}
  /\ UNCHANGED <<body, edits>>

\* persistFeedCrawlResult, without the lease: a success lifts an error status.
\* (After a missed deadline it has no effect on the row: it waits for `work`.)
Observe(c) ==
  /\ ctl[c] = "observe" /\ WorkDone(c)
  /\ feed' = IF work[c] = "succeeded" /\ c \notin aborted /\ mem[c].status = "error"
             THEN [feed EXCEPT !.status = "active"] ELSE feed
  /\ Forget(c) /\ UNCHANGED faults

Crash(c) == ~Idle(c) /\ Forget(c) /\ Fault /\ UNCHANGED feed

-----------------------------------------------------------------------------
(* The publisher, the clock and the user.                                  *)

Publish ==
  /\ edits + faults + body < MaxChanges
  /\ body' = body + 1
  /\ UNCHANGED <<feed, execVars, edits, faults, superseded, recorded>>

NextFetchArrives ==
  /\ feed.next = "later"
  /\ feed' = [feed EXCEPT !.next = "due"]
  /\ UNCHANGED <<body, execVars, edits, faults, superseded, recorded>>

Edit ==
  /\ edits + faults + body < MaxChanges
  /\ edits' = edits + 1
  /\ UNCHANGED <<body, execVars, faults, recorded>>

SetStatus(status) ==
  /\ feed.status # status
  /\ feed' = [feed EXCEPT !.status = status]
  /\ Edit /\ UNCHANGED superseded

\* calculateIntervalChangeNextFetchAt: a feed whose last outcome is never
\* retried stays unscheduled.
SetInterval(automatic) ==
  /\ automatic \/ feed.automatic
  /\ feed' = [feed EXCEPT !.automatic = automatic,
                          !.next = IF automatic /\ ~feed.quarantined
                                   THEN "later" ELSE "none"]
  /\ Edit /\ UNCHANGED superseded

\* buildEndpointReplacementState: state of the old endpoint is cleared, the
\* lease with it.  New credentials leave a disabled feed disabled.
KeptLease(f) == f      \* faulty variant: the crawl of the old endpoint goes on
StoppedLease(f) == Unleased(f)

Replaced(f, endpointChanged) ==
  LET disabled == ~endpointChanged /\ f.status = "disabled" IN
  [StoppedLease(f) EXCEPT
     !.endpoint = @ + 1,
     !.validators = NoRep,
     !.quarantined = FALSE,
     !.status = IF disabled THEN "disabled" ELSE "active",
     !.next = IF disabled \/ ~f.automatic THEN "none" ELSE "later"]

ReplaceEndpoint(endpointChanged) ==
  /\ feed' = Replaced(feed, endpointChanged)
  /\ superseded' = {c \in Crawl : ~Idle(c)}
  /\ Edit

-----------------------------------------------------------------------------
WorkStep(c) == BeginAttempt(c) \/ Acquire(c) \/ StoreItems(c) \/ Finish(c)
WriteStep(c) == Complete(c) \/ CompleteRefused(c)
ControlStep(c) == Release(c) \/ Observe(c)

CrawlNext(c) ==
  \/ ClaimDue(c) \/ ClaimById(c) \/ WorkStep(c) \/ WriteStep(c)
  \/ ControlStep(c) \/ Timeout(c)
  \/ CompleteThrows(c) \/ SetupFails(c) \/ Crash(c)

UserNext ==
  \/ \E status \in {"active", "disabled"} : SetStatus(status)
  \/ \E b \in BOOLEAN : SetInterval(b) \/ ReplaceEndpoint(b)

Next ==
  \/ \E c \in Crawl : CrawlNext(c)
  \/ UserNext \/ Publish \/ NextFetchArrives \/ LeaseExpires

Spec == Init /\ [][Next]_vars

\* The worker polls for due feeds, started work and its deadline go on, time
\* passes, and the lease of a dead holder runs out.
FairSpec ==
  /\ Spec
  /\ \A c \in Crawl : /\ WF_vars(ClaimDue(c))
                      /\ WF_vars(WorkStep(c) \/ WriteStep(c))
                      /\ WF_vars(ControlStep(c))
                      /\ WF_vars(WriteStep(c) /\ ctl[c] = "terminal")
  /\ WF_vars(LeaseExpires)

-----------------------------------------------------------------------------
(* Properties.                                                             *)

Status  == {"active", "error", "disabled"}
FeedRow == [status : Status, automatic : BOOLEAN,
            next : {"none", "due", "later"}, quarantined : BOOLEAN,
            owner : Crawl \cup {NoCrawl}, live : BOOLEAN,
            endpoint : 0 .. MaxChanges, validators : Rep \cup {NoRep},
            imported : BOOLEAN]
Memory  == [status : Status, automatic : BOOLEAN, endpoint : 0 .. MaxChanges,
            validators : Rep \cup {NoRep}, imported : BOOLEAN]
Gotten  == [type : Outcome, rep : Rep \cup {NoRep}]
Planned == [outcome : Outcome, complete : BOOLEAN, live : BOOLEAN,
            fallback : BOOLEAN]
AtWork  == {"idle", "attempt", "acquire", "items", "stored", "terminal",
            "succeeded", "failed"}
AtCtl   == {"idle", "racing", "terminal", "release", "observe"}

\* Types, and that a live lease always has a holder.
TypeOK ==
  /\ feed \in FeedRow /\ (feed.live => feed.owner # NoCrawl)
  /\ body \in 0 .. MaxChanges /\ faults \in 0 .. MaxChanges
  /\ edits \in 0 .. MaxChanges /\ feed.endpoint <= edits
  /\ work \in [Crawl -> AtWork] /\ ctl \in [Crawl -> AtCtl]
  /\ mem \in [Crawl -> Memory] /\ got \in [Crawl -> Gotten]
  /\ plan \in [Crawl -> Planned]
  /\ attempted \subseteq Crawl /\ aborted \subseteq Crawl
  /\ superseded \subseteq Crawl /\ recorded \subseteq Crawl

\* An execution whose feed another execution has claimed since, or whose
\* endpoint or credentials were replaced, starts no attempt, stores no item
\* and records no outcome any more, however late its threads wake.
SupersededNeverWrites ==
  [][\A c \in superseded :
       /\ work[c] = "attempt" => work'[c] # "acquire"
       /\ work[c] = "items" => work'[c] # "stored"
       /\ c \in recorded' => c \in recorded]_vars

\* A lease held and live ends by a step of its own execution, by running out
\* or by a replaced endpoint: no other execution's cleanup releases it.
LeaseEndsWithItsCrawl ==
  [][\A c \in Crawl :
       Owned(c) /\ feed'.owner # c
         => work'[c] # work[c] \/ ctl'[c] # ctl[c]
            \/ feed'.endpoint # feed.endpoint]_vars

\* A feed switched off while it is being crawled is not scheduled again by
\* the terminal write of that crawl, which was planned with the old interval.
OffStaysOff == ~feed.automatic => feed.next = "none"

\* The validators sent with the next request come from the endpoint and the
\* credentials in force, never from a crawl of the former ones.
ValidatorsMatchEndpoint ==
  feed.validators # NoRep => feed.validators[1] = feed.endpoint

\* Until one import has stored every item, no execution takes the feed to be
\* unchanged, whatever earlier partial imports recorded.
IncompleteImportIsFetched ==
  \A c \in Crawl : got[c].type = "unchanged" => mem[c].imported

\* Why the properties above hold: an execution that still owns the lease knows
\* the endpoint in force, and holds validators of an incomplete import neither
\* in its memory nor in what it acquired; one that was superseded has lost the
\* lease for good.
KnowledgeOf(c) ==
  /\ work[c] = "idle" => got[c] = NoGot
  /\ ctl[c] = "terminal" => c \in aborted
  /\ feed.owner = c /\ c \notin aborted /\ work[c] \in {"attempt", "acquire"}
       => mem[c].endpoint = feed.endpoint
  /\ feed.owner = c /\ c \notin aborted /\ work[c] \in {"items", "stored"}
       => got[c].rep # NoRep /\ got[c].rep[1] = feed.endpoint
  /\ plan[c].outcome = "changed" => work[c] = "terminal"
  /\ feed.owner = c /\ plan[c].outcome = "changed"
       => got[c].rep # NoRep /\ got[c].rep[1] = feed.endpoint
  /\ work[c] = "acquire" /\ ~mem[c].imported => mem[c].validators = NoRep

OwnerKnows ==
  /\ ValidatorsMatchEndpoint /\ IncompleteImportIsFetched
  /\ \A c \in superseded : feed.owner # c
  /\ \A c \in Crawl : KnowledgeOf(c)

\* A feed that is active and due is requested in the end, although holders of
\* its lease crash or stall, unless it is rescheduled or switched off first.
DueFeedIsRequested ==
  Due ~> (~Due \/ \E c \in Crawl : work[c] = "acquire")

\* crawl.js: "Persists exactly one terminal fetch transition for each
\* selected feed."  Stated for executions that met no fault and kept the feed.
ExactlyOneTerminal ==
  \A c \in Crawl : ctl[c] = "observe" /\ c \notin superseded /\ faults = 0
                     => c \in recorded

\* docs/feeds-and-categories.md: "Disabling a feed stops its normal scheduled
\* crawling."  No execution's write takes a feed out of the disabled state.
DisabledStaysDisabled ==
  [][feed.status = "disabled" /\ recorded' \ recorded # {}
       => feed'.status = "disabled"]_vars
=============================================================================
