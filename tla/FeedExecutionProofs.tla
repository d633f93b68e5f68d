------------------------- MODULE FeedExecutionProofs -------------------------
(***************************************************************************)
(* Theorems about FeedExecution for every set of executions and every      *)
(* value of the bounds.                                                    *)
(***************************************************************************)
EXTENDS FeedExecution, TLAPS

-----------------------------------------------------------------------------
(* Every update of a row, of a memory or of a plan keeps its type.         *)

LEMMA Initial ==
  /\ NoRep \in Rep \cup {NoRep}
  /\ NewFeed \in FeedRow /\ Snapshot(NewFeed) \in Memory
  /\ NoGot \in Gotten /\ NoPlan \in Planned
BY FeedExecutionAssumption
   DEF NewFeed, FeedRow, Status, Snapshot, Memory, NoGot, Gotten, NoPlan, Planned,
       Outcome, Fetched, Rep

LEMMA RowTypes ==
  ASSUME NEW f \in FeedRow
  PROVE  /\ Snapshot(f) \in Memory
         /\ Unleased(f) \in FeedRow /\ StoppedLease(f) \in FeedRow
         /\ \A c \in Crawl : Leased(f, c) \in FeedRow
         /\ \A c \in Crawl : ForAttempt(c, f) \in FeedRow
BY DEF FeedRow, Memory, Snapshot, Unleased, StoppedLease, Leased, ForAttempt

\* The thread's own state is all a planned write changes.
LEMMA PlanType ==
  ASSUME TypeOK, NEW c \in Crawl, NEW outcome \in Outcome, NEW complete \in BOOLEAN,
         Plan(c, outcome, complete)
  PROVE  plan' \in [Crawl -> Planned] /\ attempted' \subseteq Crawl
<1>1. Owned(c) \in BOOLEAN
  BY DEF TypeOK, FeedRow, Owned
<1>2. [outcome |-> outcome, complete |-> complete, live |-> Owned(c),
       fallback |-> FALSE] \in Planned
  BY <1>1 DEF Planned
<1>3. QED
  BY <1>2 DEF TypeOK, Plan

-----------------------------------------------------------------------------
(* Type correctness.                                                       *)

LEMMA ClaimType ==
  ASSUME TypeOK, NEW c \in Crawl, Claim(c)
  PROVE  TypeOK'
<1>1. feed' \in FeedRow /\ feed'.owner = c /\ feed'.endpoint = feed.endpoint
  BY RowTypes DEF TypeOK, Claim, Leased, FeedRow
<1>2. mem' \in [Crawl -> Memory]
  BY RowTypes DEF TypeOK, Claim
<1>3. work' \in [Crawl -> AtWork] /\ ctl' \in [Crawl -> AtCtl]
  BY DEF TypeOK, Claim, AtWork, AtCtl
<1>4. superseded' \subseteq Crawl
  BY DEF Claim
<1>5. QED
  BY <1>1, <1>2, <1>3, <1>4, FeedExecutionAssumption DEF TypeOK, Claim

LEMMA ReleaseType ==
  ASSUME TypeOK, NEW c \in Crawl, Release(c)
  PROVE  TypeOK'
<1>1. feed' \in FeedRow /\ (feed'.live => feed'.owner # NoCrawl)
      /\ feed'.endpoint = feed.endpoint
  BY RowTypes DEF TypeOK, Release, Released, Unleased, FeedRow
<1>2. ctl' \in [Crawl -> AtCtl]
  BY DEF TypeOK, Release, AtCtl
<1>3. QED
  BY <1>1, <1>2 DEF TypeOK, Release

LEMMA LeaseExpiresType ==
  ASSUME TypeOK, LeaseExpires
  PROVE  TypeOK'
<1>1. feed' \in FeedRow /\ ~feed'.live /\ feed'.endpoint = feed.endpoint
  BY DEF TypeOK, LeaseExpires, FeedRow
<1>2. faults' \in 0 .. MaxChanges
  BY FeedExecutionAssumption DEF TypeOK, LeaseExpires, Fault
<1>3. QED
  BY <1>1, <1>2 DEF TypeOK, LeaseExpires, execVars

\* What a thread keeps after its terminal write.
LEMMA AfterTerminalType ==
  ASSUME TypeOK, NEW c \in Crawl, NEW result \in {"succeeded", "failed"},
         NEW status \in Status, AfterTerminal(c, result, status)
  PROVE  /\ plan' \in [Crawl -> Planned] /\ got' \in [Crawl -> Gotten]
         /\ mem' \in [Crawl -> Memory]
         /\ work' \in [Crawl -> AtWork] /\ ctl' \in [Crawl -> AtCtl]
<1>1. [Snapshot(NewFeed) EXCEPT !.status = status] \in Memory
  BY Initial DEF Memory
<1>2. work' \in [Crawl -> AtWork] /\ ctl' \in [Crawl -> AtCtl]
  BY DEF TypeOK, AfterTerminal, AtWork, AtCtl
<1>3. QED
  BY <1>1, <1>2, Initial DEF TypeOK, AfterTerminal

LEMMA TerminalRowType ==
  ASSUME TypeOK, NEW c \in Crawl
  PROVE  /\ TerminalStatus(c) \in Status
         /\ TerminalRow(c) \in FeedRow /\ ~TerminalRow(c).live
         /\ TerminalRow(c).endpoint = feed.endpoint
         /\ TerminalRow(c).owner = NoCrawl
<1>1. TerminalStatus(c) \in Status
  BY DEF TypeOK, TerminalStatus, Memory, Status
<1>2. TerminalNext(c) \in {"none", "due", "later"}
  BY DEF TerminalNext
<1>3. got[c].rep \in Rep \cup {NoRep} /\ plan[c].complete \in BOOLEAN
  BY DEF TypeOK, Gotten, Planned
<1>4. /\ Unleased(feed) \in FeedRow /\ ~Unleased(feed).live
      /\ Unleased(feed).endpoint = feed.endpoint /\ Unleased(feed).owner = NoCrawl
  BY RowTypes DEF TypeOK, Unleased, FeedRow
<1>5. (Unleased(feed).imported \/ plan[c].complete) \in BOOLEAN
      /\ (plan[c].outcome = "rejected") \in BOOLEAN
  BY <1>3, <1>4 DEF FeedRow
<1>6. (IF plan[c].outcome = "changed" THEN got[c].rep ELSE Unleased(feed).validators)
        \in Rep \cup {NoRep}
  BY <1>3, <1>4 DEF FeedRow
<1>7. TerminalRow(c) \in FeedRow
  BY <1>1, <1>2, <1>4, <1>5, <1>6 DEF TerminalRow, FeedRow
<1>8. /\ TerminalRow(c).live = Unleased(feed).live
      /\ TerminalRow(c).endpoint = Unleased(feed).endpoint
      /\ TerminalRow(c).owner = Unleased(feed).owner
  BY <1>4 DEF TerminalRow, FeedRow
<1>9. QED
  BY <1>1, <1>4, <1>7, <1>8

LEMMA WriteType ==
  ASSUME TypeOK, NEW c \in Crawl, WriteStep(c)
  PROVE  TypeOK'
<1>1. CASE Complete(c)
  <2>1. feed' \in FeedRow /\ ~feed'.live /\ feed'.endpoint = feed.endpoint
    BY <1>1, TerminalRowType DEF Complete
  <2>2. /\ plan' \in [Crawl -> Planned] /\ got' \in [Crawl -> Gotten]
        /\ mem' \in [Crawl -> Memory]
        /\ work' \in [Crawl -> AtWork] /\ ctl' \in [Crawl -> AtCtl]
    BY <1>1, TerminalRowType, AfterTerminalType DEF Complete
  <2>3. QED
    BY <1>1, <2>1, <2>2 DEF TypeOK, Complete
<1>2. CASE CompleteRefused(c)
  <2>1. mem[c].status \in Status
    BY DEF TypeOK, Memory
  <2>2. /\ plan' \in [Crawl -> Planned] /\ got' \in [Crawl -> Gotten]
        /\ mem' \in [Crawl -> Memory]
        /\ work' \in [Crawl -> AtWork] /\ ctl' \in [Crawl -> AtCtl]
    BY <1>2, <2>1, AfterTerminalType DEF CompleteRefused
  <2>3. QED
    BY <1>2, <2>2 DEF TypeOK, CompleteRefused
<1>3. QED
  BY <1>1, <1>2 DEF WriteStep

LEMMA CompleteThrowsType ==
  ASSUME TypeOK, NEW c \in Crawl, CompleteThrows(c)
  PROVE  TypeOK'
<1>1. faults' \in 0 .. MaxChanges
  BY FeedExecutionAssumption DEF TypeOK, CompleteThrows, Fault
<1>2. /\ plan' \in [Crawl -> Planned] /\ got' \in [Crawl -> Gotten]
      /\ mem' \in [Crawl -> Memory]
      /\ work' \in [Crawl -> AtWork] /\ ctl' \in [Crawl -> AtCtl]
  <2>1. CASE plan[c].fallback
    <3>1. mem[c].status \in Status
      BY DEF TypeOK, Memory
    <3>2. QED
      BY <2>1, <3>1, AfterTerminalType DEF CompleteThrows
  <2>2. CASE ~plan[c].fallback
    <3>1. Owned(c) \in BOOLEAN /\ "failed" \in Outcome
      BY DEF TypeOK, FeedRow, Owned, Outcome
    <3>2. [outcome |-> "failed", complete |-> FALSE, live |-> Owned(c),
           fallback |-> TRUE] \in Planned
      BY <3>1 DEF Planned
    <3>3. QED
      BY <2>2, <3>2 DEF TypeOK, CompleteThrows
  <2>3. QED
    BY <2>1, <2>2
<1>3. QED
  BY <1>1, <1>2 DEF TypeOK, CompleteThrows

\* The threads' state in one piece: what a step of a thread has to keep.
ThreadTypes ==
  /\ work \in [Crawl -> AtWork] /\ got \in [Crawl -> Gotten]
  /\ plan \in [Crawl -> Planned] /\ attempted \subseteq Crawl

LEMMA FailsType ==
  ASSUME TypeOK, NEW c \in Crawl, NEW acquired \in Gotten, Fails(c, acquired)
  PROVE  ThreadTypes'
<1>1. work' \in [Crawl -> AtWork] /\ got' \in [Crawl -> Gotten]
  BY Initial DEF TypeOK, Fails, AtWork
<1>2. plan' \in [Crawl -> Planned] /\ attempted' \subseteq Crawl
  <2>1. CASE c \in aborted
    BY <2>1 DEF TypeOK, Fails
  <2>2. CASE c \notin aborted
    <3>1. acquired.type \in Outcome /\ FALSE \in BOOLEAN
      BY DEF Gotten
    <3>2. Plan(c, acquired.type, FALSE)
      BY <2>2 DEF Fails
    <3>3. QED
      BY <3>1, <3>2, PlanType
  <2>3. QED
    BY <2>1, <2>2
<1>3. QED
  BY <1>1, <1>2 DEF ThreadTypes

LEMMA BeginAttemptType ==
  ASSUME TypeOK, NEW c \in Crawl, BeginAttempt(c)
  PROVE  TypeOK'
<1>1. CASE c \notin aborted /\ Owned(c)
  <2>1. feed' \in FeedRow /\ (feed'.live => feed'.owner # NoCrawl)
        /\ feed'.endpoint = feed.endpoint
    BY <1>1, RowTypes DEF TypeOK, BeginAttempt, ForAttempt, FeedRow
  <2>2. mem' \in [Crawl -> Memory]
    <3>1. ForAttempt(c, mem[c]) \in Memory
      BY DEF TypeOK, ForAttempt, Memory
    <3>2. QED
      BY <1>1, <3>1 DEF TypeOK, BeginAttempt
  <2>3. work' \in [Crawl -> AtWork]
    BY <1>1 DEF TypeOK, BeginAttempt, AtWork
  <2>4. QED
    BY <1>1, <2>1, <2>2, <2>3 DEF TypeOK, BeginAttempt, WorkUnchanged
<1>2. CASE ~(c \notin aborted /\ Owned(c))
  <2>1. ThreadTypes'
    BY <1>2, FailsType, Initial DEF BeginAttempt
  <2>2. QED
    BY <1>2, <2>1 DEF TypeOK, BeginAttempt, WorkUnchanged, ThreadTypes
<1>3. QED
  BY <1>1, <1>2

LEMMA SetupFailsType ==
  ASSUME TypeOK, NEW c \in Crawl, SetupFails(c)
  PROVE  TypeOK'
<1>1. faults' \in 0 .. MaxChanges
  BY FeedExecutionAssumption DEF TypeOK, SetupFails, Fault
<1>2. work' \in [Crawl -> AtWork]
  BY DEF TypeOK, SetupFails, AtWork
<1>3. QED
  BY <1>1, <1>2 DEF TypeOK, SetupFails, WorkUnchanged

LEMMA AcquireType ==
  ASSUME TypeOK, NEW c \in Crawl, Acquire(c)
  PROVE  TypeOK'
<1>1. PICK type \in {"failed", "rejected", "unchanged", "changed"} :
        IF c \notin aborted /\ Owned(c) /\ type = "changed"
        THEN /\ work' = [work EXCEPT ![c] = "items"]
             /\ got' = [got EXCEPT ![c] = [type |-> type, rep |-> <<mem[c].endpoint, body>>]]
             /\ UNCHANGED <<plan, attempted>>
        ELSE Fails(c, [type |-> type, rep |-> <<mem[c].endpoint, body>>])
  BY DEF Acquire
<1>2. [type |-> type, rep |-> <<mem[c].endpoint, body>>] \in Gotten
  <2>1. <<mem[c].endpoint, body>> \in Rep
    BY DEF TypeOK, Memory, Rep
  <2>2. QED
    BY <2>1 DEF Gotten, Outcome, Fetched
<1>3. ThreadTypes'
  <2>1. CASE c \notin aborted /\ Owned(c) /\ type = "changed"
    BY <1>1, <1>2, <2>1 DEF TypeOK, ThreadTypes, AtWork
  <2>2. CASE ~(c \notin aborted /\ Owned(c) /\ type = "changed")
    BY <1>1, <1>2, <2>2, FailsType
  <2>3. QED
    BY <2>1, <2>2
<1>4. QED
  BY <1>3 DEF TypeOK, Acquire, WorkUnchanged, ThreadTypes

LEMMA StoreItemsType ==
  ASSUME TypeOK, NEW c \in Crawl, StoreItems(c)
  PROVE  TypeOK'
<1>1. got[c] \in Gotten
  BY DEF TypeOK
<1>2. ThreadTypes'
  <2>1. CASE Fails(c, got[c])
    BY <1>1, <2>1, FailsType
  <2>2. CASE work' = [work EXCEPT ![c] = "stored"] /\ UNCHANGED <<got, plan, attempted>>
    BY <2>2 DEF TypeOK, ThreadTypes, AtWork
  <2>3. QED
    BY <2>1, <2>2 DEF StoreItems
<1>3. QED
  BY <1>2 DEF TypeOK, StoreItems, WorkUnchanged, ThreadTypes

LEMMA FinishType ==
  ASSUME TypeOK, NEW c \in Crawl, Finish(c)
  PROVE  TypeOK'
<1>1. got[c] \in Gotten
  BY DEF TypeOK
<1>2. ThreadTypes'
  <2>1. CASE Fails(c, got[c])
    BY <1>1, <2>1, FailsType
  <2>2. CASE /\ work' = [work EXCEPT ![c] = "terminal"]
             /\ Plan(c, "changed", TRUE) /\ UNCHANGED got
    <3>1. "changed" \in Outcome /\ TRUE \in BOOLEAN
      BY DEF Outcome, Fetched
    <3>2. plan' \in [Crawl -> Planned] /\ attempted' \subseteq Crawl
      BY <2>2, <3>1, PlanType
    <3>3. QED
      BY <2>2, <3>2 DEF TypeOK, ThreadTypes, AtWork
  <2>3. QED
    BY <2>1, <2>2 DEF Finish
<1>3. QED
  BY <1>2 DEF TypeOK, Finish, WorkUnchanged, ThreadTypes

LEMMA TimeoutType ==
  ASSUME TypeOK, NEW c \in Crawl, Timeout(c)
  PROVE  TypeOK'
<1>1. plan' \in [Crawl -> Planned] /\ attempted' \subseteq Crawl
  <2>1. CASE c \in attempted
    BY <2>1 DEF TypeOK, Timeout
  <2>2. CASE c \notin attempted
    <3>1. "timeout" \in Outcome /\ FALSE \in BOOLEAN /\ Plan(c, "timeout", FALSE)
      BY <2>2 DEF Timeout, Outcome
    <3>2. QED
      BY <3>1, PlanType
  <2>3. QED
    BY <2>1, <2>2
<1>2. ctl' \in [Crawl -> AtCtl]
  BY DEF TypeOK, Timeout, AtCtl
<1>3. QED
  BY <1>1, <1>2 DEF TypeOK, Timeout

LEMMA ForgetType ==
  ASSUME TypeOK, NEW c \in Crawl, Forget(c)
  PROVE  /\ work' \in [Crawl -> AtWork] /\ ctl' \in [Crawl -> AtCtl]
         /\ mem' \in [Crawl -> Memory] /\ got' \in [Crawl -> Gotten]
         /\ plan' \in [Crawl -> Planned]
         /\ attempted' \subseteq Crawl /\ aborted' \subseteq Crawl
         /\ superseded' \subseteq Crawl /\ recorded' \subseteq Crawl
BY Initial DEF TypeOK, Forget, AtWork, AtCtl

LEMMA ObserveType ==
  ASSUME TypeOK, NEW c \in Crawl, Observe(c)
  PROVE  TypeOK'
<1>1. feed' \in FeedRow /\ (feed'.live => feed'.owner # NoCrawl)
      /\ feed'.endpoint = feed.endpoint
  BY DEF TypeOK, Observe, FeedRow, Status
<1>2. QED
  BY <1>1, ForgetType DEF TypeOK, Observe, Forget

LEMMA CrashType ==
  ASSUME TypeOK, NEW c \in Crawl, Crash(c)
  PROVE  TypeOK'
<1>1. faults' \in 0 .. MaxChanges
  BY FeedExecutionAssumption DEF TypeOK, Crash, Fault
<1>2. QED
  BY <1>1, ForgetType DEF TypeOK, Crash, Forget

\* The steps of the user, of the publisher and of time.
EnvironmentNext == UserNext \/ Publish \/ NextFetchArrives

LEMMA EnvironmentType ==
  ASSUME TypeOK, EnvironmentNext
  PROVE  TypeOK'
<1>1. CASE Publish
  BY <1>1, FeedExecutionAssumption DEF TypeOK, Publish, execVars
<1>2. CASE NextFetchArrives
  BY <1>2 DEF TypeOK, NextFetchArrives, execVars, FeedRow
<1>3. ASSUME NEW status \in {"active", "disabled"}, SetStatus(status)
      PROVE  TypeOK'
  BY <1>3, FeedExecutionAssumption
     DEF TypeOK, SetStatus, Edit, execVars, FeedRow, Status
<1>4. ASSUME NEW b \in BOOLEAN, SetInterval(b)
      PROVE  TypeOK'
  <2>1. edits' \in 0 .. MaxChanges /\ feed.endpoint <= edits'
    BY <1>4, FeedExecutionAssumption DEF TypeOK, SetInterval, Edit, FeedRow
  <2>2. feed' \in FeedRow /\ feed'.live = feed.live /\ feed'.owner = feed.owner
        /\ feed'.endpoint = feed.endpoint
    BY <1>4 DEF TypeOK, SetInterval, FeedRow
  <2>3. QED
    BY <1>4, <2>1, <2>2 DEF TypeOK, SetInterval, Edit, execVars
<1>5. ASSUME NEW b \in BOOLEAN, ReplaceEndpoint(b)
      PROVE  TypeOK'
  <2>1. edits < MaxChanges /\ edits' = edits + 1 /\ edits' \in 0 .. MaxChanges
    BY <1>5, FeedExecutionAssumption DEF TypeOK, ReplaceEndpoint, Edit
  <2>2. feed.endpoint + 1 \in 0 .. MaxChanges /\ feed.endpoint + 1 <= edits'
    BY <2>1, FeedExecutionAssumption DEF TypeOK, FeedRow
  <2>3. /\ StoppedLease(feed) \in FeedRow /\ ~StoppedLease(feed).live
        /\ StoppedLease(feed).endpoint = feed.endpoint
    BY RowTypes DEF TypeOK, StoppedLease, Unleased, FeedRow
  <2>4. feed' \in FeedRow /\ ~feed'.live /\ feed'.endpoint = feed.endpoint + 1
    BY <1>5, <2>2, <2>3 DEF ReplaceEndpoint, Replaced, FeedRow, Status
  <2>5. QED
    BY <1>5, <2>1, <2>2, <2>4 DEF TypeOK, ReplaceEndpoint, Edit, execVars
<1>6. QED
  BY <1>1, <1>2, <1>3, <1>4, <1>5 DEF EnvironmentNext, UserNext

\* Every row, memory, plan and thread keeps its type, the endpoint counts the
\* user's edits, and a live lease has a holder (feedClaims.js).
THEOREM TypeCorrect == Spec => []TypeOK
<1>1. Init => TypeOK
  <2>1. /\ 0 \in 0 .. MaxChanges
        /\ NewFeed.endpoint = 0 /\ ~NewFeed.live
    BY FeedExecutionAssumption DEF NewFeed
  <2>2. "idle" \in AtWork /\ "idle" \in AtCtl
    BY DEF AtWork, AtCtl
  <2>3. QED
    BY <2>1, <2>2, Initial DEF Init, TypeOK
<1>2. TypeOK /\ [Next]_vars => TypeOK'
  <2>1. SUFFICES ASSUME TypeOK, [Next]_vars
                 PROVE  TypeOK'
    OBVIOUS
  <2>2. ASSUME NEW c \in Crawl, CrawlNext(c)
        PROVE  TypeOK'
    BY <2>1, <2>2, ClaimType, BeginAttemptType, AcquireType, StoreItemsType,
       FinishType, WriteType, ReleaseType, ObserveType, TimeoutType,
       CompleteThrowsType, SetupFailsType, CrashType
       DEF CrawlNext, ClaimDue, ClaimById, WorkStep, ControlStep
  <2>3. CASE UNCHANGED vars
    BY <2>1, <2>3 DEF TypeOK, vars, execVars
  <2>4. QED
    BY <2>1, <2>2, <2>3, LeaseExpiresType, EnvironmentType DEF Next, EnvironmentNext
<1>3. QED
  BY <1>1, <1>2, PTL DEF Spec

-----------------------------------------------------------------------------
(* What the owner of the lease knows.                                      *)

\* The thread of d takes no step, and neither gains the lease nor a new
\* endpoint by the step of another.
Undisturbed(d) ==
  /\ work'[d] = work[d] /\ mem'[d] = mem[d] /\ got'[d] = got[d] /\ plan'[d] = plan[d]
  /\ feed'.endpoint = feed.endpoint
  /\ feed'.owner = d => feed.owner = d
  /\ d \in aborted => d \in aborted'
  /\ ctl'[d] = "terminal" => ctl[d] = "terminal"

LEMMA UndisturbedKnows ==
  ASSUME NEW d \in Crawl, KnowledgeOf(d), Undisturbed(d)
  PROVE  KnowledgeOf(d)'
BY DEF KnowledgeOf, Undisturbed

\* The row's own part of the invariant: who is superseded stays without the
\* lease, and the validators belong to the endpoint.
RowKnows == ValidatorsMatchEndpoint /\ \A c \in superseded : feed.owner # c

LEMMA ThreadKnows ==
  ASSUME OwnerKnows, RowKnows', NEW c \in Crawl, KnowledgeOf(c)',
         got'[c].type = "unchanged" => mem'[c].imported,
         \A d \in Crawl \ {c} : Undisturbed(d)
  PROVE  OwnerKnows'
<1>1. ASSUME NEW d \in Crawl
      PROVE  KnowledgeOf(d)' /\ (got'[d].type = "unchanged" => mem'[d].imported)
  <2>1. CASE d = c
    BY <2>1
  <2>2. CASE d # c
    BY <2>2, UndisturbedKnows DEF OwnerKnows, Undisturbed, IncompleteImportIsFetched
  <2>3. QED
    BY <2>1, <2>2
<1>2. QED
  BY <1>1 DEF OwnerKnows, RowKnows, IncompleteImportIsFetched

LEMMA ClaimKnows ==
  ASSUME TypeOK, OwnerKnows, NEW c \in Crawl, Claim(c)
  PROVE  OwnerKnows'
<1>1. /\ feed'.owner = c /\ feed'.endpoint = feed.endpoint
      /\ feed'.validators = feed.validators
  BY DEF TypeOK, FeedRow, Claim, Leased
<1>2. RowKnows'
  BY <1>1 DEF OwnerKnows, RowKnows, ValidatorsMatchEndpoint, Claim, Idle
<1>3. mem'[c].endpoint = feed.endpoint /\ work'[c] = "attempt" /\ plan'[c] = plan[c]
  BY DEF TypeOK, Claim, Snapshot
<1>4. plan[c].outcome # "changed" /\ got'[c] = got[c]
  BY DEF OwnerKnows, KnowledgeOf, Claim, Idle
<1>5. KnowledgeOf(c)'
  BY <1>1, <1>3, <1>4 DEF TypeOK, KnowledgeOf, Claim
<1>6. \A d \in Crawl \ {c} : Undisturbed(d)
  BY <1>1 DEF TypeOK, Claim, Undisturbed
<1>7. QED
  <2>1. got[c].type = "unchanged" => mem'[c].imported
    BY DEF OwnerKnows, KnowledgeOf, Claim, Idle, NoGot
  <2>2. QED
    BY <1>2, <1>4, <1>5, <1>6, <2>1, ThreadKnows

\* A step that changes of the row nothing but who owns the lease, and gives
\* the lease to nobody, keeps the row's part.
RowKept ==
  /\ feed'.endpoint = feed.endpoint
  /\ feed'.owner \in {feed.owner, NoCrawl}
  /\ feed'.validators \in {feed.validators, NoRep}
  /\ superseded' \subseteq superseded

LEMMA KeptRowKnows ==
  ASSUME TypeOK, OwnerKnows, RowKept
  PROVE  RowKnows' /\ \A d \in Crawl : feed'.owner = d => feed.owner = d
BY FeedExecutionAssumption DEF TypeOK, OwnerKnows, RowKept, RowKnows, ValidatorsMatchEndpoint

LEMMA ReleaseKnows ==
  ASSUME TypeOK, OwnerKnows, NEW c \in Crawl, Release(c)
  PROVE  OwnerKnows'
<1>1. RowKept
  BY DEF TypeOK, FeedRow, Release, Released, Unleased, RowKept
<1>2. \A d \in Crawl : Undisturbed(d)
  BY <1>1, KeptRowKnows DEF TypeOK, Release, Undisturbed, RowKept
<1>3. QED
  BY <1>1, <1>2, KeptRowKnows, UndisturbedKnows
     DEF OwnerKnows, RowKnows, Undisturbed, IncompleteImportIsFetched

\* Steps that no thread takes part in and that keep the row's part.
LEMMA IdleKnows ==
  ASSUME TypeOK, OwnerKnows, RowKept, UNCHANGED execVars
  PROVE  OwnerKnows'
<1>1. \A d \in Crawl : Undisturbed(d)
  BY KeptRowKnows DEF execVars, Undisturbed, RowKept
<1>2. QED
  BY <1>1, KeptRowKnows, UndisturbedKnows
     DEF OwnerKnows, RowKnows, Undisturbed, IncompleteImportIsFetched

LEMMA ReplaceKnows ==
  ASSUME TypeOK, OwnerKnows, NEW b \in BOOLEAN, ReplaceEndpoint(b)
  PROVE  OwnerKnows'
<1>1. /\ StoppedLease(feed) \in FeedRow /\ StoppedLease(feed).owner = NoCrawl
  BY RowTypes DEF TypeOK, StoppedLease, Unleased, FeedRow
<1>2. feed'.owner = NoCrawl /\ feed'.validators = NoRep
  BY <1>1 DEF ReplaceEndpoint, Replaced, FeedRow
<1>3. \A d \in Crawl : feed'.owner # d
  BY <1>2, FeedExecutionAssumption
<1>4. UNCHANGED execVars /\ superseded' \subseteq Crawl
  BY DEF ReplaceEndpoint, Edit
<1>5. ASSUME NEW d \in Crawl
      PROVE  KnowledgeOf(d)'
  BY <1>3, <1>4 DEF OwnerKnows, KnowledgeOf, execVars
<1>6. QED
  BY <1>2, <1>3, <1>4, <1>5
     DEF OwnerKnows, ValidatorsMatchEndpoint, IncompleteImportIsFetched, execVars

\* A terminal write leaves its thread with nothing to know.
LEMMA AfterTerminalKnows ==
  ASSUME TypeOK, OwnerKnows, NEW c \in Crawl, NEW result \in {"succeeded", "failed"},
         NEW status \in Status, AfterTerminal(c, result, status), Persisting(c),
         UNCHANGED <<superseded, aborted>>,
         feed'.endpoint = feed.endpoint, feed'.owner \in {feed.owner, NoCrawl},
         ValidatorsMatchEndpoint'
  PROVE  OwnerKnows'
<1>1. got'[c] = NoGot /\ plan'[c] = NoPlan /\ mem'[c].validators = NoRep
  BY Initial DEF TypeOK, AfterTerminal, Snapshot, NewFeed, Memory
<1>2. \/ work'[c] \in {"succeeded", "failed"} /\ ctl'[c] = ctl[c]
      \/ work'[c] = work[c] /\ ctl'[c] = "release" /\ c \in aborted
  <2>1. CASE work[c] = "terminal"
    BY <2>1 DEF TypeOK, AfterTerminal
  <2>2. CASE work[c] # "terminal"
    BY <2>2 DEF TypeOK, AfterTerminal, Persisting, OwnerKnows, KnowledgeOf
  <2>3. QED
    BY <2>1, <2>2
<1>3. KnowledgeOf(c)'
  <2>1. NoPlan.outcome # "changed" /\ (ctl[c] = "terminal" => c \in aborted)
    BY DEF NoPlan, OwnerKnows, KnowledgeOf
  <2>2. QED
    BY <1>1, <1>2, <2>1 DEF KnowledgeOf
<1>4. \A d \in Crawl \ {c} : Undisturbed(d)
  BY FeedExecutionAssumption DEF TypeOK, AfterTerminal, Undisturbed
<1>5. RowKnows'
  BY FeedExecutionAssumption DEF TypeOK, OwnerKnows, RowKnows
<1>6. QED
  BY <1>1, <1>3, <1>4, <1>5, ThreadKnows DEF NoGot

LEMMA WriteKnows ==
  ASSUME TypeOK, OwnerKnows, NEW c \in Crawl, WriteStep(c)
  PROVE  OwnerKnows'
<1>1. CASE Complete(c)
  <2>1. TerminalStatus(c) \in Status /\ feed'.endpoint = feed.endpoint
        /\ feed'.owner = NoCrawl
    BY <1>1, TerminalRowType DEF Complete
  <2>2. feed'.validators = IF plan[c].outcome = "changed" THEN got[c].rep
                           ELSE feed.validators
    BY <1>1, RowTypes DEF TypeOK, Complete, TerminalRow, Unleased, FeedRow
  <2>3. ValidatorsMatchEndpoint'
    BY <1>1, <2>1, <2>2
       DEF OwnerKnows, KnowledgeOf, ValidatorsMatchEndpoint, Complete, CanComplete
  <2>4. QED
    BY <1>1, <2>1, <2>3, AfterTerminalKnows DEF Complete
<1>2. CASE CompleteRefused(c)
  <2>1. mem[c].status \in Status
    BY DEF TypeOK, Memory
  <2>2. QED
    BY <1>2, <2>1, AfterTerminalKnows
       DEF CompleteRefused, OwnerKnows, ValidatorsMatchEndpoint
<1>3. QED
  BY <1>1, <1>2 DEF WriteStep

LEMMA CompleteThrowsKnows ==
  ASSUME TypeOK, OwnerKnows, NEW c \in Crawl, CompleteThrows(c)
  PROVE  OwnerKnows'
<1>1. CASE plan[c].fallback
  <2>1. mem[c].status \in Status
    BY DEF TypeOK, Memory
  <2>2. QED
    BY <1>1, <2>1, AfterTerminalKnows
       DEF CompleteThrows, OwnerKnows, ValidatorsMatchEndpoint
<1>2. CASE ~plan[c].fallback
  <2>1. plan'[c].outcome = "failed" /\ UNCHANGED <<feed, superseded, aborted, work, ctl, mem, got>>
    BY <1>2 DEF TypeOK, CompleteThrows
  <2>2. KnowledgeOf(c)'
    BY <2>1 DEF OwnerKnows, KnowledgeOf
  <2>3. \A d \in Crawl \ {c} : Undisturbed(d)
    BY <1>2, <2>1 DEF TypeOK, CompleteThrows, Undisturbed
  <2>4. QED
    BY <2>1, <2>2, <2>3, ThreadKnows
       DEF OwnerKnows, RowKnows, ValidatorsMatchEndpoint, IncompleteImportIsFetched
<1>3. QED
  BY <1>1, <1>2

\* The steps of a thread that leave the row, the lease and the deadline alone.
WorkQuiet(c) ==
  /\ UNCHANGED <<feed, ctl, aborted, superseded, mem>>
  /\ \A d \in Crawl \ {c} : /\ work'[d] = work[d] /\ got'[d] = got[d]
                             /\ plan'[d] = plan[d]

LEMMA QuietKnows ==
  ASSUME OwnerKnows, NEW c \in Crawl, WorkQuiet(c), KnowledgeOf(c)',
         got'[c].type = "unchanged" => mem[c].imported
  PROVE  OwnerKnows'
<1>1. \A d \in Crawl \ {c} : Undisturbed(d)
  BY DEF WorkQuiet, Undisturbed
<1>2. RowKnows'
  BY DEF WorkQuiet, OwnerKnows, RowKnows, ValidatorsMatchEndpoint
<1>3. QED
  BY <1>1, <1>2, ThreadKnows DEF WorkQuiet

\* A failure records what was acquired, for the endpoint in force if the
\* execution still owns the lease.
LEMMA FailsKnows ==
  ASSUME TypeOK, OwnerKnows, NEW c \in Crawl, NEW acquired \in Gotten,
         Fails(c, acquired), UNCHANGED <<feed, ctl, aborted, superseded, mem>>,
         feed.owner = c /\ c \notin aborted /\ acquired.type = "changed"
           => acquired.rep # NoRep /\ acquired.rep[1] = feed.endpoint,
         acquired.type = "unchanged" => mem[c].imported,
         work[c] # "terminal"
  PROVE  OwnerKnows'
<1>1. WorkQuiet(c)
  BY DEF TypeOK, WorkQuiet, Fails, Plan
<1>2. plan[c].outcome # "changed"
  BY DEF OwnerKnows, KnowledgeOf
<1>3. CASE c \in aborted
  <2>1. work'[c] = "failed" /\ got'[c] = NoGot /\ plan'[c] = plan[c]
    BY <1>3 DEF TypeOK, Fails
  <2>2. KnowledgeOf(c)'
    BY <1>2, <1>3, <2>1 DEF KnowledgeOf
  <2>3. QED
    BY <1>1, <2>1, <2>2, QuietKnows DEF NoGot
<1>4. CASE c \notin aborted
  <2>1. work'[c] = "terminal" /\ got'[c] = acquired /\ plan'[c].outcome = acquired.type
    BY <1>4 DEF TypeOK, Fails, Plan
  <2>2. KnowledgeOf(c)'
    BY <1>4, <2>1 DEF KnowledgeOf, OwnerKnows
  <2>3. QED
    BY <1>1, <2>1, <2>2, QuietKnows
<1>5. QED
  BY <1>3, <1>4

LEMMA BeginAttemptKnows ==
  ASSUME TypeOK, OwnerKnows, NEW c \in Crawl, BeginAttempt(c)
  PROVE  OwnerKnows'
<1>1. CASE c \notin aborted /\ Owned(c)
  <2>1. /\ feed'.owner = feed.owner /\ feed'.endpoint = feed.endpoint
        /\ feed'.validators \in {feed.validators, NoRep}
    BY <1>1 DEF TypeOK, FeedRow, BeginAttempt, ForAttempt
  <2>2. /\ mem'[c].endpoint = mem[c].endpoint /\ mem'[c].imported = mem[c].imported
        /\ (~mem[c].imported => mem'[c].validators = NoRep)
        /\ work'[c] = "acquire" /\ got'[c] = got[c] /\ plan'[c] = plan[c]
    BY <1>1 DEF TypeOK, Memory, BeginAttempt, ForAttempt
  <2>3. /\ work[c] = "attempt" /\ UNCHANGED <<ctl, aborted, superseded>>
    BY <1>1 DEF BeginAttempt, WorkUnchanged
  <2>4. KnowledgeOf(c)'
    BY <2>1, <2>2, <2>3 DEF OwnerKnows, KnowledgeOf
  <2>5. \A d \in Crawl \ {c} : Undisturbed(d)
    BY <1>1, <2>1, <2>3 DEF TypeOK, BeginAttempt, Undisturbed
  <2>6. RowKnows'
    BY <2>1, <2>3 DEF OwnerKnows, RowKnows, ValidatorsMatchEndpoint
  <2>7. QED
    BY <2>2, <2>4, <2>5, <2>6, ThreadKnows DEF OwnerKnows, IncompleteImportIsFetched
<1>2. CASE ~(c \notin aborted /\ Owned(c))
  <2>1. /\ Fails(c, NoGot) /\ work[c] = "attempt"
        /\ UNCHANGED <<feed, ctl, aborted, superseded, mem>>
    BY <1>2 DEF BeginAttempt, WorkUnchanged
  <2>2. NoGot \in Gotten /\ NoGot.type = "failed"
    BY Initial DEF NoGot
  <2>3. QED
    BY <2>1, <2>2, FailsKnows
<1>3. QED
  BY <1>1, <1>2

LEMMA AcquireKnows ==
  ASSUME TypeOK, OwnerKnows, NEW c \in Crawl, Acquire(c)
  PROVE  OwnerKnows'
<1> DEFINE rep == <<mem[c].endpoint, body>>
<1>1. PICK type \in {"failed", "rejected",
                     IF mem[c].validators = rep THEN "unchanged" ELSE "changed"} :
        IF c \notin aborted /\ Owned(c) /\ type = "changed"
        THEN /\ work' = [work EXCEPT ![c] = "items"]
             /\ got' = [got EXCEPT ![c] = [type |-> type, rep |-> rep]]
             /\ UNCHANGED <<plan, attempted>>
        ELSE Fails(c, [type |-> type, rep |-> rep])
  BY DEF Acquire
<1>2. work[c] = "acquire" /\ UNCHANGED <<feed, ctl, aborted, superseded, mem>>
  BY DEF Acquire, WorkUnchanged
<1>3. rep \in Rep /\ rep # NoRep /\ rep[1] = mem[c].endpoint
  BY DEF TypeOK, Memory, Rep, NoRep
<1>4. feed.owner = c /\ c \notin aborted => rep[1] = feed.endpoint
  BY <1>2, <1>3 DEF OwnerKnows, KnowledgeOf
<1>5. type = "unchanged" => mem[c].imported
  BY <1>2, <1>3 DEF OwnerKnows, KnowledgeOf
<1>6. CASE c \notin aborted /\ Owned(c) /\ type = "changed"
  <2>1. /\ work'[c] = "items" /\ got'[c] = [type |-> type, rep |-> rep]
        /\ plan'[c] = plan[c]
    BY <1>1, <1>6 DEF TypeOK
  <2>2. KnowledgeOf(c)'
    BY <1>2, <1>3, <1>4, <1>6, <2>1 DEF OwnerKnows, KnowledgeOf
  <2>3. WorkQuiet(c)
    BY <1>1, <1>2, <1>6 DEF TypeOK, WorkQuiet
  <2>4. QED
    BY <1>6, <2>1, <2>2, <2>3, QuietKnows
<1>7. CASE ~(c \notin aborted /\ Owned(c) /\ type = "changed")
  <2>1. [type |-> type, rep |-> rep] \in Gotten
    BY <1>3 DEF Gotten, Outcome, Fetched
  <2>2. Fails(c, [type |-> type, rep |-> rep])
    BY <1>1, <1>7
  <2>3. QED
    BY <1>2, <1>3, <1>4, <1>5, <2>1, <2>2, FailsKnows
<1>8. QED
  BY <1>6, <1>7

\* What an execution with items to store acquired was changed or is unused.
LEMMA FailsWithItemsKnows ==
  ASSUME TypeOK, OwnerKnows, NEW c \in Crawl, work[c] \in {"items", "stored"},
         Fails(c, got[c]), UNCHANGED <<feed, ctl, aborted, superseded, mem>>
  PROVE  OwnerKnows'
<1>1. got[c] \in Gotten
  BY DEF TypeOK
<1>2. QED
  BY <1>1, FailsKnows DEF OwnerKnows, KnowledgeOf, IncompleteImportIsFetched

LEMMA StoreItemsKnows ==
  ASSUME TypeOK, OwnerKnows, NEW c \in Crawl, StoreItems(c)
  PROVE  OwnerKnows'
<1>1. work[c] = "items" /\ UNCHANGED <<feed, ctl, aborted, superseded, mem>>
  BY DEF StoreItems, WorkUnchanged
<1>2. CASE Fails(c, got[c])
  BY <1>1, <1>2, FailsWithItemsKnows
<1>3. CASE work' = [work EXCEPT ![c] = "stored"] /\ UNCHANGED <<got, plan, attempted>>
  <2>1. WorkQuiet(c) /\ work'[c] = "stored"
    BY <1>1, <1>3 DEF TypeOK, WorkQuiet
  <2>2. KnowledgeOf(c)'
    BY <1>1, <1>3, <2>1 DEF OwnerKnows, KnowledgeOf
  <2>3. QED
    BY <1>3, <2>1, <2>2, QuietKnows DEF OwnerKnows, IncompleteImportIsFetched
<1>4. QED
  BY <1>2, <1>3 DEF StoreItems

LEMMA FinishKnows ==
  ASSUME TypeOK, OwnerKnows, NEW c \in Crawl, Finish(c)
  PROVE  OwnerKnows'
<1>1. work[c] = "stored" /\ UNCHANGED <<feed, ctl, aborted, superseded, mem>>
  BY DEF Finish, WorkUnchanged
<1>2. CASE Fails(c, got[c])
  BY <1>1, <1>2, FailsWithItemsKnows
<1>3. CASE /\ c \notin aborted /\ work' = [work EXCEPT ![c] = "terminal"]
           /\ Plan(c, "changed", TRUE) /\ UNCHANGED got
  <2>1. WorkQuiet(c) /\ work'[c] = "terminal"
    BY <1>1, <1>3 DEF TypeOK, WorkQuiet, Plan
  <2>2. KnowledgeOf(c)'
    BY <1>1, <1>3, <2>1 DEF OwnerKnows, KnowledgeOf
  <2>3. QED
    BY <1>3, <2>1, <2>2, QuietKnows DEF OwnerKnows, IncompleteImportIsFetched
<1>4. QED
  BY <1>2, <1>3 DEF Finish

LEMMA SetupFailsKnows ==
  ASSUME TypeOK, OwnerKnows, NEW c \in Crawl, SetupFails(c)
  PROVE  OwnerKnows'
<1>1. WorkQuiet(c) /\ work'[c] = "failed" /\ UNCHANGED <<got, plan>>
  BY DEF TypeOK, SetupFails, WorkUnchanged, WorkQuiet
<1>2. plan[c].outcome # "changed" /\ UNCHANGED <<ctl, aborted>>
  BY DEF SetupFails, WorkUnchanged, OwnerKnows, KnowledgeOf
<1>3. KnowledgeOf(c)'
  BY <1>1, <1>2 DEF OwnerKnows, KnowledgeOf
<1>4. QED
  BY <1>1, <1>3, QuietKnows DEF OwnerKnows, IncompleteImportIsFetched

LEMMA TimeoutKnows ==
  ASSUME TypeOK, OwnerKnows, NEW c \in Crawl, Timeout(c)
  PROVE  OwnerKnows'
<1>1. /\ UNCHANGED <<feed, work, mem, got, superseded>>
      /\ c \in aborted' /\ \A d \in aborted : d \in aborted'
  BY DEF Timeout
<1>2. plan'[c] = plan[c] \/ plan'[c].outcome = "timeout"
  BY DEF TypeOK, Timeout, Plan
<1>3. KnowledgeOf(c)'
  BY <1>1, <1>2 DEF OwnerKnows, KnowledgeOf
<1>4. \A d \in Crawl \ {c} : Undisturbed(d)
  BY <1>1 DEF TypeOK, Timeout, Plan, Undisturbed
<1>5. QED
  BY <1>1, <1>3, <1>4, ThreadKnows
     DEF OwnerKnows, RowKnows, ValidatorsMatchEndpoint, IncompleteImportIsFetched

LEMMA ForgetKnows ==
  ASSUME TypeOK, OwnerKnows, NEW c \in Crawl, Forget(c), RowKept,
         feed'.owner = feed.owner
  PROVE  OwnerKnows'
<1>1. /\ work'[c] = "idle" /\ ctl'[c] = "idle" /\ got'[c] = NoGot /\ plan'[c] = NoPlan
  BY DEF TypeOK, Forget
<1>2. KnowledgeOf(c)'
  BY <1>1 DEF KnowledgeOf, NoPlan
<1>3. \A d \in Crawl \ {c} : Undisturbed(d)
  BY DEF TypeOK, Forget, Undisturbed, RowKept
<1>4. QED
  BY <1>1, <1>2, <1>3, KeptRowKnows, ThreadKnows DEF NoGot

LEMMA ObserveKnows ==
  ASSUME TypeOK, OwnerKnows, NEW c \in Crawl, Observe(c) \/ Crash(c)
  PROVE  OwnerKnows'
<1>1. /\ feed'.owner = feed.owner /\ feed'.endpoint = feed.endpoint
      /\ feed'.validators = feed.validators /\ Forget(c)
  BY DEF TypeOK, FeedRow, Observe, Crash
<1>2. RowKept
  BY <1>1 DEF RowKept, Forget
<1>3. QED
  BY <1>1, <1>2, ForgetKnows

LEMMA EnvironmentKnows ==
  ASSUME TypeOK, OwnerKnows, EnvironmentNext \/ LeaseExpires
  PROVE  OwnerKnows'
<1>1. CASE Publish \/ NextFetchArrives \/ LeaseExpires
  <2>1. RowKept /\ UNCHANGED execVars
    BY <1>1 DEF TypeOK, FeedRow, Publish, NextFetchArrives, LeaseExpires, RowKept
  <2>2. QED
    BY <2>1, IdleKnows
<1>2. ASSUME NEW status \in {"active", "disabled"}, SetStatus(status)
      PROVE  OwnerKnows'
  <2>1. RowKept /\ UNCHANGED execVars
    BY <1>2 DEF TypeOK, FeedRow, SetStatus, Edit, RowKept
  <2>2. QED
    BY <2>1, IdleKnows
<1>3. ASSUME NEW b \in BOOLEAN, SetInterval(b)
      PROVE  OwnerKnows'
  <2>1. RowKept /\ UNCHANGED execVars
    BY <1>3 DEF TypeOK, FeedRow, SetInterval, Edit, RowKept
  <2>2. QED
    BY <2>1, IdleKnows
<1>4. QED
  BY <1>1, <1>2, <1>3, ReplaceKnows DEF EnvironmentNext, UserNext

\* The owner of the lease knows the endpoint in force, and superseded
\* executions never get the lease back (feedClaims.js, feedManagement.js).
THEOREM OwnerAlwaysKnows == Spec => []OwnerKnows
<1>1. Init => OwnerKnows
  BY FeedExecutionAssumption
     DEF Init, OwnerKnows, KnowledgeOf, ValidatorsMatchEndpoint,
         IncompleteImportIsFetched, NewFeed, NoGot, NoPlan
<1>2. TypeOK /\ OwnerKnows /\ [Next]_vars => OwnerKnows'
  <2>1. SUFFICES ASSUME TypeOK, OwnerKnows, [Next]_vars
                 PROVE  OwnerKnows'
    OBVIOUS
  <2>2. ASSUME NEW c \in Crawl, CrawlNext(c)
        PROVE  OwnerKnows'
    BY <2>1, <2>2, ClaimKnows, BeginAttemptKnows, AcquireKnows, StoreItemsKnows,
       FinishKnows, WriteKnows, ReleaseKnows, ObserveKnows, TimeoutKnows,
       CompleteThrowsKnows, SetupFailsKnows
       DEF CrawlNext, ClaimDue, ClaimById, WorkStep, ControlStep
  <2>3. CASE UNCHANGED vars
    <3>1. RowKept /\ UNCHANGED execVars
      BY <2>3 DEF vars, RowKept, execVars
    <3>2. QED
      BY <2>1, <3>1, IdleKnows
  <2>4. QED
    BY <2>1, <2>2, <2>3, EnvironmentKnows DEF Next, EnvironmentNext
<1>3. QED
  BY <1>1, <1>2, TypeCorrect, PTL DEF Spec

\* Validators never outlive the endpoint or the credentials they came from
\* (buildEndpointReplacementState, completeFeedLease).
THEOREM ValidatorsAlwaysMatch == Spec => []ValidatorsMatchEndpoint
BY OwnerAlwaysKnows, PTL DEF OwnerKnows

\* An incomplete first import is always fetched again (processSingleFeed).
THEOREM IncompleteImportAlwaysFetched == Spec => []IncompleteImportIsFetched
BY OwnerAlwaysKnows, PTL DEF OwnerKnows

-----------------------------------------------------------------------------
(* The schedule of a feed that is switched off.                            *)

\* No terminal write schedules a feed that was switched off meanwhile
\* (completeFeedLease reads the interval again).
THEOREM OffAlwaysStaysOff == Spec => []OffStaysOff
<1>1. Init => OffStaysOff
  BY DEF Init, OffStaysOff, NewFeed
<1>2. TypeOK /\ OffStaysOff /\ [Next]_vars => OffStaysOff'
  <2>1. SUFFICES ASSUME TypeOK, OffStaysOff, [Next]_vars
                 PROVE  OffStaysOff'
    OBVIOUS
  <2> DEFINE Same == feed'.automatic = feed.automatic /\ feed'.next = feed.next
  <2>2. Same => OffStaysOff'
    BY <2>1 DEF OffStaysOff
  <2>3. ASSUME NEW c \in Crawl, CrawlNext(c)
        PROVE  OffStaysOff'
    <3>1. CASE Claim(c)
      <4>1. Same
        BY <2>1, <3>1 DEF TypeOK, FeedRow, Claim, Leased
      <4>2. QED
        BY <2>2, <4>1
    <3>2. CASE BeginAttempt(c)
      <4>1. feed' \in {feed, ForAttempt(c, feed)}
        BY <3>2 DEF BeginAttempt
      <4>2. Same
        BY <2>1, <4>1 DEF TypeOK, FeedRow, ForAttempt
      <4>3. QED
        BY <2>2, <4>2
    <3>3. CASE Acquire(c) \/ StoreItems(c) \/ Finish(c)
      BY <2>1, <3>3 DEF Acquire, StoreItems, Finish, OffStaysOff
    <3>4. CASE Complete(c)
      <4>1. Unleased(feed) \in FeedRow
        BY <2>1, RowTypes DEF TypeOK
      <4>2. feed'.automatic = feed.automatic /\ feed'.next = TerminalNext(c)
        <5>1. feed'.automatic = Unleased(feed).automatic /\ feed'.next = TerminalNext(c)
          BY <3>4, <4>1 DEF Complete, TerminalRow, FeedRow
        <5>2. Unleased(feed).automatic = feed.automatic
          BY <2>1 DEF TypeOK, FeedRow, Unleased
        <5>3. QED
          BY <5>1, <5>2
      <4>3. QED
        BY <4>2 DEF TerminalNext, OffStaysOff
    <3>5. CASE CompleteRefused(c) \/ CompleteThrows(c) \/ Timeout(c)
               \/ SetupFails(c) \/ Crash(c)
      BY <2>1, <3>5
         DEF CompleteRefused, CompleteThrows, Timeout, SetupFails, Crash, OffStaysOff
    <3>6. CASE Release(c) \/ Observe(c)
      <4>1. Same
        BY <2>1, <3>6 DEF TypeOK, FeedRow, Release, Released, Unleased, Observe
      <4>2. QED
        BY <2>2, <4>1
    <3>7. QED
      BY <2>3, <3>1, <3>2, <3>3, <3>4, <3>5, <3>6
         DEF CrawlNext, ClaimDue, ClaimById, WorkStep, WriteStep, ControlStep
  <2>4. CASE LeaseExpires \/ Publish
    <3>1. Same
      BY <2>1, <2>4 DEF TypeOK, FeedRow, LeaseExpires, Publish
    <3>2. QED
      BY <2>2, <3>1
  <2>5. CASE NextFetchArrives
    BY <2>1, <2>5 DEF TypeOK, FeedRow, NextFetchArrives, OffStaysOff
  <2>6. ASSUME NEW status \in {"active", "disabled"}, SetStatus(status)
        PROVE  OffStaysOff'
    <3>1. Same
      BY <2>1, <2>6 DEF TypeOK, FeedRow, SetStatus
    <3>2. QED
      BY <2>2, <3>1
  <2>7. ASSUME NEW b \in BOOLEAN, SetInterval(b)
        PROVE  OffStaysOff'
    BY <2>1, <2>7 DEF TypeOK, FeedRow, SetInterval, OffStaysOff
  <2>8. ASSUME NEW b \in BOOLEAN, ReplaceEndpoint(b)
        PROVE  OffStaysOff'
    <3>1. StoppedLease(feed) \in FeedRow /\ StoppedLease(feed).automatic = feed.automatic
      BY <2>1, RowTypes DEF TypeOK, StoppedLease, Unleased, FeedRow
    <3>2. feed'.automatic = feed.automatic /\ (~feed.automatic => feed'.next = "none")
      BY <2>8, <3>1 DEF ReplaceEndpoint, Replaced, FeedRow
    <3>3. QED
      BY <3>2 DEF OffStaysOff
  <2>9. CASE UNCHANGED vars
    BY <2>1, <2>9 DEF vars, OffStaysOff
  <2>10. QED
    BY <2>1, <2>3, <2>4, <2>5, <2>6, <2>7, <2>8, <2>9 DEF Next, UserNext
<1>3. QED
  BY <1>1, <1>2, TypeCorrect, PTL DEF Spec

-----------------------------------------------------------------------------
(* What a step may never do.                                               *)

\* The part of SupersededNeverWrites that speaks of one execution.
NoWriteBy(c) ==
  /\ work[c] = "attempt" => work'[c] # "acquire"
  /\ work[c] = "items" => work'[c] # "stored"
  /\ c \in recorded' => c \in recorded

LEMMA LostLeaseWritesNothing ==
  ASSUME TypeOK, NEW c \in Crawl, ~Owned(c), feed.owner # c, [Next]_vars
  PROVE  NoWriteBy(c)
<1>1. ASSUME NEW d \in Crawl, CrawlNext(d)
      PROVE  NoWriteBy(c)
  <2>1. CASE ~ (Complete(d) \/ d = c)
    <3>1. work'[c] = work[c] /\ recorded' \subseteq recorded
      BY <1>1, <2>1
         DEF TypeOK, CrawlNext, ClaimDue, ClaimById, Claim, WorkStep, BeginAttempt,
             Acquire, StoreItems, Finish, Fails, WorkUnchanged, WriteStep,
             CompleteRefused, AfterTerminal, ControlStep, Release, Observe, Forget,
             Timeout, CompleteThrows, SetupFails, Crash
    <3>2. QED
      BY <3>1 DEF NoWriteBy
  <2>2. CASE Complete(d)
    <3>1. d # c /\ recorded' = recorded \cup {d}
      BY <2>2 DEF Complete, CanComplete
    <3>2. work'[c] = work[c]
      BY <2>2, <3>1 DEF TypeOK, Complete, AfterTerminal
    <3>3. QED
      BY <3>1, <3>2 DEF NoWriteBy
  <2>3. CASE d = c /\ ~Complete(d)
    <3>1. CASE Claim(c)
      BY <3>1 DEF Claim, Idle, NoWriteBy
    <3>2. CASE BeginAttempt(c) \/ StoreItems(c)
      BY <3>2 DEF TypeOK, BeginAttempt, StoreItems, Fails, WorkUnchanged, NoWriteBy
    <3>3. CASE Acquire(c) \/ Finish(c) \/ SetupFails(c)
      BY <3>3 DEF Acquire, Finish, SetupFails, WorkUnchanged, NoWriteBy
    <3>4. CASE CompleteRefused(c) \/ CompleteThrows(c)
      BY <3>4 DEF TypeOK, CompleteRefused, CompleteThrows, AfterTerminal, NoWriteBy
    <3>5. CASE Release(c) \/ Timeout(c)
      BY <3>5 DEF Release, Timeout, NoWriteBy
    <3>6. CASE Observe(c) \/ Crash(c)
      BY <3>6 DEF TypeOK, Observe, Crash, Forget, NoWriteBy
    <3>7. QED
      BY <1>1, <2>3, <3>1, <3>2, <3>3, <3>4, <3>5, <3>6
         DEF CrawlNext, ClaimDue, ClaimById, WorkStep, WriteStep, ControlStep
  <2>4. QED
    BY <2>1, <2>2, <2>3
<1>2. CASE UserNext \/ Publish \/ NextFetchArrives \/ LeaseExpires \/ UNCHANGED vars
  <2>1. work' = work /\ recorded' = recorded
    BY <1>2 DEF UserNext, SetStatus, SetInterval, ReplaceEndpoint, Edit, Publish,
                NextFetchArrives, LeaseExpires, vars, execVars
  <2>2. QED
    BY <2>1 DEF NoWriteBy
<1>3. QED
  BY <1>1, <1>2 DEF Next

\* However late its threads wake, a superseded execution starts no attempt,
\* stores no item and records no outcome (assertFeedLeaseOwnership).
THEOREM SupersededNeverWritesAgain == Spec => SupersededNeverWrites
<1>1. TypeOK /\ OwnerKnows /\ [Next]_vars
        => [\A c \in superseded :
              /\ work[c] = "attempt" => work'[c] # "acquire"
              /\ work[c] = "items" => work'[c] # "stored"
              /\ c \in recorded' => c \in recorded]_vars
  <2>1. SUFFICES ASSUME TypeOK, OwnerKnows, [Next]_vars, NEW c \in superseded
                 PROVE  NoWriteBy(c)
    BY DEF NoWriteBy
  <2>2. c \in Crawl /\ feed.owner # c
    BY <2>1 DEF TypeOK, OwnerKnows
  <2>3. QED
    BY <2>1, <2>2, LostLeaseWritesNothing DEF Owned
<1>2. QED
  BY <1>1, TypeCorrect, OwnerAlwaysKnows, PTL DEF Spec, SupersededNeverWrites

\* A live lease ends by a step of its own execution, by running out or by a
\* replaced endpoint (releaseFeedLease, completeFeedLease).
THEOREM LeaseAlwaysEndsWithItsCrawl == Spec => LeaseEndsWithItsCrawl
<1>1. TypeOK /\ [Next]_vars
        => [\A c \in Crawl :
              Owned(c) /\ feed'.owner # c
                => work'[c] # work[c] \/ ctl'[c] # ctl[c]
                   \/ feed'.endpoint # feed.endpoint]_vars
  <2>1. SUFFICES ASSUME TypeOK, [Next]_vars, NEW c \in Crawl,
                        Owned(c), feed'.owner # c, work'[c] = work[c], ctl'[c] = ctl[c]
                 PROVE  feed'.endpoint # feed.endpoint
    OBVIOUS
  <2>2. feed.owner = c /\ feed.live
    BY <2>1 DEF Owned
  <2>3. ASSUME NEW d \in Crawl, CrawlNext(d)
        PROVE  FALSE
    <3>1. CASE Claim(d)
      BY <2>2, <3>1 DEF Claim
    <3>2. CASE BeginAttempt(d)
      <4>1. feed' \in {feed, ForAttempt(d, feed)}
        BY <3>2 DEF BeginAttempt
      <4>2. QED
        BY <2>1, <2>2, <4>1 DEF TypeOK, FeedRow, ForAttempt
    <3>3. CASE Complete(d)
      <4>1. d = c
        BY <2>2, <3>3 DEF Complete, CanComplete
      <4>2. QED
        BY <2>1, <3>3, <4>1 DEF TypeOK, Complete, AfterTerminal, Persisting
    <3>4. CASE Release(d)
      <4>1. d = c
        BY <2>1, <2>2, <3>4 DEF Release, Released
      <4>2. QED
        BY <2>1, <3>4, <4>1 DEF TypeOK, Release
    <3>5. CASE Observe(d)
      BY <2>1, <2>2, <3>5 DEF TypeOK, FeedRow, Observe
    <3>6. CASE Acquire(d) \/ StoreItems(d) \/ Finish(d) \/ CompleteRefused(d)
               \/ Timeout(d) \/ CompleteThrows(d) \/ SetupFails(d) \/ Crash(d)
      BY <2>1, <2>2, <3>6 DEF Acquire, StoreItems, Finish, CompleteRefused, Timeout,
                              CompleteThrows, SetupFails, Crash
    <3>7. QED
      BY <2>3, <3>1, <3>2, <3>3, <3>4, <3>5, <3>6
         DEF CrawlNext, ClaimDue, ClaimById, WorkStep, WriteStep, ControlStep
  <2>4. CASE Publish \/ NextFetchArrives \/ LeaseExpires \/ UNCHANGED vars
    BY <2>1, <2>2, <2>4
       DEF TypeOK, FeedRow, Publish, NextFetchArrives, LeaseExpires, vars
  <2>5. ASSUME NEW status \in {"active", "disabled"}, SetStatus(status)
        PROVE  FALSE
    BY <2>1, <2>2, <2>5 DEF TypeOK, FeedRow, SetStatus
  <2>6. ASSUME NEW b \in BOOLEAN, SetInterval(b)
        PROVE  FALSE
    BY <2>1, <2>2, <2>6 DEF TypeOK, FeedRow, SetInterval
  <2>7. ASSUME NEW b \in BOOLEAN, ReplaceEndpoint(b)
        PROVE  feed'.endpoint # feed.endpoint
    <3>1. StoppedLease(feed) \in FeedRow /\ StoppedLease(feed).endpoint = feed.endpoint
      BY <2>1, RowTypes DEF TypeOK, StoppedLease, Unleased, FeedRow
    <3>2. feed'.endpoint = feed.endpoint + 1 /\ feed.endpoint \in Nat
      BY <2>1, <2>7, <3>1, FeedExecutionAssumption
         DEF TypeOK, ReplaceEndpoint, Replaced, FeedRow
    <3>3. QED
      BY <3>2
  <2>8. QED
    BY <2>1, <2>3, <2>4, <2>5, <2>6, <2>7 DEF Next, UserNext
<1>2. QED
  BY <1>1, TypeCorrect, PTL DEF Spec, LeaseEndsWithItsCrawl
=============================================================================
