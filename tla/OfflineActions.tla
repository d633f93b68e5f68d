---------------------------- MODULE OfflineActions ----------------------------
(* The read and saved states a reader assigns, from the browser's durable   *)
(* queue to the server (client/src/services/articleSynchronization.js,      *)
(* offlineDatabase.js, offlineCoordination.js, articleStateActions.js,      *)
(* offlineReading.js; server/services/articles/syncActions.js).             *)
(*                                                                          *)
(* The tabs of a browser share an IndexedDB: a queue of actions, a copy of  *)
(* the articles, and a lease with a session epoch.  A tab assigns a value   *)
(* to a field (the state or the saved mark of an article) by queueing an    *)
(* action.  A tab that holds the lease dispatches a prefix of the queue,    *)
(* sends it, and records the answer; the server keeps a receipt of every    *)
(* action.  A request outlives the tab that gave it up, an answer is as old *)
(* as the moment it was read, a lease can lapse under its holder, and other *)
(* devices change the same articles.                                        *)
EXTENDS Naturals, Sequences, FiniteSets, FiniteSetsExt, Functions

CONSTANTS
  Tabs, Fields, Values,
  Readers,        \* bound: the tabs the reader acts in
  Selections,     \* the sequences of distinct fields one assignment names
  Initial,        \* the value every field has at first
  Nobody, Absent, Unknown,
  QueueLimit,     \* 10000 actions wait at most
  BatchLimit,     \* 50 actions go out in one request
  MaxActions,     \* bound: actions the reader takes
  MaxFaults,      \* bound: requests, transactions, leases and pages that fail
  MaxChanges      \* bound: other devices, downloads, sign-outs, discards

ASSUME OfflineAssumption ==
  /\ QueueLimit \in Nat /\ BatchLimit \in Nat \ {0}
  /\ MaxActions \in Nat /\ MaxFaults \in Nat /\ MaxChanges \in Nat
  /\ Initial \in Values /\ Values \cap {Absent, Unknown} = {} /\ Absent # Unknown
  /\ Selections \subseteq Seq(Fields) /\ Readers \subseteq Tabs
  /\ \A fs \in Selections : IsInjective(fs)
  /\ Nobody \notin Tabs \X {"sync", "visit"}

VARIABLES
  queue,      \* the stored actions by local sequence, which orders them
  local,      \* the stored copy of each field
  epoch,      \* the account's session epoch
  lease,      \* who holds the account's lease, and whether it still runs
  unsettled,  \* the stored needsReconciliation
  session,    \* per tab: signed in, and with which epoch
  run,        \* per tab: the synchronization in progress
  visit,      \* per tab: a download, or an online operation, in progress
  server,     \* the server's fields
  handled,    \* the server's receipts, in the order they were written
  stray,      \* requests no tab waits for, that may still reach the server
  nextId, faults, changes,   \* what has been spent of the bounds
  expected,   \* history: what the reader should find, where that is known
  abandoned   \* history: the dispatched actions the reader discarded

browser == <<queue, local, epoch, lease, unsettled>>
tabs == <<session, run, visit>>
budget == <<faults, changes>>
remote == <<server, handled, stray>>
history == <<expected, abandoned>>
vars == <<browser, tabs, remote, nextId, budget, history>>

----------------------------------------------------------------------------
(* Data.                                                                    *)

Ids == 1 .. MaxActions
Intent == [field : Fields, value : Values]
Action == [field : Fields, value : Values, base : Values,
           state : {"pending", "dispatched", "failed"}, waiting : BOOLEAN]
Partial(S, T) == UNION {[D -> T] : D \in SUBSET S}
IntentOf(a) == [field |-> a.field, value |-> a.value]
Done == {"applied", "noop", "duplicate"}
Outcome == Done \cup {"rejected", "retry"}
Holder == Tabs \X {"sync", "visit"}
Free == [owner |-> Nobody, live |-> FALSE]
IdleRun == [pc |-> "idle", live |-> FALSE, epoch |-> 0, synced |-> FALSE, changed |-> FALSE,
            fresh |-> FALSE, sent |-> <<>>, results |-> <<>>, articles |-> <<>>]
IdleVisit == [pc |-> "idle", epoch |-> 0, articles |-> <<>>]

Sync(t) == <<t, "sync">>
Visit(t) == <<t, "visit">>
Owns(w, e) == epoch = e /\ lease.owner = w /\ lease.live

Available == lease.owner = Nobody \/ ~lease.live
Released(w, e) == IF lease.owner = w /\ epoch = e THEN Free ELSE lease

Active(q) == {i \in DOMAIN q : q[i].state # "failed"}
Of(q, f) == {i \in Active(q) : q[i].field = f}
Overlay(copy, q) ==
  [f \in Fields |-> IF copy[f] = Absent \/ Of(q, f) = {} THEN copy[f]
                    ELSE q[Max(Of(q, f))].value]
\* What an answer changes in the stored copy: the articles it has.
Patched(copy, articles) ==
  [f \in Fields |-> IF f \in DOMAIN articles /\ copy[f] # Absent
                    THEN articles[f] ELSE copy[f]]
FieldsOf(actions) == {actions[i].field : i \in DOMAIN actions}
Handled(i) == \E k \in DOMAIN handled : handled[k].id = i
Visible(F) == {f \in F : server[f] # Absent}

\* Where the copy agrees with the server, the reader knows what to expect.
Learned(copy, q) ==
  [f \in Fields |-> IF expected[f] = Unknown /\ Of(q, f) = {}
                       /\ copy[f] = server[f] /\ server[f] # Absent
                    THEN server[f] ELSE expected[f]]
Forgotten(F) == [f \in Fields |-> IF f \in F THEN Unknown ELSE expected[f]]

Fault == faults < MaxFaults /\ faults' = faults + 1 /\ UNCHANGED changes
Change == changes < MaxChanges /\ changes' = changes + 1 /\ UNCHANGED faults
Up(t) == session[t].up
Signed(t) == Up(t) /\ session[t].epoch = epoch
At(t, pc) == run[t].pc = pc /\ run[t].live

----------------------------------------------------------------------------
Runs ==
  {r \in [pc : {"idle", "validating", "loop", "waiting", "answered", "closing", "completing"},
          live : BOOLEAN, epoch : 0 .. MaxChanges, synced : BOOLEAN, changed : BOOLEAN,
          fresh : BOOLEAN, sent : Partial(Ids, Intent), results : Partial(Ids, Outcome),
          articles : Partial(Fields, Values)] :
     Cardinality(DOMAIN r.sent) <= BatchLimit /\ DOMAIN r.results \subseteq DOMAIN r.sent}
Visits == [pc : {"idle", "held", "download", "online"}, epoch : 0 .. MaxChanges,
           articles : Partial(Fields, Values)]
Receipts == [id : Ids, intent : Intent, outcome : {"applied", "noop", "rejected"}]

TypeOK ==
  /\ queue \in [DOMAIN queue -> Action] /\ DOMAIN queue \subseteq Ids
  /\ Cardinality(DOMAIN queue) <= QueueLimit
  /\ \A i, j \in DOMAIN queue :
       i < j /\ queue[i].field = queue[j].field => queue[i].state # "pending"
  /\ local \in [Fields -> Values \cup {Absent}]
  /\ epoch \in 0 .. changes
  /\ lease \in [owner : Holder \cup {Nobody}, live : BOOLEAN]
  /\ unsettled \in BOOLEAN
  /\ session \in [Tabs -> [up : BOOLEAN, epoch : 0 .. MaxChanges]]
  /\ run \in [Tabs -> Runs] /\ visit \in [Tabs -> Visits]
  /\ server \in [Fields -> Values \cup {Absent}]
  /\ handled \in Seq(Receipts)
  /\ stray \subseteq Partial(Ids, Intent)
  /\ nextId \in 1 .. MaxActions + 1 /\ faults \in 0 .. MaxFaults /\ changes \in 0 .. MaxChanges
  /\ expected \in [Fields -> Values \cup {Unknown}]
  /\ abandoned \subseteq [id : Ids, intent : Intent]

Init ==
  /\ queue = <<>> /\ epoch = 0 /\ lease = Free /\ unsettled = FALSE
  /\ server = [f \in Fields |-> Initial]
  /\ local = server /\ expected = server
  /\ session = [t \in Tabs |-> [up |-> TRUE, epoch |-> 0]]
  /\ run = [t \in Tabs |-> IdleRun] /\ visit = [t \in Tabs |-> IdleVisit]
  /\ handled = <<>> /\ stray = {} /\ nextId = 1 /\ faults = 0 /\ changes = 0
  /\ abandoned = {}

----------------------------------------------------------------------------
(* The reader assigns a value: assign and enqueueActions, one transaction.  *)

\* Faulty variant of Replaceable.
ReplaceableAny(a, F) == a.field \in F

Replaceable(a, F) == a.field \in F /\ a.state = "pending"

Replaced(F) == {i \in DOMAIN queue : Replaceable(queue[i], F)}
BaseOf(f, shown) == IF Replaced({f}) = {} THEN shown ELSE queue[Max(Replaced({f}))].base

Queued(fs, v, shown) ==
  LET kept == DOMAIN queue \ Replaced(Range(fs))
  IN [i \in kept \cup (nextId .. nextId + Len(fs) - 1) |->
        IF i \in kept THEN queue[i]
        ELSE LET f == fs[i - nextId + 1]
             IN [field |-> f, value |-> v, base |-> BaseOf(f, shown), state |-> "pending",
                 waiting |-> FALSE]]

\* "shown" is what the view has, stored or not: it may be older than the copy.
Assign(t, fs, v) ==
  /\ Signed(t)
  /\ nextId + Len(fs) <= MaxActions + 1
  /\ \E shown \in Values :
       /\ Cardinality(DOMAIN Queued(fs, v, shown)) <= QueueLimit
       /\ queue' = Queued(fs, v, shown)
  /\ local' = Overlay(local, queue')
  /\ nextId' = nextId + Len(fs)
  /\ expected' = [f \in Fields |-> IF f \in Range(fs) THEN v ELSE expected[f]]
  /\ UNCHANGED <<epoch, lease, unsettled, session, run, visit, remote, budget,
                 abandoned>>

----------------------------------------------------------------------------
(* One synchronization of a tab: articleSynchronization's request.          *)

EndRun(t) == /\ run' = [run EXCEPT ![t] = IdleRun]
             /\ lease' = IF run[t].pc = "validating" THEN lease
                         ELSE Released(Sync(t), run[t].epoch)
Unfinished(q) == Active(q) # {}

\* A timer, an event, polling or the reader asks for it: it may start at any
\* time, and does nothing when nothing is queued and nothing is owed.
Request(t) ==
  /\ Up(t) /\ run[t].pc = "idle"
  /\ DOMAIN queue # {} \/ unsettled
  /\ run' = [run EXCEPT ![t] = [IdleRun EXCEPT !.pc = "validating", !.live = TRUE,
                                               !.synced = unsettled]]
  /\ UNCHANGED <<browser, session, visit, remote, nextId, budget, history>>

ValidationFails(t) ==
  /\ At(t, "validating") /\ Fault
  /\ EndRun(t)
  /\ UNCHANGED <<queue, local, epoch, unsettled, session, visit, remote, nextId, history>>

\* The session is valid; the lease is free, or the run ends and tries later.
Acquire(t) ==
  /\ At(t, "validating")
  /\ IF Available
     THEN /\ lease' = [owner |-> Sync(t), live |-> TRUE]
          /\ run' = [run EXCEPT ![t].pc = "loop", ![t].epoch = epoch]
     ELSE EndRun(t)
  /\ UNCHANGED <<queue, local, epoch, unsettled, session, visit, remote, nextId,
                 budget, history>>

\* A faulty variant of Sendable.
SendableDue == {i \in Active(queue) : ~queue[i].waiting}

Sendable == Active(queue)

\* The batch that ends with an action: it is full, nothing is left, or the next
\* one has to wait; time passes as it likes, so a retried action may be due or not.
Waits(S) == S # {} /\ queue[Min(S)].waiting
Batch(last) == {i \in Sendable : i <= last}
EndsBatch(last) ==
  /\ last \in Sendable /\ Cardinality(Batch(last)) <= BatchLimit
  /\ \/ Cardinality(Batch(last)) = BatchLimit
     \/ Batch(last) = Sendable
     \/ Waits(Sendable \ Batch(last))

Marked(S, state, waiting) ==
  [i \in DOMAIN queue |-> IF i \in S
     THEN [queue[i] EXCEPT !.state = state, !.waiting = waiting] ELSE queue[i]]

\* dispatchActions, and the request that leaves with what it returned.
Dispatch(t, last) ==
  /\ At(t, "loop") /\ Owns(Sync(t), run[t].epoch)
  /\ EndsBatch(last)
  /\ queue' = Marked(Batch(last), "dispatched", FALSE)
  /\ run' = [run EXCEPT ![t].pc = "waiting", ![t].results = <<>>, ![t].articles = <<>>,
                        ![t].sent = [i \in Batch(last) |-> IntentOf(queue[i])]]
  /\ UNCHANGED <<local, epoch, lease, unsettled, session, visit, remote, nextId,
                 budget, history>>

DispatchNothing(t) ==
  /\ At(t, "loop")
  /\ Sendable = {} \/ Waits(Sendable) \/ ~Owns(Sync(t), run[t].epoch)
  /\ run' = [run EXCEPT ![t].pc = "closing"]
  /\ UNCHANGED <<browser, session, visit, remote, nextId, budget, history>>

\* A faulty variant of Acknowledges.
AcknowledgesAnyway(t) == run[t].epoch = epoch

Acknowledges(t) == Owns(Sync(t), run[t].epoch)

ResultsOf(t, outcomes) == {i \in DOMAIN run[t].results : run[t].results[i] \in outcomes}

\* acknowledgeActions, and retryActions for what the server left.
Acknowledge(t) ==
  LET done == ResultsOf(t, Done)
      rejected == ResultsOf(t, {"rejected"})
      left == ResultsOf(t, {"retry"})
      gone == {run[t].sent[i].field : i \in rejected}
      answered == Patched([f \in Fields |-> IF f \in gone THEN Absent ELSE local[f]],
                          run[t].articles)
  IN /\ At(t, "answered") /\ Acknowledges(t)
     /\ queue' = [i \in DOMAIN queue \ done |->
                    IF i \in rejected THEN [queue[i] EXCEPT !.state = "failed"]
                    ELSE IF i \in left THEN [queue[i] EXCEPT !.waiting = TRUE]
                    ELSE queue[i]]
     /\ local' = Overlay(answered, queue')
     /\ unsettled' = TRUE
     /\ run' = [u \in Tabs |->
          IF u # t THEN [run[u] EXCEPT !.fresh = FALSE]
          ELSE [run[t] EXCEPT !.changed = TRUE, !.sent = <<>>, !.results = <<>>, !.articles = <<>>,
                              !.pc = IF left = {} THEN "loop" ELSE "closing"]]
     /\ expected' = Learned(local', queue')
     /\ UNCHANGED <<epoch, lease, session, visit, remote, nextId, budget, abandoned>>

AnswerTooLate(t) ==
  /\ At(t, "answered") /\ ~Acknowledges(t)
  /\ EndRun(t)
  /\ UNCHANGED <<queue, local, epoch, unsettled, session, visit, remote, nextId,
                 budget, history>>

\* What is left of a request when its tab no longer waits for the answer.
Remaining(t) == Restrict(run[t].sent, DOMAIN run[t].sent \ DOMAIN run[t].results)
InProgress(t) == run[t].pc = "waiting" /\ DOMAIN Remaining(t) # {}
Strayed(t) == IF InProgress(t) THEN stray \cup {Remaining(t)} ELSE stray

\* The request failed, or its answer was lost.
GiveUp(t) ==
  /\ run[t].pc \in {"waiting", "answered"} /\ run[t].live /\ Fault
  /\ queue' = IF Owns(Sync(t), run[t].epoch)
              THEN Marked(DOMAIN run[t].sent, "dispatched", TRUE) ELSE queue
  /\ stray' = Strayed(t)
  /\ EndRun(t)
  /\ UNCHANGED <<local, epoch, unsettled, session, visit, server, handled, nextId, history>>

\* The counts are fetched again: a run that got here found the queue not empty
\* or a reconciliation owed.
Reconcile(t) ==
  /\ At(t, "closing")
  /\ IF Unfinished(queue)
     THEN EndRun(t)
     ELSE run' = [run EXCEPT ![t].pc = "completing", ![t].fresh = TRUE] /\ UNCHANGED lease
  /\ UNCHANGED <<queue, local, epoch, unsettled, session, visit, remote, nextId, budget,
                 expected, abandoned>>

ReconcileFails(t) ==
  /\ At(t, "closing") /\ Fault
  /\ EndRun(t)
  /\ UNCHANGED <<queue, local, epoch, unsettled, session, visit, remote, nextId, history>>

\* A faulty variant of Completes.
CompletesAnyway(t) == (run[t].changed \/ run[t].synced) /\ epoch = run[t].epoch /\ DOMAIN queue = {}

Completes(t) == /\ run[t].changed \/ run[t].synced
                /\ Owns(Sync(t), run[t].epoch) /\ DOMAIN queue = {}

Complete(t) ==
  /\ At(t, "completing")
  /\ unsettled' = (unsettled /\ ~Completes(t))
  /\ EndRun(t)
  /\ UNCHANGED <<queue, local, epoch, session, visit, remote, nextId, budget, history>>

\* The session the run captured has ended: it writes nothing more.
Abandon(t) ==
  /\ run[t].pc # "idle" /\ ~run[t].live
  /\ stray' = Strayed(t)
  /\ EndRun(t)
  /\ UNCHANGED <<queue, local, epoch, unsettled, session, visit, server, handled,
                 nextId, budget, history>>

----------------------------------------------------------------------------
(* The server: synchronizeArticleActions, one transaction per action.       *)

OutcomeOf(i, a) ==
  IF Handled(i)
  THEN IF \E k \in DOMAIN handled : handled[k].id = i /\ handled[k].outcome = "rejected"
       THEN "rejected" ELSE "duplicate"
  ELSE IF server[a.field] = Absent THEN "rejected"
  ELSE IF server[a.field] = a.value THEN "noop" ELSE "applied"

\* The action's transaction: the article changes, the receipt is written.
Apply(i, a) ==
  LET outcome == OutcomeOf(i, a)
  IN /\ server' = IF outcome = "applied" THEN [server EXCEPT ![a.field] = a.value] ELSE server
     /\ handled' = IF Handled(i) THEN handled
                   ELSE Append(handled, [id |-> i, intent |-> a, outcome |-> outcome])

Current(t) == Min(DOMAIN Remaining(t))

Handle(t) ==
  LET i == Current(t)
  IN /\ InProgress(t)
     /\ Apply(i, run[t].sent[i])
     /\ run' = [run EXCEPT ![t].results = [j \in DOMAIN @ \cup {i} |->
                  IF j = i THEN OutcomeOf(i, run[t].sent[i]) ELSE @[j]]]
     /\ UNCHANGED <<browser, session, visit, stray, nextId, budget, history>>

\* The transaction fails, and with it the rest of the request.
HandleFails(t) ==
  /\ InProgress(t) /\ Fault
  /\ run' = [run EXCEPT ![t].results = [j \in DOMAIN run[t].sent |->
               IF j \in DOMAIN @ THEN @[j] ELSE "retry"]]
  /\ UNCHANGED <<browser, session, visit, remote, nextId, history>>

\* The answer's articles are read after the last action.
Answer(t) ==
  /\ run[t].pc = "waiting" /\ DOMAIN Remaining(t) = {}
  /\ run' = [run EXCEPT ![t].pc = "answered",
               ![t].articles = [f \in Visible(FieldsOf(run[t].sent)) |-> server[f]]]
  /\ UNCHANGED <<browser, session, visit, remote, nextId, budget, history>>

HandleStray(s) ==
  LET i == Min(DOMAIN s)
  IN /\ Apply(i, s[i])
     /\ stray' = IF DOMAIN s = {i} THEN stray \ {s}
                 ELSE (stray \ {s}) \cup {Restrict(s, DOMAIN s \ {i})}
     /\ UNCHANGED <<browser, tabs, nextId, budget, history>>

----------------------------------------------------------------------------
(* Downloads (refreshSnapshot) and online operations (online), which hold   *)
(* the same lease.                                                          *)

VisitAcquire(t) ==
  /\ Signed(t) /\ visit[t].pc = "idle" /\ Available /\ Change
  /\ lease' = [owner |-> Visit(t), live |-> TRUE]
  /\ visit' = [visit EXCEPT ![t] = [IdleVisit EXCEPT !.pc = "held", !.epoch = epoch]]
  /\ UNCHANGED <<queue, local, epoch, unsettled, session, run, remote, nextId, history>>

\* The pages, with what is queued laid over them.
Download(t) ==
  /\ visit[t].pc = "held"
  /\ visit' = [visit EXCEPT ![t].pc = "download",
       ![t].articles = [f \in Visible(Fields) |-> Overlay(server, queue)[f]]]
  /\ UNCHANGED <<browser, session, run, remote, nextId, budget, history>>

\* A request of its own changes the server; no receipt is kept.
Online(t, f, v) ==
  /\ visit[t].pc = "held" /\ server[f] # Absent
  /\ server' = [server EXCEPT ![f] = v]
  /\ visit' = [visit EXCEPT ![t].pc = "online", ![t].articles = [g \in {f} |-> v]]
  /\ expected' = Forgotten({f})
  /\ UNCHANGED <<browser, session, run, handled, stray, nextId, budget,
                 abandoned>>

EndVisit(t) == /\ visit' = [visit EXCEPT ![t] = IdleVisit]
               /\ lease' = Released(Visit(t), visit[t].epoch)

MayActivate(t) == Owns(Visit(t), visit[t].epoch)

\* writeGeneration: the new copy replaces the old one.
Activate(t) ==
  /\ visit[t].pc = "download"
  /\ local' = IF MayActivate(t)
              THEN [f \in Fields |-> IF f \in DOMAIN visit[t].articles
                                     THEN visit[t].articles[f] ELSE Absent]
              ELSE local
  /\ expected' = IF MayActivate(t) THEN Learned(local', queue) ELSE expected
  /\ EndVisit(t)
  /\ UNCHANGED <<queue, epoch, unsettled, session, run, remote, nextId, budget,
                 abandoned>>

\* reconcileArticles asks for the epoch alone: an operation that outlived its
\* lease leaves the reader with whatever it was answered.
PatchOnline(t) ==
  /\ visit[t].pc = "online"
  /\ LET mine == Up(t) /\ session[t].epoch = visit[t].epoch /\ epoch = visit[t].epoch
     IN /\ local' = IF mine THEN Overlay(Patched(local, visit[t].articles), queue) ELSE local
        /\ expected' = IF ~mine THEN expected
                       ELSE IF Owns(Visit(t), visit[t].epoch) THEN Learned(local', queue)
                       ELSE Forgotten(DOMAIN visit[t].articles)
  /\ EndVisit(t)
  /\ UNCHANGED <<queue, epoch, unsettled, session, run, remote, nextId, budget,
                 abandoned>>

VisitFails(t) ==
  /\ visit[t].pc # "idle"
  /\ EndVisit(t)
  /\ UNCHANGED <<queue, local, epoch, unsettled, session, run, remote, nextId,
                 budget, history>>

----------------------------------------------------------------------------
(* Time, other devices, and sessions.                                       *)

Works(w) == IF w[2] = "sync" THEN run[w[1]].pc \notin {"idle", "validating"}
            ELSE visit[w[1]].pc # "idle"

\* The lease of a suspended holder runs out: a fault.  That of a holder
\* that is gone runs out anyway.
Expire ==
  /\ lease.live
  /\ IF Works(lease.owner) THEN Fault ELSE UNCHANGED budget
  /\ lease' = [lease EXCEPT !.live = FALSE]
  /\ UNCHANGED <<queue, local, epoch, unsettled, tabs, remote, nextId, history>>

OtherDevice(f, v) ==
  /\ server[f] \notin {Absent, v} /\ Change
  /\ server' = [server EXCEPT ![f] = v]
  /\ expected' = Forgotten({f})
  /\ UNCHANGED <<browser, tabs, handled, stray, nextId, abandoned>>

\* The page is reloaded; its lease and its request stay behind.
Reload(t) ==
  /\ Up(t) /\ Fault
  /\ run' = [run EXCEPT ![t] = IdleRun] /\ visit' = [visit EXCEPT ![t] = IdleVisit]
  /\ stray' = Strayed(t)
  /\ session' = [session EXCEPT ![t] = [up |-> TRUE, epoch |-> epoch]]
  /\ UNCHANGED <<browser, server, handled, nextId, history>>

\* Signing in, and starting over after another tab ended the epoch.
SignIn(t) ==
  /\ ~Signed(t)
  /\ session' = [session EXCEPT ![t] = [up |-> TRUE, epoch |-> epoch]]
  /\ run' = [run EXCEPT ![t].live = FALSE]
  /\ UNCHANGED <<browser, visit, remote, nextId, budget, history>>

\* Signing out ends the epoch and clears the copy; the queue stays.
SignOut(t) ==
  /\ Up(t) /\ Change
  /\ session' = [session EXCEPT ![t].up = FALSE]
  /\ run' = [run EXCEPT ![t].live = FALSE]
  /\ epoch' = epoch + 1 /\ lease' = Free
  /\ local' = [f \in Fields |-> Absent]
  /\ UNCHANGED <<queue, unsettled, visit, remote, nextId, history>>

FirstOf(f) == queue[Min({i \in DOMAIN queue : queue[i].field = f})]

\* The reader discards what has not been synchronized.
Discard(t) ==
  /\ Up(t) /\ Change
  /\ queue' = <<>>
  /\ local' = [f \in Fields |-> IF f \in FieldsOf(queue) /\ local[f] # Absent
                                THEN FirstOf(f).base ELSE local[f]]
  /\ epoch' = epoch + 1 /\ lease' = Free
  /\ session' = [session EXCEPT ![t] = [up |-> TRUE, epoch |-> epoch']]
  /\ run' = [run EXCEPT ![t].live = FALSE]
  /\ expected' = Forgotten(FieldsOf(queue))
  /\ abandoned' = abandoned \cup {[id |-> i, intent |-> IntentOf(queue[i])] :
                                   i \in {j \in DOMAIN queue : queue[j].state = "dispatched"}}
  /\ UNCHANGED <<unsettled, visit, remote, nextId>>

----------------------------------------------------------------------------
Synchronize(t) ==
  \/ Request(t) \/ Acquire(t) \/ (\E last \in Ids : Dispatch(t, last))
  \/ DispatchNothing(t) \/ Acknowledge(t) \/ AnswerTooLate(t) \/ Reconcile(t)
  \/ Complete(t) \/ Abandon(t)
Fail(t) == ValidationFails(t) \/ GiveUp(t) \/ ReconcileFails(t) \/ HandleFails(t)
Serve(t) == Handle(t) \/ Answer(t)
VisitStep(t) == Download(t) \/ Activate(t) \/ PatchOnline(t) \/ VisitFails(t)
                \/ \E f \in Fields, v \in Values : Online(t, f, v)

Next ==
  \/ \E t \in Tabs : Synchronize(t) \/ Fail(t) \/ Serve(t) \/ VisitStep(t)
                     \/ Reload(t) \/ SignIn(t)
  \/ \E t \in Readers : \/ \E fs \in Selections, v \in Values : Assign(t, fs, v)
                        \/ VisitAcquire(t) \/ SignOut(t) \/ Discard(t)
  \/ \E s \in stray : HandleStray(s)
  \/ Expire
  \/ \E f \in Fields, v \in Values \cup {Absent} : OtherDevice(f, v)

Spec == Init /\ [][Next]_vars

\* The browser runs what is due and the server handles what it received; time
\* passes, so a retried action is due in the end and a dead lease lapses.
FairSpec ==
  /\ Spec
  /\ WF_vars(Expire /\ UNCHANGED budget)
  /\ \A t \in Tabs : WF_vars(Synchronize(t)) /\ WF_vars(Serve(t) \/ VisitStep(t))
  /\ SF_vars(\E t \in Tabs : Acquire(t) /\ Available)
  /\ SF_vars(\E t \in Tabs, last \in Ids : Dispatch(t, last))

----------------------------------------------------------------------------
(* Properties.                                                              *)

Discarded(i) == \E a \in abandoned : a.id = i

\* The server handles every action at most once and in the order the reader
\* took them, whatever is sent again, by whichever tab, and however late a
\* request arrives; only a discarded action may still come after younger ones.
HandledOnceInOrder ==
  \A i, j \in DOMAIN handled :
    i < j => \/ handled[i].id < handled[j].id
             \/ handled[i].id > handled[j].id /\ Discarded(handled[j].id)

\* The run's invariant on the whole state: types, and the order just stated.
OfflineConsistent == TypeOK /\ HandledOnceInOrder

\* Once nothing of a field is queued, its stored copy and the server hold the
\* value assigned last, unless another device, an online operation or the
\* reader's own discard came in between.  A discarded action that had been
\* sent may reach the server at any later time, so its field is excepted.
CopyAgrees ==
  \A f \in Fields :
    (/\ Of(queue, f) = {} /\ expected[f] # Unknown
     /\ \A a \in abandoned : a.intent.field # f
     /\ server[f] # Absent)
    => server[f] = expected[f] /\ local[f] \in {expected[f], Absent}

\* An action leaves the queue only when the server has its receipt, when it was
\* never sent and a younger one of the same field takes its place at the end,
\* or when the reader discards the queue.
NothingIsDropped ==
  [][\A i \in DOMAIN queue :
       \/ i \in DOMAIN queue'
       \/ Handled(i)
       \/ queue[i].state = "pending" /\ \E j \in Of(queue', queue[i].field) : j >= nextId
       \/ epoch' > epoch /\ DOMAIN queue' = {}]_vars

\* What an acknowledgement left to be reconciled is forgotten only while nothing
\* is queued, by a run that fetched the counts after the last acknowledgement of
\* any tab: a run that lost its lease meanwhile must leave it to the next one.
CompletionIsEarned ==
  [][unsettled /\ ~unsettled' =>
       /\ DOMAIN queue = {}
       /\ \E t \in Tabs : run[t].fresh /\ ~run'[t].fresh]_vars

\* While a tab is signed in, everything queued is settled in the end: lost
\* answers, lapsed leases and failed transactions are retried.
IntentsSettle ==
  Unfinished(queue) ~> (~Unfinished(queue) \/ \A t \in Tabs : ~Up(t))
=============================================================================
