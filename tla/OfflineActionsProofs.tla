------------------------ MODULE OfflineActionsProofs ------------------------
(* Proofs about OfflineActions: order and uniqueness of what the server     *)
(* handles, that nothing leaves the queue unhandled, that what is owed is   *)
(* forgotten only by a run that paid it, and that the copy and the server   *)
(* agree with the reader once a field has nothing queued.                   *)
EXTENDS OfflineActions, FiniteSetTheorems, SequenceTheorems, WellFoundedInduction, TLAPS

----------------------------------------------------------------------------
(* The inductive invariant.                                                 *)

\* Every place that names an action: the queue, what a tab sent, a stray
\* request, a receipt, and what the reader discarded.
Says(i, a) ==
  \/ i \in DOMAIN queue /\ a = IntentOf(queue[i])
  \/ \E t \in Tabs : i \in DOMAIN run[t].sent /\ a = run[t].sent[i]
  \/ \E s \in stray : i \in DOMAIN s /\ a = s[i]
  \/ \E k \in DOMAIN handled : handled[k].id = i /\ a = handled[k].intent
  \/ \E r \in abandoned : r.id = i /\ a = r.intent

\* All of them say the same of it, so an identifier is never used again and the
\* server's check for one that is (ACTION_ID_REUSED) never fires.
Agreed ==
  /\ \A i \in Ids, a \in Intent : Says(i, a) => i < nextId
  /\ \A i \in Ids, a, b \in Intent : Says(i, a) /\ Says(i, b) => a = b

\* The identifiers of each request under way that the server has yet to handle.
Unhandled(t) == DOMAIN run[t].sent \ DOMAIN run[t].results
Batches == {DOMAIN s : s \in stray} \cup {Unhandled(t) : t \in Tabs}
Flying == UNION Batches
Live == Active(queue) \cup Flying
Settled(i) == Handled(i) \/ Discarded(i)

\* A request carries every older action that is still to be handled.
OlderTravelAlong ==
  \A R \in Batches : \A i \in R, x \in Live : x < i => Settled(x) \/ x \in R

\* What is still to be handled is younger than what was.
NoneIsLate == \A k \in DOMAIN handled : \A x \in Live : Settled(x) \/ handled[k].id < x

\* An action under way is still queued as sent, or it is settled.
FlyingAreQueued ==
  \A x \in Flying : Settled(x) \/ (x \in DOMAIN queue /\ queue[x].state = "dispatched")

\* A failed action has been handled, and the article of a refused one is gone.
FailedAreGone ==
  /\ \A x \in DOMAIN queue :
       queue[x].state = "failed" => Handled(x) /\ server[queue[x].field] = Absent
  /\ \A k \in DOMAIN handled :
       handled[k].outcome = "rejected" => server[handled[k].intent.field] = Absent

StraysCarry == \A s \in stray : DOMAIN s # {}

Ordered == /\ HandledOnceInOrder /\ OlderTravelAlong /\ NoneIsLate /\ FlyingAreQueued
           /\ FailedAreGone /\ StraysCarry

\* What a tab knows of its own request.
Answers(t) ==
  /\ run[t].pc = "answered" => DOMAIN run[t].results = DOMAIN run[t].sent
  /\ run[t].pc \notin {"waiting", "answered"} => DOMAIN run[t].sent = {}
  /\ \A i \in DOMAIN run[t].results :
       /\ \A j \in DOMAIN run[t].sent : j < i => j \in DOMAIN run[t].results
       /\ run[t].results[i] = "retry" =>
            \A j \in DOMAIN run[t].sent : i < j =>
              j \in DOMAIN run[t].results /\ run[t].results[j] = "retry"
       /\ run[t].results[i] # "retry" => Handled(i)
       /\ run[t].results[i] = "rejected" => server[run[t].sent[i].field] = Absent

\* What a tab knows of the browser while the lease is its own.
Holding(t) == Owns(Sync(t), run[t].epoch)
Keeps(t) ==
  /\ run[t].epoch <= epoch
  /\ Holding(t) /\ run[t].pc \in {"waiting", "answered"} =>
       \A i \in DOMAIN run[t].sent :
         /\ i \in DOMAIN queue /\ queue[i].state = "dispatched"
         /\ \A x \in Active(queue) : x < i => x \in DOMAIN run[t].sent
  /\ Holding(t) /\ run[t].pc = "completing" => run[t].fresh

TabsKnow == \A t \in Tabs : Answers(t) /\ Keeps(t)

\* Nothing but the reader decides what a field should be.
Certain(f) == /\ expected[f] # Unknown /\ server[f] # Absent
              /\ \A a \in abandoned : a.intent.field # f

LastCounts ==
  \A f \in Fields : expected[f] # Unknown /\ Of(queue, f) # {} =>
                      queue[Max(Of(queue, f))].value = expected[f]
ServerAgrees ==
  \A f \in Fields : Certain(f) /\ (\A x \in Of(queue, f) : Handled(x)) =>
                      server[f] = expected[f]
LocalAgrees ==
  \A f \in Fields : Certain(f) /\ Of(queue, f) = {} => local[f] \in {expected[f], Absent}

\* The articles of an answer, of a download and of an online operation, while
\* the lease they were read under lasts.
AnswerAgrees(t) ==
  run[t].pc = "answered" =>
    /\ DOMAIN run[t].articles \subseteq FieldsOf(run[t].sent)
    /\ \A f \in FieldsOf(run[t].sent) : server[f] # Absent => f \in DOMAIN run[t].articles
    /\ \A f \in DOMAIN run[t].articles :
         Holding(t) /\ Certain(f)
         /\ (\A x \in Of(queue, f) : x \in DOMAIN run[t].results /\ run[t].results[x] # "retry")
         => run[t].articles[f] = expected[f]
Visiting(t) == Owns(Visit(t), visit[t].epoch)
VisitAgrees(t) ==
  /\ visit[t].epoch <= epoch
  /\ Visiting(t) /\ visit[t].pc = "download" =>
       \A f \in DOMAIN visit[t].articles :
         Certain(f) /\ Of(queue, f) = {} => visit[t].articles[f] = expected[f]
  /\ Visiting(t) /\ visit[t].pc = "online" =>
       \A f \in DOMAIN visit[t].articles : expected[f] # Unknown => Of(queue, f) # {}

Agreement == /\ LastCounts /\ ServerAgrees /\ LocalAgrees
             /\ \A t \in Tabs : AnswerAgrees(t) /\ VisitAgrees(t)

Inv == TypeOK /\ Agreed /\ Ordered /\ TabsKnow /\ Agreement

----------------------------------------------------------------------------
(* Numbers, partial functions and records.                                  *)

LEMMA Numeric ==
  /\ QueueLimit \in Nat /\ BatchLimit \in Nat \ {0}
  /\ MaxActions \in Nat /\ MaxFaults \in Nat /\ MaxChanges \in Nat
  /\ Initial \in Values /\ Absent \notin Values /\ Unknown \notin Values /\ Absent # Unknown
  /\ IsFiniteSet(Ids) /\ Ids \subseteq Nat
<1>1. IsFiniteSet(Ids)
  BY OfflineAssumption, FS_Interval DEF Ids
<1>2. QED
  BY <1>1, OfflineAssumption DEF Ids

Smaller == {pair \in Nat \X Nat : pair[1] < pair[2]}

LEMMA LeastNumber ==
  ASSUME NEW numbers \in SUBSET Nat, numbers # {}
  PROVE  \E x \in numbers : \A y \in numbers : x <= y
<1>1. IsWellFoundedOn(Smaller, Nat)
  <2>1. OpToRel(<, Nat) = Smaller
    BY Zenon DEF OpToRel, Smaller
  <2>2. QED
    BY <2>1, NatLessThanWellFounded, Zenon
<1>2. PICK x \in numbers : \A y \in numbers : ~ (<<y, x>> \in Smaller)
  BY <1>1, WFMin, Zenon
<1>3. \A y \in numbers : x <= y
  <2>1. TAKE y \in numbers
  <2>2. <<y, x>> \notin Smaller /\ y \in Nat /\ x \in Nat
    BY <1>2
  <2>3. ~(y < x)
    BY <2>2 DEF Smaller
  <2>4. QED
    BY <2>2, <2>3
<1>4. QED
  BY <1>3

LEMMA MinIsLeast ==
  ASSUME NEW S \in SUBSET Nat, S # {}
  PROVE  Min(S) \in S /\ \A x \in S : Min(S) <= x
<1>1. \E x \in S : \A y \in S : x <= y
  BY LeastNumber
<1>2. QED
  BY <1>1, Zenon DEF Min

LEMMA MaxIsGreatest ==
  ASSUME NEW S \in SUBSET Ids, S # {}
  PROVE  Max(S) \in S /\ \A x \in S : x <= Max(S)
<1> DEFINE D == {n \in Nat : \E x \in S : n = MaxActions - x}
<1>1. D \in SUBSET Nat /\ D # {}
  <2>1. PICK x : x \in S
    OBVIOUS
  <2>2. x \in Nat /\ x <= MaxActions
    BY <2>1, Numeric DEF Ids
  <2>3. MaxActions - x \in D
    BY <2>1, <2>2, Numeric
  <2>4. QED
    BY <2>3
<1>2. PICK d \in D : \A e \in D : d <= e
  BY <1>1, LeastNumber
<1>3. PICK x \in S : d = MaxActions - x
  BY <1>2
<1>4. \A y \in S : x >= y
  <2>1. TAKE y \in S
  <2>2. y \in Nat /\ y <= MaxActions /\ x \in Nat /\ x <= MaxActions
    BY Numeric DEF Ids
  <2>3. MaxActions - y \in D
    BY <2>2, Numeric
  <2>4. d <= MaxActions - y
    BY <1>2, <2>3
  <2>5. QED
    BY <1>3, <2>2, <2>4, Numeric
<1>5. Max(S) \in S /\ \A y \in S : Max(S) >= y
  BY <1>4, Zenon DEF Max
<1>6. \A y \in S : y \in Nat
  BY Numeric
<1>7. QED
  BY <1>5, <1>6

LEMMA PartialFunction ==
  ASSUME NEW S, NEW T, NEW f
  PROVE  f \in Partial(S, T) <=> f \in [DOMAIN f -> T] /\ DOMAIN f \subseteq S
<1>1. ASSUME f \in Partial(S, T) PROVE f \in [DOMAIN f -> T] /\ DOMAIN f \subseteq S
  <2>1. PICK D \in SUBSET S : f \in [D -> T]
    BY <1>1 DEF Partial
  <2>2. QED
    BY <2>1
<1>2. ASSUME f \in [DOMAIN f -> T], DOMAIN f \subseteq S PROVE f \in Partial(S, T)
  BY <1>2 DEF Partial
<1>3. QED
  BY <1>1, <1>2

LEMMA NothingIsPartial == ASSUME NEW S, NEW T PROVE <<>> \in Partial(S, T) /\ DOMAIN <<>> = {}
<1>1. <<>> \in [{} -> T]
  OBVIOUS
<1>2. QED
  BY <1>1 DEF Partial

LEMMA SubsetSize ==
  ASSUME NEW S \in SUBSET Ids, NEW T \in SUBSET S
  PROVE  /\ IsFiniteSet(S) /\ IsFiniteSet(T)
         /\ Cardinality(S) \in Nat /\ Cardinality(T) \in Nat /\ Cardinality(T) <= Cardinality(S)
<1>1. IsFiniteSet(S)
  BY Numeric, FS_Subset
<1>2. IsFiniteSet(T) /\ Cardinality(T) <= Cardinality(S)
  BY <1>1, FS_Subset
<1>3. QED
  BY <1>1, <1>2, FS_CardinalityType

\* What a tab and a visit are made of.
LEMMA RunParts ==
  ASSUME TypeOK, NEW t \in Tabs
  PROVE  /\ run[t] \in Runs
         /\ run[t].pc \in {"idle", "validating", "loop", "waiting", "answered", "closing", "completing"}
         /\ run[t].live \in BOOLEAN /\ run[t].epoch \in Nat /\ run[t].fresh \in BOOLEAN
         /\ run[t].sent \in [DOMAIN run[t].sent -> Intent] /\ DOMAIN run[t].sent \subseteq Ids
         /\ run[t].results \in [DOMAIN run[t].results -> Outcome]
         /\ DOMAIN run[t].results \subseteq DOMAIN run[t].sent
         /\ run[t].articles \in [DOMAIN run[t].articles -> Values]
         /\ DOMAIN run[t].articles \subseteq Fields
<1>1. run[t] \in Runs
  BY DEF TypeOK
<1>2. /\ run[t].sent \in Partial(Ids, Intent) /\ run[t].results \in Partial(Ids, Outcome)
      /\ run[t].articles \in Partial(Fields, Values)
  BY <1>1 DEF Runs
<1>3. QED
  BY <1>1, <1>2, PartialFunction, Numeric DEF Runs

LEMMA VisitParts ==
  ASSUME TypeOK, NEW t \in Tabs
  PROVE  /\ visit[t] \in Visits
         /\ visit[t].pc \in {"idle", "held", "download", "online"} /\ visit[t].epoch \in Nat
         /\ visit[t].articles \in [DOMAIN visit[t].articles -> Values]
         /\ DOMAIN visit[t].articles \subseteq Fields
<1>1. visit[t] \in Visits
  BY DEF TypeOK
<1>2. visit[t].articles \in Partial(Fields, Values)
  BY <1>1 DEF Visits
<1>3. QED
  BY <1>1, <1>2, PartialFunction, Numeric DEF Visits

LEMMA QueueParts ==
  ASSUME TypeOK, NEW i \in DOMAIN queue
  PROVE  /\ i \in Ids /\ i \in Nat /\ queue[i] \in Action /\ IntentOf(queue[i]) \in Intent
         /\ queue[i].field \in Fields
<1>1. i \in Ids /\ queue[i] \in Action
  BY DEF TypeOK
<1>2. QED
  BY <1>1, Numeric DEF Action, Intent, IntentOf

LEMMA StrayParts ==
  ASSUME TypeOK, NEW s \in stray
  PROVE  s \in [DOMAIN s -> Intent] /\ DOMAIN s \subseteq Ids
<1>1. s \in Partial(Ids, Intent)
  BY DEF TypeOK
<1>2. QED
  BY <1>1, PartialFunction

LEMMA RemainingParts ==
  ASSUME TypeOK, NEW t \in Tabs
  PROVE  /\ DOMAIN Remaining(t) = DOMAIN run[t].sent \ DOMAIN run[t].results
         /\ \A i \in DOMAIN Remaining(t) : Remaining(t)[i] = run[t].sent[i]
         /\ Remaining(t) \in Partial(Ids, Intent)
<1>1. /\ DOMAIN Remaining(t) = DOMAIN run[t].sent \ DOMAIN run[t].results
      /\ \A i \in DOMAIN Remaining(t) : Remaining(t)[i] = run[t].sent[i]
  BY DEF Remaining, Restrict
<1>2. Remaining(t) \in [DOMAIN Remaining(t) -> Intent]
  BY RunParts DEF Remaining, Restrict
<1>3. QED
  BY <1>1, <1>2, RunParts, PartialFunction

----------------------------------------------------------------------------
(* Types.                                                                   *)

LEMMA IdleTyped == IdleRun \in Runs /\ IdleVisit \in Visits
<1>1. <<>> \in Partial(Ids, Intent) /\ <<>> \in Partial(Ids, Outcome) /\ <<>> \in Partial(Fields, Values)
      /\ DOMAIN <<>> = {}
  BY NothingIsPartial
<1>2. Cardinality({}) = 0 /\ Cardinality({}) <= BatchLimit
  BY FS_EmptySet, Numeric
<1>3. QED
  BY <1>1, <1>2, Numeric DEF Runs, Visits, IdleRun, IdleVisit

Leases == [owner : Holder \cup {Nobody}, live : BOOLEAN]

LEMMA LeasesTyped ==
  ASSUME TypeOK, NEW w \in Holder, NEW e
  PROVE  /\ lease \in Leases /\ Free \in Leases /\ Released(w, e) \in Leases
         /\ [owner |-> w, live |-> TRUE] \in Leases
         /\ [lease EXCEPT !.live = FALSE] \in Leases
BY DEF TypeOK, Leases, Free, Released

LEMMA HoldersTyped == ASSUME NEW t \in Tabs PROVE Sync(t) \in Holder /\ Visit(t) \in Holder
BY DEF Sync, Visit, Holder

LEMMA EndRunTyped ==
  ASSUME TypeOK, NEW t \in Tabs, EndRun(t)
  PROVE  run' \in [Tabs -> Runs] /\ lease' \in Leases
<1>1. run' \in [Tabs -> Runs]
  BY IdleTyped DEF EndRun, TypeOK
<1>2. lease' \in Leases
  BY LeasesTyped, HoldersTyped DEF EndRun
<1>3. QED
  BY <1>1, <1>2

LEMMA EndVisitTyped ==
  ASSUME TypeOK, NEW t \in Tabs, EndVisit(t)
  PROVE  visit' \in [Tabs -> Visits] /\ lease' \in Leases
<1>1. visit' \in [Tabs -> Visits]
  BY IdleTyped DEF EndVisit, TypeOK
<1>2. lease' \in Leases
  BY LeasesTyped, HoldersTyped DEF EndVisit
<1>3. QED
  BY <1>1, <1>2

\* A tab that changes its place, its session or its flags only.
LEMMA RunTyped ==
  ASSUME TypeOK, NEW t \in Tabs, NEW r \in Runs, run' = [run EXCEPT ![t] = r]
  PROVE  run' \in [Tabs -> Runs]
BY DEF TypeOK

LEMMA StrayedTyped ==
  ASSUME TypeOK, NEW t \in Tabs
  PROVE  Strayed(t) \subseteq Partial(Ids, Intent)
BY RemainingParts DEF Strayed, TypeOK

LEMMA MarkedTyped ==
  ASSUME TypeOK, NEW S, NEW b \in BOOLEAN, queue' = Marked(S, "dispatched", b)
  PROVE  /\ DOMAIN queue' = DOMAIN queue
         /\ \A i \in DOMAIN queue :
              /\ queue'[i].field = queue[i].field /\ queue'[i].value = queue[i].value
              /\ queue'[i].base = queue[i].base
              /\ queue'[i].state = IF i \in S THEN "dispatched" ELSE queue[i].state
         /\ queue' \in [DOMAIN queue -> Action]
         /\ \A i, j \in DOMAIN queue :
              i < j /\ queue'[i].field = queue'[j].field => queue'[i].state # "pending"
<1>1. DOMAIN queue' = DOMAIN queue
  BY DEF Marked
<1>2. ASSUME NEW i \in DOMAIN queue
      PROVE  /\ queue'[i].field = queue[i].field /\ queue'[i].value = queue[i].value
             /\ queue'[i].base = queue[i].base
             /\ queue'[i].state = IF i \in S THEN "dispatched" ELSE queue[i].state
             /\ queue'[i] \in Action
  <2>1. queue'[i] = IF i \in S THEN [queue[i] EXCEPT !.state = "dispatched", !.waiting = b]
                    ELSE queue[i]
    BY DEF Marked
  <2>2. queue[i] \in Action
    BY QueueParts
  <2>3. QED
    BY <2>1, <2>2 DEF Action
<1>3. queue' \in [DOMAIN queue -> Action]
  BY <1>1, <1>2 DEF Marked
<1>4. ASSUME NEW i \in DOMAIN queue, NEW j \in DOMAIN queue, i < j,
             queue'[i].field = queue'[j].field
      PROVE  queue'[i].state # "pending"
  BY <1>2, <1>4 DEF TypeOK
<1>5. QED
  BY <1>1, <1>2, <1>3, <1>4

QueueTyped(q) ==
  /\ q \in [DOMAIN q -> Action] /\ DOMAIN q \subseteq Ids /\ Cardinality(DOMAIN q) <= QueueLimit
  /\ \A i, j \in DOMAIN q : i < j /\ q[i].field = q[j].field => q[i].state # "pending"

LEMMA TypesByParts ==
  TypeOK <=>
    /\ QueueTyped(queue) /\ local \in [Fields -> Values \cup {Absent}] /\ epoch \in 0 .. changes
    /\ lease \in Leases /\ unsettled \in BOOLEAN
    /\ session \in [Tabs -> [up : BOOLEAN, epoch : 0 .. MaxChanges]]
    /\ run \in [Tabs -> Runs] /\ visit \in [Tabs -> Visits]
    /\ server \in [Fields -> Values \cup {Absent}] /\ handled \in Seq(Receipts)
    /\ stray \subseteq Partial(Ids, Intent)
    /\ nextId \in 1 .. MaxActions + 1 /\ faults \in 0 .. MaxFaults /\ changes \in 0 .. MaxChanges
    /\ expected \in [Fields -> Values \cup {Unknown}]
    /\ abandoned \subseteq [id : Ids, intent : Intent]
BY DEF TypeOK, QueueTyped, Leases

LEMMA BudgetTyped ==
  ASSUME TypeOK, Fault \/ Change \/ UNCHANGED budget, epoch' = epoch
  PROVE  faults' \in 0 .. MaxFaults /\ changes' \in 0 .. MaxChanges /\ epoch' \in 0 .. changes'
<1>1. CASE Fault
  BY <1>1, Numeric DEF Fault, TypeOK
<1>2. CASE Change
  BY <1>2, Numeric DEF Change, TypeOK
<1>3. CASE UNCHANGED budget
  BY <1>3 DEF budget, TypeOK
<1>4. QED
  BY <1>1, <1>2, <1>3

LEMMA TypesNext ==
  ASSUME QueueTyped(queue)', local' \in [Fields -> Values \cup {Absent}], epoch' \in 0 .. changes',
         lease' \in Leases, unsettled' \in BOOLEAN,
         session' \in [Tabs -> [up : BOOLEAN, epoch : 0 .. MaxChanges]],
         run' \in [Tabs -> Runs], visit' \in [Tabs -> Visits],
         server' \in [Fields -> Values \cup {Absent}], handled' \in Seq(Receipts),
         stray' \subseteq Partial(Ids, Intent), nextId' \in 1 .. MaxActions + 1,
         faults' \in 0 .. MaxFaults, changes' \in 0 .. MaxChanges,
         expected' \in [Fields -> Values \cup {Unknown}],
         abandoned' \subseteq [id : Ids, intent : Intent]
  PROVE  TypeOK'
BY DEF TypeOK, QueueTyped, Leases

\* A step that leaves the queue's fields, the server and the reader's
\* expectations alone.
LEMMA TypesOfTheTabs ==
  ASSUME TypeOK, QueueTyped(queue)', UNCHANGED <<local, server, handled, nextId, history>>,
         Fault \/ Change \/ UNCHANGED budget, epoch' = epoch,
         lease' \in Leases, unsettled' \in BOOLEAN,
         session' \in [Tabs -> [up : BOOLEAN, epoch : 0 .. MaxChanges]],
         run' \in [Tabs -> Runs], visit' \in [Tabs -> Visits],
         stray' \subseteq Partial(Ids, Intent)
  PROVE  TypeOK'
<1>1. faults' \in 0 .. MaxFaults /\ changes' \in 0 .. MaxChanges /\ epoch' \in 0 .. changes'
  BY BudgetTyped
<1>2. /\ local' \in [Fields -> Values \cup {Absent}] /\ server' \in [Fields -> Values \cup {Absent}]
      /\ handled' \in Seq(Receipts) /\ nextId' \in 1 .. MaxActions + 1
      /\ expected' \in [Fields -> Values \cup {Unknown}]
      /\ abandoned' \subseteq [id : Ids, intent : Intent]
  BY DEF TypeOK, history
<1>3. QED
  BY <1>1, <1>2, TypesNext, Zenon

\* The parts a step of a tab leaves alone keep their types.
LEMMA TypesKept ==
  ASSUME TypeOK
  PROVE  /\ UNCHANGED queue => QueueTyped(queue)'
         /\ UNCHANGED lease => lease' \in Leases
         /\ UNCHANGED unsettled => unsettled' \in BOOLEAN
         /\ UNCHANGED session => session' \in [Tabs -> [up : BOOLEAN, epoch : 0 .. MaxChanges]]
         /\ UNCHANGED run => run' \in [Tabs -> Runs]
         /\ UNCHANGED visit => visit' \in [Tabs -> Visits]
         /\ UNCHANGED stray => stray' \subseteq Partial(Ids, Intent)
<1>1. UNCHANGED queue => QueueTyped(queue)'
  BY DEF TypeOK, QueueTyped
<1>2. QED
  BY <1>1 DEF TypeOK, Leases

LEMMA RunChanges ==
  ASSUME TypeOK, NEW t \in Tabs
  PROVE  /\ \A b \in BOOLEAN :
              [IdleRun EXCEPT !.pc = "validating", !.live = TRUE, !.synced = b] \in Runs
         /\ [run[t] EXCEPT !.pc = "loop", !.epoch = epoch] \in Runs
         /\ [run[t] EXCEPT !.pc = "closing"] \in Runs
         /\ [run[t] EXCEPT !.pc = "completing", !.fresh = TRUE] \in Runs
         /\ [run[t] EXCEPT !.live = FALSE] \in Runs
<1>1. IdleRun \in Runs /\ run[t] \in Runs
  BY IdleTyped, RunParts
<1>2. epoch \in 0 .. MaxChanges
  BY Numeric DEF TypeOK
<1>3. \A b \in BOOLEAN :
        [IdleRun EXCEPT !.pc = "validating", !.live = TRUE, !.synced = b] \in Runs
  BY <1>1 DEF Runs, IdleRun
<1>4. QED
  BY <1>1, <1>2, <1>3 DEF Runs

LEMMA RequestTypes == ASSUME TypeOK, NEW t \in Tabs, Request(t) PROVE TypeOK'
<1>1. PICK r \in Runs : run' = [run EXCEPT ![t] = r]
  BY RunChanges DEF Request, TypeOK
<1>2. run' \in [Tabs -> Runs]
  BY <1>1, RunTyped
<1>3. QED
  BY <1>2, TypesOfTheTabs, TypesKept DEF Request, browser, remote, budget

\* A run that ends, whatever came before.
LEMMA EndingTypes ==
  ASSUME TypeOK, NEW t \in Tabs, EndRun(t), QueueTyped(queue)', unsettled' \in BOOLEAN,
         UNCHANGED <<local, epoch, session, visit, server, handled, nextId, history>>,
         Fault \/ Change \/ UNCHANGED budget, stray' = stray \/ stray' = Strayed(t)
  PROVE  TypeOK'
<1>1. run' \in [Tabs -> Runs] /\ lease' \in Leases
  BY EndRunTyped
<1>2. stray' \subseteq Partial(Ids, Intent)
  BY StrayedTyped, TypesKept
<1>3. QED
  BY <1>1, <1>2, TypesOfTheTabs, TypesKept

LEMMA RunEndTypes ==
  ASSUME TypeOK, NEW t \in Tabs,
         \/ ValidationFails(t) \/ AnswerTooLate(t) \/ ReconcileFails(t) \/ Complete(t) \/ Abandon(t)
  PROVE  TypeOK'
<1>1. CASE ValidationFails(t)
  BY <1>1, EndingTypes, TypesKept DEF ValidationFails, remote
<1>2. CASE AnswerTooLate(t)
  BY <1>2, EndingTypes, TypesKept DEF AnswerTooLate, remote
<1>3. CASE ReconcileFails(t)
  BY <1>3, EndingTypes, TypesKept DEF ReconcileFails, remote
<1>4. CASE Complete(t)
  <2>1. unsettled' \in BOOLEAN
    BY <1>4 DEF Complete
  <2>2. QED
    BY <1>4, <2>1, EndingTypes, TypesKept DEF Complete, remote
<1>5. CASE Abandon(t)
  BY <1>5, EndingTypes, TypesKept DEF Abandon
<1>6. QED
  BY <1>1, <1>2, <1>3, <1>4, <1>5

LEMMA GiveUpTypes == ASSUME TypeOK, NEW t \in Tabs, GiveUp(t) PROVE TypeOK'
<1>1. QueueTyped(queue)'
  <2>1. CASE Owns(Sync(t), run[t].epoch)
    <3>1. queue' = Marked(DOMAIN run[t].sent, "dispatched", TRUE)
      BY <2>1 DEF GiveUp
    <3>2. QED
      BY <3>1, MarkedTyped DEF QueueTyped, TypeOK
  <2>2. CASE ~Owns(Sync(t), run[t].epoch)
    BY <2>2, TypesKept DEF GiveUp
  <2>3. QED
    BY <2>1, <2>2
<1>2. QED
  BY <1>1, EndingTypes, TypesKept DEF GiveUp

LEMMA AcquireTypes == ASSUME TypeOK, NEW t \in Tabs, Acquire(t) PROVE TypeOK'
<1>1. CASE Available
  <2>1. run' = [run EXCEPT ![t] = [run[t] EXCEPT !.pc = "loop", !.epoch = epoch]]
    BY <1>1, RunParts DEF Acquire, TypeOK
  <2>2. run' \in [Tabs -> Runs]
    BY <2>1, RunChanges, RunTyped
  <2>3. lease' \in Leases
    BY <1>1, LeasesTyped, HoldersTyped DEF Acquire
  <2>4. QED
    BY <2>2, <2>3, TypesOfTheTabs, TypesKept DEF Acquire, remote
<1>2. CASE ~Available
  BY <1>2, EndingTypes, TypesKept DEF Acquire, remote
<1>3. QED
  BY <1>1, <1>2

LEMMA DispatchNothingTypes == ASSUME TypeOK, NEW t \in Tabs, DispatchNothing(t) PROVE TypeOK'
<1>1. run' = [run EXCEPT ![t] = [run[t] EXCEPT !.pc = "closing"]]
  BY RunParts DEF DispatchNothing, TypeOK
<1>2. run' \in [Tabs -> Runs]
  BY <1>1, RunChanges, RunTyped
<1>3. QED
  BY <1>2, TypesOfTheTabs, TypesKept DEF DispatchNothing, remote, browser

LEMMA ReconcileTypes == ASSUME TypeOK, NEW t \in Tabs, Reconcile(t) PROVE TypeOK'
<1>1. CASE Unfinished(queue)
  BY <1>1, EndingTypes, TypesKept DEF Reconcile, remote, history
<1>2. CASE ~Unfinished(queue)
  <2>1. run' = [run EXCEPT ![t] = [run[t] EXCEPT !.pc = "completing", !.fresh = TRUE]]
    BY <1>2, RunParts DEF Reconcile, TypeOK
  <2>2. run' \in [Tabs -> Runs]
    BY <2>1, RunChanges, RunTyped
  <2>3. QED
    BY <1>2, <2>2, TypesOfTheTabs, TypesKept DEF Reconcile, remote, history
<1>3. QED
  BY <1>1, <1>2

LEMMA OfTyped ==
  ASSUME NEW q, q \in [DOMAIN q -> Action], DOMAIN q \subseteq Ids, NEW f
  PROVE  /\ Of(q, f) \subseteq Active(q) /\ Active(q) \subseteq DOMAIN q
         /\ Of(q, f) \in SUBSET Ids
         /\ \A i \in Of(q, f) : q[i].field = f /\ q[i].value \in Values /\ q[i].state # "failed"
         /\ Of(q, f) # {} => /\ Max(Of(q, f)) \in Of(q, f)
                             /\ \A i \in Of(q, f) : i <= Max(Of(q, f))
<1>1. /\ Of(q, f) \subseteq Active(q) /\ Active(q) \subseteq DOMAIN q
      /\ \A i \in Of(q, f) : q[i].field = f /\ q[i].state # "failed"
  BY DEF Of, Active
<1>2. Of(q, f) \in SUBSET Ids /\ \A i \in Of(q, f) : q[i].value \in Values
  BY <1>1 DEF Action
<1>3. QED
  BY <1>1, <1>2, MaxIsGreatest

LEMMA OverlayTyped ==
  ASSUME NEW q, q \in [DOMAIN q -> Action], DOMAIN q \subseteq Ids,
         NEW copy \in [Fields -> Values \cup {Absent}]
  PROVE  /\ Overlay(copy, q) \in [Fields -> Values \cup {Absent}]
         /\ \A f \in Fields : copy[f] # Absent => Overlay(copy, q)[f] \in Values
         /\ \A f \in Fields : Of(q, f) = {} => Overlay(copy, q)[f] = copy[f]
<1>1. ASSUME NEW f \in Fields, Of(q, f) # {} PROVE q[Max(Of(q, f))].value \in Values
  BY <1>1, OfTyped
<1>2. QED
  BY <1>1 DEF Overlay

\* Visits, leases and sessions.
LEMMA VisitTypes ==
  ASSUME TypeOK, NEW t \in Tabs, VisitAcquire(t) \/ Download(t) \/ VisitFails(t)
  PROVE  TypeOK'
<1>1. CASE VisitAcquire(t)
  <2>1. [IdleVisit EXCEPT !.pc = "held", !.epoch = epoch] \in Visits
    <3>1. epoch \in 0 .. MaxChanges
      BY Numeric DEF TypeOK
    <3>2. QED
      BY <3>1, IdleTyped DEF Visits, IdleVisit
  <2>2. visit' \in [Tabs -> Visits]
    BY <1>1, <2>1 DEF VisitAcquire, TypeOK
  <2>3. lease' \in Leases
    BY <1>1, LeasesTyped, HoldersTyped DEF VisitAcquire
  <2>4. QED
    BY <1>1, <2>2, <2>3, TypesOfTheTabs, TypesKept DEF VisitAcquire, remote
<1>2. CASE Download(t)
  <2> DEFINE pages == [f \in Visible(Fields) |-> Overlay(server, queue)[f]]
  <2>1. pages \in Partial(Fields, Values)
    <3>1. server \in [Fields -> Values \cup {Absent}] /\ queue \in [DOMAIN queue -> Action]
          /\ DOMAIN queue \subseteq Ids
      BY DEF TypeOK
    <3>2. \A f \in Visible(Fields) : f \in Fields /\ Overlay(server, queue)[f] \in Values
      BY <3>1, OverlayTyped DEF Visible
    <3>3. QED
      BY <3>2, PartialFunction
  <2>2. visit' = [visit EXCEPT ![t] = [visit[t] EXCEPT !.pc = "download", !.articles = pages]]
    BY <1>2, VisitParts DEF Download, TypeOK
  <2> HIDE DEF pages
  <2>3. [visit[t] EXCEPT !.pc = "download", !.articles = pages] \in Visits
    BY <2>1, VisitParts DEF Visits
  <2>4. visit' \in [Tabs -> Visits]
    BY <2>2, <2>3 DEF TypeOK
  <2>5. QED
    BY <1>2, <2>4, TypesOfTheTabs, TypesKept DEF Download, remote, browser
<1>3. CASE VisitFails(t)
  <2>1. visit' \in [Tabs -> Visits] /\ lease' \in Leases
    BY <1>3, EndVisitTyped DEF VisitFails
  <2>2. QED
    BY <1>3, <2>1, TypesOfTheTabs, TypesKept DEF VisitFails, remote
<1>4. QED
  BY <1>1, <1>2, <1>3

LEMMA ExpireTypes == ASSUME TypeOK, Expire PROVE TypeOK'
<1>1. lease' \in Leases
  BY DEF Expire, Leases, TypeOK
<1>2. QED
  BY <1>1, TypesOfTheTabs, TypesKept DEF Expire, remote, tabs

LEMMA SessionTyped ==
  ASSUME TypeOK, NEW t \in Tabs
  PROVE  [session EXCEPT ![t] = [up |-> TRUE, epoch |-> epoch]]
           \in [Tabs -> [up : BOOLEAN, epoch : 0 .. MaxChanges]]
<1>1. epoch \in 0 .. MaxChanges
  BY Numeric DEF TypeOK
<1>2. QED
  BY <1>1 DEF TypeOK

LEMMA ReloadTypes == ASSUME TypeOK, NEW t \in Tabs, Reload(t) PROVE TypeOK'
<1>1. run' \in [Tabs -> Runs] /\ visit' \in [Tabs -> Visits]
  BY IdleTyped DEF Reload, TypeOK
<1>2. stray' \subseteq Partial(Ids, Intent)
  BY StrayedTyped DEF Reload
<1>3. session' \in [Tabs -> [up : BOOLEAN, epoch : 0 .. MaxChanges]]
  BY SessionTyped DEF Reload
<1>4. QED
  BY <1>1, <1>2, <1>3, TypesOfTheTabs, TypesKept DEF Reload, browser

LEMMA DeadRunTyped ==
  ASSUME TypeOK, NEW t \in Tabs, run' = [run EXCEPT ![t].live = FALSE]
  PROVE  run' \in [Tabs -> Runs]
<1>1. run' = [run EXCEPT ![t] = [run[t] EXCEPT !.live = FALSE]]
  BY RunParts DEF TypeOK
<1>2. QED
  BY <1>1, RunChanges, RunTyped

LEMMA SignInTypes == ASSUME TypeOK, NEW t \in Tabs, SignIn(t) PROVE TypeOK'
<1>1. run' \in [Tabs -> Runs]
  BY DeadRunTyped DEF SignIn
<1>2. session' \in [Tabs -> [up : BOOLEAN, epoch : 0 .. MaxChanges]]
  BY SessionTyped DEF SignIn
<1>3. QED
  BY <1>1, <1>2, TypesOfTheTabs, TypesKept DEF SignIn, browser, remote

LEMMA NextEpoch ==
  ASSUME TypeOK, Change, epoch' = epoch + 1
  PROVE  /\ faults' \in 0 .. MaxFaults /\ changes' \in 0 .. MaxChanges /\ epoch' \in 0 .. changes'
         /\ epoch' \in 0 .. MaxChanges
BY Numeric DEF Change, TypeOK

LEMMA SignOutTypes == ASSUME TypeOK, NEW t \in Tabs, SignOut(t) PROVE TypeOK'
<1>1. run' \in [Tabs -> Runs]
  BY DeadRunTyped DEF SignOut
<1>2. session' \in [Tabs -> [up : BOOLEAN, epoch : 0 .. MaxChanges]]
  BY DEF SignOut, TypeOK
<1>3. faults' \in 0 .. MaxFaults /\ changes' \in 0 .. MaxChanges /\ epoch' \in 0 .. changes'
  BY NextEpoch DEF SignOut
<1>4. lease' \in Leases /\ local' \in [Fields -> Values \cup {Absent}]
  BY DEF SignOut, Leases, Free
<1>5. /\ visit' \in [Tabs -> Visits] /\ server' \in [Fields -> Values \cup {Absent}]
      /\ handled' \in Seq(Receipts) /\ nextId' \in 1 .. MaxActions + 1
      /\ expected' \in [Fields -> Values \cup {Unknown}] /\ unsettled' \in BOOLEAN
      /\ abandoned' \subseteq [id : Ids, intent : Intent]
      /\ stray' \subseteq Partial(Ids, Intent)
  BY DEF SignOut, TypeOK, history, remote
<1>6. QED
  BY <1>1, <1>2, <1>3, <1>4, <1>5, TypesNext, TypesKept DEF SignOut

LEMMA PatchedTyped ==
  ASSUME NEW copy \in [Fields -> Values \cup {Absent}], NEW articles,
         articles \in [DOMAIN articles -> Values]
  PROVE  Patched(copy, articles) \in [Fields -> Values \cup {Absent}]
BY DEF Patched

LEMMA LearnedTyped ==
  ASSUME TypeOK, NEW copy, NEW q, NEW F
  PROVE  /\ Learned(copy, q) \in [Fields -> Values \cup {Unknown}]
         /\ Forgotten(F) \in [Fields -> Values \cup {Unknown}]
BY DEF Learned, Forgotten, TypeOK

LEMMA ApplyTyped ==
  ASSUME TypeOK, NEW i \in Ids, NEW a \in Intent, Apply(i, a)
  PROVE  server' \in [Fields -> Values \cup {Absent}] /\ handled' \in Seq(Receipts)
<1>1. a.field \in Fields /\ a.value \in Values
  BY DEF Intent
<1>2. server' \in [Fields -> Values \cup {Absent}]
  BY <1>1 DEF Apply, TypeOK
<1>3. handled' \in Seq(Receipts)
  <2>1. CASE Handled(i)
    BY <2>1 DEF Apply, TypeOK
  <2>2. CASE ~Handled(i)
    <3>1. OutcomeOf(i, a) \in {"applied", "noop", "rejected"}
      BY <2>2 DEF OutcomeOf
    <3>2. [id |-> i, intent |-> a, outcome |-> OutcomeOf(i, a)] \in Receipts
      BY <3>1 DEF Receipts
    <3>3. QED
      BY <2>2, <3>2 DEF Apply, TypeOK
  <2>3. QED
    BY <2>1, <2>2
<1>4. QED
  BY <1>2, <1>3

LEMMA CurrentIsLeast ==
  ASSUME TypeOK, NEW t \in Tabs, InProgress(t)
  PROVE  /\ Current(t) \in DOMAIN Remaining(t) /\ Current(t) \in Ids
         /\ Current(t) \in DOMAIN run[t].sent /\ Current(t) \notin DOMAIN run[t].results
         /\ \A i \in DOMAIN Remaining(t) : Current(t) <= i
         /\ run[t].sent[Current(t)] \in Intent
<1>1. DOMAIN Remaining(t) \in SUBSET Nat /\ DOMAIN Remaining(t) # {}
  BY RemainingParts, RunParts, Numeric DEF InProgress
<1>2. QED
  BY <1>1, MinIsLeast, RemainingParts, RunParts DEF Current

\* What handling does to the tab's own request.
LEMMA HandleEffect ==
  ASSUME TypeOK, NEW t \in Tabs, Handle(t)
  PROVE  /\ run' \in [Tabs -> Runs]
         /\ \A u \in Tabs : u # t => run'[u] = run[u]
         /\ run'[t].sent = run[t].sent /\ run'[t].pc = run[t].pc /\ run'[t].epoch = run[t].epoch
         /\ run'[t].fresh = run[t].fresh /\ run'[t].articles = run[t].articles
         /\ DOMAIN run'[t].results = DOMAIN run[t].results \cup {Current(t)}
         /\ \A j \in DOMAIN run[t].results : run'[t].results[j] = run[t].results[j]
         /\ run'[t].results[Current(t)] = OutcomeOf(Current(t), run[t].sent[Current(t)])
<1> DEFINE i == Current(t)
           o == OutcomeOf(i, run[t].sent[i])
           rs == [j \in DOMAIN run[t].results \cup {i} |-> IF j = i THEN o ELSE run[t].results[j]]
<1>1. i \in DOMAIN run[t].sent /\ i \notin DOMAIN run[t].results /\ i \in Ids
  BY CurrentIsLeast DEF Handle
<1>2. o \in Outcome
  BY DEF OutcomeOf, Outcome, Done
<1>3. rs \in Partial(Ids, Outcome) /\ DOMAIN rs \subseteq DOMAIN run[t].sent
  <2>1. rs \in [DOMAIN run[t].results \cup {i} -> Outcome]
    BY <1>2, RunParts
  <2>2. DOMAIN rs = DOMAIN run[t].results \cup {i}
    OBVIOUS
  <2>3. QED
    BY <2>1, <2>2, <1>1, RunParts, PartialFunction
<1>4. run' = [run EXCEPT ![t] = [run[t] EXCEPT !.results = rs]]
  BY RunParts DEF Handle, TypeOK
<1>5. [run[t] EXCEPT !.results = rs] \in Runs
  <2> HIDE DEF rs
  <2>1. QED
    BY <1>3, RunParts DEF Runs
<1>6. run' \in [Tabs -> Runs]
  BY <1>4, <1>5, RunTyped
<1>7. run'[t] = [run[t] EXCEPT !.results = rs] /\ \A u \in Tabs : u # t => run'[u] = run[u]
  <2> HIDE DEF rs
  <2>1. QED
    BY <1>4 DEF TypeOK
<1>8. run'[t].results = rs /\ run'[t].sent = run[t].sent /\ run'[t].pc = run[t].pc
      /\ run'[t].epoch = run[t].epoch /\ run'[t].fresh = run[t].fresh
      /\ run'[t].articles = run[t].articles
  <2> HIDE DEF rs
  <2>1. QED
    BY <1>7, RunParts DEF Runs
<1>9. DOMAIN rs = DOMAIN run[t].results \cup {i} /\ rs[i] = o
      /\ \A j \in DOMAIN run[t].results : rs[j] = run[t].results[j]
  BY <1>1
<1> HIDE DEF rs
<1>10. QED
  BY <1>6, <1>7, <1>8, <1>9

LEMMA HandleFailsEffect ==
  ASSUME TypeOK, NEW t \in Tabs, HandleFails(t)
  PROVE  /\ run' \in [Tabs -> Runs]
         /\ \A u \in Tabs : u # t => run'[u] = run[u]
         /\ run'[t].sent = run[t].sent /\ run'[t].pc = run[t].pc /\ run'[t].epoch = run[t].epoch
         /\ run'[t].fresh = run[t].fresh /\ run'[t].articles = run[t].articles
         /\ DOMAIN run'[t].results = DOMAIN run[t].sent
         /\ \A j \in DOMAIN run[t].results : run'[t].results[j] = run[t].results[j]
         /\ \A j \in DOMAIN run[t].sent :
              j \notin DOMAIN run[t].results => run'[t].results[j] = "retry"
<1> DEFINE rs == [j \in DOMAIN run[t].sent |->
                    IF j \in DOMAIN run[t].results THEN run[t].results[j] ELSE "retry"]
<1>1. rs \in Partial(Ids, Outcome) /\ DOMAIN rs = DOMAIN run[t].sent
  <2>1. rs \in [DOMAIN run[t].sent -> Outcome]
    BY RunParts DEF Outcome
  <2>2. DOMAIN rs = DOMAIN run[t].sent
    OBVIOUS
  <2>3. QED
    BY <2>1, <2>2, RunParts, PartialFunction
<1>2. run' = [run EXCEPT ![t] = [run[t] EXCEPT !.results = rs]]
  BY RunParts DEF HandleFails, TypeOK
<1>3. /\ \A j \in DOMAIN run[t].results : rs[j] = run[t].results[j]
      /\ \A j \in DOMAIN run[t].sent : j \notin DOMAIN run[t].results => rs[j] = "retry"
  BY RunParts
<1> HIDE DEF rs
<1>4. [run[t] EXCEPT !.results = rs] \in Runs
  BY <1>1, RunParts DEF Runs
<1>5. run' \in [Tabs -> Runs]
  BY <1>2, <1>4, RunTyped
<1>6. run'[t] = [run[t] EXCEPT !.results = rs] /\ \A u \in Tabs : u # t => run'[u] = run[u]
  BY <1>2 DEF TypeOK
<1>7. run'[t].results = rs /\ run'[t].sent = run[t].sent /\ run'[t].pc = run[t].pc
      /\ run'[t].epoch = run[t].epoch /\ run'[t].fresh = run[t].fresh
      /\ run'[t].articles = run[t].articles
  BY <1>6, RunParts DEF Runs
<1>8. QED
  BY <1>1, <1>3, <1>5, <1>6, <1>7

LEMMA AnswerEffect ==
  ASSUME TypeOK, NEW t \in Tabs, Answer(t)
  PROVE  /\ run' \in [Tabs -> Runs]
         /\ \A u \in Tabs : u # t => run'[u] = run[u]
         /\ run'[t].sent = run[t].sent /\ run'[t].pc = "answered" /\ run'[t].epoch = run[t].epoch
         /\ run'[t].fresh = run[t].fresh /\ run'[t].results = run[t].results
         /\ DOMAIN run'[t].articles = Visible(FieldsOf(run[t].sent))
         /\ \A f \in Visible(FieldsOf(run[t].sent)) : run'[t].articles[f] = server[f]
<1> DEFINE F == Visible(FieldsOf(run[t].sent))
           as == [f \in F |-> server[f]]
<1>1. F \subseteq Fields /\ \A f \in F : server[f] \in Values
  <2>1. FieldsOf(run[t].sent) \subseteq Fields
    BY RunParts DEF FieldsOf, Intent
  <2>2. QED
    BY <2>1 DEF Visible, TypeOK
<1>2. as \in Partial(Fields, Values)
  BY <1>1, PartialFunction
<1>3. run' = [run EXCEPT ![t] = [run[t] EXCEPT !.pc = "answered", !.articles = as]]
  BY RunParts DEF Answer, TypeOK
<1>4. DOMAIN as = F /\ \A f \in F : as[f] = server[f]
  OBVIOUS
<1> HIDE DEF as, F
<1>5. [run[t] EXCEPT !.pc = "answered", !.articles = as] \in Runs
  BY <1>2, RunParts DEF Runs
<1>6. run' \in [Tabs -> Runs]
  BY <1>3, <1>5, RunTyped
<1>7. /\ run'[t] = [run[t] EXCEPT !.pc = "answered", !.articles = as]
      /\ \A u \in Tabs : u # t => run'[u] = run[u]
  BY <1>3 DEF TypeOK
<1>8. run'[t].articles = as /\ run'[t].sent = run[t].sent /\ run'[t].pc = "answered"
      /\ run'[t].epoch = run[t].epoch /\ run'[t].fresh = run[t].fresh
      /\ run'[t].results = run[t].results
  BY <1>7, RunParts DEF Runs
<1>9. QED
  BY <1>4, <1>6, <1>7, <1>8 DEF F

LEMMA ServeTypes ==
  ASSUME TypeOK, NEW t \in Tabs, Handle(t) \/ HandleFails(t) \/ Answer(t) PROVE TypeOK'
<1>1. CASE Handle(t)
  <2>1. server' \in [Fields -> Values \cup {Absent}] /\ handled' \in Seq(Receipts)
    BY <1>1, CurrentIsLeast, ApplyTyped DEF Handle
  <2>2. run' \in [Tabs -> Runs]
    BY <1>1, HandleEffect
  <2>3. /\ local' \in [Fields -> Values \cup {Absent}] /\ epoch' \in 0 .. changes'
        /\ nextId' \in 1 .. MaxActions + 1
        /\ faults' \in 0 .. MaxFaults /\ changes' \in 0 .. MaxChanges
        /\ expected' \in [Fields -> Values \cup {Unknown}]
        /\ abandoned' \subseteq [id : Ids, intent : Intent]
        /\ UNCHANGED <<queue, lease, unsettled, session, visit, stray>>
    BY <1>1 DEF Handle, TypeOK, browser, budget, history
  <2>4. QED
    BY <2>1, <2>2, <2>3, TypesNext, TypesKept
<1>2. CASE HandleFails(t)
  <2>1. run' \in [Tabs -> Runs]
    BY <1>2, HandleFailsEffect
  <2>2. QED
    BY <1>2, <2>1, TypesOfTheTabs, TypesKept DEF HandleFails, browser, remote
<1>3. CASE Answer(t)
  <2>1. run' \in [Tabs -> Runs]
    BY <1>3, AnswerEffect
  <2>2. QED
    BY <1>3, <2>1, TypesOfTheTabs, TypesKept DEF Answer, browser, remote
<1>4. QED
  BY <1>1, <1>2, <1>3

LEMMA StrayCurrent ==
  ASSUME TypeOK, NEW s \in stray, DOMAIN s # {}
  PROVE  /\ Min(DOMAIN s) \in DOMAIN s /\ Min(DOMAIN s) \in Ids
         /\ \A i \in DOMAIN s : Min(DOMAIN s) <= i
         /\ s[Min(DOMAIN s)] \in Intent
<1>1. DOMAIN s \in SUBSET Nat
  BY StrayParts, Numeric
<1>2. QED
  BY <1>1, MinIsLeast, StrayParts

LEMMA HandleStrayTypes ==
  ASSUME TypeOK, NEW s \in stray, DOMAIN s # {}, HandleStray(s)
  PROVE  TypeOK'
<1> DEFINE i == Min(DOMAIN s)
           rest == Restrict(s, DOMAIN s \ {i})
<1>1. server' \in [Fields -> Values \cup {Absent}] /\ handled' \in Seq(Receipts)
  BY StrayCurrent, ApplyTyped DEF HandleStray
<1>2. rest \in Partial(Ids, Intent)
  <2>1. rest \in [DOMAIN s \ {i} -> Intent]
    BY StrayParts DEF Restrict
  <2>2. QED
    BY <2>1, StrayParts, PartialFunction
<1>3. stray' \subseteq Partial(Ids, Intent)
  BY <1>2 DEF HandleStray, TypeOK
<1>4. /\ local' \in [Fields -> Values \cup {Absent}] /\ epoch' \in 0 .. changes'
      /\ nextId' \in 1 .. MaxActions + 1
      /\ faults' \in 0 .. MaxFaults /\ changes' \in 0 .. MaxChanges
      /\ expected' \in [Fields -> Values \cup {Unknown}]
      /\ abandoned' \subseteq [id : Ids, intent : Intent]
      /\ UNCHANGED <<queue, lease, unsettled, session, visit, run>>
  BY DEF HandleStray, TypeOK, browser, budget, history, tabs
<1>5. QED
  BY <1>1, <1>3, <1>4, TypesNext, TypesKept

\* Every identifier in use is smaller than the next.
LEMMA Known ==
  ASSUME TypeOK, Agreed
  PROVE  /\ \A i \in DOMAIN queue : i \in Nat /\ i < nextId
         /\ \A t \in Tabs : \A i \in DOMAIN run[t].sent : i \in Nat /\ i < nextId
         /\ \A s \in stray : \A i \in DOMAIN s : i \in Nat /\ i < nextId
         /\ \A k \in DOMAIN handled :
              /\ handled[k].id \in Nat /\ handled[k].id < nextId
              /\ handled[k].id \in Ids /\ handled[k].intent \in Intent
         /\ nextId \in Nat
<1>1. ASSUME NEW i \in DOMAIN queue PROVE i \in Nat /\ i < nextId
  <2>1. Says(i, IntentOf(queue[i]))
    BY DEF Says
  <2>2. QED
    BY <2>1, QueueParts DEF Agreed
<1>2. ASSUME NEW t \in Tabs, NEW i \in DOMAIN run[t].sent PROVE i \in Nat /\ i < nextId
  <2>1. Says(i, run[t].sent[i])
    BY DEF Says
  <2>2. i \in Ids /\ run[t].sent[i] \in Intent
    BY RunParts
  <2>3. QED
    BY <2>1, <2>2, Numeric DEF Agreed
<1>3. ASSUME NEW s \in stray, NEW i \in DOMAIN s PROVE i \in Nat /\ i < nextId
  <2>1. Says(i, s[i])
    BY DEF Says
  <2>2. i \in Ids /\ s[i] \in Intent
    BY StrayParts
  <2>3. QED
    BY <2>1, <2>2, Numeric DEF Agreed
<1>4. ASSUME NEW k \in DOMAIN handled
      PROVE  /\ handled[k].id \in Nat /\ handled[k].id < nextId
             /\ handled[k].id \in Ids /\ handled[k].intent \in Intent
  <2>1. handled[k] \in Receipts
    BY DEF TypeOK
  <2>2. Says(handled[k].id, handled[k].intent)
    BY DEF Says
  <2>3. QED
    BY <2>1, <2>2, Numeric DEF Agreed, Receipts
<1>5. nextId \in Nat
  BY Numeric DEF TypeOK
<1>6. QED
  BY <1>1, <1>2, <1>3, <1>4, <1>5

\* What an assignment does to the queue.
Kept(fs) == DOMAIN queue \ Replaced(Range(fs))
New(fs) == nextId .. nextId + Len(fs) - 1

LEMMA AssignEffect ==
  ASSUME TypeOK, Agreed, NEW t \in Readers, NEW fs \in Selections, NEW v \in Values, Assign(t, fs, v)
  PROVE  /\ DOMAIN queue' = Kept(fs) \cup New(fs)
         /\ \A i \in Kept(fs) : i \in DOMAIN queue /\ queue'[i] = queue[i] /\ i < nextId /\ i \in Nat
         /\ \A i \in New(fs) :
              /\ i \in Ids /\ i \in Nat /\ nextId <= i /\ i < nextId' /\ queue'[i] \in Action
              /\ i \notin DOMAIN queue
              /\ queue'[i].field \in Range(fs) /\ queue'[i].value = v
              /\ queue'[i].state = "pending"
         /\ \A i, j \in New(fs) : queue'[i].field = queue'[j].field => i = j
         /\ \A f \in Range(fs) : f \in Fields /\ \E i \in New(fs) : queue'[i].field = f
         /\ \A i \in DOMAIN queue : i \notin Kept(fs) =>
              queue[i].state = "pending" /\ queue[i].field \in Range(fs)
         /\ \A i \in Kept(fs) : queue[i].field \in Range(fs) => queue[i].state # "pending"
         /\ nextId <= nextId' /\ nextId' \in Nat
<1>0. PICK shown \in Values : queue' = Queued(fs, v, shown)
  BY Zenon DEF Assign
<1> DEFINE kept == Kept(fs)
           new == New(fs)
           base(f) == BaseOf(f, shown)
           entry(i) == [field |-> fs[i - nextId + 1], value |-> v, base |-> base(fs[i - nextId + 1]),
                        state |-> "pending", waiting |-> FALSE]
<1>1. queue' = [i \in kept \cup new |-> IF i \in kept THEN queue[i] ELSE entry(i)]
  BY <1>0, Zenon DEF Queued, Kept, New
<1>2. fs \in Seq(Fields) /\ IsInjective(fs) /\ Len(fs) \in Nat /\ DOMAIN fs = 1 .. Len(fs)
  BY OfflineAssumption
<1>3. nextId + Len(fs) <= MaxActions + 1 /\ nextId' = nextId + Len(fs) /\ nextId \in Nat /\ 1 <= nextId
  BY Numeric DEF Assign, TypeOK
<1>4. \A i \in kept : i \in DOMAIN queue /\ i \in Nat /\ i < nextId
  BY Known DEF Kept
<1>5. ASSUME NEW i \in new
      PROVE  /\ i \in Ids /\ i \in Nat /\ nextId <= i /\ i < nextId' /\ i \notin kept /\ i \notin DOMAIN queue
             /\ i - nextId + 1 \in DOMAIN fs
  <2>1. i \in Nat /\ nextId <= i /\ i < nextId + Len(fs)
    BY <1>2, <1>3 DEF New
  <2>2. i \in Ids /\ i - nextId + 1 \in 1 .. Len(fs)
    BY <2>1, <1>2, <1>3, Numeric DEF Ids
  <2>3. QED
    BY <2>1, <2>2, <1>2, <1>3, <1>4, Known
<1>6. \A f \in Range(fs) : f \in Fields
  BY <1>2 DEF Range
<1>7. ASSUME NEW k \in DOMAIN fs PROVE base(fs[k]) \in Values
  <2>2. CASE Replaced({fs[k]}) = {}
    BY <1>0, <2>2 DEF BaseOf
  <2>3. CASE Replaced({fs[k]}) # {}
    <3>1. Replaced({fs[k]}) \in SUBSET Ids /\ Replaced({fs[k]}) \subseteq DOMAIN queue
      BY QueueParts DEF Replaced
    <3>2. Max(Replaced({fs[k]})) \in DOMAIN queue
      BY <2>3, <3>1, MaxIsGreatest
    <3>3. queue[Max(Replaced({fs[k]}))].base \in Values
      BY <3>2, QueueParts DEF Action
    <3>4. QED
      BY <2>3, <3>3 DEF BaseOf
  <2>4. QED
    BY <2>2, <2>3
<1>8. ASSUME NEW i \in new
      PROVE  /\ queue'[i] = entry(i) /\ queue'[i] \in Action
             /\ queue'[i].field = fs[i - nextId + 1] /\ queue'[i].field \in Range(fs)
             /\ queue'[i].value = v /\ queue'[i].state = "pending"
  <2>1. queue'[i] = entry(i)
    BY <1>1, <1>5
  <2>2. i - nextId + 1 \in DOMAIN fs /\ base(fs[i - nextId + 1]) \in Values
    BY <1>5, <1>7
  <2>3. fs[i - nextId + 1] \in Fields /\ fs[i - nextId + 1] \in Range(fs)
    BY <2>2, <1>2 DEF Range
  <2>4. QED
    BY <2>1, <2>2, <2>3 DEF Action
<1>9. ASSUME NEW i \in new, NEW j \in new, queue'[i].field = queue'[j].field PROVE i = j
  <2>1. fs[i - nextId + 1] = fs[j - nextId + 1]
    BY <1>8, <1>9
  <2>2. i - nextId + 1 = j - nextId + 1
    BY <2>1, <1>2, <1>5 DEF IsInjective
  <2>3. QED
    BY <2>2, <1>3, <1>5
<1>10. ASSUME NEW f \in Range(fs) PROVE \E i \in new : queue'[i].field = f
  <2>1. PICK k \in DOMAIN fs : fs[k] = f
    BY DEF Range
  <2>2. k \in Nat /\ 1 <= k /\ k <= Len(fs)
    BY <1>2
  <2>3. nextId + k - 1 \in new /\ (nextId + k - 1) - nextId + 1 = k
    BY <2>2, <1>2, <1>3 DEF New
  <2>4. QED
    BY <2>1, <2>3, <1>8
<1>11. \A i \in kept : queue'[i] = queue[i]
  BY <1>1
<1>12. DOMAIN queue' = kept \cup new
  BY <1>1
<1>13. /\ \A i \in DOMAIN queue : i \notin kept =>
              queue[i].state = "pending" /\ queue[i].field \in Range(fs)
       /\ \A i \in kept : queue[i].field \in Range(fs) => queue[i].state # "pending"
  BY DEF Kept, Replaced, Replaceable
<1>14. nextId <= nextId' /\ nextId' \in Nat
  BY <1>2, <1>3
<1> HIDE DEF kept, new, entry
<1>15. /\ \A i \in kept : i \in DOMAIN queue /\ queue'[i] = queue[i] /\ i < nextId /\ i \in Nat
       /\ \A i \in new :
              /\ i \in Ids /\ i \in Nat /\ nextId <= i /\ i < nextId' /\ queue'[i] \in Action
              /\ i \notin DOMAIN queue
              /\ queue'[i].field \in Range(fs) /\ queue'[i].value = v
              /\ queue'[i].state = "pending"
       /\ \A i, j \in new : queue'[i].field = queue'[j].field => i = j
       /\ \A f \in Range(fs) : f \in Fields /\ \E i \in new : queue'[i].field = f
  BY <1>4, <1>5, <1>6, <1>8, <1>9, <1>10, <1>11
<1>16. QED
  BY <1>12, <1>13, <1>14, <1>15 DEF kept, new

LEMMA AssignTypes ==
  ASSUME TypeOK, Agreed, NEW t \in Readers, NEW fs \in Selections, NEW v \in Values, Assign(t, fs, v)
  PROVE  TypeOK'
<1>1. QueueTyped(queue)'
  <2>1. DOMAIN queue' \subseteq Ids
    BY AssignEffect, QueueParts
  <2>2. ASSUME NEW i \in DOMAIN queue' PROVE queue'[i] \in Action
    BY AssignEffect, QueueParts
  <2>3. queue' \in [DOMAIN queue' -> Action]
    <3>1. queue' = [i \in DOMAIN queue' |-> queue'[i]]
      <4>1. PICK shown \in Values : queue' = Queued(fs, v, shown)
        BY Zenon DEF Assign
      <4>2. QED
        BY <4>1 DEF Queued
    <3>2. QED
      BY <3>1, <2>2
  <2>4. Cardinality(DOMAIN queue') <= QueueLimit
    BY DEF Assign
  <2>5. ASSUME NEW i \in DOMAIN queue', NEW j \in DOMAIN queue', i < j,
               queue'[i].field = queue'[j].field
        PROVE  queue'[i].state # "pending"
    <3>1. CASE i \in Kept(fs) /\ j \in Kept(fs)
      <4>1. /\ i \in DOMAIN queue /\ j \in DOMAIN queue
            /\ queue'[i] = queue[i] /\ queue'[j] = queue[j]
        BY <3>1, AssignEffect
      <4>2. queue[i].field = queue[j].field
        BY <4>1, <2>5
      <4>3. queue[i].state # "pending"
        BY <4>1, <4>2, <2>5 DEF TypeOK
      <4>4. QED
        BY <4>1, <4>3
    <3>2. CASE i \in Kept(fs) /\ j \in New(fs)
      <4>1. queue'[i] = queue[i] /\ queue'[j].field \in Range(fs)
        BY <3>2, AssignEffect
      <4>2. queue[i].field \in Range(fs)
        BY <4>1, <2>5
      <4>3. queue[i].state # "pending"
        BY <3>2, <4>2, AssignEffect
      <4>4. QED
        BY <4>1, <4>3
    <3>3. CASE i \in New(fs) /\ j \in Kept(fs)
      <4>1. nextId <= i /\ j < nextId /\ i \in Nat /\ j \in Nat /\ nextId \in Nat
        BY <3>3, AssignEffect, Known
      <4>2. QED
        BY <4>1, <2>5
    <3>4. CASE i \in New(fs) /\ j \in New(fs)
      <4>1. i = j /\ i \in Nat
        BY <2>5, <3>4, AssignEffect
      <4>2. QED
        BY <4>1, <2>5
    <3>5. DOMAIN queue' = Kept(fs) \cup New(fs)
      BY AssignEffect
    <3>6. QED
      BY <3>1, <3>2, <3>3, <3>4, <3>5
  <2>6. QED
    BY <2>1, <2>3, <2>4, <2>5 DEF QueueTyped
<1>2. local' \in [Fields -> Values \cup {Absent}]
  <2>1. local' = Overlay(local, queue') /\ local \in [Fields -> Values \cup {Absent}]
    BY DEF Assign, TypeOK
  <2>2. queue' \in [DOMAIN queue' -> Action] /\ DOMAIN queue' \subseteq Ids
    BY <1>1 DEF QueueTyped
  <2>3. QED
    BY <2>1, <2>2, OverlayTyped
<1>3. nextId' \in 1 .. MaxActions + 1
  BY OfflineAssumption, Numeric DEF Assign, TypeOK
<1>4. expected' \in [Fields -> Values \cup {Unknown}]
  BY DEF Assign, TypeOK
<1>5. /\ server' \in [Fields -> Values \cup {Absent}] /\ handled' \in Seq(Receipts)
      /\ epoch' \in 0 .. changes'
      /\ faults' \in 0 .. MaxFaults /\ changes' \in 0 .. MaxChanges
      /\ abandoned' \subseteq [id : Ids, intent : Intent]
      /\ UNCHANGED <<lease, unsettled, session, visit, run, stray>>
  BY DEF Assign, TypeOK, budget, remote
<1>6. QED
  BY <1>1, <1>2, <1>3, <1>4, <1>5, TypesNext, TypesKept

LEMMA DispatchEffect ==
  ASSUME TypeOK, NEW t \in Tabs, NEW last \in Ids, Dispatch(t, last)
  PROVE  /\ run' \in [Tabs -> Runs]
         /\ \A u \in Tabs : u # t => run'[u] = run[u]
         /\ run'[t].pc = "waiting" /\ run'[t].epoch = run[t].epoch
         /\ DOMAIN run'[t].results = {}
         /\ DOMAIN run'[t].sent = Batch(last) /\ Batch(last) \subseteq DOMAIN queue
         /\ \A i \in Batch(last) : run'[t].sent[i] = IntentOf(queue[i])
         /\ \A i \in Batch(last) : i <= last /\ i \in Active(queue)
         /\ \A x \in Active(queue) : x <= last => x \in Batch(last)
         /\ queue' = Marked(Batch(last), "dispatched", FALSE)
<1> DEFINE B == Batch(last)
           ss == [i \in B |-> IntentOf(queue[i])]
<1>1. /\ B \subseteq DOMAIN queue /\ \A i \in B : i <= last /\ i \in Active(queue)
      /\ \A x \in Active(queue) : x <= last => x \in B
  BY DEF Batch, Sendable, Active
<1>2. ss \in Partial(Ids, Intent) /\ DOMAIN ss = B /\ \A i \in B : ss[i] = IntentOf(queue[i])
  <2>1. \A i \in B : i \in Ids /\ IntentOf(queue[i]) \in Intent
    BY <1>1, QueueParts
  <2>2. QED
    BY <2>1, PartialFunction
<1>3. Cardinality(B) <= BatchLimit
  BY DEF Dispatch, EndsBatch
<1>4. run' = [run EXCEPT ![t] = [run[t] EXCEPT !.pc = "waiting", !.results = <<>>,
                                               !.articles = <<>>, !.sent = ss]]
  BY RunParts DEF Dispatch, TypeOK
<1>5. queue' = Marked(B, "dispatched", FALSE)
  BY DEF Dispatch
<1> HIDE DEF ss, B
<1>6. [run[t] EXCEPT !.pc = "waiting", !.results = <<>>, !.articles = <<>>, !.sent = ss] \in Runs
  BY <1>2, <1>3, RunParts, NothingIsPartial DEF Runs
<1>7. run' \in [Tabs -> Runs]
  BY <1>4, <1>6, RunTyped
<1>8. /\ run'[t] = [run[t] EXCEPT !.pc = "waiting", !.results = <<>>, !.articles = <<>>, !.sent = ss]
      /\ \A u \in Tabs : u # t => run'[u] = run[u]
  BY <1>4 DEF TypeOK
<1>9. run'[t].sent = ss /\ run'[t].pc = "waiting" /\ run'[t].results = <<>>
      /\ run'[t].epoch = run[t].epoch
  BY <1>8, RunParts DEF Runs
<1>10. DOMAIN run'[t].results = {}
  BY <1>9, NothingIsPartial
<1>11. QED
  BY <1>1, <1>2, <1>5, <1>7, <1>8, <1>9, <1>10 DEF B

LEMMA DispatchTypes ==
  ASSUME TypeOK, NEW t \in Tabs, NEW last \in Ids, Dispatch(t, last) PROVE TypeOK'
<1>1. QueueTyped(queue)'
  <2>1. queue' = Marked(Batch(last), "dispatched", FALSE)
    BY DEF Dispatch
  <2>2. QED
    BY <2>1, MarkedTyped DEF QueueTyped, TypeOK
<1>2. run' \in [Tabs -> Runs]
  BY DispatchEffect
<1>3. QED
  BY <1>1, <1>2, TypesOfTheTabs, TypesKept DEF Dispatch, remote

\* What an acknowledgement does to the queue and to the tabs.
Gone(t) == ResultsOf(t, Done)
Refused(t) == ResultsOf(t, {"rejected"})
Left(t) == ResultsOf(t, {"retry"})
RefusedFields(t) == {run[t].sent[i].field : i \in Refused(t)}
Answered(t) ==
  Patched([f \in Fields |-> IF f \in RefusedFields(t) THEN Absent ELSE local[f]], run[t].articles)

LEMMA AcknowledgeEffect ==
  ASSUME TypeOK, NEW t \in Tabs, Acknowledge(t)
  PROVE  /\ DOMAIN queue' = DOMAIN queue \ Gone(t)
         /\ queue' \in [DOMAIN queue' -> Action]
         /\ \A i \in DOMAIN queue' :
              /\ queue'[i].field = queue[i].field /\ queue'[i].value = queue[i].value
              /\ queue'[i].state = IF i \in Refused(t) THEN "failed" ELSE queue[i].state
         /\ local' = Overlay(Answered(t), queue')
         /\ run' \in [Tabs -> Runs]
         /\ \A u \in Tabs : u # t =>
              /\ run'[u].sent = run[u].sent /\ run'[u].pc = run[u].pc
              /\ run'[u].results = run[u].results /\ run'[u].articles = run[u].articles
              /\ run'[u].epoch = run[u].epoch /\ run'[u].fresh = FALSE
         /\ run'[t].pc \in {"loop", "closing"} /\ run'[t].epoch = run[t].epoch
         /\ DOMAIN run'[t].sent = {} /\ DOMAIN run'[t].results = {}
         /\ expected' = Learned(local', queue')
<1> DEFINE gone == Gone(t)
           refused == Refused(t)
           left == Left(t)
           pc == IF left = {} THEN "loop" ELSE "closing"
<1>1. /\ queue' = [i \in DOMAIN queue \ gone |->
                    IF i \in refused THEN [queue[i] EXCEPT !.state = "failed"]
                    ELSE IF i \in left THEN [queue[i] EXCEPT !.waiting = TRUE]
                    ELSE queue[i]]
      /\ local' = Overlay(Answered(t), queue')
      /\ run' = [u \in Tabs |->
          IF u # t THEN [run[u] EXCEPT !.fresh = FALSE]
          ELSE [run[t] EXCEPT !.changed = TRUE, !.sent = <<>>, !.results = <<>>, !.articles = <<>>,
                              !.pc = pc]]
      /\ expected' = Learned(local', queue')
  BY Zenon DEF Acknowledge, Gone, Refused, Left, Answered, RefusedFields
<1> HIDE DEF gone, refused, left
<1>2. DOMAIN queue' = DOMAIN queue \ gone
  BY <1>1
<1>3. ASSUME NEW i \in DOMAIN queue'
      PROVE  /\ queue'[i].field = queue[i].field /\ queue'[i].value = queue[i].value
             /\ queue'[i].state = IF i \in refused THEN "failed" ELSE queue[i].state
             /\ queue'[i] \in Action
  <2>1. queue'[i] = IF i \in refused THEN [queue[i] EXCEPT !.state = "failed"]
                    ELSE IF i \in left THEN [queue[i] EXCEPT !.waiting = TRUE]
                    ELSE queue[i]
    BY <1>1, <1>2
  <2>2. queue[i] \in Action
    BY <1>2, QueueParts
  <2>3. QED
    BY <2>1, <2>2 DEF Action
<1>4. queue' \in [DOMAIN queue' -> Action]
  <2>1. queue' = [i \in DOMAIN queue' |-> queue'[i]]
    BY <1>1
  <2>2. QED
    BY <2>1, <1>3
<1>5. ASSUME NEW u \in Tabs, u # t
      PROVE  /\ run'[u] \in Runs
             /\ run'[u].sent = run[u].sent /\ run'[u].pc = run[u].pc
             /\ run'[u].results = run[u].results /\ run'[u].articles = run[u].articles
             /\ run'[u].epoch = run[u].epoch /\ run'[u].fresh = FALSE
  <2>1. run'[u] = [run[u] EXCEPT !.fresh = FALSE]
    BY <1>1, <1>5
  <2>2. QED
    BY <2>1, RunParts DEF Runs
<1>6. /\ run'[t] \in Runs
      /\ run'[t].pc \in {"loop", "closing"} /\ run'[t].epoch = run[t].epoch
      /\ run'[t].sent = <<>> /\ run'[t].results = <<>>
  <2>1. run'[t] = [run[t] EXCEPT !.changed = TRUE, !.sent = <<>>, !.results = <<>>,
                                 !.articles = <<>>, !.pc = pc]
    BY <1>1
  <2>2. pc \in {"loop", "closing"}
    OBVIOUS
  <2>3. Cardinality({}) = 0 /\ Cardinality({}) <= BatchLimit
    BY FS_EmptySet, Numeric
  <2>4. /\ <<>> \in Partial(Ids, Intent) /\ <<>> \in Partial(Ids, Outcome)
        /\ <<>> \in Partial(Fields, Values) /\ DOMAIN <<>> = {}
    BY NothingIsPartial
  <2> HIDE DEF pc
  <2>5. run[t] \in Runs
    BY RunParts
  <2>6. /\ run'[t].pc = pc /\ run'[t].epoch = run[t].epoch
        /\ run'[t].sent = <<>> /\ run'[t].results = <<>>
    BY <2>1, <2>5 DEF Runs
  <2>7. run'[t] \in Runs
    BY <2>1, <2>2, <2>3, <2>4, <2>5 DEF Runs
  <2>8. QED
    BY <2>2, <2>6, <2>7
<1>7. run' \in [Tabs -> Runs]
  <2>1. run' = [u \in Tabs |-> run'[u]]
    BY <1>1
  <2>2. \A u \in Tabs : run'[u] \in Runs
    BY <1>5, <1>6
  <2>3. QED
    BY <2>1, <2>2
<1>8. DOMAIN run'[t].sent = {} /\ DOMAIN run'[t].results = {}
  BY <1>6, NothingIsPartial
<1>9. QED
  BY <1>1, <1>2, <1>3, <1>4, <1>5, <1>6, <1>7, <1>8 DEF gone, refused

LEMMA AcknowledgeTypes == ASSUME TypeOK, NEW t \in Tabs, Acknowledge(t) PROVE TypeOK'
<1>1. QueueTyped(queue)'
  <2>1. DOMAIN queue' \subseteq DOMAIN queue /\ DOMAIN queue \in SUBSET Ids
    BY AcknowledgeEffect DEF TypeOK
  <2>2. Cardinality(DOMAIN queue') <= QueueLimit
    <3>1. Cardinality(DOMAIN queue') <= Cardinality(DOMAIN queue) /\ Cardinality(DOMAIN queue') \in Nat
          /\ Cardinality(DOMAIN queue) \in Nat
      BY <2>1, SubsetSize
    <3>2. QED
      BY <3>1, Numeric DEF TypeOK
  <2>3. ASSUME NEW i \in DOMAIN queue', NEW j \in DOMAIN queue', i < j,
               queue'[i].field = queue'[j].field
        PROVE  queue'[i].state # "pending"
    <3>1. /\ i \in DOMAIN queue /\ j \in DOMAIN queue
          /\ queue'[i].field = queue[i].field /\ queue'[j].field = queue[j].field
          /\ queue'[i].state \in {"failed", queue[i].state}
      BY AcknowledgeEffect
    <3>2. queue[i].state # "pending"
      BY <3>1, <2>3 DEF TypeOK
    <3>3. QED
      BY <3>1, <3>2
  <2>4. queue' \in [DOMAIN queue' -> Action]
    BY AcknowledgeEffect
  <2>5. QED
    BY <2>1, <2>2, <2>3, <2>4 DEF QueueTyped
<1>2. local' \in [Fields -> Values \cup {Absent}]
  <2>1. Answered(t) \in [Fields -> Values \cup {Absent}]
    <3>1. [f \in Fields |-> IF f \in RefusedFields(t) THEN Absent ELSE local[f]]
            \in [Fields -> Values \cup {Absent}]
      BY DEF TypeOK
    <3>2. QED
      BY <3>1, RunParts, PatchedTyped DEF Answered
  <2>2. local' = Overlay(Answered(t), queue')
    BY AcknowledgeEffect
  <2>3. QED
    BY <2>1, <2>2, <1>1, OverlayTyped DEF QueueTyped
<1>3. expected' \in [Fields -> Values \cup {Unknown}]
  <2>1. Learned(local', queue') \in [Fields -> Values \cup {Unknown}]
    BY LearnedTyped
  <2>2. QED
    BY <2>1, AcknowledgeEffect
<1>4. run' \in [Tabs -> Runs]
  BY AcknowledgeEffect
<1>5. /\ server' \in [Fields -> Values \cup {Absent}] /\ handled' \in Seq(Receipts)
      /\ epoch' \in 0 .. changes' /\ nextId' \in 1 .. MaxActions + 1
      /\ faults' \in 0 .. MaxFaults /\ changes' \in 0 .. MaxChanges
      /\ abandoned' \subseteq [id : Ids, intent : Intent] /\ unsettled' \in BOOLEAN
      /\ UNCHANGED <<lease, session, visit, stray>>
  BY DEF Acknowledge, TypeOK, budget, remote
<1>6. QED
  BY <1>1, <1>2, <1>3, <1>4, <1>5, TypesNext, TypesKept

LEMMA OnlineTypes ==
  ASSUME TypeOK, NEW t \in Tabs, NEW f \in Fields, NEW v \in Values, Online(t, f, v)
  PROVE  TypeOK'
<1>1. [g \in {f} |-> v] \in Partial(Fields, Values)
  BY PartialFunction
<1>2. visit' = [visit EXCEPT ![t] = [visit[t] EXCEPT !.pc = "online", !.articles = [g \in {f} |-> v]]]
  BY VisitParts DEF Online, TypeOK
<1>3. [visit[t] EXCEPT !.pc = "online", !.articles = [g \in {f} |-> v]] \in Visits
  BY <1>1, VisitParts DEF Visits
<1>4. visit' \in [Tabs -> Visits]
  BY <1>2, <1>3 DEF TypeOK
<1>5. server' \in [Fields -> Values \cup {Absent}]
  BY DEF Online, TypeOK
<1>6. expected' \in [Fields -> Values \cup {Unknown}]
  BY LearnedTyped DEF Online
<1>7. /\ local' \in [Fields -> Values \cup {Absent}] /\ epoch' \in 0 .. changes'
      /\ handled' \in Seq(Receipts) /\ nextId' \in 1 .. MaxActions + 1
      /\ faults' \in 0 .. MaxFaults /\ changes' \in 0 .. MaxChanges
      /\ abandoned' \subseteq [id : Ids, intent : Intent]
      /\ UNCHANGED <<queue, lease, unsettled, session, run, stray>>
  BY DEF Online, TypeOK, budget, browser
<1>8. QED
  BY <1>4, <1>5, <1>6, <1>7, TypesNext, TypesKept

\* The copy after a download took its place.
Downloaded(t) ==
  [f \in Fields |-> IF f \in DOMAIN visit[t].articles THEN visit[t].articles[f] ELSE Absent]

LEMMA ActivateTypes == ASSUME TypeOK, NEW t \in Tabs, Activate(t) PROVE TypeOK'
<1>1. visit' \in [Tabs -> Visits] /\ lease' \in Leases
  BY EndVisitTyped DEF Activate
<1>2. local' \in [Fields -> Values \cup {Absent}]
  <2>1. Downloaded(t) \in [Fields -> Values \cup {Absent}]
    BY VisitParts DEF Downloaded
  <2>2. local' = IF MayActivate(t) THEN Downloaded(t) ELSE local
    BY DEF Activate, Downloaded
  <2>3. QED
    BY <2>1, <2>2 DEF TypeOK
<1>3. expected' \in [Fields -> Values \cup {Unknown}]
  <2>1. Learned(local', queue) \in [Fields -> Values \cup {Unknown}]
    BY LearnedTyped
  <2>2. QED
    BY <2>1 DEF Activate, TypeOK
<1>4. /\ server' \in [Fields -> Values \cup {Absent}] /\ epoch' \in 0 .. changes'
      /\ handled' \in Seq(Receipts) /\ nextId' \in 1 .. MaxActions + 1
      /\ faults' \in 0 .. MaxFaults /\ changes' \in 0 .. MaxChanges
      /\ abandoned' \subseteq [id : Ids, intent : Intent]
      /\ UNCHANGED <<queue, unsettled, session, run, stray>>
  BY DEF Activate, TypeOK, budget, remote
<1>5. QED
  BY <1>1, <1>2, <1>3, <1>4, TypesNext, TypesKept

\* The operation's tab still has the session it began in.
Mine(t) == Up(t) /\ session[t].epoch = visit[t].epoch /\ epoch = visit[t].epoch

LEMMA PatchOnlineEffect ==
  ASSUME NEW t \in Tabs, PatchOnline(t)
  PROVE  /\ local' = IF Mine(t) THEN Overlay(Patched(local, visit[t].articles), queue) ELSE local
         /\ expected' = IF ~Mine(t) THEN expected
                        ELSE IF Owns(Visit(t), visit[t].epoch) THEN Learned(local', queue)
                        ELSE Forgotten(DOMAIN visit[t].articles)
BY DEF PatchOnline, Mine

LEMMA PatchOnlineTypes == ASSUME TypeOK, NEW t \in Tabs, PatchOnline(t) PROVE TypeOK'
<1>1. visit' \in [Tabs -> Visits] /\ lease' \in Leases
  BY EndVisitTyped DEF PatchOnline
<1>2. local' \in [Fields -> Values \cup {Absent}]
  <2>1. local \in [Fields -> Values \cup {Absent}] /\ queue \in [DOMAIN queue -> Action]
        /\ DOMAIN queue \subseteq Ids
    BY DEF TypeOK
  <2>2. Patched(local, visit[t].articles) \in [Fields -> Values \cup {Absent}]
    BY <2>1, VisitParts, PatchedTyped
  <2>3. Overlay(Patched(local, visit[t].articles), queue) \in [Fields -> Values \cup {Absent}]
    BY <2>1, <2>2, OverlayTyped
  <2>4. QED
    BY <2>1, <2>3, PatchOnlineEffect
<1>3. expected' \in [Fields -> Values \cup {Unknown}]
  <2>1. /\ Learned(local', queue) \in [Fields -> Values \cup {Unknown}]
        /\ Forgotten(DOMAIN visit[t].articles) \in [Fields -> Values \cup {Unknown}]
        /\ expected \in [Fields -> Values \cup {Unknown}]
    BY LearnedTyped DEF TypeOK
  <2>2. QED
    BY <2>1, PatchOnlineEffect
<1>4. /\ server' \in [Fields -> Values \cup {Absent}] /\ epoch' \in 0 .. changes'
      /\ handled' \in Seq(Receipts) /\ nextId' \in 1 .. MaxActions + 1
      /\ faults' \in 0 .. MaxFaults /\ changes' \in 0 .. MaxChanges
      /\ abandoned' \subseteq [id : Ids, intent : Intent]
      /\ UNCHANGED <<queue, unsettled, session, run, stray>>
  BY DEF PatchOnline, TypeOK, budget, remote
<1>5. QED
  BY <1>1, <1>2, <1>3, <1>4, TypesNext, TypesKept

LEMMA OtherDeviceTypes ==
  ASSUME TypeOK, NEW f \in Fields, NEW v \in Values \cup {Absent}, OtherDevice(f, v)
  PROVE  TypeOK'
<1>1. server' \in [Fields -> Values \cup {Absent}]
  BY DEF OtherDevice, TypeOK
<1>2. expected' \in [Fields -> Values \cup {Unknown}]
  BY LearnedTyped DEF OtherDevice
<1>3. faults' \in 0 .. MaxFaults /\ changes' \in 0 .. MaxChanges /\ epoch' \in 0 .. changes'
  BY BudgetTyped DEF OtherDevice, browser
<1>4. /\ local' \in [Fields -> Values \cup {Absent}]
      /\ handled' \in Seq(Receipts) /\ nextId' \in 1 .. MaxActions + 1
      /\ abandoned' \subseteq [id : Ids, intent : Intent]
      /\ UNCHANGED <<queue, lease, unsettled, session, run, visit, stray>>
  BY DEF OtherDevice, TypeOK, browser, tabs
<1>5. QED
  BY <1>1, <1>2, <1>3, <1>4, TypesNext, TypesKept

LEMMA DiscardTypes == ASSUME TypeOK, NEW t \in Tabs, Discard(t) PROVE TypeOK'
<1>1. QueueTyped(queue)'
  <2>1. queue' = <<>> /\ DOMAIN queue' = {} /\ queue' \in [{} -> Action]
    <3>1. queue' = <<>>
      BY DEF Discard
    <3>2. <<>> \in [{} -> Action] /\ DOMAIN <<>> = {}
      OBVIOUS
    <3>3. QED
      BY <3>1, <3>2
  <2>2. Cardinality({}) <= QueueLimit
    BY FS_EmptySet, Numeric
  <2>3. QED
    BY <2>1, <2>2 DEF QueueTyped
<1>2. local' \in [Fields -> Values \cup {Absent}]
  <2>1. ASSUME NEW f \in Fields, f \in FieldsOf(queue) PROVE FirstOf(f).base \in Values
    <3> DEFINE S == {i \in DOMAIN queue : queue[i].field = f}
    <3>1. S \in SUBSET Nat /\ S # {}
      BY <2>1, QueueParts DEF FieldsOf
    <3>2. Min(S) \in DOMAIN queue
      BY <3>1, MinIsLeast
    <3>3. FirstOf(f) = queue[Min(S)]
      BY DEF FirstOf
    <3>4. QED
      BY <3>2, <3>3, QueueParts DEF Action
  <2>2. QED
    BY <2>1 DEF Discard, TypeOK
<1>3. expected' \in [Fields -> Values \cup {Unknown}]
  BY LearnedTyped DEF Discard
<1>4. faults' \in 0 .. MaxFaults /\ changes' \in 0 .. MaxChanges /\ epoch' \in 0 .. changes'
      /\ epoch' \in 0 .. MaxChanges
  BY NextEpoch DEF Discard
<1>5. run' \in [Tabs -> Runs]
  BY DeadRunTyped DEF Discard
<1>6. session' \in [Tabs -> [up : BOOLEAN, epoch : 0 .. MaxChanges]]
  BY <1>4 DEF Discard, TypeOK
<1>7. abandoned' \subseteq [id : Ids, intent : Intent]
  BY QueueParts DEF Discard, TypeOK
<1>8. /\ server' \in [Fields -> Values \cup {Absent}] /\ lease' \in Leases
      /\ handled' \in Seq(Receipts) /\ nextId' \in 1 .. MaxActions + 1
      /\ UNCHANGED <<unsettled, visit, stray>>
  BY DEF Discard, TypeOK, remote, Leases, Free
<1>9. QED
  BY <1>1, <1>2, <1>3, <1>4, <1>5, <1>6, <1>7, <1>8, TypesNext, TypesKept

----------------------------------------------------------------------------
(* What the steps have in common.                                           *)

\* A tab keeps its request, or has none.
Keeping(u) ==
  \/ /\ run[u].pc \in {"waiting", "answered"} /\ run'[u].pc = run[u].pc
     /\ run'[u].sent = run[u].sent /\ run'[u].results = run[u].results
     /\ run'[u].articles = run[u].articles /\ run'[u].epoch = run[u].epoch
  \/ /\ run'[u].pc \notin {"waiting", "answered"}
     /\ DOMAIN run'[u].sent = {} /\ DOMAIN run'[u].results = {}

\* Nobody comes to hold the lease with a request, and completion is fresh.
LeaseKept(u) ==
  /\ run'[u].epoch <= epoch'
  /\ Holding(u)' /\ run'[u].pc \in {"waiting", "answered"} => Holding(u)
  /\ Holding(u)' /\ run'[u].pc = "completing" => run'[u].fresh

VisitKept(u) ==
  /\ visit'[u].epoch <= epoch'
  /\ Visiting(u)' /\ visit'[u].pc \in {"download", "online"} => Visiting(u) /\ visit'[u] = visit[u]

\* Strays are what they were, or what a tab gave up.
StraysFromTabs ==
  \A s \in stray' : s \in stray \/ \E u \in Tabs : s = Remaining(u) /\ DOMAIN s # {}

SameQueue ==
  /\ DOMAIN queue' = DOMAIN queue
  /\ \A i \in DOMAIN queue :
       queue'[i].field = queue[i].field /\ queue'[i].value = queue[i].value
       /\ queue'[i].state = queue[i].state

SameServer == UNCHANGED <<server, handled, nextId, abandoned>>

\* Time only adds receipts and discards, and an article that is gone is gone.
Onward ==
  /\ \A i : Handled(i) => Handled(i)'
  /\ \A i : Discarded(i) => Discarded(i)'
  /\ \A f \in Fields : server[f] = Absent => server'[f] = Absent
  /\ nextId <= nextId'

LEMMA SameIsOnward == ASSUME TypeOK, SameServer PROVE Onward
<1>1. nextId <= nextId'
  BY Numeric DEF SameServer, TypeOK
<1>2. QED
  BY <1>1 DEF Onward, SameServer, Handled, Discarded

LEMMA AgreedKept ==
  ASSUME TypeOK, Agreed, nextId <= nextId', nextId' \in Nat,
         \A i \in Ids, a \in Intent : Says(i, a)' => Says(i, a)
  PROVE  Agreed'
<1>1. \A i \in Ids, a \in Intent : Says(i, a)' => i < nextId'
  <2>1. TAKE i \in Ids, a \in Intent
  <2>2. HAVE Says(i, a)'
  <2>3. i < nextId /\ i \in Nat /\ nextId \in Nat
    BY <2>2, Numeric DEF Agreed, TypeOK
  <2>4. QED
    BY <2>3
<1>2. \A i \in Ids, a, b \in Intent : Says(i, a)' /\ Says(i, b)' => a = b
  BY Zenon DEF Agreed
<1>3. QED
  BY <1>1, <1>2, Zenon DEF Agreed

LEMMA SaysWhenKeeping ==
  ASSUME TypeOK, SameQueue, UNCHANGED <<handled, abandoned>>, StraysFromTabs,
         \A u \in Tabs : Keeping(u)
  PROVE  \A i \in Ids, a \in Intent : Says(i, a)' => Says(i, a)
<1> SUFFICES ASSUME NEW i \in Ids, NEW a \in Intent, Says(i, a)' PROVE Says(i, a)
  OBVIOUS
<1>1. CASE i \in DOMAIN queue' /\ a = IntentOf(queue'[i])
  <2>1. i \in DOMAIN queue /\ IntentOf(queue'[i]) = IntentOf(queue[i])
    BY <1>1 DEF SameQueue, IntentOf
  <2>2. QED
    BY <1>1, <2>1 DEF Says
<1>2. CASE \E t \in Tabs : i \in DOMAIN run'[t].sent /\ a = run'[t].sent[i]
  <2>1. PICK t \in Tabs : i \in DOMAIN run'[t].sent /\ a = run'[t].sent[i]
    BY <1>2
  <2>2. run'[t].sent = run[t].sent
    BY <2>1 DEF Keeping
  <2>3. QED
    BY <2>1, <2>2 DEF Says
<1>3. CASE \E s \in stray' : i \in DOMAIN s /\ a = s[i]
  <2>1. PICK s \in stray' : i \in DOMAIN s /\ a = s[i]
    BY <1>3
  <2>2. CASE s \in stray
    BY <2>1, <2>2 DEF Says
  <2>3. CASE s \notin stray
    <3>1. PICK u \in Tabs : s = Remaining(u)
      BY <2>3 DEF StraysFromTabs
    <3>2. i \in DOMAIN run[u].sent /\ a = run[u].sent[i]
      BY <2>1, <3>1, RemainingParts
    <3>3. QED
      BY <3>2 DEF Says
  <2>4. QED
    BY <2>2, <2>3
<1>4. CASE \E k \in DOMAIN handled' : handled'[k].id = i /\ a = handled'[k].intent
  BY <1>4 DEF Says
<1>5. CASE \E r \in abandoned' : r.id = i /\ a = r.intent
  BY <1>5 DEF Says
<1>6. QED
  BY <1>1, <1>2, <1>3, <1>4, <1>5 DEF Says

LEMMA BatchesWhenKeeping ==
  ASSUME TypeOK, StraysFromTabs, \A u \in Tabs : Keeping(u)
  PROVE  \A R \in Batches' : R \in Batches \/ R = {}
<1> SUFFICES ASSUME NEW R \in Batches' PROVE R \in Batches \/ R = {}
  OBVIOUS
<1>1. CASE \E s \in stray' : R = DOMAIN s
  <2>1. PICK s \in stray' : R = DOMAIN s
    BY <1>1
  <2>2. CASE s \in stray
    BY <2>1, <2>2 DEF Batches
  <2>3. CASE s \notin stray
    <3>1. PICK u \in Tabs : s = Remaining(u)
      BY <2>3 DEF StraysFromTabs
    <3>2. R = Unhandled(u)
      BY <2>1, <3>1, RemainingParts DEF Unhandled
    <3>3. QED
      BY <3>2 DEF Batches
  <2>4. QED
    BY <2>2, <2>3
<1>2. CASE \E u \in Tabs : R = DOMAIN run'[u].sent \ DOMAIN run'[u].results
  <2>1. PICK u \in Tabs : R = DOMAIN run'[u].sent \ DOMAIN run'[u].results
    BY <1>2
  <2>2. CASE run'[u].sent = run[u].sent /\ run'[u].results = run[u].results
    BY <2>1, <2>2 DEF Batches, Unhandled
  <2>3. CASE DOMAIN run'[u].sent = {}
    BY <2>1, <2>3
  <2>4. QED
    BY <2>2, <2>3 DEF Keeping
<1>3. QED
  BY <1>1, <1>2 DEF Batches, Unhandled

\* Requests that only shrink, and a queue that only gains new actions, keep the
\* order.
LEMMA OrderKept ==
  ASSUME TypeOK, Agreed, Ordered, handled' = handled, Onward,
         \A R \in Batches' : R \in Batches \/ R = {},
         \A x \in Active(queue)' : x \in Active(queue) \/ (x \in Nat /\ nextId <= x)
  PROVE  HandledOnceInOrder' /\ OlderTravelAlong' /\ NoneIsLate'
<1>1. \A x \in Live' : x \in Live \/ (x \in Nat /\ nextId <= x)
  BY Zenon DEF Live, Flying
<1>2. \A R \in Batches : \A i \in R : i \in Nat /\ i < nextId
  BY Known DEF Batches, Unhandled
<1>3. \A i : Settled(i) => Settled(i)'
  BY Zenon DEF Settled, Onward
<1>4. nextId \in Nat
  BY Known
<1>5. HandledOnceInOrder'
  BY Zenon DEF HandledOnceInOrder, Ordered, Onward
<1>6. OlderTravelAlong'
  <2> SUFFICES ASSUME NEW R \in Batches', NEW i \in R, NEW x \in Live', x < i
               PROVE  Settled(x)' \/ x \in R
    BY Zenon DEF OlderTravelAlong
  <2>1. R \in Batches /\ i \in Nat /\ i < nextId
    BY <1>2
  <2>2. x \in Live
    BY <1>1, <1>4, <2>1
  <2>3. Settled(x) \/ x \in R
    BY <2>1, <2>2 DEF Ordered, OlderTravelAlong
  <2>4. QED
    BY <1>3, <2>3
<1>7. NoneIsLate'
  <2> SUFFICES ASSUME NEW k \in DOMAIN handled', NEW x \in Live'
               PROVE  Settled(x)' \/ handled'[k].id < x
    BY Zenon DEF NoneIsLate
  <2>1. k \in DOMAIN handled /\ handled[k].id \in Nat /\ handled[k].id < nextId
    BY Known
  <2>2. CASE x \in Live
    BY <1>3, <2>1, <2>2 DEF Ordered, NoneIsLate
  <2>3. CASE x \in Nat /\ nextId <= x
    BY <1>4, <2>1, <2>3
  <2>4. QED
    BY <1>1, <2>2, <2>3
<1>8. QED
  BY <1>5, <1>6, <1>7

\* What is dispatched stays queued as such, and what is queued anew is younger
\* than everything before.
QueueGrows ==
  /\ \A i \in DOMAIN queue : queue[i].state = "dispatched" =>
       i \in DOMAIN queue' /\ queue'[i].state = "dispatched"
  /\ \A x \in Active(queue)' : x \in Active(queue) \/ (x \in Nat /\ nextId <= x)

\* What waits for each field, and the values it assigns.
SameOf ==
  \A f \in Fields : /\ Of(queue, f)' = Of(queue, f)
                    /\ \A x \in Of(queue, f) : queue'[x].value = queue[x].value

LEMMA SameQueueGrows ==
  ASSUME TypeOK, SameQueue
  PROVE  QueueGrows /\ Active(queue)' = Active(queue) /\ SameOf
<1>1. Active(queue)' = Active(queue)
  BY DEF SameQueue, Active
<1>2. SameOf
  BY <1>1 DEF SameQueue, SameOf, Of, Active
<1>3. QED
  BY <1>1, <1>2 DEF QueueGrows, SameQueue

LEMMA FlyingKept ==
  ASSUME FlyingAreQueued, Onward, QueueGrows, \A R \in Batches' : R \in Batches \/ R = {}
  PROVE  FlyingAreQueued'
<1> SUFFICES ASSUME NEW x \in Flying'
             PROVE  Settled(x)' \/ (x \in DOMAIN queue' /\ queue'[x].state = "dispatched")
  BY DEF FlyingAreQueued
<1>1. x \in Flying
  BY DEF Flying
<1>2. Settled(x) \/ (x \in DOMAIN queue /\ queue[x].state = "dispatched")
  BY <1>1 DEF FlyingAreQueued
<1>3. Settled(x) => Settled(x)'
  BY DEF Settled, Onward
<1>4. QED
  BY <1>2, <1>3 DEF QueueGrows

LEMMA RefusedKept ==
  ASSUME TypeOK, FailedAreGone, handled' = handled, Onward
  PROVE  \A k \in DOMAIN handled' :
           handled'[k].outcome = "rejected" => server'[handled'[k].intent.field] = Absent
<1>1. ASSUME NEW k \in DOMAIN handled PROVE handled[k].intent.field \in Fields
  <2>1. handled[k] \in Receipts
    BY DEF TypeOK
  <2>2. QED
    BY <2>1 DEF Receipts, Intent
<1>2. QED
  BY <1>1 DEF FailedAreGone, Onward

LEMMA FailedKept ==
  ASSUME TypeOK, FailedAreGone, SameQueue, Onward, handled' = handled
  PROVE  FailedAreGone'
<1>1. ASSUME NEW x \in DOMAIN queue', queue'[x].state = "failed"
      PROVE  Handled(x)' /\ server'[queue'[x].field] = Absent
  <2>1. x \in DOMAIN queue /\ queue[x].state = "failed" /\ queue'[x].field = queue[x].field
    BY <1>1 DEF SameQueue
  <2>2. Handled(x) /\ server[queue[x].field] = Absent /\ queue[x].field \in Fields
    BY <2>1, QueueParts DEF FailedAreGone
  <2>3. QED
    BY <2>1, <2>2 DEF Onward
<1>2. QED
  BY <1>1, RefusedKept DEF FailedAreGone

LEMMA QuietOrder ==
  ASSUME TypeOK, Agreed, Ordered, SameQueue, UNCHANGED <<handled, nextId, abandoned>>, Onward,
         StraysFromTabs, \A u \in Tabs : Keeping(u)
  PROVE  Agreed' /\ Ordered'
<1>1. \A R \in Batches' : R \in Batches \/ R = {}
  BY BatchesWhenKeeping
<1>2. QueueGrows
  BY SameQueueGrows
<1>3. Agreed'
  <2>1. \A i \in Ids, a \in Intent : Says(i, a)' => Says(i, a)
    BY SaysWhenKeeping
  <2>2. nextId <= nextId' /\ nextId' \in Nat
    BY Known
  <2>3. QED
    BY <2>1, <2>2, AgreedKept
<1>4. HandledOnceInOrder' /\ OlderTravelAlong' /\ NoneIsLate'
  BY <1>1, <1>2, OrderKept DEF QueueGrows
<1>5. FlyingAreQueued'
  BY <1>1, <1>2, FlyingKept DEF Ordered
<1>6. FailedAreGone'
  BY FailedKept DEF Ordered
<1>7. StraysCarry'
  BY DEF StraysCarry, Ordered, StraysFromTabs
<1>8. QED
  BY <1>3, <1>4, <1>5, <1>6, <1>7 DEF Ordered

LEMMA AnswersKept ==
  ASSUME TypeOK, NEW u \in Tabs, Keeping(u), Answers(u), Onward
  PROVE  Answers(u)'
<1>1. CASE /\ run[u].pc \in {"waiting", "answered"} /\ run'[u].pc = run[u].pc
           /\ run'[u].sent = run[u].sent /\ run'[u].results = run[u].results
  <2>1. \A i \in DOMAIN run[u].results : run[u].sent[i].field \in Fields
    BY RunParts DEF Intent
  <2>2. /\ run'[u].pc = "answered" => DOMAIN run'[u].results = DOMAIN run'[u].sent
        /\ run'[u].pc \notin {"waiting", "answered"} => DOMAIN run'[u].sent = {}
    BY <1>1 DEF Answers
  <2>3. ASSUME NEW i \in DOMAIN run'[u].results
        PROVE  /\ \A j \in DOMAIN run'[u].sent : j < i => j \in DOMAIN run'[u].results
               /\ run'[u].results[i] = "retry" =>
                    \A j \in DOMAIN run'[u].sent : i < j =>
                      j \in DOMAIN run'[u].results /\ run'[u].results[j] = "retry"
               /\ run'[u].results[i] # "retry" => Handled(i)'
               /\ run'[u].results[i] = "rejected" => server'[run'[u].sent[i].field] = Absent
    BY <1>1, <2>1 DEF Answers, Onward
  <2>4. QED
    BY <2>2, <2>3 DEF Answers
<1>2. CASE /\ run'[u].pc \notin {"waiting", "answered"}
           /\ DOMAIN run'[u].sent = {} /\ DOMAIN run'[u].results = {}
  BY <1>2 DEF Answers
<1>3. QED
  BY <1>1, <1>2 DEF Keeping

LEMMA KeepsKept ==
  ASSUME TypeOK, Agreed, NEW u \in Tabs, Keeping(u), LeaseKept(u), Keeps(u), QueueGrows
  PROVE  Keeps(u)'
<1>1. run'[u].epoch <= epoch' /\ (Holding(u)' /\ run'[u].pc = "completing" => run'[u].fresh)
  BY DEF LeaseKept
<1>2. ASSUME Holding(u)', run'[u].pc \in {"waiting", "answered"}, NEW i \in DOMAIN run'[u].sent
      PROVE  /\ i \in DOMAIN queue' /\ queue'[i].state = "dispatched"
             /\ \A x \in Active(queue)' : x < i => x \in DOMAIN run'[u].sent
  <2>1. Holding(u) /\ run[u].pc \in {"waiting", "answered"} /\ run'[u].sent = run[u].sent
    BY <1>2 DEF LeaseKept, Keeping
  <2>2. /\ i \in DOMAIN queue /\ queue[i].state = "dispatched"
        /\ \A x \in Active(queue) : x < i => x \in DOMAIN run[u].sent
    BY <1>2, <2>1 DEF Keeps
  <2>3. i \in Nat /\ i < nextId /\ nextId \in Nat
    BY <2>2, Known
  <2>4. \A x \in Active(queue)' : x < i => x \in DOMAIN run'[u].sent
    BY <2>1, <2>2, <2>3 DEF QueueGrows
  <2>5. QED
    BY <2>2, <2>4 DEF QueueGrows
<1>3. QED
  BY <1>1, <1>2 DEF Keeps

LEMMA QuietTabs ==
  ASSUME TypeOK, Agreed, TabsKnow, Onward, QueueGrows,
         \A u \in Tabs : Keeping(u) /\ LeaseKept(u)
  PROVE  TabsKnow'
<1> SUFFICES ASSUME NEW u \in Tabs PROVE Answers(u)' /\ Keeps(u)'
  BY DEF TabsKnow
<1>1. Keeping(u) /\ LeaseKept(u) /\ Answers(u) /\ Keeps(u)
  BY DEF TabsKnow
<1>2. QED
  BY <1>1, AnswersKept, KeepsKept

\* Nothing that an answer or a visit read is overtaken: where the reader still
\* is certain of a field, the reader was, and of the same value.
AnswerHolds(u) ==
  Holding(u) => \A f \in Fields :
    Certain(f)' /\ (\A x \in Of(queue, f)' :
                      x \in DOMAIN run[u].results /\ run[u].results[x] # "retry")
    => Certain(f) /\ expected'[f] = expected[f] /\ Of(queue, f) \subseteq Of(queue, f)'
VisitHolds(u) ==
  /\ Visiting(u) /\ visit[u].pc = "download" => \A f \in Fields :
       Certain(f)' /\ Of(queue, f)' = {}
       => Certain(f) /\ expected'[f] = expected[f] /\ Of(queue, f) = {}
  /\ Visiting(u) /\ visit[u].pc = "online" => \A f \in Fields :
       expected'[f] # Unknown /\ Of(queue, f)' = {}
       => expected[f] # Unknown /\ Of(queue, f) = {}

LEMMA AnswerAgreesKept ==
  ASSUME TypeOK, NEW u \in Tabs, Keeping(u), LeaseKept(u), AnswerAgrees(u), Onward, AnswerHolds(u)
  PROVE  AnswerAgrees(u)'
<1> SUFFICES ASSUME run'[u].pc = "answered"
             PROVE  /\ DOMAIN run'[u].articles \subseteq FieldsOf(run'[u].sent)
                    /\ \A f \in FieldsOf(run'[u].sent) :
                         server'[f] # Absent => f \in DOMAIN run'[u].articles
                    /\ \A f \in DOMAIN run'[u].articles :
                         Holding(u)' /\ Certain(f)'
                         /\ (\A x \in Of(queue, f)' :
                               x \in DOMAIN run'[u].results /\ run'[u].results[x] # "retry")
                         => run'[u].articles[f] = expected'[f]
  BY Zenon DEF AnswerAgrees
<1>1. /\ run[u].pc = "answered" /\ run'[u].sent = run[u].sent
      /\ run'[u].results = run[u].results /\ run'[u].articles = run[u].articles
  BY DEF Keeping
<1>2. DOMAIN run[u].articles \subseteq FieldsOf(run[u].sent)
      /\ \A f \in FieldsOf(run[u].sent) : server[f] # Absent => f \in DOMAIN run[u].articles
  BY <1>1, Zenon DEF AnswerAgrees
<1>3. DOMAIN run[u].articles \subseteq Fields /\ FieldsOf(run[u].sent) \subseteq Fields
  BY RunParts DEF FieldsOf, Intent
<1>4. \A f \in FieldsOf(run'[u].sent) : server'[f] # Absent => f \in DOMAIN run'[u].articles
  BY <1>1, <1>2, <1>3 DEF Onward
<1>5. ASSUME NEW f \in DOMAIN run'[u].articles, Holding(u)', Certain(f)',
             \A x \in Of(queue, f)' :
               x \in DOMAIN run'[u].results /\ run'[u].results[x] # "retry"
      PROVE  run'[u].articles[f] = expected'[f]
  <2>1. f \in Fields /\ f \in DOMAIN run[u].articles
    BY <1>1, <1>3
  <2>2. Holding(u)
    BY <1>1, <1>5 DEF LeaseKept
  <2>3. Certain(f) /\ expected'[f] = expected[f] /\ Of(queue, f) \subseteq Of(queue, f)'
    BY <1>1, <1>5, <2>1, <2>2 DEF AnswerHolds
  <2>4. \A x \in Of(queue, f) : x \in DOMAIN run[u].results /\ run[u].results[x] # "retry"
    BY <1>1, <1>5, <2>3
  <2>5. run[u].articles[f] = expected[f]
    BY <1>1, <2>1, <2>2, <2>3, <2>4 DEF AnswerAgrees
  <2>6. QED
    BY <1>1, <2>3, <2>5
<1>6. QED
  BY <1>1, <1>2, <1>4, <1>5

LEMMA VisitAgreesKept ==
  ASSUME TypeOK, NEW u \in Tabs, VisitKept(u), VisitAgrees(u), VisitHolds(u)
  PROVE  VisitAgrees(u)'
<1>1. visit'[u].epoch <= epoch'
  BY DEF VisitKept
<1>2. DOMAIN visit[u].articles \subseteq Fields
  BY VisitParts
<1>3. ASSUME Visiting(u)', visit'[u].pc = "download", NEW f \in DOMAIN visit'[u].articles,
             Certain(f)', Of(queue, f)' = {}
      PROVE  visit'[u].articles[f] = expected'[f]
  <2>1. Visiting(u) /\ visit'[u] = visit[u]
    BY <1>3 DEF VisitKept
  <2>2. Certain(f) /\ expected'[f] = expected[f] /\ Of(queue, f) = {}
    BY <1>2, <1>3, <2>1 DEF VisitHolds
  <2>3. QED
    BY <1>3, <2>1, <2>2 DEF VisitAgrees
<1>4. ASSUME Visiting(u)', visit'[u].pc = "online", NEW f \in DOMAIN visit'[u].articles,
             expected'[f] # Unknown
      PROVE  Of(queue, f)' # {}
  <2>1. Visiting(u) /\ visit'[u] = visit[u]
    BY <1>4 DEF VisitKept
  <2>2. expected[f] # Unknown => Of(queue, f) # {}
    BY <1>4, <2>1 DEF VisitAgrees
  <2>3. QED
    BY <1>2, <1>4, <2>1, <2>2 DEF VisitHolds
<1>5. QED
  BY <1>1, <1>3, <1>4, Zenon DEF VisitAgrees

\* What the reader may expect, in a step that at most forgets some of it: the
\* fields that stand are those whose server value and stored copy do.
LEMMA ForgettingAgreement ==
  ASSUME TypeOK, SameOf, handled' = handled, abandoned' = abandoned,
         \A h \in Fields :
           expected'[h] = Unknown \/ (expected'[h] = expected[h] /\ server'[h] = server[h]),
         \A h \in Fields : expected'[h] # Unknown /\ Of(queue, h) = {} =>
                            local'[h] \in {local[h], Absent},
         LastCounts, ServerAgrees, LocalAgrees
  PROVE  /\ LastCounts' /\ ServerAgrees' /\ LocalAgrees'
         /\ \A u \in Tabs : AnswerHolds(u) /\ VisitHolds(u)
<1>1. \A f \in Fields : Of(queue, f)' = Of(queue, f)
  BY DEF SameOf
<1>2. \A f \in Fields : Certain(f)' =>
        Certain(f) /\ expected'[f] = expected[f] /\ server'[f] = server[f]
  BY DEF Certain
<1>3. LastCounts'
  <2> SUFFICES ASSUME NEW f \in Fields, expected'[f] # Unknown, Of(queue, f)' # {}
               PROVE  queue'[Max(Of(queue, f)')].value = expected'[f]
    BY DEF LastCounts
  <2>1. /\ Of(queue, f)' = Of(queue, f) /\ expected'[f] = expected[f]
        /\ expected[f] # Unknown /\ Of(queue, f) # {}
    BY <1>1
  <2>2. queue[Max(Of(queue, f))].value = expected[f]
    BY <2>1 DEF LastCounts
  <2>3. Max(Of(queue, f)) \in Of(queue, f)
    <3>1. Of(queue, f) \in SUBSET Ids
      BY QueueParts DEF Of, Active
    <3>2. QED
      BY <2>1, <3>1, MaxIsGreatest
  <2>4. QED
    BY <2>1, <2>2, <2>3 DEF SameOf
<1>4. ServerAgrees'
  BY <1>1, <1>2 DEF ServerAgrees, Handled
<1>5. LocalAgrees'
  <2> SUFFICES ASSUME NEW f \in Fields, Certain(f)', Of(queue, f)' = {}
               PROVE  local'[f] \in {expected'[f], Absent}
    BY DEF LocalAgrees
  <2>1. Certain(f) /\ expected'[f] = expected[f] /\ Of(queue, f) = {}
    BY <1>1, <1>2
  <2>2. local'[f] \in {local[f], Absent}
    BY <2>1 DEF Certain
  <2>3. QED
    BY <2>1, <2>2 DEF LocalAgrees
<1>6. \A u \in Tabs : AnswerHolds(u) /\ VisitHolds(u)
  <2>1. \A u \in Tabs : AnswerHolds(u)
    BY <1>1, <1>2 DEF AnswerHolds
  <2>2. \A u \in Tabs : VisitHolds(u)
    BY <1>1, <1>2 DEF VisitHolds
  <2>3. QED
    BY <2>1, <2>2
<1>7. QED
  BY <1>3, <1>4, <1>5, <1>6

LEMMA CalmAgreement ==
  ASSUME TypeOK, SameOf, SameServer, expected' = expected,
         \A f \in Fields : local'[f] \in {local[f], Absent}, LastCounts, ServerAgrees, LocalAgrees
  PROVE  /\ LastCounts' /\ ServerAgrees' /\ LocalAgrees'
         /\ \A u \in Tabs : AnswerHolds(u) /\ VisitHolds(u)
BY ForgettingAgreement DEF SameServer

\* Such a step, whatever it does to sessions, leases and requests, keeps it all.
Calm ==
  /\ SameQueue /\ SameServer /\ StraysFromTabs
  /\ expected' = expected /\ \A f \in Fields : local'[f] \in {local[f], Absent}
  /\ \A u \in Tabs : Keeping(u) /\ LeaseKept(u)

LEMMA CalmKeeps ==
  ASSUME Inv, Calm
  PROVE  /\ Agreed' /\ Ordered' /\ TabsKnow' /\ LastCounts' /\ ServerAgrees' /\ LocalAgrees'
         /\ \A u \in Tabs : AnswerAgrees(u)'
         /\ \A u \in Tabs : VisitKept(u) => VisitAgrees(u)'
<1>1. TypeOK /\ Agreed /\ Ordered /\ TabsKnow /\ LastCounts /\ ServerAgrees /\ LocalAgrees
      /\ \A u \in Tabs : AnswerAgrees(u) /\ VisitAgrees(u)
  BY DEF Inv, Agreement
<1>2. /\ SameQueue /\ SameServer /\ StraysFromTabs
      /\ expected' = expected /\ \A f \in Fields : local'[f] \in {local[f], Absent}
      /\ \A u \in Tabs : Keeping(u) /\ LeaseKept(u)
  BY DEF Calm
<1>3. Onward /\ QueueGrows /\ SameOf
  BY <1>1, <1>2, SameIsOnward, SameQueueGrows
<1>4. Agreed' /\ Ordered'
  BY <1>1, <1>2, <1>3, QuietOrder DEF SameServer
<1>5. TabsKnow'
  BY <1>1, <1>2, <1>3, QuietTabs
<1>6. /\ LastCounts' /\ ServerAgrees' /\ LocalAgrees'
      /\ \A u \in Tabs : AnswerHolds(u) /\ VisitHolds(u)
  BY <1>1, <1>2, <1>3, CalmAgreement
<1>7. \A u \in Tabs : AnswerAgrees(u)'
  BY <1>1, <1>2, <1>3, <1>6, AnswerAgreesKept
<1>8. \A u \in Tabs : VisitKept(u) => VisitAgrees(u)'
  BY <1>1, <1>6, VisitAgreesKept
<1>9. QED
  BY <1>4, <1>5, <1>6, <1>7, <1>8

----------------------------------------------------------------------------
(* The steps that keep it all: a run begins, ends, gives up or is gone.     *)

\* Nobody comes to own the lease.
Fading == epoch <= epoch' /\ ((lease' = lease /\ epoch' = epoch) \/ ~lease'.live)

SameRun(u) ==
  /\ run'[u].pc = run[u].pc /\ run'[u].sent = run[u].sent /\ run'[u].results = run[u].results
  /\ run'[u].articles = run[u].articles /\ run'[u].epoch = run[u].epoch
  /\ run'[u].fresh = run[u].fresh
Parked(u) ==
  /\ run'[u].pc \notin {"waiting", "answered"}
  /\ DOMAIN run'[u].sent = {} /\ DOMAIN run'[u].results = {}
  /\ run'[u].epoch <= epoch' /\ (run'[u].pc = "completing" => run'[u].fresh)

LEMMA FadingOwns ==
  ASSUME Fading PROVE \A u : (Holding(u)' /\ run'[u].epoch = run[u].epoch => Holding(u))
                          /\ (Visiting(u)' /\ visit'[u] = visit[u] => Visiting(u))
BY DEF Fading, Holding, Visiting, Owns

LEMMA SameRunKeeping ==
  ASSUME TypeOK, NEW u \in Tabs, Answers(u), SameRun(u) PROVE Keeping(u)
<1>1. DOMAIN run[u].results \subseteq DOMAIN run[u].sent
  BY RunParts
<1>2. run[u].pc \notin {"waiting", "answered"} => DOMAIN run[u].sent = {}
  BY DEF Answers
<1>3. QED
  BY <1>1, <1>2 DEF Keeping, SameRun

LEMMA TabsWhenFading ==
  ASSUME TypeOK, TabsKnow, Fading, epoch' \in Nat, \A u \in Tabs : SameRun(u) \/ Parked(u)
  PROVE  \A u \in Tabs : Keeping(u) /\ LeaseKept(u)
<1> SUFFICES ASSUME NEW u \in Tabs PROVE Keeping(u) /\ LeaseKept(u)
  OBVIOUS
<1>1. Answers(u) /\ Keeps(u)
  BY DEF TabsKnow
<1>2. CASE SameRun(u)
  <2>1. Keeping(u)
    BY <1>1, <1>2, SameRunKeeping
  <2>2. run'[u].epoch <= epoch'
    <3>1. run[u].epoch <= epoch /\ run[u].epoch \in Nat /\ epoch \in Nat /\ epoch <= epoch'
      BY <1>1, RunParts DEF Keeps, Fading, TypeOK
    <3>2. QED
      BY <1>2, <3>1 DEF SameRun
  <2>3. Holding(u)' => Holding(u)
    BY <1>2, FadingOwns DEF SameRun
  <2>4. QED
    BY <1>1, <1>2, <2>1, <2>2, <2>3 DEF LeaseKept, SameRun, Keeps
<1>3. CASE Parked(u)
  BY <1>3 DEF Parked, Keeping, LeaseKept
<1>4. QED
  BY <1>2, <1>3

LEMMA VisitsWhenFading ==
  ASSUME TypeOK, \A u \in Tabs : VisitAgrees(u), Fading, epoch' \in Nat,
         \A u \in Tabs : visit'[u] \in {visit[u], IdleVisit}
  PROVE  \A u \in Tabs : VisitKept(u)
<1> SUFFICES ASSUME NEW u \in Tabs PROVE VisitKept(u)
  OBVIOUS
<1>1. visit[u].epoch <= epoch /\ visit[u].epoch \in Nat /\ epoch \in Nat /\ epoch <= epoch'
  BY VisitParts DEF VisitAgrees, TypeOK, Fading
<1>2. IdleVisit.epoch = 0 /\ IdleVisit.pc = "idle"
  BY DEF IdleVisit
<1>3. visit'[u].epoch <= epoch'
  BY <1>1, <1>2
<1>4. QED
  BY <1>2, <1>3, FadingOwns DEF VisitKept

LEMMA IdleIsParked ==
  ASSUME NEW u, run'[u] = IdleRun, 0 <= epoch' PROVE Parked(u)
BY NothingIsPartial DEF Parked, IdleRun

LEMMA StrayedFromTabs ==
  ASSUME TypeOK, NEW t \in Tabs, stray' = Strayed(t) PROVE StraysFromTabs
BY DEF StraysFromTabs, Strayed, InProgress

LEMMA EndRunEffect ==
  ASSUME TypeOK, NEW t \in Tabs, EndRun(t), epoch' = epoch
  PROVE  /\ Fading /\ epoch' \in Nat /\ \A u \in Tabs : SameRun(u) \/ Parked(u)
         /\ \A u \in Tabs : u # t => run'[u] = run[u]
         /\ run'[t] = IdleRun
<1>1. epoch \in Nat
  BY DEF TypeOK
<1>2. Fading
  BY <1>1 DEF EndRun, Fading, Released, Free
<1>3. run'[t] = IdleRun /\ \A u \in Tabs : u # t => run'[u] = run[u]
  BY DEF EndRun, TypeOK
<1>4. \A u \in Tabs : SameRun(u) \/ Parked(u)
  BY <1>1, <1>3, IdleIsParked DEF SameRun
<1>5. QED
  BY <1>1, <1>2, <1>3, <1>4

LEMMA EndVisitEffect ==
  ASSUME TypeOK, NEW t \in Tabs, EndVisit(t), epoch' = epoch
  PROVE  /\ Fading /\ epoch' \in Nat /\ \A u \in Tabs : visit'[u] \in {visit[u], IdleVisit}
<1>1. epoch \in Nat
  BY DEF TypeOK
<1>2. Fading
  BY <1>1 DEF EndVisit, Fading, Released, Free
<1>3. QED
  BY <1>1, <1>2 DEF EndVisit, TypeOK

\* A step is calm when its tabs are the same or parked and no lease is taken.
LEMMA FadingIsCalm ==
  ASSUME Inv, SameQueue, SameServer, StraysFromTabs, expected' = expected,
         \A f \in Fields : local'[f] \in {local[f], Absent},
         Fading, epoch' \in Nat, \A u \in Tabs : SameRun(u) \/ Parked(u),
         \A u \in Tabs : visit'[u] \in {visit[u], IdleVisit}
  PROVE  Calm /\ \A u \in Tabs : VisitKept(u)
<1>1. TypeOK /\ TabsKnow /\ \A u \in Tabs : VisitAgrees(u)
  BY DEF Inv, Agreement
<1>2. QED
  BY <1>1, TabsWhenFading, VisitsWhenFading DEF Calm

LEMMA SameQueueTrivially == ASSUME queue' = queue PROVE SameQueue
BY DEF SameQueue

LEMMA EndingIsCalm ==
  ASSUME Inv, NEW t \in Tabs, EndRun(t), SameQueue, SameServer, StraysFromTabs, expected' = expected,
         UNCHANGED <<local, epoch, visit>>
  PROVE  Calm /\ \A u \in Tabs : VisitKept(u)
<1>1. TypeOK
  BY DEF Inv
<1>2. Fading /\ epoch' \in Nat /\ \A u \in Tabs : SameRun(u) \/ Parked(u)
  BY <1>1, EndRunEffect
<1>3. QED
  BY <1>2, FadingIsCalm

LEMMA EndingsAreCalm ==
  ASSUME Inv, NEW t \in Tabs,
         \/ ValidationFails(t) \/ AnswerTooLate(t) \/ ReconcileFails(t) \/ Complete(t) \/ Abandon(t)
  PROVE  Calm /\ \A u \in Tabs : VisitKept(u)
<1>1. TypeOK
  BY DEF Inv
<1>2. EndRun(t) /\ SameQueue /\ SameServer /\ expected' = expected /\ UNCHANGED <<local, epoch, visit>>
  BY SameQueueTrivially
     DEF ValidationFails, AnswerTooLate, ReconcileFails, Complete, Abandon, SameServer, remote, history
<1>3. stray' = stray \/ stray' = Strayed(t)
  BY DEF ValidationFails, AnswerTooLate, ReconcileFails, Complete, Abandon, remote
<1>4. StraysFromTabs
  BY <1>1, <1>3, StrayedFromTabs DEF StraysFromTabs
<1>5. QED
  BY <1>2, <1>4, EndingIsCalm

LEMMA GiveUpIsCalm ==
  ASSUME Inv, NEW t \in Tabs, GiveUp(t)
  PROVE  Calm /\ \A u \in Tabs : VisitKept(u)
<1>1. TypeOK /\ Keeps(t)
  BY DEF Inv, TabsKnow
<1>2. SameQueue
  <2>1. CASE Owns(Sync(t), run[t].epoch)
    <3>1. queue' = Marked(DOMAIN run[t].sent, "dispatched", TRUE)
      BY <2>1 DEF GiveUp
    <3>2. \A i \in DOMAIN run[t].sent : i \in DOMAIN queue /\ queue[i].state = "dispatched"
      BY <1>1, <2>1 DEF Keeps, Holding, GiveUp
    <3>3. /\ DOMAIN queue' = DOMAIN queue
          /\ \A i \in DOMAIN queue :
               /\ queue'[i].field = queue[i].field /\ queue'[i].value = queue[i].value
               /\ queue'[i].state = IF i \in DOMAIN run[t].sent THEN "dispatched" ELSE queue[i].state
      BY <1>1, <3>1, MarkedTyped
    <3>4. QED
      BY <3>2, <3>3 DEF SameQueue
  <2>2. CASE ~Owns(Sync(t), run[t].epoch)
    BY <2>2, SameQueueTrivially DEF GiveUp
  <2>3. QED
    BY <2>1, <2>2
<1>3. EndRun(t) /\ SameServer /\ expected' = expected /\ UNCHANGED <<local, epoch, visit>>
      /\ stray' = Strayed(t)
  BY DEF GiveUp, SameServer, history
<1>4. StraysFromTabs
  BY <1>1, <1>3, StrayedFromTabs
<1>5. QED
  BY <1>2, <1>3, <1>4, EndingIsCalm

\* The record of a run whose place, flags or epoch change, but not its request.
LEMMA RunMoves ==
  ASSUME TypeOK, NEW t \in Tabs, Request(t) \/ DispatchNothing(t) \/ SignIn(t) \/ SignOut(t)
  PROVE  /\ \A u \in Tabs : u # t => run'[u] = run[u]
         /\ Request(t) => run'[t].pc = "validating" /\ run'[t].sent = <<>> /\ run'[t].results = <<>>
                          /\ run'[t].epoch = 0
         /\ DispatchNothing(t) => run'[t].pc = "closing" /\ run'[t].sent = run[t].sent
                                  /\ run'[t].results = run[t].results /\ run'[t].epoch = run[t].epoch
         /\ SignIn(t) \/ SignOut(t) => SameRun(t)
<1>1. \A u \in Tabs : u # t => run'[u] = run[u]
  BY DEF Request, DispatchNothing, SignIn, SignOut, TypeOK
<1>2. ASSUME Request(t)
      PROVE run'[t].pc = "validating" /\ run'[t].sent = <<>> /\ run'[t].results = <<>>
            /\ run'[t].epoch = 0
  BY <1>2 DEF Request, TypeOK, IdleRun
<1>3. ASSUME DispatchNothing(t)
      PROVE run'[t].pc = "closing" /\ run'[t].sent = run[t].sent
            /\ run'[t].results = run[t].results /\ run'[t].epoch = run[t].epoch
  <2>1. run'[t] = [run[t] EXCEPT !.pc = "closing"]
    BY <1>3 DEF DispatchNothing, TypeOK
  <2>2. QED
    BY <2>1, RunParts DEF Runs
<1>4. ASSUME SignIn(t) \/ SignOut(t) PROVE SameRun(t)
  <2>1. run'[t] = [run[t] EXCEPT !.live = FALSE]
    BY <1>4 DEF SignIn, SignOut, TypeOK
  <2>2. QED
    BY <2>1, RunParts DEF Runs, SameRun
<1>5. QED
  BY <1>1, <1>2, <1>3, <1>4

LEMMA SameParts ==
  ASSUME TypeOK, UNCHANGED <<lease, epoch>> PROVE Fading /\ epoch' \in Nat
BY DEF TypeOK, Fading

LEMMA RequestIsCalm ==
  ASSUME Inv, NEW t \in Tabs, Request(t)
  PROVE  Calm /\ \A u \in Tabs : VisitKept(u)
<1>1. TypeOK
  BY DEF Inv
<1>2. UNCHANGED <<queue, lease, epoch, stray, expected, local, visit>> /\ SameServer
  BY DEF Request, browser, remote, history, SameServer
<1>3. Fading /\ epoch' \in Nat
  BY <1>1, <1>2, SameParts
<1>4. Parked(t)
  BY <1>1, <1>3, RunMoves, NothingIsPartial DEF Parked
<1>5. \A u \in Tabs : SameRun(u) \/ Parked(u)
  BY <1>1, <1>4, RunMoves DEF SameRun
<1>6. QED
  BY <1>1, <1>2, <1>3, <1>5, SameQueueTrivially, FadingIsCalm DEF StraysFromTabs

LEMMA DispatchNothingIsCalm ==
  ASSUME Inv, NEW t \in Tabs, DispatchNothing(t)
  PROVE  Calm /\ \A u \in Tabs : VisitKept(u)
<1>1. TypeOK /\ Answers(t) /\ Keeps(t)
  BY DEF Inv, TabsKnow
<1>2. UNCHANGED <<queue, lease, epoch, stray, expected, local, visit>> /\ SameServer
  BY DEF DispatchNothing, browser, remote, history, SameServer
<1>3. Fading /\ epoch' \in Nat
  BY <1>1, <1>2, SameParts
<1>4. DOMAIN run[t].sent = {} /\ DOMAIN run[t].results = {}
  BY <1>1, RunParts DEF DispatchNothing, At, Answers
<1>5. Parked(t)
  <2>1. run[t].epoch <= epoch'
    BY <1>1, <1>2 DEF Keeps
  <2>2. run'[t].pc = "closing" /\ run'[t].sent = run[t].sent
        /\ run'[t].results = run[t].results /\ run'[t].epoch = run[t].epoch
    BY <1>1, RunMoves
  <2>3. QED
    BY <1>4, <2>1, <2>2 DEF Parked
<1>6. \A u \in Tabs : SameRun(u) \/ Parked(u)
  BY <1>1, <1>5, RunMoves DEF SameRun
<1>7. QED
  BY <1>1, <1>2, <1>3, <1>6, SameQueueTrivially, FadingIsCalm DEF StraysFromTabs

LEMMA ReconcileIsCalm ==
  ASSUME Inv, NEW t \in Tabs, Reconcile(t)
  PROVE  Calm /\ \A u \in Tabs : VisitKept(u)
<1>1. TypeOK /\ Answers(t) /\ Keeps(t)
  BY DEF Inv, TabsKnow
<1>2. UNCHANGED <<queue, epoch, stray, expected, local, visit>> /\ SameServer
  BY DEF Reconcile, remote, SameServer
<1>3. CASE EndRun(t)
  BY <1>2, <1>3, EndingIsCalm, SameQueueTrivially DEF StraysFromTabs
<1>4. CASE run' = [run EXCEPT ![t].pc = "completing", ![t].fresh = TRUE] /\ UNCHANGED lease
  <2>1. Fading /\ epoch' \in Nat
    BY <1>1, <1>2, <1>4, SameParts
  <2>2. DOMAIN run[t].sent = {} /\ DOMAIN run[t].results = {}
    BY <1>1, RunParts DEF Reconcile, At, Answers
  <2>3. run'[t] = [run[t] EXCEPT !.pc = "completing", !.fresh = TRUE]
        /\ \A u \in Tabs : u # t => run'[u] = run[u]
    BY <1>1, <1>4 DEF TypeOK
  <2>4. run'[t].pc = "completing" /\ run'[t].fresh = TRUE /\ run'[t].sent = run[t].sent
        /\ run'[t].results = run[t].results /\ run'[t].epoch = run[t].epoch
    BY <1>1, <2>3, RunParts DEF Runs
  <2>5. Parked(t)
    <3>1. run[t].epoch <= epoch'
      BY <1>1, <1>2 DEF Keeps
    <3>2. QED
      BY <2>2, <2>4, <3>1 DEF Parked
  <2>6. \A u \in Tabs : SameRun(u) \/ Parked(u)
    BY <2>3, <2>5 DEF SameRun
  <2>7. QED
    BY <1>2, <2>1, <2>6, SameQueueTrivially, FadingIsCalm DEF StraysFromTabs
<1>5. QED
  BY <1>3, <1>4 DEF Reconcile

LEMMA VisitFailsIsCalm ==
  ASSUME Inv, NEW t \in Tabs, VisitFails(t)
  PROVE  Calm /\ \A u \in Tabs : VisitKept(u)
<1>1. TypeOK
  BY DEF Inv
<1>2. UNCHANGED <<queue, epoch, stray, expected, local, run>> /\ SameServer /\ EndVisit(t)
  BY DEF VisitFails, remote, history, SameServer
<1>3. Fading /\ epoch' \in Nat /\ \A u \in Tabs : visit'[u] \in {visit[u], IdleVisit}
  BY <1>1, <1>2, EndVisitEffect
<1>4. QED
  BY <1>2, <1>3, SameQueueTrivially, FadingIsCalm DEF StraysFromTabs, SameRun

LEMMA ExpireIsCalm ==
  ASSUME Inv, Expire
  PROVE  Calm /\ \A u \in Tabs : VisitKept(u)
<1>1. TypeOK
  BY DEF Inv
<1>2. UNCHANGED <<queue, epoch, stray, expected, local, run, visit>> /\ SameServer
  BY DEF Expire, tabs, remote, history, SameServer
<1>3. Fading /\ epoch' \in Nat
  BY <1>1, <1>2 DEF Expire, Fading, TypeOK
<1>4. QED
  BY <1>2, <1>3, SameQueueTrivially, FadingIsCalm DEF StraysFromTabs, SameRun

LEMMA SignInIsCalm ==
  ASSUME Inv, NEW t \in Tabs, SignIn(t)
  PROVE  Calm /\ \A u \in Tabs : VisitKept(u)
<1>1. TypeOK
  BY DEF Inv
<1>2. UNCHANGED <<queue, epoch, lease, stray, expected, local, visit>> /\ SameServer
  BY DEF SignIn, browser, remote, history, SameServer
<1>3. Fading /\ epoch' \in Nat
  BY <1>1, <1>2, SameParts
<1>4. \A u \in Tabs : SameRun(u)
  BY <1>1, RunMoves DEF SameRun
<1>5. QED
  BY <1>2, <1>3, <1>4, SameQueueTrivially, FadingIsCalm DEF StraysFromTabs

LEMMA SignOutIsCalm ==
  ASSUME Inv, NEW t \in Tabs, SignOut(t)
  PROVE  Calm /\ \A u \in Tabs : VisitKept(u)
<1>1. TypeOK
  BY DEF Inv
<1>2. UNCHANGED <<queue, stray, expected, visit>> /\ SameServer
  BY DEF SignOut, remote, history, SameServer
<1>3. Fading /\ epoch' \in Nat
  BY <1>1 DEF SignOut, Fading, Free, TypeOK
<1>4. \A u \in Tabs : SameRun(u)
  BY <1>1, RunMoves DEF SameRun
<1>5. \A f \in Fields : local'[f] \in {local[f], Absent}
  BY DEF SignOut
<1>6. QED
  BY <1>2, <1>3, <1>4, <1>5, SameQueueTrivially, FadingIsCalm DEF StraysFromTabs

LEMMA ReloadIsCalm ==
  ASSUME Inv, NEW t \in Tabs, Reload(t)
  PROVE  Calm /\ \A u \in Tabs : VisitKept(u)
<1>1. TypeOK
  BY DEF Inv
<1>2. UNCHANGED <<queue, epoch, lease, expected, local>> /\ SameServer /\ stray' = Strayed(t)
  BY DEF Reload, browser, history, SameServer
<1>3. Fading /\ epoch' \in Nat
  BY <1>1, <1>2, SameParts
<1>4. run'[t] = IdleRun /\ \A u \in Tabs : u # t => run'[u] = run[u]
  BY <1>1 DEF Reload, TypeOK
<1>5. \A u \in Tabs : SameRun(u) \/ Parked(u)
  BY <1>3, <1>4, IdleIsParked DEF SameRun
<1>6. \A u \in Tabs : visit'[u] \in {visit[u], IdleVisit}
  BY <1>1 DEF Reload, TypeOK
<1>7. StraysFromTabs
  BY <1>1, <1>2, StrayedFromTabs
<1>8. QED
  BY <1>2, <1>3, <1>5, <1>6, <1>7, SameQueueTrivially, FadingIsCalm

LEMMA StutterIsCalm ==
  ASSUME Inv, UNCHANGED vars
  PROVE  Calm /\ \A u \in Tabs : VisitKept(u)
<1>1. TypeOK
  BY DEF Inv
<1>2. UNCHANGED <<queue, epoch, lease, stray, expected, local, run, visit>> /\ SameServer
  BY DEF vars, browser, tabs, remote, history, SameServer
<1>3. Fading /\ epoch' \in Nat
  BY <1>1, <1>2, SameParts
<1>4. QED
  BY <1>2, <1>3, SameQueueTrivially, FadingIsCalm DEF StraysFromTabs, SameRun

LEMMA HoldersDiffer ==
  \A t, u : /\ Sync(t) = Sync(u) => t = u
            /\ Visit(t) = Visit(u) => t = u
            /\ Sync(t) # Visit(u)
BY DEF Sync, Visit

LEMMA AcquireIsCalm ==
  ASSUME Inv, NEW t \in Tabs, Acquire(t)
  PROVE  Calm /\ \A u \in Tabs : VisitKept(u)
<1>1. TypeOK /\ TabsKnow /\ \A u \in Tabs : VisitAgrees(u)
  BY DEF Inv, Agreement
<1>2. UNCHANGED <<queue, epoch, stray, expected, local, visit>> /\ SameServer
  BY DEF Acquire, remote, history, SameServer
<1>3. CASE ~Available
  <2>1. EndRun(t)
    BY <1>3 DEF Acquire
  <2>2. QED
    BY <1>2, <2>1, SameQueueTrivially, EndingIsCalm DEF StraysFromTabs
<1>4. CASE Available
  <2>1. lease' = [owner |-> Sync(t), live |-> TRUE]
    BY <1>4 DEF Acquire
  <2>2. run' = [run EXCEPT ![t] = [run[t] EXCEPT !.pc = "loop", !.epoch = epoch]]
    BY <1>1, <1>4, RunParts DEF Acquire, TypeOK
  <2>3. /\ run'[t] = [run[t] EXCEPT !.pc = "loop", !.epoch = epoch]
        /\ \A u \in Tabs : u # t => run'[u] = run[u]
    BY <1>1, <2>2 DEF TypeOK
  <2>4. run'[t].pc = "loop" /\ run'[t].epoch = epoch /\ run'[t].sent = run[t].sent
        /\ run'[t].results = run[t].results
    BY <1>1, <2>3, RunParts DEF Runs
  <2>5. DOMAIN run[t].sent = {} /\ DOMAIN run[t].results = {}
    BY <1>1, RunParts DEF Acquire, At, TabsKnow, Answers
  <2>6. Keeping(t) /\ LeaseKept(t)
    BY <1>1, <1>2, <2>4, <2>5 DEF Keeping, LeaseKept, TypeOK
  <2>7. ASSUME NEW u \in Tabs, u # t PROVE Keeping(u) /\ LeaseKept(u)
    <3>1. SameRun(u) /\ Answers(u) /\ Keeps(u)
      BY <1>1, <2>3, <2>7 DEF SameRun, TabsKnow
    <3>2. ~ Holding(u)'
      BY <2>1, <2>7, HoldersDiffer DEF Holding, Owns
    <3>3. run'[u].epoch <= epoch'
      BY <1>2, <3>1 DEF Keeps, SameRun
    <3>4. QED
      BY <1>1, <3>1, <3>2, <3>3, SameRunKeeping DEF LeaseKept
  <2>8. ASSUME NEW u \in Tabs PROVE VisitKept(u)
    <3>1. ~ Visiting(u)'
      BY <2>1, HoldersDiffer DEF Visiting, Owns
    <3>2. QED
      BY <1>1, <1>2, <3>1 DEF VisitKept, VisitAgrees
  <2>9. QED
    BY <1>2, <2>6, <2>7, <2>8, SameQueueTrivially DEF Calm, StraysFromTabs
<1>5. QED
  BY <1>3, <1>4

LEMMA VisitAcquireIsCalm ==
  ASSUME Inv, NEW t \in Tabs, VisitAcquire(t)
  PROVE  Calm /\ \A u \in Tabs : VisitKept(u)
<1>1. TypeOK /\ TabsKnow /\ \A u \in Tabs : VisitAgrees(u)
  BY DEF Inv, Agreement
<1>2. UNCHANGED <<queue, epoch, stray, expected, local, run>> /\ SameServer
  BY DEF VisitAcquire, remote, history, SameServer
<1>3. lease' = [owner |-> Visit(t), live |-> TRUE]
  BY DEF VisitAcquire
<1>4. ASSUME NEW u \in Tabs PROVE Keeping(u) /\ LeaseKept(u)
  <2>1. SameRun(u) /\ Answers(u) /\ Keeps(u)
    BY <1>1, <1>2 DEF SameRun, TabsKnow
  <2>2. ~ Holding(u)'
    BY <1>3, HoldersDiffer DEF Holding, Owns
  <2>3. run'[u].epoch <= epoch'
    BY <1>2, <2>1 DEF Keeps, SameRun
  <2>4. QED
    BY <1>1, <2>1, <2>2, <2>3, SameRunKeeping DEF LeaseKept
<1>5. ASSUME NEW u \in Tabs PROVE VisitKept(u)
  <2>1. CASE u = t
    <3>1. visit'[t].pc = "held" /\ visit'[t].epoch = epoch
      BY <1>1 DEF VisitAcquire, TypeOK, IdleVisit
    <3>2. QED
      BY <1>1, <1>2, <2>1, <3>1 DEF VisitKept, TypeOK
  <2>2. CASE u # t
    <3>1. visit'[u] = visit[u]
      BY <1>1, <2>2 DEF VisitAcquire, TypeOK
    <3>2. ~ Visiting(u)'
      BY <1>3, <2>2, HoldersDiffer DEF Visiting, Owns
    <3>3. QED
      BY <1>1, <1>2, <3>1, <3>2 DEF VisitKept, VisitAgrees
  <2>3. QED
    BY <2>1, <2>2
<1>6. QED
  BY <1>2, <1>4, <1>5, SameQueueTrivially DEF Calm, StraysFromTabs

LEMMA CalmIsEnough ==
  ASSUME Inv, Calm, TypeOK', \A u \in Tabs : VisitAgrees(u)' PROVE Inv'
<1>1. /\ Agreed' /\ Ordered' /\ TabsKnow' /\ LastCounts' /\ ServerAgrees' /\ LocalAgrees'
      /\ \A u \in Tabs : AnswerAgrees(u)'
  BY CalmKeeps
<1>2. QED
  BY <1>1 DEF Inv, Agreement

\* A download reads what the server holds.
LEMMA DownloadKeeps ==
  ASSUME Inv, NEW t \in Tabs, Download(t)
  PROVE  Inv'
<1>1. TypeOK /\ TabsKnow /\ ServerAgrees /\ \A u \in Tabs : VisitAgrees(u)
  BY DEF Inv, Agreement
<1>2. UNCHANGED <<queue, epoch, lease, stray, expected, local, run>> /\ SameServer
  BY DEF Download, browser, remote, history, SameServer
<1>3. Calm
  <2>1. Fading /\ epoch' \in Nat
    BY <1>1, <1>2, SameParts
  <2>2. \A u \in Tabs : Keeping(u) /\ LeaseKept(u)
    BY <1>1, <1>2, <2>1, TabsWhenFading DEF SameRun
  <2>3. QED
    BY <1>2, <2>2, SameQueueTrivially DEF Calm, StraysFromTabs
<1>4. TypeOK'
  BY <1>1, VisitTypes
<1>5. ASSUME NEW u \in Tabs PROVE VisitAgrees(u)'
  <2>1. CASE u # t
    <3>1. visit'[u] = visit[u]
      BY <1>1, <2>1 DEF Download, TypeOK
    <3>2. VisitKept(u)
      BY <1>1, <1>2, <3>1 DEF VisitKept, VisitAgrees, Visiting, Owns
    <3>3. QED
      BY <1>3, <3>2, CalmKeeps
  <2>2. CASE u = t
    <3> DEFINE as == [f \in Visible(Fields) |-> Overlay(server, queue)[f]]
    <3>1. visit' = [visit EXCEPT ![t] = [visit[t] EXCEPT !.pc = "download", !.articles = as]]
      BY <1>1, VisitParts DEF Download, TypeOK
    <3>2. /\ DOMAIN as = Visible(Fields) /\ DOMAIN as \subseteq Fields
          /\ \A f \in DOMAIN as : Of(queue, f) = {} => as[f] = server[f]
      <4>1. server \in [Fields -> Values \cup {Absent}] /\ queue \in [DOMAIN queue -> Action]
            /\ DOMAIN queue \subseteq Ids
        BY <1>1 DEF TypeOK
      <4>2. \A f \in Fields : Of(queue, f) = {} => Overlay(server, queue)[f] = server[f]
        BY <4>1, OverlayTyped
      <4>3. QED
        BY <4>2 DEF Visible
    <3> HIDE DEF as
    <3>3. visit'[t].pc = "download" /\ visit'[t].articles = as /\ visit'[t].epoch = visit[t].epoch
      BY <1>1, <3>1, VisitParts DEF TypeOK, Visits
    <3>4. visit'[t].epoch <= epoch'
      BY <1>1, <1>2, <3>3 DEF VisitAgrees
    <3>5. ASSUME NEW f \in DOMAIN as, Certain(f)', Of(queue, f)' = {} PROVE as[f] = expected'[f]
      <4>1. f \in Fields /\ Certain(f) /\ Of(queue, f) = {}
        BY <1>2, <3>2, <3>5 DEF Certain, SameServer
      <4>2. server[f] = expected[f]
        BY <1>1, <4>1 DEF ServerAgrees
      <4>3. QED
        BY <1>2, <3>2, <4>1, <4>2
    <3>6. QED
      BY <2>2, <3>3, <3>4, <3>5 DEF VisitAgrees
  <2>3. QED
    BY <2>1, <2>2
<1>6. QED
  BY <1>3, <1>4, <1>5, CalmIsEnough

LEMMA CalmStepsKeep ==
  ASSUME Inv,
         \/ \E t \in Tabs :
              \/ Request(t) \/ Acquire(t) \/ DispatchNothing(t) \/ AnswerTooLate(t) \/ Reconcile(t)
              \/ Complete(t) \/ Abandon(t) \/ ValidationFails(t) \/ GiveUp(t) \/ ReconcileFails(t)
              \/ VisitFails(t) \/ VisitAcquire(t) \/ Reload(t) \/ SignIn(t) \/ SignOut(t)
         \/ Expire \/ UNCHANGED vars
  PROVE  Inv'
<1>1. TypeOK
  BY DEF Inv
<1>2. TypeOK' /\ Calm /\ \A u \in Tabs : VisitKept(u)
  <2>1. ASSUME NEW t \in Tabs,
               \/ Request(t) \/ Acquire(t) \/ DispatchNothing(t) \/ Reconcile(t) \/ GiveUp(t)
        PROVE TypeOK' /\ Calm /\ \A u \in Tabs : VisitKept(u)
    BY <1>1, <2>1, RequestTypes, AcquireTypes, DispatchNothingTypes, ReconcileTypes, GiveUpTypes,
       RequestIsCalm, AcquireIsCalm, DispatchNothingIsCalm, ReconcileIsCalm, GiveUpIsCalm
  <2>2. ASSUME NEW t \in Tabs,
               \/ AnswerTooLate(t) \/ Complete(t) \/ Abandon(t) \/ ValidationFails(t)
               \/ ReconcileFails(t)
        PROVE TypeOK' /\ Calm /\ \A u \in Tabs : VisitKept(u)
    BY <1>1, <2>2, RunEndTypes, EndingsAreCalm
  <2>3. ASSUME NEW t \in Tabs, VisitFails(t) \/ VisitAcquire(t)
        PROVE TypeOK' /\ Calm /\ \A u \in Tabs : VisitKept(u)
    BY <1>1, <2>3, VisitTypes, VisitFailsIsCalm, VisitAcquireIsCalm
  <2>4. ASSUME NEW t \in Tabs, Reload(t) \/ SignIn(t) \/ SignOut(t)
        PROVE TypeOK' /\ Calm /\ \A u \in Tabs : VisitKept(u)
    BY <1>1, <2>4, ReloadTypes, SignInTypes, SignOutTypes, ReloadIsCalm, SignInIsCalm, SignOutIsCalm
  <2>5. CASE Expire
    BY <1>1, <2>5, ExpireTypes, ExpireIsCalm
  <2>6. CASE UNCHANGED vars
    <3>1. TypeOK'
      BY <1>1, <2>6 DEF vars, browser, tabs, remote, budget, history, TypeOK
    <3>2. QED
      BY <2>6, <3>1, StutterIsCalm
  <2>7. QED
    BY <2>1, <2>2, <2>3, <2>4, <2>5, <2>6
<1>3. \A u \in Tabs : VisitAgrees(u)'
  BY <1>2, CalmKeeps
<1>4. QED
  BY <1>2, <1>3, CalmIsEnough

----------------------------------------------------------------------------
(* The reader assigns a value.                                              *)

LEMMA AssignFields ==
  ASSUME TypeOK, Agreed, NEW t \in Readers, NEW fs \in Selections, NEW v \in Values,
         Assign(t, fs, v), NEW f \in Fields
  PROVE  /\ f \in Range(fs) => \E x \in New(fs) : /\ x \in Of(queue, f)' /\ queue'[x].value = v
                                                 /\ \A y \in Of(queue, f)' : y <= x
         /\ f \notin Range(fs) => /\ Of(queue, f)' = Of(queue, f)
                                  /\ \A x \in Of(queue, f) : queue'[x] = queue[x]
<1>1. /\ DOMAIN queue' = Kept(fs) \cup New(fs)
      /\ \A i \in Kept(fs) : i \in DOMAIN queue /\ queue'[i] = queue[i] /\ i < nextId /\ i \in Nat
      /\ \A i \in New(fs) :
           /\ i \in Nat /\ nextId <= i /\ i \notin DOMAIN queue
           /\ queue'[i].field \in Range(fs) /\ queue'[i].value = v /\ queue'[i].state = "pending"
      /\ \A i, j \in New(fs) : queue'[i].field = queue'[j].field => i = j
      /\ \A i \in DOMAIN queue : i \notin Kept(fs) => queue[i].field \in Range(fs)
  <2>1. /\ DOMAIN queue' = Kept(fs) \cup New(fs)
        /\ \A i \in Kept(fs) : i \in DOMAIN queue /\ queue'[i] = queue[i] /\ i < nextId /\ i \in Nat
    BY AssignEffect
  <2>2. ASSUME NEW i \in New(fs)
        PROVE  /\ i \in Nat /\ nextId <= i /\ i \notin DOMAIN queue
               /\ queue'[i].field \in Range(fs) /\ queue'[i].value = v /\ queue'[i].state = "pending"
    <3>1. i \in Nat /\ nextId <= i
      BY AssignEffect
    <3>2. i \notin DOMAIN queue /\ queue'[i].field \in Range(fs) /\ queue'[i].value = v
      BY AssignEffect
    <3>3. queue'[i].state = "pending"
      BY AssignEffect
    <3>4. QED
      BY <3>1, <3>2, <3>3
  <2>3. /\ \A i, j \in New(fs) : queue'[i].field = queue'[j].field => i = j
        /\ \A i \in DOMAIN queue : i \notin Kept(fs) => queue[i].field \in Range(fs)
    BY AssignEffect
  <2>4. QED
    BY <2>1, <2>2, <2>3
<1>2. nextId \in Nat /\ \A g \in Range(fs) : \E i \in New(fs) : queue'[i].field = g
  BY Known, AssignEffect
<1>3. ASSUME f \in Range(fs)
      PROVE \E x \in New(fs) : /\ x \in Of(queue, f)' /\ queue'[x].value = v
                               /\ \A y \in Of(queue, f)' : y <= x
  <2>1. PICK x \in New(fs) : queue'[x].field = f
    BY <1>2, <1>3
  <2>2. x \in Of(queue, f)'
    BY <1>1, <2>1 DEF Of, Active
  <2>3. ASSUME NEW y \in Of(queue, f)' PROVE y <= x
    <3>1. y \in DOMAIN queue' /\ queue'[y].field = f
      BY <2>3 DEF Of, Active
    <3>2. CASE y \in Kept(fs)
      BY <1>1, <1>2, <3>2
    <3>3. CASE y \in New(fs)
      BY <1>1, <2>1, <3>1, <3>3
    <3>4. QED
      BY <1>1, <3>1, <3>2, <3>3
  <2>4. QED
    BY <1>1, <2>2, <2>3
<1>4. ASSUME f \notin Range(fs)
      PROVE  /\ Of(queue, f)' = Of(queue, f)
             /\ \A x \in Of(queue, f) : queue'[x] = queue[x]
  <2>1. ASSUME NEW x PROVE x \in Of(queue, f)' <=> x \in Of(queue, f)
    BY <1>1, <1>4 DEF Of, Active
  <2>2. \A x \in Of(queue, f) : queue'[x] = queue[x]
    BY <1>1, <1>4 DEF Of, Active
  <2>3. QED
    BY <2>1, <2>2
<1>5. QED
  BY <1>3, <1>4

LEMMA AssignGrows ==
  ASSUME TypeOK, Agreed, NEW t \in Readers, NEW fs \in Selections, NEW v \in Values,
         Assign(t, fs, v)
  PROVE  /\ QueueGrows /\ Onward
         /\ \A x \in DOMAIN queue' : queue'[x].state = "failed" =>
              x \in DOMAIN queue /\ queue'[x] = queue[x]
<1>1. /\ DOMAIN queue' = Kept(fs) \cup New(fs)
      /\ \A i \in Kept(fs) : i \in DOMAIN queue /\ queue'[i] = queue[i]
      /\ \A i \in New(fs) : i \in Nat /\ nextId <= i /\ queue'[i].state = "pending"
      /\ \A i \in DOMAIN queue : i \notin Kept(fs) => queue[i].state = "pending"
      /\ nextId <= nextId'
  BY AssignEffect
<1>2. QueueGrows
  BY <1>1 DEF QueueGrows, Active
<1>3. Onward
  BY <1>1 DEF Onward, Assign, remote, Handled, Discarded
<1>4. QED
  BY <1>1, <1>2, <1>3

LEMMA AssignAgreed ==
  ASSUME TypeOK, Agreed, NEW t \in Readers, NEW fs \in Selections, NEW v \in Values,
         Assign(t, fs, v)
  PROVE  Agreed'
<1>1. /\ DOMAIN queue' = Kept(fs) \cup New(fs)
      /\ \A i \in Kept(fs) : i \in DOMAIN queue /\ queue'[i] = queue[i]
      /\ \A i \in New(fs) : i \in Nat /\ nextId <= i /\ i < nextId'
      /\ nextId <= nextId' /\ nextId' \in Nat /\ nextId \in Nat
  BY AssignEffect, Known
<1>2. UNCHANGED <<run, stray, handled, abandoned>>
  BY DEF Assign, remote
<1>3. ASSUME NEW i \in Ids, NEW a \in Intent, Says(i, a)'
      PROVE  Says(i, a) \/ (i \in New(fs) /\ a = IntentOf(queue'[i]))
  <2>1. CASE i \in DOMAIN queue' /\ a = IntentOf(queue'[i])
    <3>1. CASE i \in New(fs)
      BY <2>1, <3>1
    <3>2. CASE i \in Kept(fs)
      BY <1>1, <2>1, <3>2 DEF Says
    <3>3. QED
      BY <1>1, <2>1, <3>1, <3>2
  <2>2. CASE ~(i \in DOMAIN queue' /\ a = IntentOf(queue'[i]))
    BY <1>2, <1>3, <2>2 DEF Says
  <2>3. QED
    BY <2>1, <2>2
<1>4. \A i \in Ids, a \in Intent : Says(i, a) => i < nextId /\ i \in Nat
  BY Numeric DEF Agreed
<1>5. \A i \in Ids, a \in Intent : Says(i, a)' => i < nextId'
  BY <1>1, <1>3, <1>4
<1>6. ASSUME NEW i \in Ids, NEW a \in Intent, NEW b \in Intent, Says(i, a)', Says(i, b)'
      PROVE  a = b
  <2>1. CASE i \in New(fs)
    <3>1. ~Says(i, a) /\ ~Says(i, b)
      BY <1>1, <1>4, <2>1
    <3>2. QED
      BY <1>3, <1>6, <3>1
  <2>2. CASE i \notin New(fs)
    <3>1. Says(i, a) /\ Says(i, b)
      BY <1>3, <1>6, <2>2
    <3>2. QED
      BY <3>1 DEF Agreed
  <2>3. QED
    BY <2>1, <2>2
<1>7. QED
  BY <1>5, <1>6, Zenon DEF Agreed

LEMMA AssignKeeps ==
  ASSUME Inv, NEW t \in Readers, NEW fs \in Selections, NEW v \in Values, Assign(t, fs, v)
  PROVE  Inv'
<1>1. TypeOK /\ Agreed /\ Ordered /\ TabsKnow /\ LastCounts /\ ServerAgrees /\ LocalAgrees
      /\ \A u \in Tabs : AnswerAgrees(u) /\ VisitAgrees(u)
  BY DEF Inv, Agreement
<1>2. UNCHANGED <<epoch, lease, run, visit, server, handled, stray, abandoned>>
  BY DEF Assign, remote
<1>3. QueueGrows /\ Onward
  BY <1>1, AssignGrows
<1>4. Fading /\ epoch' \in Nat
  BY <1>1, <1>2, SameParts
<1>5. \A u \in Tabs : Keeping(u) /\ LeaseKept(u)
  BY <1>1, <1>2, <1>4, TabsWhenFading DEF SameRun
<1>6. \A u \in Tabs : VisitKept(u)
  BY <1>1, <1>2, <1>4, VisitsWhenFading
<1>7. Agreed'
  BY <1>1, AssignAgreed
<1>8. Ordered'
  <2>1. \A R \in Batches' : R \in Batches
    BY <1>2 DEF Batches, Unhandled
  <2>2. HandledOnceInOrder' /\ OlderTravelAlong' /\ NoneIsLate'
    BY <1>1, <1>2, <1>3, <2>1, OrderKept DEF QueueGrows
  <2>3. FlyingAreQueued'
    BY <1>1, <1>3, <2>1, FlyingKept DEF Ordered
  <2>4. FailedAreGone'
    <3>1. \A x \in DOMAIN queue' : queue'[x].state = "failed" =>
            x \in DOMAIN queue /\ queue'[x] = queue[x]
      BY <1>1, AssignGrows
    <3>2. QED
      BY <1>1, <1>2, <3>1 DEF Ordered, FailedAreGone, Handled
  <2>5. StraysCarry'
    BY <1>1, <1>2 DEF Ordered, StraysCarry
  <2>6. QED
    BY <2>2, <2>3, <2>4, <2>5 DEF Ordered
<1>9. TabsKnow'
  BY <1>1, <1>3, <1>5, QuietTabs
<1>10. \A f \in Fields : f \notin Range(fs) =>
         (Certain(f)' <=> Certain(f)) /\ expected'[f] = expected[f]
  BY <1>2 DEF Certain, Assign, TypeOK
<1>11. ASSUME NEW f \in Fields
       PROVE  /\ f \in Range(fs) => \E x \in New(fs) : /\ x \in Of(queue, f)' /\ queue'[x].value = v
                                                      /\ \A y \in Of(queue, f)' : y <= x
              /\ f \notin Range(fs) => /\ Of(queue, f)' = Of(queue, f)
                                       /\ \A x \in Of(queue, f) : queue'[x] = queue[x]
  BY <1>1, AssignFields
<1>12. \A x \in New(fs) : x \in Nat /\ nextId <= x
  BY <1>1, AssignEffect
<1>13. LastCounts' /\ ServerAgrees' /\ LocalAgrees' /\ \A u \in Tabs : AnswerHolds(u) /\ VisitHolds(u)
  <2>1. ASSUME NEW f \in Fields, expected'[f] # Unknown, Of(queue, f)' # {}
        PROVE  queue'[Max(Of(queue, f)')].value = expected'[f]
    <3>1. Of(queue, f)' \in SUBSET Ids
      <4>1. DOMAIN queue' \subseteq Ids
        BY <1>1, AssignEffect, QueueParts
      <4>2. QED
        BY <4>1 DEF Of, Active
    <3>2. PICK y : y = Max(Of(queue, f)')
      OBVIOUS
    <3>3. y \in Of(queue, f)' /\ \A x \in Of(queue, f)' : x <= y
      BY <2>1, <3>1, <3>2, MaxIsGreatest
    <3>4. CASE f \in Range(fs)
      <4>1. PICK x \in New(fs) : /\ x \in Of(queue, f)' /\ queue'[x].value = v
                                 /\ \A z \in Of(queue, f)' : z <= x
        BY <1>11, <3>4
      <4>2. x = y
        <5>1. x \in Nat /\ y \in Nat
          BY <3>1, <3>3, <4>1, Numeric
        <5>2. x <= y /\ y <= x
          BY <3>3, <4>1
        <5>3. QED
          BY <5>1, <5>2
      <4>3. expected'[f] = v
        BY <3>4 DEF Assign
      <4>4. QED
        BY <3>2, <4>1, <4>2, <4>3
    <3>5. CASE f \notin Range(fs)
      <4>1. Of(queue, f)' = Of(queue, f) /\ queue'[y] = queue[y] /\ expected'[f] = expected[f]
        BY <1>10, <1>11, <3>3, <3>5
      <4>2. queue[Max(Of(queue, f))].value = expected[f]
        BY <1>1, <2>1, <4>1 DEF LastCounts
      <4>3. QED
        BY <3>2, <4>1, <4>2
    <3>6. QED
      BY <3>4, <3>5
  <2>2. ASSUME NEW f \in Fields, f \in Range(fs), NEW P, P \subseteq Nat, \A x \in P : x < nextId
        PROVE  \E x \in Of(queue, f)' : x \notin P
    <3>1. PICK x \in New(fs) : x \in Of(queue, f)'
      BY <1>11, <2>2
    <3>2. x \in Nat /\ nextId <= x /\ nextId \in Nat
      BY <1>1, <1>12, Known
    <3>3. QED
      BY <2>2, <3>1, <3>2
  <2>3. ASSUME NEW f \in Fields, f \in Range(fs)
        PROVE  /\ Of(queue, f)' # {} /\ \E x \in Of(queue, f)' : ~Handled(x)'
               /\ \A u \in Tabs : \E x \in Of(queue, f)' : x \notin DOMAIN run[u].results
    <3>1. \E x \in Of(queue, f)' : x \notin {handled[k].id : k \in DOMAIN handled}
      BY <1>1, <2>2, <2>3, Known
    <3>2. \A u \in Tabs : \E x \in Of(queue, f)' : x \notin DOMAIN run[u].results
      BY <1>1, <2>2, <2>3, Known, RunParts
    <3>3. QED
      BY <1>2, <3>1, <3>2 DEF Handled
  <2>4. ServerAgrees'
    <3> SUFFICES ASSUME NEW f \in Fields, Certain(f)', \A x \in Of(queue, f)' : Handled(x)'
                 PROVE  server'[f] = expected'[f]
      BY DEF ServerAgrees
    <3>1. f \notin Range(fs)
      BY <2>3
    <3>2. QED
      BY <1>1, <1>2, <1>10, <1>11, <3>1 DEF ServerAgrees, Handled
  <2>5. LocalAgrees'
    <3> SUFFICES ASSUME NEW f \in Fields, Certain(f)', Of(queue, f)' = {}
                 PROVE  local'[f] \in {expected'[f], Absent}
      BY DEF LocalAgrees
    <3>1. f \notin Range(fs)
      BY <2>3
    <3>2. Certain(f) /\ Of(queue, f) = {} /\ expected'[f] = expected[f]
      BY <1>10, <1>11, <3>1
    <3>3. local'[f] = local[f]
      BY <3>2 DEF Assign, Overlay, Of, Active
    <3>4. QED
      BY <1>1, <3>2, <3>3 DEF LocalAgrees
  <2>6. ASSUME NEW u \in Tabs PROVE AnswerHolds(u)
    <3> SUFFICES ASSUME NEW f \in Fields, Certain(f)',
                        \A x \in Of(queue, f)' : x \in DOMAIN run[u].results
                 PROVE  Certain(f) /\ expected'[f] = expected[f] /\ Of(queue, f) \subseteq Of(queue, f)'
      BY DEF AnswerHolds
    <3>1. f \notin Range(fs)
      BY <2>3
    <3>2. QED
      BY <1>10, <1>11, <3>1
  <2>7. ASSUME NEW u \in Tabs PROVE VisitHolds(u)
    <3>1. \A f \in Fields : Of(queue, f)' = {} =>
            /\ Certain(f)' => Certain(f)
            /\ expected'[f] = expected[f] /\ Of(queue, f) = {}
      BY <1>10, <1>11, <2>3
    <3>2. QED
      BY <3>1 DEF VisitHolds
  <2>8. LastCounts'
    BY <2>1 DEF LastCounts
  <2>9. QED
    BY <2>4, <2>5, <2>6, <2>7, <2>8
<1>14. \A u \in Tabs : AnswerAgrees(u)' /\ VisitAgrees(u)'
  <2>1. \A u \in Tabs : AnswerAgrees(u)'
    BY <1>1, <1>3, <1>5, <1>13, AnswerAgreesKept
  <2>2. \A u \in Tabs : VisitAgrees(u)'
    BY <1>1, <1>6, <1>13, VisitAgreesKept
  <2>3. QED
    BY <2>1, <2>2
<1>15. TypeOK'
  BY <1>1, AssignTypes
<1>16. QED
  BY <1>7, <1>8, <1>9, <1>13, <1>14, <1>15 DEF Inv, Agreement

----------------------------------------------------------------------------
(* A tab dispatches what is due.                                            *)

LEMMA DispatchQueue ==
  ASSUME TypeOK, NEW t \in Tabs, NEW last \in Ids, Dispatch(t, last)
  PROVE  /\ DOMAIN queue' = DOMAIN queue
         /\ \A i \in DOMAIN queue :
              /\ IntentOf(queue'[i]) = IntentOf(queue[i])
              /\ queue'[i].state = IF i \in Batch(last) THEN "dispatched" ELSE queue[i].state
         /\ Active(queue)' = Active(queue) /\ SameOf /\ QueueGrows
<1>1. /\ queue' = Marked(Batch(last), "dispatched", FALSE)
      /\ \A i \in Batch(last) : i \in Active(queue)
  BY DispatchEffect
<1>2. /\ DOMAIN queue' = DOMAIN queue
      /\ \A i \in DOMAIN queue :
           /\ queue'[i].field = queue[i].field /\ queue'[i].value = queue[i].value
           /\ queue'[i].state = IF i \in Batch(last) THEN "dispatched" ELSE queue[i].state
  BY <1>1, MarkedTyped
<1>3. Active(queue)' = Active(queue)
  BY <1>1, <1>2 DEF Active
<1>4. SameOf
  BY <1>2, <1>3 DEF SameOf, Of, Active
<1>5. QueueGrows
  BY <1>2, <1>3 DEF QueueGrows
<1>6. QED
  BY <1>2, <1>3, <1>4, <1>5 DEF IntentOf

LEMMA DispatchOrder ==
  ASSUME TypeOK, Agreed, Ordered, NEW t \in Tabs, NEW last \in Ids, Dispatch(t, last)
  PROVE  Agreed' /\ Ordered'
<1>1. /\ \A u \in Tabs : u # t => run'[u] = run[u]
      /\ DOMAIN run'[t].results = {} /\ DOMAIN run'[t].sent = Batch(last)
      /\ \A i \in Batch(last) : run'[t].sent[i] = IntentOf(queue[i])
      /\ \A i \in Batch(last) : i <= last /\ i \in Active(queue)
      /\ \A x \in Active(queue) : x <= last => x \in Batch(last)
  BY DispatchEffect
<1>2. /\ DOMAIN queue' = DOMAIN queue
      /\ \A i \in DOMAIN queue :
           /\ IntentOf(queue'[i]) = IntentOf(queue[i])
           /\ queue'[i].state = IF i \in Batch(last) THEN "dispatched" ELSE queue[i].state
      /\ Active(queue)' = Active(queue) /\ QueueGrows
  BY DispatchQueue
<1>3. SameServer /\ UNCHANGED stray
  BY DEF Dispatch, remote, history, SameServer
<1>4. \A i \in Batch(last) : i \in DOMAIN queue
  BY <1>1 DEF Active
<1>5. Onward
  BY <1>3, SameIsOnward
<1>6. \A R \in Batches' : R \in Batches \/ R = Batch(last)
  <2> SUFFICES ASSUME NEW R \in Batches', R # Batch(last) PROVE R \in Batches
    OBVIOUS
  <2>1. CASE \E s \in stray : R = DOMAIN s
    BY <2>1 DEF Batches
  <2>2. CASE \E u \in Tabs : R = DOMAIN run'[u].sent \ DOMAIN run'[u].results
    <3>1. PICK u \in Tabs : R = DOMAIN run'[u].sent \ DOMAIN run'[u].results
      BY <2>2
    <3>2. u # t
      BY <1>1, <3>1
    <3>3. QED
      BY <1>1, <3>1, <3>2 DEF Batches, Unhandled
  <2>3. QED
    BY <1>3, <2>1, <2>2 DEF Batches, Unhandled
<1>7. \A x \in Flying' : x \in Flying \/ x \in Batch(last)
  BY <1>6 DEF Flying
<1>8. \A x \in Live' : x \in Live
  BY <1>1, <1>2, <1>7 DEF Live
<1>9. \A x : Settled(x) => Settled(x)'
  BY <1>5 DEF Settled, Onward
<1>10. Agreed'
  <2>1. ASSUME NEW i \in Ids, NEW a \in Intent, Says(i, a)' PROVE Says(i, a)
    <3>1. CASE i \in DOMAIN queue' /\ a = IntentOf(queue'[i])
      BY <1>2, <3>1 DEF Says
    <3>2. CASE \E u \in Tabs : i \in DOMAIN run'[u].sent /\ a = run'[u].sent[i]
      <4>1. PICK u \in Tabs : i \in DOMAIN run'[u].sent /\ a = run'[u].sent[i]
        BY <3>2
      <4>2. CASE u = t
        BY <1>1, <1>4, <4>1, <4>2 DEF Says
      <4>3. CASE u # t
        BY <1>1, <4>1, <4>3 DEF Says
      <4>4. QED
        BY <4>2, <4>3
    <3>3. CASE \E s \in stray' : i \in DOMAIN s /\ a = s[i]
      BY <1>3, <3>3 DEF Says
    <3>4. CASE \E k \in DOMAIN handled' : handled'[k].id = i /\ a = handled'[k].intent
      BY <1>3, <3>4 DEF Says, SameServer
    <3>5. CASE \E r \in abandoned' : r.id = i /\ a = r.intent
      BY <1>3, <3>5 DEF Says, SameServer
    <3>6. QED
      BY <2>1, <3>1, <3>2, <3>3, <3>4, <3>5 DEF Says
  <2>2. nextId <= nextId' /\ nextId' \in Nat
    BY <1>3, Known DEF SameServer
  <2>3. QED
    BY <2>1, <2>2, AgreedKept
<1>11. OlderTravelAlong'
  <2> SUFFICES ASSUME NEW R \in Batches', NEW i \in R, NEW x \in Live', x < i
               PROVE  Settled(x)' \/ x \in R
    BY DEF OlderTravelAlong
  <2>1. CASE R \in Batches
    BY <1>8, <1>9, <2>1 DEF Ordered, OlderTravelAlong
  <2>2. CASE R = Batch(last)
    <3>1. i \in Nat /\ i <= last /\ last \in Nat
      BY <1>1, <1>4, <2>2, QueueParts, Numeric
    <3>2. CASE x \in Active(queue)
      <4>1. x \in Nat
        BY <3>2, QueueParts DEF Active
      <4>2. QED
        BY <1>1, <2>2, <3>1, <3>2, <4>1
    <3>3. CASE x \in Flying
      <4>1. Settled(x) \/ x \in Active(queue)
        BY <3>3 DEF Ordered, FlyingAreQueued, Active
      <4>2. QED
        BY <1>9, <3>2, <4>1
    <3>4. QED
      BY <1>8, <3>2, <3>3 DEF Live
  <2>3. QED
    BY <1>6, <2>1, <2>2
<1>12. HandledOnceInOrder' /\ NoneIsLate'
  BY <1>3, <1>8, <1>9 DEF Ordered, HandledOnceInOrder, NoneIsLate, SameServer, Discarded
<1>13. FlyingAreQueued'
  <2> SUFFICES ASSUME NEW x \in Flying'
               PROVE  Settled(x)' \/ (x \in DOMAIN queue' /\ queue'[x].state = "dispatched")
    BY DEF FlyingAreQueued
  <2>1. CASE x \in Flying
    BY <1>2, <1>9, <2>1 DEF Ordered, FlyingAreQueued, QueueGrows
  <2>2. CASE x \in Batch(last)
    BY <1>2, <1>4, <2>2
  <2>3. QED
    BY <1>7, <2>1, <2>2
<1>14. FailedAreGone' /\ StraysCarry'
  BY <1>2, <1>3 DEF Ordered, FailedAreGone, StraysCarry, SameServer, Handled, IntentOf
<1>15. QED
  BY <1>10, <1>11, <1>12, <1>13, <1>14 DEF Ordered

LEMMA DispatchKeeps ==
  ASSUME Inv, NEW t \in Tabs, NEW last \in Ids, Dispatch(t, last)
  PROVE  Inv'
<1>1. TypeOK /\ Agreed /\ Ordered /\ TabsKnow /\ LastCounts /\ ServerAgrees /\ LocalAgrees
      /\ \A u \in Tabs : AnswerAgrees(u) /\ VisitAgrees(u)
  BY DEF Inv, Agreement
<1>2. SameServer /\ UNCHANGED <<local, expected, epoch, lease, visit>>
  BY DEF Dispatch, remote, history, SameServer
<1>3. /\ \A u \in Tabs : u # t => run'[u] = run[u]
      /\ run'[t].pc = "waiting" /\ run'[t].epoch = run[t].epoch
      /\ DOMAIN run'[t].results = {} /\ DOMAIN run'[t].sent = Batch(last)
      /\ \A i \in Batch(last) : i <= last /\ i \in Active(queue)
      /\ \A x \in Active(queue) : x <= last => x \in Batch(last)
  BY <1>1, DispatchEffect
<1>4. /\ DOMAIN queue' = DOMAIN queue
      /\ \A i \in DOMAIN queue :
           queue'[i].state = IF i \in Batch(last) THEN "dispatched" ELSE queue[i].state
      /\ Active(queue)' = Active(queue) /\ SameOf /\ QueueGrows
  BY <1>1, DispatchQueue
<1>5. Onward
  BY <1>1, <1>2, SameIsOnward
<1>6. Fading /\ epoch' \in Nat
  BY <1>1, <1>2, SameParts
<1>7. ASSUME NEW u \in Tabs, u # t PROVE Keeping(u) /\ LeaseKept(u)
  <2>1. SameRun(u) /\ Answers(u) /\ Keeps(u)
    BY <1>1, <1>3, <1>7 DEF SameRun, TabsKnow
  <2>2. QED
    BY <1>1, <1>2, <2>1, SameRunKeeping DEF LeaseKept, SameRun, Keeps, Holding, Owns
<1>8. \A u \in Tabs : VisitKept(u)
  BY <1>1, <1>2, <1>6, VisitsWhenFading
<1>9. Agreed' /\ Ordered'
  BY <1>1, DispatchOrder
<1>10. ASSUME NEW u \in Tabs PROVE Answers(u)' /\ Keeps(u)'
  <2>1. CASE u # t
    <3>1. Answers(u) /\ Keeps(u)
      BY <1>1 DEF TabsKnow
    <3>2. QED
      BY <1>1, <1>4, <1>5, <1>7, <2>1, <3>1, AnswersKept, KeepsKept
  <2>2. CASE u = t
    <3>1. Answers(t)'
      BY <1>3 DEF Answers
    <3>2. run'[t].epoch <= epoch'
      BY <1>1, <1>2, <1>3 DEF TabsKnow, Keeps
    <3>3. ASSUME NEW i \in Batch(last)
          PROVE  /\ i \in DOMAIN queue' /\ queue'[i].state = "dispatched"
                 /\ \A x \in Active(queue)' : x < i => x \in Batch(last)
      <4>1. i \in DOMAIN queue /\ i \in Nat /\ i <= last /\ last \in Nat
        BY <1>1, <1>3, QueueParts, Numeric DEF Active
      <4>2. \A x \in Active(queue) : x \in Nat
        BY <1>1, QueueParts DEF Active
      <4>3. \A x \in Active(queue) : x < i => x <= last
        BY <4>1, <4>2
      <4>4. QED
        BY <1>3, <1>4, <4>1, <4>3
    <3>4. QED
      BY <1>3, <2>2, <3>1, <3>2, <3>3 DEF Keeps
  <2>3. QED
    BY <2>1, <2>2
<1>11. /\ LastCounts' /\ ServerAgrees' /\ LocalAgrees'
       /\ \A u \in Tabs : AnswerHolds(u) /\ VisitHolds(u)
  BY <1>1, <1>2, <1>4, CalmAgreement
<1>12. ASSUME NEW u \in Tabs PROVE AnswerAgrees(u)' /\ VisitAgrees(u)'
  <2>1. AnswerAgrees(t)'
    BY <1>3 DEF AnswerAgrees
  <2>2. u # t => AnswerAgrees(u)'
    BY <1>1, <1>5, <1>7, <1>11, AnswerAgreesKept
  <2>3. VisitAgrees(u)'
    BY <1>1, <1>8, <1>11, VisitAgreesKept
  <2>4. QED
    BY <2>1, <2>2, <2>3
<1>13. TypeOK'
  BY <1>1, DispatchTypes
<1>14. QED
  BY <1>9, <1>10, <1>11, <1>12, <1>13 DEF Inv, Agreement, TabsKnow

----------------------------------------------------------------------------
(* The server serves a request a tab waits for.                             *)

\* The tab waits for the same request, of which more may have been handled.
Served(t) ==
  /\ UNCHANGED <<browser, session, visit, stray, nextId, history>>
  /\ \A u \in Tabs : u # t => run'[u] = run[u]
  /\ run[t].pc = "waiting" /\ run'[t].pc \in {"waiting", "answered"}
  /\ run'[t].sent = run[t].sent /\ run'[t].epoch = run[t].epoch
  /\ DOMAIN run[t].results \subseteq DOMAIN run'[t].results

LEMMA ServedEffect ==
  ASSUME TypeOK, NEW t \in Tabs, Handle(t) \/ HandleFails(t) \/ Answer(t)
  PROVE  Served(t) /\ (HandleFails(t) \/ Answer(t) => SameServer)
<1>1. CASE Handle(t)
  <2>1. /\ \A u \in Tabs : u # t => run'[u] = run[u]
        /\ run'[t].sent = run[t].sent /\ run'[t].pc = run[t].pc /\ run'[t].epoch = run[t].epoch
        /\ DOMAIN run'[t].results = DOMAIN run[t].results \cup {Current(t)}
    BY <1>1, HandleEffect
  <2>2. UNCHANGED <<browser, session, visit, stray, nextId, history>> /\ run[t].pc = "waiting"
    BY <1>1 DEF Handle, InProgress
  <2>3. ~ (HandleFails(t) \/ Answer(t)) \/ SameServer
    <3>1. ASSUME HandleFails(t) \/ Answer(t) PROVE SameServer
      BY <3>1 DEF HandleFails, Answer, SameServer, remote, history
    <3>2. QED
      BY <3>1
  <2>4. QED
    BY <2>1, <2>2, <2>3 DEF Served
<1>2. CASE HandleFails(t)
  <2>1. /\ \A u \in Tabs : u # t => run'[u] = run[u]
        /\ run'[t].sent = run[t].sent /\ run'[t].pc = run[t].pc /\ run'[t].epoch = run[t].epoch
        /\ DOMAIN run'[t].results = DOMAIN run[t].sent
    BY <1>2, HandleFailsEffect
  <2>2. /\ UNCHANGED <<browser, session, visit, stray, nextId, history>> /\ run[t].pc = "waiting"
        /\ SameServer
    BY <1>2 DEF HandleFails, InProgress, remote, history, SameServer
  <2>3. QED
    BY <2>1, <2>2, RunParts DEF Served
<1>3. CASE Answer(t)
  <2>1. /\ \A u \in Tabs : u # t => run'[u] = run[u]
        /\ run'[t].sent = run[t].sent /\ run'[t].pc = "answered" /\ run'[t].epoch = run[t].epoch
        /\ run'[t].results = run[t].results
    BY <1>3, AnswerEffect
  <2>2. /\ UNCHANGED <<browser, session, visit, stray, nextId, history>> /\ run[t].pc = "waiting"
        /\ SameServer
    BY <1>3 DEF Answer, remote, history, SameServer
  <2>3. QED
    BY <2>1, <2>2 DEF Served
<1>4. QED
  BY <1>1, <1>2, <1>3

LEMMA ServedTabs ==
  ASSUME TypeOK, Agreed, TabsKnow, NEW t \in Tabs, Served(t), Onward, Answers(t)'
  PROVE  TabsKnow' /\ \A u \in Tabs : u # t => Keeping(u) /\ LeaseKept(u)
<1>1. UNCHANGED <<queue, epoch, lease>>
  BY DEF Served, browser
<1>2. QueueGrows
  BY <1>1, SameQueueTrivially, SameQueueGrows
<1>3. ASSUME NEW u \in Tabs, u # t PROVE Keeping(u) /\ LeaseKept(u) /\ Answers(u)' /\ Keeps(u)'
  <2>1. SameRun(u) /\ Answers(u) /\ Keeps(u)
    BY <1>3 DEF Served, SameRun, TabsKnow
  <2>2. Keeping(u) /\ LeaseKept(u)
    BY <1>1, <2>1, SameRunKeeping DEF LeaseKept, SameRun, Keeps, Holding, Owns
  <2>3. QED
    BY <1>2, <2>1, <2>2, AnswersKept, KeepsKept
<1>4. Keeps(t)'
  <2>1. Keeps(t) /\ Active(queue)' = Active(queue) /\ Holding(t)' = Holding(t)
    BY <1>1 DEF TabsKnow, Active, Holding, Owns, Served
  <2>2. QED
    BY <1>1, <2>1 DEF Keeps, Served
<1>5. QED
  BY <1>3, <1>4 DEF TabsKnow

LEMMA ServedAgreed ==
  ASSUME TypeOK, Agreed, NEW t \in Tabs, Served(t), SameServer
  PROVE  Agreed'
<1>1. UNCHANGED <<queue, stray, handled, abandoned>> /\ \A u \in Tabs : run'[u].sent = run[u].sent
  BY DEF Served, browser, history, SameServer
<1>2. \A i \in Ids, a \in Intent : Says(i, a)' => Says(i, a)
  BY <1>1 DEF Says
<1>3. nextId <= nextId' /\ nextId' \in Nat
  BY Known DEF SameServer
<1>4. QED
  BY <1>2, <1>3, AgreedKept

LEMMA ServedBatches ==
  ASSUME NEW t \in Tabs, Served(t)
  PROVE  \A R \in Batches' : R \in Batches \/ R = Unhandled(t)'
BY DEF Served, Batches, Unhandled

\* The transaction fails, or the answer leaves: the server does not change.
LEMMA FailOrAnswerKeeps ==
  ASSUME Inv, NEW t \in Tabs, HandleFails(t) \/ Answer(t)
  PROVE  Inv'
<1>1. TypeOK /\ Agreed /\ Ordered /\ TabsKnow /\ LastCounts /\ ServerAgrees /\ LocalAgrees
      /\ \A u \in Tabs : AnswerAgrees(u) /\ VisitAgrees(u)
  BY DEF Inv, Agreement
<1>2. Served(t) /\ SameServer /\ TypeOK'
  BY <1>1, ServedEffect, ServeTypes
<1>3. UNCHANGED <<queue, local, expected, epoch, lease, visit>>
  BY <1>2 DEF Served, browser, history
<1>4. Onward /\ SameQueue /\ QueueGrows /\ SameOf /\ Fading /\ epoch' \in Nat
  BY <1>1, <1>2, <1>3, SameIsOnward, SameQueueTrivially, SameQueueGrows, SameParts
<1>5. Answers(t)'
  <2>1. CASE HandleFails(t)
    <3>1. /\ run'[t].sent = run[t].sent /\ run'[t].pc = "waiting"
          /\ DOMAIN run'[t].results = DOMAIN run[t].sent
          /\ \A j \in DOMAIN run[t].results : run'[t].results[j] = run[t].results[j]
          /\ \A j \in DOMAIN run[t].sent :
               j \notin DOMAIN run[t].results => run'[t].results[j] = "retry"
      BY <1>1, <2>1, HandleFailsEffect DEF HandleFails, InProgress
    <3>2. Answers(t)
      BY <1>1 DEF TabsKnow
    <3>3. ASSUME NEW i \in DOMAIN run'[t].results
          PROVE  /\ \A j \in DOMAIN run'[t].sent : j < i => j \in DOMAIN run'[t].results
                 /\ run'[t].results[i] = "retry" =>
                      \A j \in DOMAIN run'[t].sent : i < j =>
                        j \in DOMAIN run'[t].results /\ run'[t].results[j] = "retry"
                 /\ run'[t].results[i] # "retry" => Handled(i)'
                 /\ run'[t].results[i] = "rejected" => server'[run'[t].sent[i].field] = Absent
      <4>1. ASSUME NEW j \in DOMAIN run[t].sent, i < j, run'[t].results[i] = "retry"
            PROVE  run'[t].results[j] = "retry"
        BY <3>1, <3>2, <4>1 DEF Answers
      <4>2. run'[t].results[i] # "retry" => i \in DOMAIN run[t].results
        BY <3>1
      <4>3. run'[t].results[i] # "retry" =>
              Handled(i) /\ (run'[t].results[i] = "rejected" => server[run[t].sent[i].field] = Absent)
        BY <3>1, <3>2, <4>2 DEF Answers
      <4>4. QED
        BY <1>2, <3>1, <4>1, <4>3 DEF SameServer, Handled
    <3>4. QED
      BY <3>1, <3>3 DEF Answers
  <2>2. CASE Answer(t)
    <3>1. /\ run'[t].sent = run[t].sent /\ run'[t].results = run[t].results
          /\ run'[t].pc = "answered"
      BY <1>1, <2>2, AnswerEffect
    <3>2. DOMAIN run[t].results = DOMAIN run[t].sent
      BY <1>1, <2>2, RemainingParts, RunParts DEF Answer
    <3>3. Answers(t)
      BY <1>1 DEF TabsKnow
    <3>4. QED
      BY <1>2, <3>1, <3>2, <3>3 DEF Answers, SameServer, Handled
  <2>3. QED
    BY <2>1, <2>2
<1>6. TabsKnow' /\ \A u \in Tabs : u # t => Keeping(u) /\ LeaseKept(u)
  BY <1>1, <1>2, <1>4, <1>5, ServedTabs
<1>7. Agreed'
  BY <1>1, <1>2, ServedAgreed
<1>8. Ordered'
  <2>1. \A R \in Batches' : R \in Batches \/ R = {}
    <3>1. Unhandled(t)' = {} \/ Unhandled(t)' = Unhandled(t)
      <4>1. CASE HandleFails(t)
        BY <1>1, <4>1, HandleFailsEffect DEF Unhandled
      <4>2. CASE Answer(t)
        BY <1>1, <4>2, AnswerEffect DEF Unhandled
      <4>3. QED
        BY <4>1, <4>2
    <3>2. QED
      BY <1>2, <3>1, ServedBatches DEF Batches
  <2>2. HandledOnceInOrder' /\ OlderTravelAlong' /\ NoneIsLate'
    BY <1>1, <1>2, <1>4, <2>1, OrderKept DEF QueueGrows, SameServer
  <2>3. FlyingAreQueued' /\ FailedAreGone'
    BY <1>1, <1>2, <1>4, <2>1, FlyingKept, FailedKept DEF Ordered, SameServer
  <2>4. StraysCarry'
    BY <1>1, <1>2 DEF Ordered, StraysCarry, Served
  <2>5. QED
    BY <2>2, <2>3, <2>4 DEF Ordered
<1>9. /\ LastCounts' /\ ServerAgrees' /\ LocalAgrees'
      /\ \A u \in Tabs : AnswerHolds(u) /\ VisitHolds(u)
  BY <1>1, <1>2, <1>3, <1>4, CalmAgreement
<1>10. \A u \in Tabs : VisitAgrees(u)'
  <2>1. \A u \in Tabs : VisitKept(u)
    BY <1>1, <1>3, <1>4, VisitsWhenFading
  <2>2. QED
    BY <1>1, <1>9, <2>1, VisitAgreesKept
<1>11. AnswerAgrees(t)'
  <2>1. CASE HandleFails(t)
    <3>1. run'[t].pc = "waiting"
      BY <1>1, <2>1, HandleFailsEffect DEF HandleFails, InProgress
    <3>2. QED
      BY <3>1 DEF AnswerAgrees
  <2>2. CASE Answer(t)
    <3>1. /\ run'[t].sent = run[t].sent /\ run'[t].results = run[t].results
          /\ DOMAIN run'[t].articles = Visible(FieldsOf(run[t].sent))
          /\ \A f \in Visible(FieldsOf(run[t].sent)) : run'[t].articles[f] = server[f]
      BY <1>1, <2>2, AnswerEffect
    <3>2. ASSUME NEW f \in DOMAIN run'[t].articles, Certain(f)',
                 \A x \in Of(queue, f)' :
                   x \in DOMAIN run'[t].results /\ run'[t].results[x] # "retry"
          PROVE  run'[t].articles[f] = expected'[f]
      <4>1. f \in Fields /\ run'[t].articles[f] = server[f]
        BY <1>1, <3>1, RunParts DEF Visible, FieldsOf, Intent
      <4>2. Certain(f)
        BY <1>2, <1>3, <3>2 DEF Certain, SameServer
      <4>3. \A x \in Of(queue, f) : x \in DOMAIN run[t].results /\ run[t].results[x] # "retry"
        BY <1>4, <3>1, <3>2, <4>1 DEF SameOf
      <4>4. \A x \in Of(queue, f) : Handled(x)
        BY <1>1, <4>3 DEF TabsKnow, Answers
      <4>5. server[f] = expected[f]
        BY <1>1, <4>1, <4>2, <4>4 DEF ServerAgrees
      <4>6. QED
        BY <1>3, <4>1, <4>5
    <3>3. \A f \in FieldsOf(run'[t].sent) : server'[f] # Absent => f \in DOMAIN run'[t].articles
      BY <1>2, <3>1 DEF SameServer, Visible
    <3>4. DOMAIN run'[t].articles \subseteq FieldsOf(run'[t].sent)
      BY <3>1 DEF Visible
    <3>5. QED
      BY <3>2, <3>3, <3>4, Zenon DEF AnswerAgrees
  <2>3. QED
    BY <2>1, <2>2
<1>12. \A u \in Tabs : AnswerAgrees(u)'
  BY <1>1, <1>4, <1>6, <1>9, <1>11, AnswerAgreesKept
<1>13. QED
  BY <1>2, <1>6, <1>7, <1>8, <1>9, <1>10, <1>12 DEF Inv, Agreement

----------------------------------------------------------------------------
(* The server handles an action, for a tab or for a request left behind.    *)

\* What is handled is the oldest action of a request under way.
Handles(i, a, R0) ==
  /\ Apply(i, a) /\ Says(i, a) /\ R0 \in Batches /\ i \in R0 /\ \A x \in R0 : i <= x
  /\ UNCHANGED <<browser, session, visit, nextId, history>>
  /\ \A R \in Batches' : R \in Batches \/ R = R0 \ {i}
  /\ \A x \in Ids, b \in Intent : Says(x, b)' => Says(x, b) \/ (x = i /\ b = a)

LEMMA ApplyEffect ==
  ASSUME TypeOK, FailedAreGone, Agreed, NEW i \in Ids, NEW a \in Intent, Apply(i, a), Says(i, a)
  PROVE  /\ \A x : Handled(x)' <=> Handled(x) \/ x = i
         /\ \A f \in Fields : f # a.field => server'[f] = server[f]
         /\ \A f \in Fields : (server'[f] = Absent <=> server[f] = Absent)
         /\ Handled(i) => server' = server /\ handled' = handled
         /\ ~Handled(i) => /\ handled' = Append(handled, [id |-> i, intent |-> a,
                                                          outcome |-> OutcomeOf(i, a)])
                           /\ server[a.field] # Absent => server'[a.field] = a.value
         /\ OutcomeOf(i, a) = "rejected" => server'[a.field] = Absent
         /\ OutcomeOf(i, a) # "retry"
<1>1. a.field \in Fields /\ a.value \in Values /\ a.value # Absent
  BY Numeric DEF Intent
<1>2. CASE Handled(i)
  <2>1. OutcomeOf(i, a) \in {"rejected", "duplicate"} /\ server' = server /\ handled' = handled
    BY <1>2 DEF OutcomeOf, Apply
  <2>2. OutcomeOf(i, a) = "rejected" => server'[a.field] = Absent
    <3>1. ASSUME OutcomeOf(i, a) = "rejected" PROVE server'[a.field] = Absent
      <4>1. PICK k \in DOMAIN handled : handled[k].id = i /\ handled[k].outcome = "rejected"
        BY <1>2, <3>1 DEF OutcomeOf
      <4>2. handled[k].intent \in Intent /\ Says(i, handled[k].intent)
        <5>1. handled[k] \in Receipts
          BY <4>1 DEF TypeOK
        <5>2. QED
          BY <4>1, <5>1 DEF Says, Receipts
      <4>3. handled[k].intent = a
        BY <4>2 DEF Agreed
      <4>4. QED
        BY <2>1, <4>1, <4>3 DEF FailedAreGone
    <3>2. QED
      BY <3>1
  <2>3. QED
    BY <1>2, <2>1, <2>2 DEF Handled
<1>3. CASE ~Handled(i)
  <2> DEFINE receipt == [id |-> i, intent |-> a, outcome |-> OutcomeOf(i, a)]
  <2>1. handled' = Append(handled, receipt)
    BY <1>3 DEF Apply
  <2>2. /\ Len(handled) \in Nat /\ DOMAIN handled = 1 .. Len(handled)
        /\ DOMAIN handled' = 1 .. Len(handled) + 1
        /\ handled'[Len(handled) + 1] = receipt
        /\ \A k \in DOMAIN handled : handled'[k] = handled[k]
    BY <2>1 DEF TypeOK
  <2>3. receipt.id = i
    OBVIOUS
  <2>4. ASSUME NEW x PROVE Handled(x)' <=> Handled(x) \/ x = i
    <3>1. ASSUME Handled(x)' PROVE Handled(x) \/ x = i
      <4>1. PICK k \in DOMAIN handled' : handled'[k].id = x
        BY <3>1 DEF Handled
      <4>2. k \in DOMAIN handled \/ k = Len(handled) + 1
        BY <2>2
      <4>3. QED
        BY <2>2, <2>3, <4>1, <4>2 DEF Handled
    <3>2. ASSUME Handled(x) PROVE Handled(x)'
      <4>1. PICK k \in DOMAIN handled : handled[k].id = x
        BY <3>2 DEF Handled
      <4>2. k \in DOMAIN handled'
        BY <2>2
      <4>3. QED
        BY <2>2, <4>1, <4>2 DEF Handled
    <3>3. Len(handled) + 1 \in DOMAIN handled'
      BY <2>2
    <3>4. QED
      BY <2>2, <2>3, <3>1, <3>2, <3>3 DEF Handled
  <2>5. /\ server' = IF OutcomeOf(i, a) = "applied" THEN [server EXCEPT ![a.field] = a.value] ELSE server
        /\ OutcomeOf(i, a) = IF server[a.field] = Absent THEN "rejected"
                             ELSE IF server[a.field] = a.value THEN "noop" ELSE "applied"
    BY <1>3 DEF Apply, OutcomeOf
  <2>6. /\ \A f \in Fields : f # a.field => server'[f] = server[f]
        /\ \A f \in Fields : (server'[f] = Absent <=> server[f] = Absent)
        /\ server[a.field] # Absent => server'[a.field] = a.value
        /\ OutcomeOf(i, a) = "rejected" => server'[a.field] = Absent
        /\ OutcomeOf(i, a) # "retry"
    BY <1>1, <2>5 DEF TypeOK
  <2>7. QED
    BY <1>3, <2>1, <2>4, <2>6
<1>4. QED
  BY <1>2, <1>3

LEMMA HandlesAgreed ==
  ASSUME TypeOK, Agreed, NEW i \in Ids, NEW a \in Intent, NEW R0, Handles(i, a, R0)
  PROVE  Agreed'
<1>1. \A x \in Ids, b \in Intent : Says(x, b)' => Says(x, b)
  BY DEF Handles
<1>2. nextId <= nextId' /\ nextId' \in Nat
  BY Known DEF Handles
<1>3. QED
  BY <1>1, <1>2, AgreedKept

LEMMA HandlesOrder ==
  ASSUME TypeOK, Agreed, Ordered, NEW i \in Ids, NEW a \in Intent, NEW R0, Handles(i, a, R0)
  PROVE  /\ HandledOnceInOrder' /\ OlderTravelAlong' /\ NoneIsLate' /\ FlyingAreQueued'
         /\ FailedAreGone' /\ Onward
<1>1. /\ Says(i, a) /\ R0 \in Batches /\ i \in R0 /\ \A x \in R0 : i <= x
      /\ UNCHANGED <<queue, nextId, abandoned>>
      /\ \A R \in Batches' : R \in Batches \/ R = R0 \ {i}
  BY DEF Handles, browser, history
<1>2. /\ \A x : Handled(x)' <=> Handled(x) \/ x = i
      /\ \A f \in Fields : (server'[f] = Absent <=> server[f] = Absent)
      /\ Handled(i) => server' = server /\ handled' = handled
      /\ ~Handled(i) => handled' = Append(handled, [id |-> i, intent |-> a, outcome |-> OutcomeOf(i, a)])
      /\ OutcomeOf(i, a) = "rejected" => server'[a.field] = Absent
  BY <1>1, ApplyEffect DEF Handles, Ordered
<1>3. \A x : Discarded(x)' <=> Discarded(x)
  BY <1>1 DEF Discarded
<1>4. Onward
  <2>1. nextId <= nextId'
    BY <1>1, Known
  <2>2. QED
    BY <1>2, <1>3, <2>1 DEF Onward
<1>5. \A x : (Settled(x) => Settled(x)') /\ Settled(i)'
  BY <1>2, <1>3 DEF Settled
<1>6. (\A x \in Flying' : x \in Flying) /\ (\A x \in Live' : x \in Live)
  <2>1. \A x \in Flying' : x \in Flying
    BY <1>1 DEF Flying
  <2>2. Active(queue)' = Active(queue)
    BY <1>1 DEF Active
  <2>3. QED
    BY <2>1, <2>2 DEF Live
<1>7. i \in Live /\ i \in Nat
  BY <1>1, Numeric DEF Live, Flying
<1>8. \A x \in Live : x \in Nat
  <2>1. \A x \in Active(queue) : x \in Nat
    BY QueueParts DEF Active
  <2>2. \A R \in Batches : \A x \in R : x \in Nat
    BY Known DEF Batches, Unhandled
  <2>3. QED
    BY <2>1, <2>2 DEF Live, Flying
<1>9. OlderTravelAlong'
  <2> SUFFICES ASSUME NEW R \in Batches', NEW j \in R, NEW x \in Live', x < j
               PROVE  Settled(x)' \/ x \in R
    BY DEF OlderTravelAlong
  <2>1. CASE R \in Batches
    BY <1>5, <1>6, <2>1 DEF Ordered, OlderTravelAlong
  <2>2. CASE R = R0 \ {i}
    <3>1. Settled(x) \/ x \in R0
      BY <1>1, <1>6, <2>2 DEF Ordered, OlderTravelAlong
    <3>2. QED
      BY <1>5, <2>2, <3>1
  <2>3. QED
    BY <1>1, <2>1, <2>2
<1>10. FlyingAreQueued'
  BY <1>1, <1>5, <1>6 DEF Ordered, FlyingAreQueued
<1>11. CASE Handled(i)
  <2>1. handled' = handled /\ server' = server
    BY <1>2, <1>11
  <2>2. HandledOnceInOrder' /\ NoneIsLate'
    BY <1>3, <1>5, <1>6, <2>1 DEF Ordered, HandledOnceInOrder, NoneIsLate
  <2>3. FailedAreGone'
    BY <1>1, <2>1 DEF Ordered, FailedAreGone, Handled
  <2>4. QED
    BY <1>4, <1>9, <1>10, <2>2, <2>3
<1>12. CASE ~Handled(i)
  <2> DEFINE receipt == [id |-> i, intent |-> a, outcome |-> OutcomeOf(i, a)]
  <2>1. handled' = Append(handled, receipt)
    BY <1>2, <1>12
  <2>2. /\ Len(handled) \in Nat /\ DOMAIN handled = 1 .. Len(handled)
        /\ DOMAIN handled' = 1 .. Len(handled) + 1
        /\ handled'[Len(handled) + 1] = receipt
        /\ \A k \in DOMAIN handled : handled'[k] = handled[k]
    BY <2>1 DEF TypeOK
  <2>3. receipt.id = i /\ receipt.intent = a /\ receipt.outcome = OutcomeOf(i, a)
    OBVIOUS
  <2> HIDE DEF receipt
  <2>4. \A k \in DOMAIN handled' : k \in DOMAIN handled \/ k = Len(handled) + 1
    BY <2>2
  <2>5. ASSUME NEW k \in DOMAIN handled
        PROVE  handled[k].id < i \/ (handled[k].id > i /\ Discarded(i))
    <3>1. handled[k].id \in Nat /\ handled[k].id # i
      BY <1>12, Known DEF Handled
    <3>2. Discarded(i) \/ handled[k].id < i
      BY <1>7, <1>12 DEF Ordered, NoneIsLate, Settled
    <3>3. QED
      BY <1>7, <3>1, <3>2
  <2>6. HandledOnceInOrder'
    <3> SUFFICES ASSUME NEW k \in DOMAIN handled', NEW l \in DOMAIN handled', k < l
                 PROVE  (\/ handled[k].id < handled[l].id
                         \/ handled[k].id > handled[l].id /\ Discarded(handled[l].id))'
      BY DEF HandledOnceInOrder
    <3>1. k \in DOMAIN handled
      BY <2>2
    <3>2. CASE l \in DOMAIN handled
      BY <1>1, <2>2, <3>1, <3>2 DEF Ordered, HandledOnceInOrder, Discarded
    <3>3. CASE l = Len(handled) + 1
      <4>1. handled'[l].id = i /\ handled'[k] = handled[k]
        BY <2>2, <2>3, <3>1, <3>3
      <4>2. handled[k].id < i \/ (handled[k].id > i /\ Discarded(i))
        BY <2>5, <3>1
      <4>3. QED
        BY <1>1, <4>1, <4>2 DEF Discarded
    <3>4. QED
      BY <2>4, <3>2, <3>3
  <2>7. NoneIsLate'
    <3> SUFFICES ASSUME NEW k \in DOMAIN handled', NEW x \in Live'
                 PROVE  Settled(x)' \/ handled'[k].id < x
      BY DEF NoneIsLate
    <3>1. x \in Live /\ x \in Nat
      BY <1>6, <1>8
    <3>2. CASE k \in DOMAIN handled
      BY <1>5, <2>2, <3>1, <3>2 DEF Ordered, NoneIsLate
    <3>3. CASE k = Len(handled) + 1
      <4>1. handled'[k].id = i
        BY <2>2, <2>3, <3>3
      <4>2. x < i => Settled(x)
        <5>1. ASSUME x < i, x \in R0 PROVE FALSE
          <6>1. i <= x
            BY <1>1, <5>1
          <6>2. QED
            BY <1>7, <3>1, <5>1, <6>1
        <5>2. QED
          BY <1>1, <3>1, <5>1 DEF Ordered, OlderTravelAlong
      <4>3. x = i \/ x < i \/ i < x
        BY <1>7, <3>1
      <4>4. QED
        BY <1>5, <4>1, <4>2, <4>3
    <3>4. QED
      BY <2>4, <3>2, <3>3
  <2>8. FailedAreGone'
    <3>1. \A x \in DOMAIN queue' :
            queue'[x].state = "failed" => Handled(x)' /\ server'[queue'[x].field] = Absent
      BY <1>1, <1>2, QueueParts DEF Ordered, FailedAreGone
    <3>2. ASSUME NEW k \in DOMAIN handled', handled'[k].outcome = "rejected"
          PROVE  server'[handled'[k].intent.field] = Absent
      <4>1. CASE k \in DOMAIN handled
        <5>1. handled[k].intent.field \in Fields
          BY <4>1, Known DEF Intent
        <5>2. QED
          BY <1>2, <2>2, <3>2, <4>1, <5>1 DEF Ordered, FailedAreGone
      <4>2. CASE k = Len(handled) + 1
        BY <1>2, <2>2, <2>3, <3>2, <4>2
      <4>3. QED
        BY <2>4, <4>1, <4>2
    <3>3. QED
      BY <3>1, <3>2 DEF FailedAreGone
  <2>9. QED
    BY <1>4, <1>9, <1>10, <2>6, <2>7, <2>8
<1>13. QED
  BY <1>11, <1>12

\* What the reader may expect stands whichever request brings an action.
LEMMA HandlesAgreement ==
  ASSUME Inv, NEW i \in Ids, NEW a \in Intent, NEW R0, Handles(i, a, R0)
  PROVE  /\ LastCounts' /\ ServerAgrees' /\ LocalAgrees'
         /\ \A u \in Tabs : AnswerHolds(u) /\ VisitHolds(u)
<1>1. TypeOK /\ Agreed /\ Ordered /\ LastCounts /\ ServerAgrees /\ LocalAgrees
  BY DEF Inv, Agreement
<1>2. /\ Says(i, a) /\ R0 \in Batches /\ i \in R0
      /\ UNCHANGED <<queue, local, expected, abandoned>>
  BY DEF Handles, browser, history
<1>3. /\ \A x : Handled(x)' <=> Handled(x) \/ x = i
      /\ \A f \in Fields : f # a.field => server'[f] = server[f]
      /\ \A f \in Fields : (server'[f] = Absent <=> server[f] = Absent)
      /\ Handled(i) => server' = server
      /\ ~Handled(i) /\ server[a.field] # Absent => server'[a.field] = a.value
  BY <1>1, <1>2, ApplyEffect DEF Handles, Ordered
<1>4. \A f \in Fields : (Certain(f)' <=> Certain(f)) /\ Of(queue, f)' = Of(queue, f)
  BY <1>2, <1>3 DEF Certain, Of, Active
<1>5. LastCounts'
  BY <1>1, <1>2 DEF LastCounts, Of, Active
<1>6. LocalAgrees'
  BY <1>1, <1>2, <1>4 DEF LocalAgrees
<1>7. \A u \in Tabs : AnswerHolds(u) /\ VisitHolds(u)
  BY <1>2, <1>4 DEF AnswerHolds, VisitHolds
<1>8. ServerAgrees'
  <2> SUFFICES ASSUME NEW f \in Fields, Certain(f)', \A x \in Of(queue, f)' : Handled(x)'
               PROVE  server'[f] = expected'[f]
    BY DEF ServerAgrees
  <2>1. Certain(f) /\ \A x \in Of(queue, f) : Handled(x) \/ x = i
    BY <1>3, <1>4
  <2>2. CASE Handled(i)
    <3>1. \A x \in Of(queue, f) : Handled(x)
      BY <2>1, <2>2
    <3>2. QED
      BY <1>1, <1>2, <1>3, <2>1, <2>2, <3>1 DEF ServerAgrees
  <2>3. CASE ~Handled(i) /\ a.field # f
    <3>1. i \notin Of(queue, f)
      <4>1. ASSUME i \in Of(queue, f) PROVE FALSE
        <5>1. i \in DOMAIN queue /\ queue[i].field = f
          BY <4>1 DEF Of, Active
        <5>2. Says(i, IntentOf(queue[i])) /\ IntentOf(queue[i]) \in Intent
          BY <1>1, <5>1, QueueParts DEF Says
        <5>3. IntentOf(queue[i]) = a
          BY <1>1, <1>2, <5>2 DEF Agreed
        <5>4. QED
          BY <2>3, <5>1, <5>3 DEF IntentOf
      <4>2. QED
        BY <4>1
    <3>2. \A x \in Of(queue, f) : Handled(x)
      BY <2>1, <3>1
    <3>3. QED
      BY <1>1, <1>2, <1>3, <2>1, <2>3, <3>2 DEF ServerAgrees
  <2>4. CASE ~Handled(i) /\ a.field = f
    <3>1. ~Discarded(i)
      <4>1. ASSUME Discarded(i) PROVE FALSE
        <5>1. PICK r \in abandoned : r.id = i
          BY <4>1 DEF Discarded
        <5>2. r.intent \in Intent /\ Says(i, r.intent)
          BY <1>1, <5>1 DEF Says, TypeOK
        <5>3. r.intent = a
          BY <1>1, <1>2, <5>2 DEF Agreed
        <5>4. QED
          BY <2>1, <2>4, <5>1, <5>3 DEF Certain
      <4>2. QED
        BY <4>1
    <3>2. ~Settled(i)
      BY <2>4, <3>1 DEF Settled
    <3>3. i \in DOMAIN queue /\ queue[i].state = "dispatched"
      BY <1>1, <1>2, <3>2 DEF Ordered, FlyingAreQueued, Flying
    <3>4. IntentOf(queue[i]) = a
      <4>1. Says(i, IntentOf(queue[i])) /\ IntentOf(queue[i]) \in Intent
        BY <1>1, <3>3, QueueParts DEF Says
      <4>2. QED
        BY <1>1, <1>2, <4>1 DEF Agreed
    <3>5. queue[i].field = f /\ queue[i].value = a.value
      BY <2>4, <3>4 DEF IntentOf, Intent
    <3>6. i \in Of(queue, f)
      BY <3>3, <3>5 DEF Of, Active
    <3>7. \A x \in Of(queue, f) : x <= i
      <4>1. ASSUME NEW x \in Of(queue, f), x # i PROVE x <= i
        <5>1. PICK k \in DOMAIN handled : handled[k].id = x
          BY <2>1, <4>1 DEF Handled
        <5>2. i \in Live
          BY <1>2 DEF Live, Flying
        <5>3. x < i
          BY <1>1, <3>2, <5>1, <5>2 DEF Ordered, NoneIsLate
        <5>4. QED
          BY <1>1, <5>1, <5>3, Numeric, Known
      <4>2. i <= i
        BY Numeric
      <4>3. QED
        BY <4>1, <4>2
    <3>8. Max(Of(queue, f)) = i
      <4>1. Of(queue, f) \in SUBSET Ids /\ Of(queue, f) # {}
        BY <1>1, <3>6, QueueParts DEF Of, Active
      <4>2. PICK m : m = Max(Of(queue, f))
        OBVIOUS
      <4>3. m \in Of(queue, f) /\ i <= m
        BY <3>6, <4>1, <4>2, MaxIsGreatest
      <4>4. m <= i /\ m \in Nat /\ i \in Nat
        BY <3>7, <4>1, <4>3, Numeric
      <4>5. QED
        BY <4>2, <4>3, <4>4
    <3>9. a.value = expected[f]
      <4>1. expected[f] # Unknown
        BY <2>1 DEF Certain
      <4>2. QED
        BY <1>1, <3>5, <3>6, <3>8, <4>1 DEF LastCounts
    <3>10. QED
      BY <1>2, <1>3, <2>1, <2>4, <3>9 DEF Certain
  <2>5. QED
    BY <2>2, <2>3, <2>4
<1>9. QED
  BY <1>5, <1>6, <1>7, <1>8

LEMMA ReceiptsGrow ==
  ASSUME TypeOK, NEW i \in Ids, NEW a \in Intent, Apply(i, a)
  PROVE  \A k \in DOMAIN handled' :
           \/ k \in DOMAIN handled /\ handled'[k] = handled[k]
           \/ handled'[k].id = i /\ handled'[k].intent = a
<1>1. CASE Handled(i)
  BY <1>1 DEF Apply
<1>2. CASE ~Handled(i)
  <2>1. handled' = Append(handled, [id |-> i, intent |-> a, outcome |-> OutcomeOf(i, a)])
    BY <1>2 DEF Apply
  <2>2. QED
    BY <2>1 DEF TypeOK
<1>3. QED
  BY <1>1, <1>2

LEMMA HandleHandles ==
  ASSUME TypeOK, Agreed, NEW t \in Tabs, Handle(t)
  PROVE  Handles(Current(t), run[t].sent[Current(t)], Unhandled(t))
<1>1. PICK i \in Ids : i = Current(t)
  BY CurrentIsLeast DEF Handle
<1>2. PICK a \in Intent : a = run[t].sent[i]
  BY <1>1, CurrentIsLeast DEF Handle
<1>3. /\ i \in DOMAIN run[t].sent /\ i \in Unhandled(t) /\ \A x \in Unhandled(t) : i <= x
  BY <1>1, CurrentIsLeast, RemainingParts DEF Handle, Unhandled
<1>4. Apply(i, a)
  BY <1>1, <1>2 DEF Handle
<1>5. Served(t) /\ DOMAIN run'[t].results = DOMAIN run[t].results \cup {i}
  BY <1>1, ServedEffect, HandleEffect
<1>6. Says(i, a)
  BY <1>2, <1>3 DEF Says
<1>7. Unhandled(t)' = Unhandled(t) \ {i}
  BY <1>5 DEF Unhandled, Served
<1>8. \A R \in Batches' : R \in Batches \/ R = Unhandled(t) \ {i}
  BY <1>5, <1>7, ServedBatches
<1>9. ASSUME NEW x \in Ids, NEW b \in Intent, Says(x, b)' PROVE Says(x, b)
  <2>1. UNCHANGED <<queue, stray, abandoned>> /\ \A u \in Tabs : run'[u].sent = run[u].sent
    BY <1>5 DEF Served, browser, history
  <2>2. CASE \E k \in DOMAIN handled' : handled'[k].id = x /\ b = handled'[k].intent
    BY <1>4, <1>6, <2>2, ReceiptsGrow DEF Says
  <2>3. CASE ~ \E k \in DOMAIN handled' : handled'[k].id = x /\ b = handled'[k].intent
    BY <1>9, <2>1, <2>3 DEF Says
  <2>4. QED
    BY <2>2, <2>3
<1>10. Handles(i, a, Unhandled(t))
  BY <1>3, <1>4, <1>5, <1>6, <1>8, <1>9 DEF Handles, Served, Batches
<1>11. QED
  BY <1>1, <1>2, <1>10

LEMMA HandleStrayHandles ==
  ASSUME TypeOK, Agreed, NEW s \in stray, DOMAIN s # {}, HandleStray(s)
  PROVE  Handles(Min(DOMAIN s), s[Min(DOMAIN s)], DOMAIN s)
<1>1. PICK i \in Ids : i = Min(DOMAIN s)
  BY StrayCurrent
<1>2. PICK a \in Intent : a = s[i]
  BY <1>1, StrayCurrent
<1>3. i \in DOMAIN s /\ \A x \in DOMAIN s : i <= x
  BY <1>1, StrayCurrent
<1>4. PICK rest : rest = Restrict(s, DOMAIN s \ {i})
  OBVIOUS
<1>5. DOMAIN rest = DOMAIN s \ {i} /\ \A x \in DOMAIN rest : rest[x] = s[x]
  BY <1>4 DEF Restrict
<1>6. Apply(i, a) /\ UNCHANGED <<browser, session, visit, run, nextId, history>>
  BY <1>1, <1>2 DEF HandleStray, tabs
<1>7. \A r \in stray' : r \in stray \/ r = rest
  BY <1>1, <1>4 DEF HandleStray
<1>8. Says(i, a) /\ DOMAIN s \in Batches
  BY <1>2, <1>3 DEF Says, Batches
<1>9. \A R \in Batches' : R \in Batches \/ R = DOMAIN s \ {i}
  BY <1>5, <1>6, <1>7 DEF Batches, Unhandled
<1>10. ASSUME NEW x \in Ids, NEW b \in Intent, Says(x, b)' PROVE Says(x, b)
  <2>1. UNCHANGED <<queue, run, abandoned>>
    BY <1>6 DEF browser, history
  <2>2. CASE \E k \in DOMAIN handled' : handled'[k].id = x /\ b = handled'[k].intent
    BY <1>6, <1>8, <2>2, ReceiptsGrow DEF Says
  <2>3. CASE \E r \in stray' : x \in DOMAIN r /\ b = r[x]
    <3>1. PICK r \in stray' : x \in DOMAIN r /\ b = r[x]
      BY <2>3
    <3>2. CASE r \in stray
      BY <3>1, <3>2 DEF Says
    <3>3. CASE r = rest
      BY <1>5, <3>1, <3>3 DEF Says
    <3>4. QED
      BY <1>7, <3>1, <3>2, <3>3
  <2>4. CASE /\ ~ \E k \in DOMAIN handled' : handled'[k].id = x /\ b = handled'[k].intent
             /\ ~ \E r \in stray' : x \in DOMAIN r /\ b = r[x]
    BY <1>10, <2>1, <2>4 DEF Says
  <2>5. QED
    BY <2>2, <2>3, <2>4
<1>11. Handles(i, a, DOMAIN s)
  BY <1>3, <1>6, <1>8, <1>9, <1>10 DEF Handles
<1>12. QED
  BY <1>1, <1>2, <1>11

LEMMA HandleKeeps ==
  ASSUME Inv, NEW t \in Tabs, Handle(t)
  PROVE  Inv'
<1>1. TypeOK /\ Agreed /\ Ordered /\ TabsKnow /\ \A u \in Tabs : AnswerAgrees(u) /\ VisitAgrees(u)
  BY DEF Inv, Agreement
<1>2. PICK i \in Ids : i = Current(t)
  BY <1>1, CurrentIsLeast DEF Handle
<1>3. PICK a \in Intent : a = run[t].sent[i]
  BY <1>1, <1>2, CurrentIsLeast DEF Handle
<1>4. Handles(i, a, Unhandled(t))
  BY <1>1, <1>2, <1>3, HandleHandles
<1>5. Agreed'
  BY <1>1, <1>4, HandlesAgreed
<1>6. Served(t) /\ TypeOK'
  BY <1>1, ServedEffect, ServeTypes
<1>7. /\ HandledOnceInOrder' /\ OlderTravelAlong' /\ NoneIsLate' /\ FlyingAreQueued'
      /\ FailedAreGone' /\ Onward
  BY <1>1, <1>4, HandlesOrder
<1>8. Ordered'
  BY <1>1, <1>6, <1>7 DEF Ordered, StraysCarry, Served
<1>9. /\ LastCounts' /\ ServerAgrees' /\ LocalAgrees'
      /\ \A u \in Tabs : AnswerHolds(u) /\ VisitHolds(u)
  BY <1>4, HandlesAgreement
<1>10. /\ run'[t].sent = run[t].sent /\ run'[t].pc = "waiting"
       /\ DOMAIN run'[t].results = DOMAIN run[t].results \cup {i}
       /\ \A j \in DOMAIN run[t].results : run'[t].results[j] = run[t].results[j]
       /\ run'[t].results[i] = OutcomeOf(i, a)
  BY <1>1, <1>2, <1>3, HandleEffect DEF Handle, InProgress
<1>11. /\ Handled(i)' /\ OutcomeOf(i, a) # "retry"
       /\ OutcomeOf(i, a) = "rejected" => server'[a.field] = Absent
  BY <1>1, <1>4, ApplyEffect DEF Handles, Ordered
<1>12. Answers(t)'
  <2>1. Answers(t)
    BY <1>1 DEF TabsKnow
  <2>2. /\ i \in DOMAIN run[t].sent /\ i \notin DOMAIN run[t].results
        /\ \A x \in Unhandled(t) : i <= x
    BY <1>1, <1>2, CurrentIsLeast, RemainingParts DEF Handle, Unhandled
  <2>3. \A j \in DOMAIN run[t].sent : j \in Nat
    BY <1>1, Known
  <2>4. ASSUME NEW j \in DOMAIN run'[t].results
        PROVE  /\ \A l \in DOMAIN run'[t].sent : l < j => l \in DOMAIN run'[t].results
               /\ run'[t].results[j] = "retry" =>
                    \A l \in DOMAIN run'[t].sent : j < l =>
                      l \in DOMAIN run'[t].results /\ run'[t].results[l] = "retry"
               /\ run'[t].results[j] # "retry" => Handled(j)'
               /\ run'[t].results[j] = "rejected" => server'[run'[t].sent[j].field] = Absent
    <3>1. CASE j = i
      <4>1. ASSUME NEW l \in DOMAIN run[t].sent, l < i PROVE l \in DOMAIN run[t].results
        <5>1. ASSUME l \notin DOMAIN run[t].results PROVE FALSE
          <6>1. i <= l /\ i \in Nat /\ l \in Nat
            BY <2>2, <2>3, <5>1 DEF Unhandled
          <6>2. QED
            BY <4>1, <6>1
        <5>2. QED
          BY <5>1
      <4>2. QED
        BY <1>3, <1>10, <1>11, <3>1, <4>1
    <3>2. CASE j # i
      <4>1. j \in DOMAIN run[t].results /\ run'[t].results[j] = run[t].results[j]
        BY <1>10, <3>2
      <4>2. /\ \A l \in DOMAIN run[t].sent : l < j => l \in DOMAIN run[t].results
            /\ run[t].results[j] = "retry" =>
                 \A l \in DOMAIN run[t].sent : j < l =>
                   l \in DOMAIN run[t].results /\ run[t].results[l] = "retry"
            /\ run[t].results[j] # "retry" => Handled(j)
            /\ run[t].results[j] = "rejected" => server[run[t].sent[j].field] = Absent
        BY <2>1, <4>1 DEF Answers
      <4>3. j \in DOMAIN run[t].sent /\ run[t].sent[j].field \in Fields
        BY <1>1, <4>1, RunParts DEF Intent
      <4>4. QED
        BY <1>7, <1>10, <4>1, <4>2, <4>3 DEF Onward
    <3>3. QED
      BY <3>1, <3>2
  <2>5. QED
    BY <1>10, <2>4 DEF Answers
<1>13. TabsKnow' /\ \A u \in Tabs : u # t => Keeping(u) /\ LeaseKept(u)
  BY <1>1, <1>6, <1>7, <1>12, ServedTabs
<1>14. AnswerAgrees(t)'
  BY <1>10 DEF AnswerAgrees
<1>15. \A u \in Tabs : AnswerAgrees(u)'
  BY <1>1, <1>7, <1>9, <1>13, <1>14, AnswerAgreesKept
<1>16. \A u \in Tabs : VisitAgrees(u)'
  <2>1. UNCHANGED <<epoch, lease, visit>>
    BY <1>6 DEF Served, browser
  <2>2. \A u \in Tabs : VisitKept(u)
    BY <1>1, <2>1, SameParts, VisitsWhenFading
  <2>3. QED
    BY <1>1, <1>9, <2>2, VisitAgreesKept
<1>17. QED
  BY <1>5, <1>6, <1>8, <1>9, <1>13, <1>15, <1>16 DEF Inv, Agreement

LEMMA HandleStrayKeeps ==
  ASSUME Inv, NEW s \in stray, HandleStray(s)
  PROVE  Inv'
<1>1. TypeOK /\ Agreed /\ Ordered /\ TabsKnow /\ DOMAIN s # {}
      /\ \A u \in Tabs : AnswerAgrees(u) /\ VisitAgrees(u)
  BY DEF Inv, Agreement, Ordered, StraysCarry
<1>2. PICK i \in Ids : i = Min(DOMAIN s)
  BY <1>1, StrayCurrent
<1>3. PICK a \in Intent : a = s[i]
  BY <1>1, <1>2, StrayCurrent
<1>4. Handles(i, a, DOMAIN s)
  BY <1>1, <1>2, <1>3, HandleStrayHandles
<1>5. Agreed'
  BY <1>1, <1>4, HandlesAgreed
<1>6. TypeOK' /\ UNCHANGED <<queue, lease, epoch, run, visit>>
  BY <1>1, HandleStrayTypes DEF HandleStray, browser, tabs
<1>7. /\ HandledOnceInOrder' /\ OlderTravelAlong' /\ NoneIsLate' /\ FlyingAreQueued'
      /\ FailedAreGone' /\ Onward
  BY <1>1, <1>4, HandlesOrder
<1>8. StraysCarry'
  <2>1. DOMAIN Restrict(s, DOMAIN s \ {i}) = DOMAIN s \ {i}
    BY DEF Restrict
  <2>2. i \in DOMAIN s
    BY <1>4 DEF Handles
  <2>3. ASSUME NEW r \in stray' PROVE DOMAIN r # {}
    <3>1. CASE r \in stray
      BY <1>1, <3>1 DEF Ordered, StraysCarry
    <3>2. CASE DOMAIN s # {i} /\ r = Restrict(s, DOMAIN s \ {i})
      BY <2>1, <2>2, <3>2
    <3>3. QED
      BY <1>2, <3>1, <3>2 DEF HandleStray
  <2>4. QED
    BY <2>3 DEF StraysCarry
<1>9. Ordered'
  BY <1>7, <1>8 DEF Ordered
<1>10. /\ LastCounts' /\ ServerAgrees' /\ LocalAgrees'
       /\ \A u \in Tabs : AnswerHolds(u) /\ VisitHolds(u)
  BY <1>4, HandlesAgreement
<1>11. Fading /\ epoch' \in Nat /\ QueueGrows
  BY <1>1, <1>6, SameParts, SameQueueTrivially, SameQueueGrows
<1>12. \A u \in Tabs : Keeping(u) /\ LeaseKept(u)
  BY <1>1, <1>6, <1>11, TabsWhenFading DEF SameRun
<1>13. TabsKnow'
  BY <1>1, <1>7, <1>11, <1>12, QuietTabs
<1>14. \A u \in Tabs : AnswerAgrees(u)'
  BY <1>1, <1>7, <1>10, <1>12, AnswerAgreesKept
<1>15. \A u \in Tabs : VisitAgrees(u)'
  <2>1. \A u \in Tabs : VisitKept(u)
    BY <1>1, <1>6, <1>11, VisitsWhenFading
  <2>2. QED
    BY <1>1, <1>10, <2>1, VisitAgreesKept
<1>16. QED
  BY <1>5, <1>6, <1>9, <1>10, <1>13, <1>14, <1>15 DEF Inv, Agreement

----------------------------------------------------------------------------
(* Other devices, and online operations.                                    *)

LEMMA OtherDeviceKeeps ==
  ASSUME Inv, NEW f \in Fields, NEW v \in Values \cup {Absent}, OtherDevice(f, v)
  PROVE  Inv'
<1>1. TypeOK /\ Agreed /\ Ordered /\ TabsKnow /\ LastCounts /\ ServerAgrees /\ LocalAgrees
      /\ \A u \in Tabs : AnswerAgrees(u) /\ VisitAgrees(u)
  BY DEF Inv, Agreement
<1>2. UNCHANGED <<queue, local, epoch, lease, run, visit, stray, handled, nextId, abandoned>>
  BY DEF OtherDevice, browser, tabs
<1>3. /\ server[f] # Absent /\ \A g \in Fields : g # f => server'[g] = server[g]
      /\ \A g \in Fields : expected'[g] = IF g = f THEN Unknown ELSE expected[g]
  BY <1>1 DEF OtherDevice, Forgotten, TypeOK
<1>4. Onward
  <2>1. nextId <= nextId'
    BY <1>1, <1>2, Known
  <2>2. QED
    BY <1>2, <1>3, <2>1 DEF Onward, Handled, Discarded
<1>5. SameQueue /\ SameOf /\ QueueGrows /\ Fading /\ epoch' \in Nat
  BY <1>1, <1>2, SameQueueTrivially, SameQueueGrows, SameParts
<1>6. \A u \in Tabs : Keeping(u) /\ LeaseKept(u)
  BY <1>1, <1>2, <1>5, TabsWhenFading DEF SameRun
<1>7. Agreed' /\ Ordered'
  BY <1>1, <1>2, <1>4, <1>5, <1>6, QuietOrder DEF StraysFromTabs
<1>8. TabsKnow'
  BY <1>1, <1>4, <1>5, <1>6, QuietTabs
<1>9. /\ LastCounts' /\ ServerAgrees' /\ LocalAgrees'
      /\ \A u \in Tabs : AnswerHolds(u) /\ VisitHolds(u)
  <2>1. \A g \in Fields :
          expected'[g] = Unknown \/ (expected'[g] = expected[g] /\ server'[g] = server[g])
    BY <1>3
  <2>2. \A g \in Fields : local'[g] \in {local[g], Absent}
    BY <1>2
  <2>3. handled' = handled /\ abandoned' = abandoned
    BY <1>2
  <2>4. \A g \in Fields : expected'[g] # Unknown /\ Of(queue, g) = {} =>
                           local'[g] \in {local[g], Absent}
    BY <2>2
  <2>5. TypeOK /\ LastCounts /\ ServerAgrees /\ LocalAgrees /\ SameOf
    BY <1>1, <1>5
  <2>6. QED
    BY <2>1, <2>3, <2>4, <2>5, ForgettingAgreement
<1>10. \A u \in Tabs : AnswerAgrees(u)'
  BY <1>1, <1>4, <1>6, <1>9, AnswerAgreesKept
<1>11. \A u \in Tabs : VisitAgrees(u)'
  <2>1. \A u \in Tabs : VisitKept(u)
    BY <1>1, <1>2, <1>5, VisitsWhenFading
  <2>2. QED
    BY <1>1, <1>9, <2>1, VisitAgreesKept
<1>12. TypeOK'
  BY <1>1, OtherDeviceTypes
<1>13. QED
  BY <1>7, <1>8, <1>9, <1>10, <1>11, <1>12 DEF Inv, Agreement

LEMMA OnlineKeeps ==
  ASSUME Inv, NEW t \in Tabs, NEW f \in Fields, NEW v \in Values, Online(t, f, v)
  PROVE  Inv'
<1>1. TypeOK /\ Agreed /\ Ordered /\ TabsKnow /\ LastCounts /\ ServerAgrees /\ LocalAgrees
      /\ \A u \in Tabs : AnswerAgrees(u) /\ VisitAgrees(u)
  BY DEF Inv, Agreement
<1>2. UNCHANGED <<queue, local, epoch, lease, run, stray, handled, nextId, abandoned>>
  BY DEF Online, browser
<1>3. /\ server[f] # Absent /\ \A g \in Fields : g # f => server'[g] = server[g]
      /\ \A g \in Fields : expected'[g] = IF g = f THEN Unknown ELSE expected[g]
  BY <1>1 DEF Online, Forgotten, TypeOK
<1>4. Onward
  <2>1. nextId <= nextId'
    BY <1>1, <1>2, Known
  <2>2. QED
    BY <1>2, <1>3, <2>1 DEF Onward, Handled, Discarded
<1>5. SameQueue /\ SameOf /\ QueueGrows /\ Fading /\ epoch' \in Nat
  BY <1>1, <1>2, SameQueueTrivially, SameQueueGrows, SameParts
<1>6. \A u \in Tabs : Keeping(u) /\ LeaseKept(u)
  BY <1>1, <1>2, <1>5, TabsWhenFading DEF SameRun
<1>7. Agreed' /\ Ordered'
  BY <1>1, <1>2, <1>4, <1>5, <1>6, QuietOrder DEF StraysFromTabs
<1>8. TabsKnow'
  BY <1>1, <1>4, <1>5, <1>6, QuietTabs
<1>9. /\ LastCounts' /\ ServerAgrees' /\ LocalAgrees'
      /\ \A u \in Tabs : AnswerHolds(u) /\ VisitHolds(u)
  <2>1. \A g \in Fields :
          expected'[g] = Unknown \/ (expected'[g] = expected[g] /\ server'[g] = server[g])
    BY <1>3
  <2>2. \A g \in Fields : local'[g] \in {local[g], Absent}
    BY <1>2
  <2>3. handled' = handled /\ abandoned' = abandoned
    BY <1>2
  <2>4. \A g \in Fields : expected'[g] # Unknown /\ Of(queue, g) = {} =>
                           local'[g] \in {local[g], Absent}
    BY <2>2
  <2>5. TypeOK /\ LastCounts /\ ServerAgrees /\ LocalAgrees /\ SameOf
    BY <1>1, <1>5
  <2>6. QED
    BY <2>1, <2>3, <2>4, <2>5, ForgettingAgreement
<1>10. \A u \in Tabs : AnswerAgrees(u)'
  BY <1>1, <1>4, <1>6, <1>9, AnswerAgreesKept
<1>11. ASSUME NEW u \in Tabs PROVE VisitAgrees(u)'
  <2>1. CASE u # t
    <3>1. visit'[u] = visit[u]
      BY <1>1, <2>1 DEF Online, TypeOK
    <3>2. VisitKept(u)
      BY <1>1, <1>2, <3>1 DEF VisitKept, VisitAgrees, Visiting, Owns
    <3>3. QED
      BY <1>1, <1>9, <3>2, VisitAgreesKept
  <2>2. CASE u = t
    <3>1. visit' = [visit EXCEPT ![t] = [visit[t] EXCEPT !.pc = "online", !.articles = [g \in {f} |-> v]]]
      BY <1>1, VisitParts DEF Online, TypeOK
    <3>2. /\ visit'[t].pc = "online" /\ DOMAIN visit'[t].articles = {f}
          /\ visit'[t].epoch = visit[t].epoch
      BY <1>1, <3>1, VisitParts DEF TypeOK, Visits
    <3>3. visit'[t].epoch <= epoch'
      BY <1>1, <1>2, <3>2 DEF VisitAgrees
    <3>4. \A g \in DOMAIN visit'[t].articles : expected'[g] = Unknown
      BY <1>3, <3>2
    <3>5. QED
      BY <2>2, <3>2, <3>3, <3>4 DEF VisitAgrees
  <2>3. QED
    BY <2>1, <2>2
<1>12. TypeOK'
  BY <1>1, OnlineTypes
<1>13. QED
  BY <1>7, <1>8, <1>9, <1>10, <1>11, <1>12 DEF Inv, Agreement

\* A field whose value the reader knows was known before, or was learned now.
LEMMA LearnedFields ==
  ASSUME NEW f \in Fields, expected' = Learned(local', queue'), UNCHANGED <<server, abandoned>>
  PROVE  \/ /\ expected'[f] = expected[f] /\ (Certain(f)' => Certain(f))
         \/ /\ expected[f] = Unknown /\ Of(queue, f)' = {} /\ expected'[f] = server[f]
            /\ local'[f] = server[f]
<1>1. expected'[f] = IF expected[f] = Unknown /\ Of(queue', f) = {}
                        /\ local'[f] = server[f] /\ server[f] # Absent
                     THEN server[f] ELSE expected[f]
  BY DEF Learned
<1>2. Of(queue, f)' = Of(queue', f)
  BY DEF Of, Active
<1>3. QED
  BY <1>1, <1>2 DEF Certain

\* The visit that holds the lease ends it: the lease becomes free, and no tab
\* held it.
LEMMA VisitEnds ==
  ASSUME TypeOK, NEW t \in Tabs, EndVisit(t), epoch' = epoch, Visiting(t)
  PROVE  /\ \A u \in Tabs : ~Holding(u)
         /\ \A u \in Tabs : ~Visiting(u)'
<1>1. \A u \in Tabs : ~Holding(u)
  BY HoldersDiffer DEF Holding, Visiting, Owns
<1>2. lease' = Free /\ ~lease'.live
  BY DEF EndVisit, Visiting, Owns, Released, Free
<1>3. QED
  BY <1>1, <1>2 DEF Visiting, Owns

\* A visit that ends with the lease, and from which the reader may learn.
LEMMA LearningVisitKeeps ==
  ASSUME Inv, TypeOK', NEW t \in Tabs, EndVisit(t), Visiting(t),
         expected' = Learned(local', queue'),
         UNCHANGED <<queue, epoch, run, remote, nextId, abandoned>>,
         \A f \in Fields : Certain(f) /\ Of(queue, f) = {} => local'[f] \in {expected[f], Absent}
  PROVE  Inv'
<1>1. TypeOK /\ Agreed /\ Ordered /\ TabsKnow /\ LastCounts /\ ServerAgrees /\ LocalAgrees
      /\ \A u \in Tabs : AnswerAgrees(u) /\ VisitAgrees(u)
  BY DEF Inv, Agreement
<1>2. SameServer /\ UNCHANGED <<stray, server, handled, abandoned>>
  BY DEF remote, SameServer
<1>3. Onward /\ SameQueue /\ SameOf /\ QueueGrows
  BY <1>1, <1>2, SameIsOnward, SameQueueTrivially, SameQueueGrows
<1>4. Fading /\ epoch' \in Nat /\ \A u \in Tabs : visit'[u] \in {visit[u], IdleVisit}
  BY <1>1, EndVisitEffect
<1>5. \A u \in Tabs : Keeping(u) /\ LeaseKept(u)
  BY <1>1, <1>4, TabsWhenFading DEF SameRun
<1>6. Agreed' /\ Ordered'
  BY <1>1, <1>2, <1>3, <1>5, QuietOrder DEF StraysFromTabs
<1>7. TabsKnow'
  BY <1>1, <1>3, <1>5, QuietTabs
<1>8. (\A u \in Tabs : ~Holding(u)) /\ (\A u \in Tabs : ~Visiting(u)')
  BY <1>1, VisitEnds
<1>9. ASSUME NEW f \in Fields
      PROVE  /\ \/ /\ expected'[f] = expected[f] /\ (Certain(f)' => Certain(f))
                \/ /\ expected[f] = Unknown /\ Of(queue, f)' = {} /\ expected'[f] = server[f]
                   /\ local'[f] = server[f]
             /\ Of(queue, f)' = Of(queue, f)
  BY <1>2, <1>3, LearnedFields DEF SameOf
<1>10. LastCounts'
  BY <1>1, <1>9 DEF LastCounts
<1>11. ServerAgrees'
  BY <1>1, <1>2, <1>9 DEF ServerAgrees, Handled
<1>12. LocalAgrees'
  <2> SUFFICES ASSUME NEW f \in Fields, Certain(f)', Of(queue, f)' = {}
               PROVE  local'[f] \in {expected'[f], Absent}
    BY DEF LocalAgrees
  <2>1. CASE expected'[f] = expected[f] /\ Certain(f)
    BY <1>9, <2>1
  <2>2. QED
    BY <1>9, <2>1
<1>13. \A u \in Tabs : AnswerAgrees(u)'
  BY <1>1, <1>3, <1>5, <1>8, AnswerAgreesKept DEF AnswerHolds
<1>14. \A u \in Tabs : VisitAgrees(u)'
  <2>1. \A u \in Tabs : VisitKept(u)
    BY <1>1, <1>4, VisitsWhenFading
  <2>2. QED
    BY <1>8, <2>1 DEF VisitKept, VisitAgrees
<1>15. QED
  BY <1>6, <1>7, <1>10, <1>11, <1>12, <1>13, <1>14 DEF Inv, Agreement

LEMMA ActivateKeeps ==
  ASSUME Inv, NEW t \in Tabs, Activate(t)
  PROVE  Inv'
<1>1. TypeOK /\ TypeOK' /\ LocalAgrees /\ VisitAgrees(t)
  BY ActivateTypes DEF Inv, Agreement
<1>2. EndVisit(t) /\ UNCHANGED <<queue, epoch, run, remote, nextId, abandoned>>
      /\ visit[t].pc = "download"
  BY DEF Activate
<1>3. CASE MayActivate(t)
  <2>1. Visiting(t) /\ expected' = Learned(local', queue')
    BY <1>2, <1>3 DEF Activate, MayActivate, Visiting
  <2>2. ASSUME NEW f \in Fields, Certain(f), Of(queue, f) = {}
        PROVE  local'[f] \in {expected[f], Absent}
    <3>1. local'[f] = IF f \in DOMAIN visit[t].articles THEN visit[t].articles[f] ELSE Absent
      BY <1>3 DEF Activate
    <3>2. f \in DOMAIN visit[t].articles => visit[t].articles[f] = expected[f]
      BY <1>1, <1>2, <2>1, <2>2 DEF VisitAgrees
    <3>3. QED
      BY <3>1, <3>2
  <2>3. QED
    BY <1>1, <1>2, <2>1, <2>2, LearningVisitKeeps
<1>4. CASE ~MayActivate(t)
  <2>1. UNCHANGED <<local, expected>> /\ SameServer /\ UNCHANGED stray
    BY <1>2, <1>4 DEF Activate, SameServer, remote
  <2>2. Fading /\ epoch' \in Nat /\ \A u \in Tabs : visit'[u] \in {visit[u], IdleVisit}
    BY <1>1, <1>2, EndVisitEffect
  <2>3. Calm /\ \A u \in Tabs : VisitKept(u)
    BY <1>2, <2>1, <2>2, SameQueueTrivially, FadingIsCalm DEF StraysFromTabs, SameRun
  <2>4. QED
    BY <1>1, <2>3, CalmKeeps, CalmIsEnough
<1>5. QED
  BY <1>3, <1>4

LEMMA PatchOnlineKeeps ==
  ASSUME Inv, NEW t \in Tabs, PatchOnline(t)
  PROVE  Inv'
<1>1. TypeOK /\ TypeOK' /\ Agreed /\ Ordered /\ TabsKnow /\ LastCounts /\ ServerAgrees /\ LocalAgrees
      /\ \A u \in Tabs : AnswerAgrees(u) /\ VisitAgrees(u)
  BY PatchOnlineTypes DEF Inv, Agreement
<1>2. EndVisit(t) /\ UNCHANGED <<queue, epoch, run, remote, nextId, abandoned>>
      /\ visit[t].pc = "online"
  BY DEF PatchOnline
<1>3. /\ local' = IF Mine(t) THEN Overlay(Patched(local, visit[t].articles), queue) ELSE local
      /\ expected' = IF ~Mine(t) THEN expected
                     ELSE IF Owns(Visit(t), visit[t].epoch) THEN Learned(local', queue)
                     ELSE Forgotten(DOMAIN visit[t].articles)
  BY PatchOnlineEffect
<1>4. Fading /\ epoch' \in Nat /\ \A u \in Tabs : visit'[u] \in {visit[u], IdleVisit}
  BY <1>1, <1>2, EndVisitEffect
<1>5. SameServer /\ UNCHANGED <<stray, handled, server>> /\ SameQueue
  BY <1>2, SameQueueTrivially DEF SameServer, remote
<1>6. \A f \in Fields : Of(queue, f) = {} =>
        local'[f] = local[f] \/ (Mine(t) /\ f \in DOMAIN visit[t].articles)
  <2>1. CASE Mine(t)
    BY <1>3, <2>1 DEF Overlay, Patched
  <2>2. CASE ~Mine(t)
    BY <1>3, <2>2
  <2>3. QED
    BY <2>1, <2>2
<1>7. CASE ~Mine(t)
  <2>1. UNCHANGED <<local, expected>>
    BY <1>3, <1>7
  <2>2. Calm /\ \A u \in Tabs : VisitKept(u)
    BY <1>2, <1>4, <1>5, <2>1, FadingIsCalm DEF StraysFromTabs, SameRun
  <2>3. QED
    BY <1>1, <2>2, CalmKeeps, CalmIsEnough
<1>8. CASE Mine(t) /\ Visiting(t)
  <2>1. expected' = Learned(local', queue')
    BY <1>2, <1>3, <1>8 DEF Visiting
  <2>2. ASSUME NEW f \in Fields, Certain(f), Of(queue, f) = {}
        PROVE  local'[f] \in {expected[f], Absent}
    <3>1. f \notin DOMAIN visit[t].articles
      BY <1>1, <1>2, <1>8, <2>2 DEF VisitAgrees, Certain
    <3>2. local'[f] = local[f]
      BY <1>6, <2>2, <3>1
    <3>3. QED
      BY <1>1, <2>2, <3>2 DEF LocalAgrees
  <2>3. QED
    BY <1>1, <1>2, <1>8, <2>1, <2>2, LearningVisitKeeps
<1>9. CASE Mine(t) /\ ~Visiting(t)
  <2>1. \A f \in Fields : expected'[f] = IF f \in DOMAIN visit[t].articles THEN Unknown ELSE expected[f]
    BY <1>3, <1>9 DEF Visiting, Forgotten
  <2>2. Onward /\ SameOf /\ QueueGrows
    BY <1>1, <1>5, SameIsOnward, SameQueueGrows
  <2>3. \A u \in Tabs : Keeping(u) /\ LeaseKept(u)
    BY <1>1, <1>2, <1>4, TabsWhenFading DEF SameRun
  <2>4. Agreed' /\ Ordered'
    BY <1>1, <1>2, <1>5, <2>2, <2>3, QuietOrder DEF StraysFromTabs
  <2>5. TabsKnow'
    BY <1>1, <2>2, <2>3, QuietTabs
  <2>6. /\ LastCounts' /\ ServerAgrees' /\ LocalAgrees'
        /\ \A u \in Tabs : AnswerHolds(u) /\ VisitHolds(u)
    BY <1>1, <1>2, <1>5, <1>6, <2>1, <2>2, ForgettingAgreement
  <2>7. \A u \in Tabs : AnswerAgrees(u)'
    BY <1>1, <2>2, <2>3, <2>6, AnswerAgreesKept
  <2>8. \A u \in Tabs : VisitAgrees(u)'
    <3>1. \A u \in Tabs : VisitKept(u)
      BY <1>1, <1>4, VisitsWhenFading
    <3>2. QED
      BY <1>1, <2>6, <3>1, VisitAgreesKept
  <2>9. QED
    BY <1>1, <2>4, <2>5, <2>6, <2>7, <2>8 DEF Inv, Agreement
<1>10. QED
  BY <1>7, <1>8, <1>9

----------------------------------------------------------------------------
(* The reader discards the queue.                                           *)

\* What was sent is discarded, the rest is forgotten, and every lease is over.
LEMMA DiscardEffect ==
  ASSUME TypeOK, NEW t \in Tabs, Discard(t)
  PROVE  /\ DOMAIN queue' = {} /\ Active(queue)' = {} /\ \A f : Of(queue, f)' = {}
         /\ UNCHANGED <<server, handled, stray, visit, nextId>>
         /\ \A f \in Fields :
              /\ f \in FieldsOf(queue) => expected'[f] = Unknown
              /\ f \notin FieldsOf(queue) =>
                   /\ expected'[f] = expected[f] /\ local'[f] = local[f] /\ Of(queue, f) = {}
         /\ \A r \in abandoned' : r \in abandoned
              \/ \E i \in DOMAIN queue : r = [id |-> i, intent |-> IntentOf(queue[i])]
         /\ \A r \in abandoned : r \in abandoned'
         /\ \A i \in DOMAIN queue : queue[i].state = "dispatched" => Discarded(i)'
         /\ epoch <= epoch' /\ epoch' \in Nat /\ ~lease'.live
         /\ \A u \in Tabs : SameRun(u)
<1>1. DOMAIN queue' = {}
  <2>1. queue' = <<>>
    BY DEF Discard
  <2>2. QED
    BY <2>1, NothingIsPartial
<1>2. Active(queue)' = {} /\ \A f : Of(queue, f)' = {}
  BY <1>1 DEF Of, Active
<1>3. UNCHANGED <<server, handled, stray, visit, nextId>>
  BY DEF Discard, remote
<1>4. ASSUME NEW f \in Fields
      PROVE  /\ f \in FieldsOf(queue) => expected'[f] = Unknown
             /\ f \notin FieldsOf(queue) =>
                  /\ expected'[f] = expected[f] /\ local'[f] = local[f] /\ Of(queue, f) = {}
  <2>1. /\ expected'[f] = IF f \in FieldsOf(queue) THEN Unknown ELSE expected[f]
        /\ f \notin FieldsOf(queue) => local'[f] = local[f]
    BY DEF Discard, Forgotten
  <2>2. f \notin FieldsOf(queue) => Of(queue, f) = {}
    BY DEF FieldsOf, Of, Active
  <2>3. QED
    BY <2>1, <2>2
<1>5. abandoned' = abandoned \cup {[id |-> i, intent |-> IntentOf(queue[i])] :
                                   i \in {j \in DOMAIN queue : queue[j].state = "dispatched"}}
  BY DEF Discard
<1>6. ASSUME NEW i \in DOMAIN queue, queue[i].state = "dispatched" PROVE Discarded(i)'
  <2>1. [id |-> i, intent |-> IntentOf(queue[i])] \in abandoned'
    BY <1>5, <1>6
  <2>2. QED
    BY <2>1 DEF Discarded
<1>7. epoch <= epoch' /\ epoch' \in Nat /\ ~lease'.live
  BY DEF Discard, Free, TypeOK
<1>8. \A u \in Tabs : SameRun(u)
  <2>1. run' = [run EXCEPT ![t].live = FALSE]
    BY DEF Discard
  <2>2. QED
    BY <2>1, RunParts DEF SameRun, TypeOK, Runs
<1>9. QED
  BY <1>1, <1>2, <1>3, <1>4, <1>5, <1>6, <1>7, <1>8

LEMMA DiscardKeeps ==
  ASSUME Inv, NEW t \in Tabs, Discard(t)
  PROVE  Inv'
<1>1. TypeOK /\ Agreed /\ Ordered /\ TabsKnow /\ LastCounts /\ ServerAgrees /\ LocalAgrees
      /\ \A u \in Tabs : AnswerAgrees(u) /\ VisitAgrees(u)
  BY DEF Inv, Agreement
<1>2. TypeOK'
  BY <1>1, DiscardTypes
<1>3. /\ DOMAIN queue' = {} /\ Active(queue)' = {} /\ \A f : Of(queue, f)' = {}
      /\ UNCHANGED <<server, handled, stray, visit, nextId>>
      /\ epoch <= epoch' /\ epoch' \in Nat /\ ~lease'.live
  BY <1>1, DiscardEffect
<1>4. \A f \in Fields :
        /\ f \in FieldsOf(queue) => expected'[f] = Unknown
        /\ f \notin FieldsOf(queue) =>
             /\ expected'[f] = expected[f] /\ local'[f] = local[f] /\ Of(queue, f) = {}
  BY <1>1, DiscardEffect
<1>5. /\ \A r \in abandoned' : r \in abandoned
              \/ \E i \in DOMAIN queue : r = [id |-> i, intent |-> IntentOf(queue[i])]
      /\ \A r \in abandoned : r \in abandoned'
      /\ \A i \in DOMAIN queue : queue[i].state = "dispatched" => Discarded(i)'
  BY <1>1, DiscardEffect
<1>6. Fading /\ \A u \in Tabs : SameRun(u)
  BY <1>1, DiscardEffect DEF Fading
<1>7. \A u \in Tabs : Keeping(u) /\ LeaseKept(u)
  BY <1>1, <1>3, <1>6, TabsWhenFading
<1>8. Onward
  <2>1. nextId <= nextId'
    BY <1>1, <1>3, Known
  <2>2. QED
    BY <1>3, <1>5, <2>1 DEF Onward, Handled, Discarded
<1>9. Agreed'
  <2>1. ASSUME NEW i \in Ids, NEW a \in Intent, Says(i, a)' PROVE Says(i, a)
    <3>1. CASE \E u \in Tabs : i \in DOMAIN run'[u].sent /\ a = run'[u].sent[i]
      BY <1>6, <3>1 DEF Says, SameRun
    <3>2. CASE \E s \in stray' : i \in DOMAIN s /\ a = s[i]
      BY <1>3, <3>2 DEF Says
    <3>3. CASE \E k \in DOMAIN handled' : handled'[k].id = i /\ a = handled'[k].intent
      BY <1>3, <3>3 DEF Says
    <3>4. CASE \E r \in abandoned' : r.id = i /\ a = r.intent
      BY <1>5, <3>4 DEF Says
    <3>5. i \notin DOMAIN queue'
      BY <1>3
    <3>6. QED
      BY <2>1, <3>1, <3>2, <3>3, <3>4, <3>5 DEF Says
  <2>2. nextId <= nextId' /\ nextId' \in Nat
    BY <1>1, <1>3, Known
  <2>3. QED
    BY <1>1, <2>1, <2>2, AgreedKept
<1>10. \A R \in Batches' : R \in Batches \/ R = {}
  BY <1>1, <1>3, <1>7, BatchesWhenKeeping DEF StraysFromTabs
<1>11. HandledOnceInOrder' /\ OlderTravelAlong' /\ NoneIsLate'
  BY <1>1, <1>3, <1>8, <1>10, OrderKept
<1>12. FlyingAreQueued'
  <2> SUFFICES ASSUME NEW x \in Flying' PROVE Settled(x)'
    BY DEF FlyingAreQueued
  <2>1. x \in Flying
    BY <1>10 DEF Flying
  <2>2. Settled(x) \/ (x \in DOMAIN queue /\ queue[x].state = "dispatched")
    BY <1>1, <2>1 DEF Ordered, FlyingAreQueued
  <2>3. QED
    BY <1>5, <1>8, <2>2 DEF Settled, Onward
<1>13. FailedAreGone'
  <2>1. FailedAreGone
    BY <1>1 DEF Ordered
  <2>2. \A k \in DOMAIN handled' :
          handled'[k].outcome = "rejected" => server'[handled'[k].intent.field] = Absent
    BY <1>1, <1>3, <1>8, <2>1, RefusedKept
  <2>3. QED
    BY <1>3, <2>2 DEF FailedAreGone
<1>14. Ordered'
  <2>1. StraysCarry'
    BY <1>1, <1>3 DEF Ordered, StraysCarry
  <2>2. QED
    BY <1>11, <1>12, <1>13, <2>1 DEF Ordered
<1>15. TabsKnow'
  <2> SUFFICES ASSUME NEW u \in Tabs PROVE Answers(u)' /\ Keeps(u)'
    BY DEF TabsKnow
  <2>1. Answers(u)'
    BY <1>1, <1>7, <1>8, AnswersKept DEF TabsKnow
  <2>2. ~Holding(u)'
    BY <1>3 DEF Holding, Owns
  <2>3. run'[u].epoch <= epoch'
    BY <1>7 DEF LeaseKept
  <2>4. QED
    BY <2>1, <2>2, <2>3 DEF Keeps
<1>16. ASSUME NEW f \in Fields, expected'[f] # Unknown
       PROVE  /\ expected'[f] = expected[f] /\ local'[f] = local[f] /\ Of(queue, f) = {}
              /\ Certain(f)' => Certain(f)
  <2>1. f \notin FieldsOf(queue)
    BY <1>4, <1>16
  <2>2. /\ expected'[f] = expected[f] /\ local'[f] = local[f] /\ Of(queue, f) = {}
    BY <1>4, <2>1
  <2>3. Certain(f)' => Certain(f)
    BY <1>3, <1>5, <2>2 DEF Certain
  <2>4. QED
    BY <2>2, <2>3
<1>17. LastCounts'
  BY <1>3 DEF LastCounts
<1>18. ServerAgrees'
  <2> SUFFICES ASSUME NEW f \in Fields, Certain(f)' PROVE server'[f] = expected'[f]
    BY DEF ServerAgrees
  <2>1. expected'[f] = expected[f] /\ Of(queue, f) = {} /\ Certain(f)
    BY <1>16 DEF Certain
  <2>2. QED
    BY <1>1, <1>3, <2>1 DEF ServerAgrees
<1>19. LocalAgrees'
  <2> SUFFICES ASSUME NEW f \in Fields, Certain(f)' PROVE local'[f] \in {expected'[f], Absent}
    BY DEF LocalAgrees
  <2>1. expected'[f] = expected[f] /\ local'[f] = local[f] /\ Of(queue, f) = {} /\ Certain(f)
    BY <1>16 DEF Certain
  <2>2. QED
    BY <1>1, <2>1 DEF LocalAgrees
<1>20. ASSUME NEW u \in Tabs PROVE AnswerAgrees(u)'
  <2>1. \A f \in Fields : Certain(f)' => Certain(f) /\ expected'[f] = expected[f] /\ Of(queue, f) = {}
    BY <1>16 DEF Certain
  <2>2. AnswerHolds(u)
    BY <2>1 DEF AnswerHolds
  <2>3. QED
    BY <1>1, <1>7, <1>8, <2>2, AnswerAgreesKept
<1>21. ASSUME NEW u \in Tabs PROVE VisitAgrees(u)'
  <2>1. VisitKept(u)
    BY <1>1, <1>3, <1>6, VisitsWhenFading
  <2>2. ~Visiting(u)'
    BY <1>3 DEF Visiting, Owns
  <2>3. QED
    BY <2>1, <2>2 DEF VisitKept, VisitAgrees
<1>22. QED
  BY <1>2, <1>9, <1>14, <1>15, <1>17, <1>18, <1>19, <1>20, <1>21 DEF Inv, Agreement

----------------------------------------------------------------------------
(* The answer is recorded.                                                  *)

\* What the tab knows of its answer: what it removes or fails is handled, what
\* it keeps comes after, and the queue holds all of it as it was sent.
LEMMA AcknowledgeKnows ==
  ASSUME Inv, NEW t \in Tabs, Acknowledge(t)
  PROVE  /\ Holding(t) /\ run[t].pc = "answered" /\ DOMAIN run[t].results = DOMAIN run[t].sent
         /\ \A i \in DOMAIN run[t].sent :
              /\ i \in DOMAIN queue /\ queue[i].state = "dispatched"
              /\ queue[i].field = run[t].sent[i].field
              /\ \A x \in Active(queue) : x < i => x \in DOMAIN run[t].sent
              /\ i \in Gone(t) \cup Refused(t) \/ i \in Left(t)
         /\ \A i \in Gone(t) \cup Refused(t) :
              /\ i \in DOMAIN run[t].sent /\ run[t].results[i] # "retry" /\ Handled(i)
              /\ \A x \in Left(t) : ~(x < i)
         /\ \A i \in Refused(t) : server[queue[i].field] = Absent
<1>1. TypeOK /\ Agreed /\ Answers(t) /\ Keeps(t)
  BY DEF Inv, TabsKnow
<1>2. Holding(t) /\ run[t].pc = "answered" /\ DOMAIN run[t].results = DOMAIN run[t].sent
  BY <1>1 DEF Acknowledge, Acknowledges, Holding, At, Answers
<1>3. ASSUME NEW i \in DOMAIN run[t].sent
      PROVE  /\ i \in DOMAIN queue /\ queue[i].state = "dispatched"
             /\ \A x \in Active(queue) : x < i => x \in DOMAIN run[t].sent
             /\ i \in Gone(t) \cup Refused(t) \/ i \in Left(t)
  <2>1. run[t].results[i] \in Outcome
    BY <1>1, <1>2, RunParts
  <2>2. i \in Gone(t) \cup Refused(t) \/ i \in Left(t)
    BY <1>2, <2>1 DEF Outcome, Gone, Refused, Left, ResultsOf
  <2>3. QED
    BY <1>1, <1>2, <2>2 DEF Keeps
<1>4. ASSUME NEW i \in DOMAIN run[t].sent PROVE queue[i].field = run[t].sent[i].field
  <2>1. i \in Ids /\ run[t].sent[i] \in Intent /\ IntentOf(queue[i]) \in Intent
    BY <1>1, <1>3, RunParts, QueueParts
  <2>2. Says(i, run[t].sent[i]) /\ Says(i, IntentOf(queue[i]))
    BY <1>3 DEF Says
  <2>3. IntentOf(queue[i]) = run[t].sent[i]
    BY <1>1, <2>1, <2>2, Zenon DEF Agreed
  <2>4. QED
    BY <2>3 DEF IntentOf
<1>5. ASSUME NEW i \in Gone(t) \cup Refused(t)
      PROVE  /\ i \in DOMAIN run[t].sent /\ i \in DOMAIN run[t].results
             /\ run[t].results[i] # "retry" /\ Handled(i)
             /\ \A x \in Left(t) : ~(x < i)
  <2>1. i \in DOMAIN run[t].results /\ run[t].results[i] # "retry"
    BY DEF Gone, Refused, ResultsOf, Done
  <2>2. Handled(i)
    BY <1>1, <2>1 DEF Answers
  <2>3. ASSUME NEW x \in Left(t), x < i PROVE FALSE
    <3>1. x \in DOMAIN run[t].results /\ run[t].results[x] = "retry"
      BY DEF Left, ResultsOf
    <3>2. \A j \in DOMAIN run[t].sent : x < j =>
            j \in DOMAIN run[t].results /\ run[t].results[j] = "retry"
      BY <1>1, <3>1 DEF Answers
    <3>3. QED
      BY <1>2, <2>1, <2>3, <3>2
  <2>4. QED
    BY <1>2, <2>1, <2>2, <2>3
<1>6. ASSUME NEW i \in Refused(t) PROVE server[queue[i].field] = Absent
  <2>1. i \in DOMAIN run[t].results /\ run[t].results[i] = "rejected"
    BY DEF Refused, ResultsOf
  <2>2. server[run[t].sent[i].field] = Absent
    BY <1>1, <2>1 DEF Answers
  <2>3. QED
    BY <1>2, <1>4, <2>1, <2>2
<1>7. QED
  BY <1>2, <1>3, <1>4, <1>5, <1>6

\* What the acknowledgement settles leaves the queue's active part, oldest first.
LEMMA AcknowledgeQueue ==
  ASSUME Inv, NEW t \in Tabs, Acknowledge(t)
  PROVE  /\ DOMAIN queue' = DOMAIN queue \ Gone(t)
         /\ \A i \in DOMAIN queue' :
              /\ queue'[i].field = queue[i].field /\ queue'[i].value = queue[i].value
              /\ queue'[i].state = IF i \in Refused(t) THEN "failed" ELSE queue[i].state
         /\ Active(queue)' = Active(queue) \ (Gone(t) \cup Refused(t))
         /\ \A f \in Fields :
              /\ Of(queue, f)' = Of(queue, f) \ (Gone(t) \cup Refused(t))
              /\ Of(queue, f)' # {} => /\ Max(Of(queue, f)') = Max(Of(queue, f))
                                       /\ Max(Of(queue, f)) \in Of(queue, f)'
<1>1. TypeOK
  BY DEF Inv
<1>2. /\ DOMAIN queue' = DOMAIN queue \ Gone(t)
      /\ \A i \in DOMAIN queue' :
           /\ queue'[i].field = queue[i].field /\ queue'[i].value = queue[i].value
           /\ queue'[i].state = IF i \in Refused(t) THEN "failed" ELSE queue[i].state
  BY <1>1, AcknowledgeEffect
<1>3. Active(queue)' = Active(queue) \ (Gone(t) \cup Refused(t))
  BY <1>2 DEF Active
<1>4. ASSUME NEW f \in Fields
      PROVE  Of(queue, f)' = Of(queue, f) \ (Gone(t) \cup Refused(t))
  BY <1>2, <1>3 DEF Of, Active
<1>5. ASSUME NEW f \in Fields, Of(queue, f)' # {}
      PROVE  /\ Max(Of(queue, f)') = Max(Of(queue, f))
             /\ Max(Of(queue, f)) \in Of(queue, f)'
  <2>1. PICK O : O = Of(queue, f)
    OBVIOUS
  <2>2. PICK P : P = Of(queue, f)'
    OBVIOUS
  <2>3. P = O \ (Gone(t) \cup Refused(t)) /\ P # {} /\ O # {}
    BY <1>4, <1>5, <2>1, <2>2
  <2>4. O \in SUBSET Ids /\ O \subseteq Active(queue)
    BY <1>1, <2>1, QueueParts DEF Of, Active
  <2>5. PICK m \in O : m = Max(O) /\ \A x \in O : x <= m
    BY <2>3, <2>4, MaxIsGreatest
  <2>6. PICK n \in P : n = Max(P) /\ \A x \in P : x <= n
    BY <2>3, <2>4, MaxIsGreatest
  <2>7. m \in Nat /\ n \in Nat /\ n \in O /\ n <= m
    BY <2>3, <2>4, <2>5, Numeric
  <2>8. m \in P
    <3>1. ASSUME m \in Gone(t) \cup Refused(t) PROVE FALSE
      <4>1. /\ m \in DOMAIN run[t].sent
            /\ \A x \in Active(queue) : x < m => x \in DOMAIN run[t].sent
            /\ \A x \in Left(t) : ~(x < m)
        BY <3>1, AcknowledgeKnows
      <4>2. n < m /\ n \in Active(queue) /\ n \notin Gone(t) \cup Refused(t)
        BY <2>3, <2>4, <2>7, <3>1
      <4>3. n \in DOMAIN run[t].sent
        BY <4>1, <4>2
      <4>4. n \in Left(t)
        BY <4>2, <4>3, AcknowledgeKnows
      <4>5. QED
        BY <4>1, <4>2, <4>4
    <3>2. QED
      BY <2>3, <3>1
  <2>9. m = n
    BY <2>6, <2>7, <2>8
  <2>10. QED
    BY <2>1, <2>2, <2>5, <2>6, <2>8, <2>9
<1>6. QED
  BY <1>2, <1>3, <1>4, <1>5

LEMMA AcknowledgeTabs ==
  ASSUME Inv, NEW t \in Tabs, Acknowledge(t)
  PROVE  /\ \A u \in Tabs : Keeping(u) /\ LeaseKept(u)
         /\ \A u \in Tabs : u # t => ~Holding(u)
         /\ TabsKnow'
<1>1. TypeOK /\ TabsKnow /\ Holding(t)
  BY AcknowledgeKnows DEF Inv
<1>2. UNCHANGED <<epoch, lease, remote, nextId, abandoned>> /\ epoch \in Nat
  <2>1. UNCHANGED <<epoch, lease, remote, nextId, abandoned>>
    BY Zenon DEF Acknowledge
  <2>2. epoch \in Nat
    BY <1>1 DEF TypeOK
  <2>3. QED
    BY <2>1, <2>2
<1>3. /\ \A u \in Tabs : u # t =>
              /\ run'[u].sent = run[u].sent /\ run'[u].pc = run[u].pc
              /\ run'[u].results = run[u].results /\ run'[u].articles = run[u].articles
              /\ run'[u].epoch = run[u].epoch /\ run'[u].fresh = FALSE
      /\ run'[t].pc \in {"loop", "closing"} /\ run'[t].epoch = run[t].epoch
      /\ DOMAIN run'[t].sent = {} /\ DOMAIN run'[t].results = {}
  BY <1>1, AcknowledgeEffect
<1>4. \A u \in Tabs : u # t => ~Holding(u)
  BY <1>1, HoldersDiffer DEF Holding, Owns
<1>5. ASSUME NEW u \in Tabs PROVE run'[u].epoch <= epoch' /\ (Holding(u)' => u = t)
  <2>1. run'[u].epoch = run[u].epoch
    BY <1>3
  <2>2. run[u].epoch <= epoch
    BY <1>1 DEF TabsKnow, Keeps
  <2>3. Holding(u)' => Holding(u)
    BY <1>2, <2>1 DEF Holding, Owns
  <2>4. QED
    BY <1>2, <1>4, <2>1, <2>2, <2>3
<1>6. ASSUME NEW u \in Tabs PROVE Keeping(u) /\ LeaseKept(u)
  <2>1. CASE u = t
    BY <1>3, <1>5, <2>1 DEF Keeping, LeaseKept
  <2>2. CASE u # t
    <3>1. DOMAIN run[u].results \subseteq DOMAIN run[u].sent
      BY <1>1, RunParts
    <3>2. run[u].pc \notin {"waiting", "answered"} => DOMAIN run[u].sent = {}
      BY <1>1 DEF TabsKnow, Answers
    <3>3. Keeping(u)
      BY <1>3, <2>2, <3>1, <3>2 DEF Keeping
    <3>4. QED
      BY <1>5, <2>2, <3>3 DEF LeaseKept
  <2>3. QED
    BY <2>1, <2>2
<1>7. Onward
  BY <1>1, <1>2, SameIsOnward DEF SameServer, remote
<1>8. TabsKnow'
  <2> SUFFICES ASSUME NEW u \in Tabs PROVE Answers(u)' /\ Keeps(u)'
    BY DEF TabsKnow
  <2>1. Answers(u)'
    BY <1>1, <1>6, <1>7, AnswersKept DEF TabsKnow
  <2>2. Keeps(u)'
    BY <1>3, <1>5 DEF Keeps
  <2>3. QED
    BY <2>1, <2>2
<1>9. QED
  BY <1>4, <1>6, <1>8

LEMMA AcknowledgeOrder ==
  ASSUME Inv, NEW t \in Tabs, Acknowledge(t)
  PROVE  Agreed' /\ Ordered'
<1>1. TypeOK /\ Agreed /\ Ordered /\ \A u \in Tabs : Keeping(u)
  BY AcknowledgeTabs DEF Inv
<1>2. UNCHANGED <<remote, nextId, abandoned>>
  BY Zenon DEF Acknowledge
<1>3. UNCHANGED <<server, handled, stray, nextId, abandoned>> /\ nextId <= nextId' /\ nextId' \in Nat
  BY <1>1, <1>2, Known DEF remote
<1>4. Onward
  BY <1>1, <1>3, SameIsOnward DEF SameServer
<1>5. /\ DOMAIN queue' = DOMAIN queue \ Gone(t)
      /\ \A i \in DOMAIN queue' :
           /\ queue'[i].field = queue[i].field /\ queue'[i].value = queue[i].value
           /\ queue'[i].state = IF i \in Refused(t) THEN "failed" ELSE queue[i].state
      /\ Active(queue)' = Active(queue) \ (Gone(t) \cup Refused(t))
  BY AcknowledgeQueue
<1>6. Agreed'
  <2>1. ASSUME NEW i \in Ids, NEW a \in Intent, Says(i, a)' PROVE Says(i, a)
    <3>1. CASE i \in DOMAIN queue' /\ a = IntentOf(queue'[i])
      <4>1. i \in DOMAIN queue /\ IntentOf(queue'[i]) = IntentOf(queue[i])
        BY <1>5, <3>1 DEF IntentOf
      <4>2. QED
        BY <3>1, <4>1 DEF Says
    <3>2. CASE \E u \in Tabs : i \in DOMAIN run'[u].sent /\ a = run'[u].sent[i]
      <4>1. PICK u \in Tabs : i \in DOMAIN run'[u].sent /\ a = run'[u].sent[i]
        BY <3>2
      <4>2. run'[u].sent = run[u].sent
        BY <1>1, <4>1 DEF Keeping
      <4>3. QED
        BY <4>1, <4>2 DEF Says
    <3>3. CASE \E s \in stray' : i \in DOMAIN s /\ a = s[i]
      BY <1>3, <3>3 DEF Says
    <3>4. CASE \E k \in DOMAIN handled' : handled'[k].id = i /\ a = handled'[k].intent
      BY <1>3, <3>4 DEF Says
    <3>5. CASE \E r \in abandoned' : r.id = i /\ a = r.intent
      BY <1>3, <3>5 DEF Says
    <3>6. QED
      BY <2>1, <3>1, <3>2, <3>3, <3>4, <3>5 DEF Says
  <2>2. QED
    BY <1>1, <1>3, <2>1, AgreedKept
<1>7. \A R \in Batches' : R \in Batches \/ R = {}
  BY <1>1, <1>3, BatchesWhenKeeping DEF StraysFromTabs
<1>8. HandledOnceInOrder' /\ OlderTravelAlong' /\ NoneIsLate'
  BY <1>1, <1>3, <1>4, <1>5, <1>7, OrderKept
<1>9. FlyingAreQueued'
  <2> SUFFICES ASSUME NEW x \in Flying'
               PROVE  Settled(x)' \/ (x \in DOMAIN queue' /\ queue'[x].state = "dispatched")
    BY DEF FlyingAreQueued
  <2>1. x \in Flying
    BY <1>7 DEF Flying
  <2>2. Settled(x) \/ (x \in DOMAIN queue /\ queue[x].state = "dispatched")
    BY <1>1, <2>1 DEF Ordered, FlyingAreQueued
  <2>3. Settled(x) => Settled(x)'
    BY <1>4 DEF Settled, Onward
  <2>4. x \in Gone(t) \cup Refused(t) => Handled(x)
    BY AcknowledgeKnows
  <2>5. QED
    BY <1>5, <2>2, <2>3, <2>4 DEF Settled
<1>10. FailedAreGone'
  <2>1. FailedAreGone
    BY <1>1 DEF Ordered
  <2>2. \A k \in DOMAIN handled' :
          handled'[k].outcome = "rejected" => server'[handled'[k].intent.field] = Absent
    BY <1>1, <1>3, <1>4, <2>1, RefusedKept
  <2>3. ASSUME NEW x \in DOMAIN queue', queue'[x].state = "failed"
        PROVE  Handled(x)' /\ server'[queue'[x].field] = Absent
    <3>1. x \in DOMAIN queue /\ queue'[x].field = queue[x].field
      BY <1>5
    <3>2. Handled(x) /\ server[queue[x].field] = Absent
      <4>1. CASE x \in Refused(t)
        BY <4>1, AcknowledgeKnows
      <4>2. CASE x \notin Refused(t)
        BY <1>5, <2>1, <2>3, <3>1, <4>2 DEF FailedAreGone
      <4>3. QED
        BY <4>1, <4>2
    <3>3. QED
      BY <1>3, <1>4, <3>1, <3>2 DEF Onward
  <2>4. QED
    BY <2>2, <2>3 DEF FailedAreGone
<1>11. StraysCarry'
  BY <1>1, <1>3 DEF Ordered, StraysCarry
<1>12. QED
  BY <1>6, <1>8, <1>9, <1>10, <1>11 DEF Ordered

\* Where nothing is left of a field, the answer's article took its place.
LEMMA AcknowledgeCopy ==
  ASSUME Inv, NEW t \in Tabs, Acknowledge(t), NEW f \in Fields, Certain(f), Of(queue, f)' = {}
  PROVE  local'[f] \in {expected[f], Absent}
<1>1. LocalAgrees /\ AnswerAgrees(t) /\ TypeOK
  BY DEF Inv, Agreement
<1>2. local' = Overlay(Answered(t), queue')
  BY <1>1, AcknowledgeEffect
<1>3. Of(queue', f) = {}
  BY DEF Of, Active
<1>4. local'[f] = Answered(t)[f]
  BY <1>2, <1>3 DEF Overlay
<1>5. PICK copy : copy = IF f \in RefusedFields(t) THEN Absent ELSE local[f]
  OBVIOUS
<1>6. local'[f] = IF f \in DOMAIN run[t].articles /\ copy # Absent THEN run[t].articles[f] ELSE copy
  BY <1>4, <1>5 DEF Answered, Patched
<1>7. Of(queue, f) \subseteq Gone(t) \cup Refused(t)
  BY AcknowledgeQueue
<1>8. f \in DOMAIN run[t].articles => run[t].articles[f] = expected[f]
  <2>1. \A x \in Of(queue, f) : x \in DOMAIN run[t].results /\ run[t].results[x] # "retry"
    BY <1>7, AcknowledgeKnows
  <2>2. Holding(t) /\ run[t].pc = "answered"
    BY AcknowledgeKnows
  <2>3. QED
    BY <1>1, <2>1, <2>2 DEF AnswerAgrees
<1>9. CASE Of(queue, f) = {}
  BY <1>1, <1>5, <1>6, <1>8, <1>9 DEF LocalAgrees
<1>10. CASE Of(queue, f) # {}
  <2>1. PICK x : x \in Of(queue, f)
    BY <1>10
  <2>2. x \in DOMAIN run[t].sent /\ queue[x].field = run[t].sent[x].field /\ run[t].pc = "answered"
    BY <1>7, <2>1, AcknowledgeKnows
  <2>3. f \in FieldsOf(run[t].sent)
    BY <2>1, <2>2 DEF FieldsOf, Of
  <2>4. f \in DOMAIN run[t].articles
    BY <1>1, <2>2, <2>3 DEF AnswerAgrees, Certain
  <2>5. QED
    BY <1>6, <1>8, <2>4
<1>11. QED
  BY <1>9, <1>10

LEMMA AcknowledgeKeeps ==
  ASSUME Inv, NEW t \in Tabs, Acknowledge(t)
  PROVE  Inv'
<1>1. TypeOK /\ LastCounts /\ ServerAgrees /\ \A u \in Tabs : AnswerAgrees(u) /\ VisitAgrees(u)
  BY DEF Inv, Agreement
<1>2. TypeOK' /\ Agreed' /\ Ordered' /\ TabsKnow'
  BY <1>1, AcknowledgeTypes, AcknowledgeOrder, AcknowledgeTabs
<1>3. UNCHANGED <<epoch, lease, visit, remote, nextId, abandoned>>
  BY Zenon DEF Acknowledge
<1>4. UNCHANGED <<server, handled, abandoned>> /\ SameServer
  BY <1>3 DEF remote, SameServer
<1>5. expected' = Learned(local', queue')
  BY <1>1, AcknowledgeEffect
<1>6. ASSUME NEW f \in Fields
      PROVE  \/ /\ expected'[f] = expected[f] /\ (Certain(f)' => Certain(f))
             \/ /\ expected[f] = Unknown /\ Of(queue, f)' = {} /\ expected'[f] = server[f]
                /\ local'[f] = server[f]
  BY <1>4, <1>5, LearnedFields
<1>7. LastCounts'
  <2> SUFFICES ASSUME NEW f \in Fields, expected'[f] # Unknown, Of(queue, f)' # {}
               PROVE  queue'[Max(Of(queue, f)')].value = expected'[f]
    BY DEF LastCounts
  <2>1. expected'[f] = expected[f]
    BY <1>6
  <2>2. /\ Of(queue, f)' \subseteq Of(queue, f)
        /\ Max(Of(queue, f)') = Max(Of(queue, f)) /\ Max(Of(queue, f)) \in Of(queue, f)'
    BY AcknowledgeQueue
  <2>3. queue[Max(Of(queue, f))].value = expected[f]
    BY <1>1, <2>1, <2>2 DEF LastCounts
  <2>4. Max(Of(queue, f)) \in DOMAIN queue'
    BY <2>2 DEF Of, Active
  <2>5. queue'[Max(Of(queue, f))].value = queue[Max(Of(queue, f))].value
    BY <2>4, AcknowledgeQueue
  <2>6. QED
    BY <2>1, <2>2, <2>3, <2>5
<1>8. ServerAgrees'
  <2> SUFFICES ASSUME NEW f \in Fields, Certain(f)', \A x \in Of(queue, f)' : Handled(x)'
               PROVE  server'[f] = expected'[f]
    BY DEF ServerAgrees
  <2>1. CASE expected'[f] = expected[f] /\ Certain(f)
    <3>1. ASSUME NEW x \in Of(queue, f) PROVE Handled(x)
      <4>1. CASE x \in Gone(t) \cup Refused(t)
        BY <4>1, AcknowledgeKnows
      <4>2. CASE x \in Of(queue, f)'
        BY <1>4, <4>2 DEF Handled
      <4>3. QED
        BY <4>1, <4>2, AcknowledgeQueue
    <3>2. QED
      BY <1>1, <1>4, <2>1, <3>1 DEF ServerAgrees
  <2>2. QED
    BY <1>4, <1>6, <2>1
<1>9. LocalAgrees'
  <2> SUFFICES ASSUME NEW f \in Fields, Certain(f)', Of(queue, f)' = {}
               PROVE  local'[f] \in {expected'[f], Absent}
    BY DEF LocalAgrees
  <2>1. CASE expected'[f] = expected[f] /\ Certain(f)
    BY <2>1, AcknowledgeCopy
  <2>2. QED
    BY <1>6, <2>1
<1>10. ASSUME NEW u \in Tabs PROVE AnswerAgrees(u)'
  <2>1. CASE u = t
    <3>1. run'[t].pc # "answered"
      BY <1>1, AcknowledgeEffect
    <3>2. QED
      BY <2>1, <3>1 DEF AnswerAgrees
  <2>2. CASE u # t
    <3>1. Keeping(u) /\ LeaseKept(u) /\ ~Holding(u)
      BY <2>2, AcknowledgeTabs
    <3>2. Onward
      BY <1>1, <1>4, SameIsOnward
    <3>3. QED
      BY <1>1, <3>1, <3>2, AnswerAgreesKept DEF AnswerHolds
  <2>3. QED
    BY <2>1, <2>2
<1>11. ASSUME NEW u \in Tabs PROVE VisitAgrees(u)'
  <2>1. Holding(t)
    BY AcknowledgeKnows
  <2>2. ~Visiting(u)'
    BY <1>3, <2>1, HoldersDiffer DEF Holding, Visiting, Owns
  <2>3. visit'[u].epoch <= epoch'
    BY <1>1, <1>3 DEF VisitAgrees
  <2>4. QED
    BY <2>2, <2>3 DEF VisitAgrees
<1>12. QED
  BY <1>2, <1>7, <1>8, <1>9, <1>10, <1>11 DEF Inv, Agreement

----------------------------------------------------------------------------
(* The theorems.                                                            *)

LEMMA InitiallyInv == ASSUME Init PROVE Inv
<1>1. /\ queue = <<>> /\ DOMAIN queue = {} /\ epoch = 0 /\ lease = Free /\ unsettled = FALSE
      /\ server = [f \in Fields |-> Initial] /\ local = server /\ expected = server
      /\ session = [t \in Tabs |-> [up |-> TRUE, epoch |-> 0]]
      /\ run = [t \in Tabs |-> IdleRun] /\ visit = [t \in Tabs |-> IdleVisit]
      /\ handled = <<>> /\ DOMAIN handled = {} /\ stray = {} /\ nextId = 1 /\ faults = 0
      /\ changes = 0 /\ abandoned = {}
  BY NothingIsPartial DEF Init
<1>2. ASSUME NEW t \in Tabs
      PROVE  /\ run[t].pc = "idle" /\ DOMAIN run[t].sent = {} /\ DOMAIN run[t].results = {}
             /\ run[t].epoch = 0 /\ visit[t].pc = "idle" /\ visit[t].epoch = 0
  BY <1>1, NothingIsPartial DEF IdleRun, IdleVisit
<1>3. TypeOK
  <2>1. QueueTyped(queue)
    <3>1. Cardinality({}) <= QueueLimit
      BY FS_EmptySet, Numeric
    <3>2. queue \in [{} -> Action]
      BY <1>1
    <3>3. QED
      BY <1>1, <3>1, <3>2 DEF QueueTyped
  <2>2. /\ server \in [Fields -> Values \cup {Absent}] /\ local \in [Fields -> Values \cup {Absent}]
        /\ expected \in [Fields -> Values \cup {Unknown}]
    BY <1>1, Numeric
  <2>3. run \in [Tabs -> Runs] /\ visit \in [Tabs -> Visits]
    BY <1>1, IdleTyped
  <2>4. lease \in Leases /\ handled \in Seq(Receipts)
    BY <1>1 DEF Leases, Free
  <2>5. session \in [Tabs -> [up : BOOLEAN, epoch : 0 .. MaxChanges]]
    BY <1>1, Numeric
  <2>6. /\ epoch \in 0 .. changes /\ nextId \in 1 .. MaxActions + 1
        /\ faults \in 0 .. MaxFaults /\ changes \in 0 .. MaxChanges
    BY <1>1, Numeric
  <2>7. unsettled \in BOOLEAN /\ stray \subseteq Partial(Ids, Intent)
        /\ abandoned \subseteq [id : Ids, intent : Intent]
    BY <1>1
  <2>8. QED
    BY <2>1, <2>2, <2>3, <2>4, <2>5, <2>6, <2>7, TypesByParts
<1>4. Active(queue) = {} /\ \A f : Of(queue, f) = {}
  BY <1>1 DEF Active, Of
<1>5. Agreed
  <2>1. \A i, a : ~Says(i, a)
    BY <1>1, <1>2 DEF Says
  <2>2. QED
    BY <2>1 DEF Agreed
<1>6. Ordered
  <2>1. Flying = {} /\ Live = {}
    BY <1>1, <1>2, <1>4 DEF Flying, Live, Batches, Unhandled
  <2>2. HandledOnceInOrder /\ NoneIsLate /\ FlyingAreQueued /\ OlderTravelAlong
    BY <1>1, <2>1 DEF HandledOnceInOrder, NoneIsLate, FlyingAreQueued, OlderTravelAlong
  <2>3. FailedAreGone /\ StraysCarry
    BY <1>1 DEF FailedAreGone, StraysCarry
  <2>4. QED
    BY <2>2, <2>3 DEF Ordered
<1>7. TabsKnow
  BY <1>1, <1>2 DEF TabsKnow, Answers, Keeps
<1>8. Agreement
  <2>1. LastCounts /\ ServerAgrees /\ LocalAgrees
    BY <1>1, <1>4 DEF LastCounts, ServerAgrees, LocalAgrees
  <2>2. \A t \in Tabs : AnswerAgrees(t) /\ VisitAgrees(t)
    BY <1>1, <1>2 DEF AnswerAgrees, VisitAgrees
  <2>3. QED
    BY <2>1, <2>2 DEF Agreement
<1>9. QED
  BY <1>3, <1>5, <1>6, <1>7, <1>8 DEF Inv

LEMMA InvIsKept == ASSUME Inv, [Next]_vars PROVE Inv'
<1>1. ASSUME NEW t \in Tabs, Synchronize(t) PROVE Inv'
  BY <1>1, CalmStepsKeep, DispatchKeeps, AcknowledgeKeeps DEF Synchronize
<1>2. ASSUME NEW t \in Tabs, Fail(t) \/ Serve(t) PROVE Inv'
  BY <1>2, CalmStepsKeep, FailOrAnswerKeeps, HandleKeeps DEF Fail, Serve
<1>3. ASSUME NEW t \in Tabs, VisitStep(t) \/ Reload(t) \/ SignIn(t) PROVE Inv'
  BY <1>3, CalmStepsKeep, DownloadKeeps, ActivateKeeps, PatchOnlineKeeps, OnlineKeeps DEF VisitStep
<1>4. ASSUME NEW t \in Readers,
             \/ \E fs \in Selections, v \in Values : Assign(t, fs, v)
             \/ VisitAcquire(t) \/ SignOut(t) \/ Discard(t)
      PROVE  Inv'
  <2>1. t \in Tabs
    BY OfflineAssumption
  <2>2. QED
    BY <1>4, <2>1, AssignKeeps, CalmStepsKeep, DiscardKeeps
<1>5. ASSUME NEW s \in stray, HandleStray(s) PROVE Inv'
  BY <1>5, HandleStrayKeeps
<1>6. ASSUME NEW f \in Fields, NEW v \in Values \cup {Absent}, OtherDevice(f, v) PROVE Inv'
  BY <1>6, OtherDeviceKeeps
<1>7. CASE Expire \/ UNCHANGED vars
  BY <1>7, CalmStepsKeep
<1>8. QED
  BY <1>1, <1>2, <1>3, <1>4, <1>5, <1>6, <1>7 DEF Next

\* At all times queue, requests, receipts, leases and the reader's expectations
\* are what they are meant to be.
THEOREM OfflineInvariant == Spec => []Inv
<1>1. Init => Inv
  BY InitiallyInv
<1>2. Inv /\ [Next]_vars => Inv'
  BY InvIsKept
<1>3. QED
  BY <1>1, <1>2, PTL DEF Spec

\* The server handles every action at most once and in the reader's order, but
\* for what the reader discarded (syncActions.js, synchronizeArticleActions;
\* offlineDatabase.js, dispatchActions).
THEOREM ActionsAreHandledOnceInOrder == Spec => []OfflineConsistent
<1>1. Inv => OfflineConsistent
  BY DEF Inv, Ordered, OfflineConsistent
<1>2. QED
  BY <1>1, OfflineInvariant, PTL

\* Once nothing of a field is queued, the copy and the server hold what the
\* reader assigned last (offlineDatabase.js, acknowledgeActions, writeGeneration,
\* reconcileArticles).
THEOREM CopyComesToAgree == Spec => []CopyAgrees
<1>1. Inv => CopyAgrees
  <2>1. SUFFICES ASSUME Inv, NEW f \in Fields, Of(queue, f) = {}, Certain(f)
                 PROVE  server[f] = expected[f] /\ local[f] \in {expected[f], Absent}
    BY DEF CopyAgrees, Certain
  <2>2. ServerAgrees /\ LocalAgrees
    BY <2>1 DEF Inv, Agreement
  <2>3. QED
    BY <2>1, <2>2 DEF ServerAgrees, LocalAgrees
<1>2. QED
  BY <1>1, OfflineInvariant, PTL

LEMMA QueueLeavesWithReason ==
  ASSUME Inv, [Next]_vars, NEW i \in DOMAIN queue
  PROVE  \/ i \in DOMAIN queue'
         \/ Handled(i)
         \/ queue[i].state = "pending" /\ \E j \in Of(queue', queue[i].field) : j >= nextId
         \/ epoch' > epoch /\ DOMAIN queue' = {}
<1>1. TypeOK /\ Agreed
  BY DEF Inv
<1>2. CASE DOMAIN queue' = DOMAIN queue
  BY <1>2
<1>3. ASSUME NEW t \in Readers, NEW fs \in Selections, NEW v \in Values, Assign(t, fs, v)
      PROVE  i \in DOMAIN queue' \/
             (queue[i].state = "pending" /\ \E j \in Of(queue', queue[i].field) : j >= nextId)
  <2>1. /\ DOMAIN queue' = Kept(fs) \cup New(fs)
        /\ \A k \in New(fs) : k \in Nat /\ nextId <= k /\ queue'[k].state = "pending"
    BY <1>1, <1>3, AssignEffect, Zenon
  <2>2. /\ \A f \in Range(fs) : \E k \in New(fs) : queue'[k].field = f
        /\ i \notin Kept(fs) => queue[i].state = "pending" /\ queue[i].field \in Range(fs)
    BY <1>1, <1>3, AssignEffect, Zenon
  <2>3. nextId \in Nat
    BY <1>1, Known
  <2>4. CASE i \notin Kept(fs)
    <3>1. PICK j \in New(fs) : queue'[j].field = queue[i].field
      BY <2>2, <2>4
    <3>2. j \in Of(queue', queue[i].field) /\ j >= nextId
      BY <2>1, <2>3, <3>1 DEF Of, Active
    <3>3. QED
      BY <2>2, <2>4, <3>2
  <2>5. QED
    BY <2>1, <2>4
<1>4. ASSUME NEW t \in Tabs, Acknowledge(t) PROVE i \in DOMAIN queue' \/ Handled(i)
  <2>1. DOMAIN queue' = DOMAIN queue \ Gone(t)
    BY <1>4, AcknowledgeQueue
  <2>2. \A x \in Gone(t) : Handled(x)
    BY <1>4, AcknowledgeKnows
  <2>3. QED
    BY <2>1, <2>2
<1>5. ASSUME NEW t \in Tabs, Discard(t) PROVE epoch' > epoch /\ DOMAIN queue' = {}
  <2>1. DOMAIN queue' = {}
    BY <1>1, <1>5, DiscardEffect
  <2>2. epoch' = epoch + 1 /\ epoch \in Nat
    BY <1>1, <1>5 DEF Discard, TypeOK
  <2>3. QED
    BY <2>1, <2>2
<1>6. ASSUME NEW t \in Tabs, NEW last \in Ids, Dispatch(t, last) \/ GiveUp(t)
      PROVE  DOMAIN queue' = DOMAIN queue
  BY <1>6 DEF Dispatch, GiveUp, Marked
<1>7. ASSUME NEW t \in Tabs,
             \/ Request(t) \/ Acquire(t) \/ DispatchNothing(t) \/ AnswerTooLate(t) \/ Reconcile(t)
             \/ Complete(t) \/ Abandon(t) \/ ValidationFails(t) \/ ReconcileFails(t)
             \/ HandleFails(t)
      PROVE  queue' = queue
  BY <1>7 DEF Request, Acquire, DispatchNothing, AnswerTooLate, Reconcile, Complete, Abandon,
              ValidationFails, ReconcileFails, HandleFails, browser
<1>8. ASSUME NEW t \in Tabs,
             \/ Serve(t) \/ VisitStep(t) \/ Reload(t) \/ SignIn(t) \/ VisitAcquire(t) \/ SignOut(t)
      PROVE  queue' = queue
  BY <1>8, Zenon DEF Serve, VisitStep, Handle, Answer, Download, Activate, PatchOnline, VisitFails,
              Online, Reload, SignIn, VisitAcquire, SignOut, browser
<1>9. ASSUME \/ \E s \in stray : HandleStray(s)
             \/ Expire
             \/ \E f \in Fields, v \in Values \cup {Absent} : OtherDevice(f, v)
             \/ UNCHANGED vars
      PROVE  queue' = queue
  BY <1>9 DEF HandleStray, Expire, OtherDevice, browser, vars
<1>10. Readers \subseteq Tabs
  BY OfflineAssumption
<1>11. ASSUME NEW t \in Tabs, Synchronize(t) \/ Fail(t)
       PROVE  i \in DOMAIN queue' \/ Handled(i)
  <2>1. CASE Acknowledge(t)
    BY <1>4, <2>1
  <2>2. CASE (\E last \in Ids : Dispatch(t, last)) \/ GiveUp(t)
    <3>1. DOMAIN queue' = DOMAIN queue
      BY <1>6, <2>2 DEF GiveUp, Marked
    <3>2. QED
      BY <3>1
  <2>3. CASE \/ Request(t) \/ Acquire(t) \/ DispatchNothing(t) \/ AnswerTooLate(t) \/ Reconcile(t)
             \/ Complete(t) \/ Abandon(t) \/ ValidationFails(t) \/ ReconcileFails(t)
             \/ HandleFails(t)
    <3>1. queue' = queue
      BY <1>7, <2>3
    <3>2. QED
      BY <3>1
  <2>4. QED
    BY <1>11, <2>1, <2>2, <2>3 DEF Synchronize, Fail
<1>12. QED
  BY <1>2, <1>3, <1>5, <1>8, <1>9, <1>10, <1>11, Zenon DEF Next

\* An action leaves the queue only with a receipt, replaced before it was sent,
\* or discarded (offlineDatabase.js, acknowledgeActions, enqueueActions,
\* discardActions).
THEOREM NoActionIsDropped == Spec => NothingIsDropped
<1>1. Inv /\ [Next]_vars =>
        [\A i \in DOMAIN queue :
           \/ i \in DOMAIN queue'
           \/ Handled(i)
           \/ queue[i].state = "pending" /\ \E j \in Of(queue', queue[i].field) : j >= nextId
           \/ epoch' > epoch /\ DOMAIN queue' = {}]_vars
  BY QueueLeavesWithReason
<1>2. QED
  BY <1>1, OfflineInvariant, PTL DEF Spec, NothingIsDropped

LEMMA DebtIsPaid ==
  ASSUME Inv, [Next]_vars, unsettled, ~unsettled'
  PROVE  /\ DOMAIN queue = {}
         /\ \E t \in Tabs : run[t].fresh /\ ~run'[t].fresh
<1>1. TypeOK /\ TabsKnow
  BY DEF Inv
<1>2. ASSUME NEW t \in Tabs, Complete(t)
      PROVE  DOMAIN queue = {} /\ run[t].fresh /\ ~run'[t].fresh
  <2>1. run[t].pc = "completing" /\ DOMAIN queue = {} /\ Holding(t)
    BY <1>2 DEF Complete, Completes, At, Holding
  <2>2. run[t].fresh
    BY <1>1, <2>1 DEF TabsKnow, Keeps
  <2>3. run'[t] = IdleRun /\ ~IdleRun.fresh
    BY <1>1, <1>2 DEF Complete, EndRun, TypeOK, IdleRun
  <2>4. QED
    BY <2>1, <2>2, <2>3
<1>3. ASSUME NEW t \in Tabs, Acknowledge(t) PROVE FALSE
  <2>1. unsettled' = TRUE
    BY <1>3, Zenon DEF Acknowledge
  <2>2. QED
    BY <2>1
<1>4. unsettled' # unsettled
  OBVIOUS
<1>5. ~UNCHANGED browser
  BY <1>4 DEF browser
<1>6. ASSUME NEW t \in Tabs,
             \/ Request(t) \/ Acquire(t) \/ (\E last \in Ids : Dispatch(t, last)) \/ DispatchNothing(t)
             \/ AnswerTooLate(t) \/ Reconcile(t) \/ Abandon(t)
      PROVE  FALSE
  BY <1>4, <1>6 DEF Request, Acquire, Dispatch, DispatchNothing, AnswerTooLate, Reconcile, Abandon,
                    browser
<1>7. ASSUME NEW t \in Tabs, Fail(t) PROVE FALSE
  BY <1>4, <1>7 DEF Fail, ValidationFails, GiveUp, ReconcileFails, HandleFails, browser
<1>8. ASSUME NEW t \in Tabs, Serve(t) \/ VisitStep(t) \/ Reload(t) \/ SignIn(t) PROVE FALSE
  BY <1>4, <1>5, <1>8, Zenon DEF Serve, VisitStep, Handle, Answer, Download, Activate, PatchOnline,
                    VisitFails, Online, Reload, SignIn
<1>9. ASSUME NEW t \in Tabs, NEW fs, NEW v,
             Assign(t, fs, v) \/ VisitAcquire(t) \/ SignOut(t) \/ Discard(t)
      PROVE  FALSE
  BY <1>4, <1>9, Zenon DEF Assign, VisitAcquire, SignOut, Discard
<1>10. ASSUME \/ \E s \in stray : HandleStray(s)
              \/ Expire
              \/ \E f \in Fields, v \in Values \cup {Absent} : OtherDevice(f, v)
              \/ UNCHANGED vars
       PROVE  FALSE
  BY <1>4, <1>10 DEF HandleStray, Expire, OtherDevice, browser, vars
<1>11. Readers \subseteq Tabs
  BY OfflineAssumption
<1>12. QED
  BY <1>2, <1>3, <1>6, <1>7, <1>8, <1>9, <1>10, <1>11, Zenon DEF Next, Synchronize

\* What an acknowledgement left to be reconciled is forgotten only by a run that
\* found the queue empty and the counts fetched after every acknowledgement
\* (offlineDatabase.js, completeReconciliation; articleSynchronization.js).
THEOREM ReconciliationIsEarned == Spec => CompletionIsEarned
<1>1. Inv /\ [Next]_vars =>
        [unsettled /\ ~unsettled' =>
           /\ DOMAIN queue = {}
           /\ \E t \in Tabs : run[t].fresh /\ ~run'[t].fresh]_vars
  BY DebtIsPaid
<1>2. QED
  BY <1>1, OfflineInvariant, PTL DEF Spec, CompletionIsEarned
=============================================================================
