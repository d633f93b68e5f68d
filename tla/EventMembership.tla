--------------------------- MODULE EventMembership ---------------------------
(* Which articles make up an event (services/events: assignArticleToEvent,  *)
(* createEvents, updateEvents, eventReconciliation, developingArticlePointer; *)
(* services/feeds/feedReconciliation.js; the callers of                     *)
(* prepareArticleEventRemoval).                                             *)
(*                                                                          *)
(* Membership is stored on the article; an event's row repeats what follows *)
(* from it: the number of members, a representative and a developing        *)
(* article.  A transaction keeps the rows it locks until it commits, so what *)
(* it reads under lock and writes is one step, at its commit.  What it reads *)
(* without locks may be old by then, and is a step of its own: which        *)
(* articles and event to bring together, and which articles and events a    *)
(* removal is about; so are the rows a removal locks before it locks its    *)
(* articles.  The evidence that makes two articles alike is left out: any   *)
(* pair may match.                                                          *)
EXTENDS Naturals, FiniteSets, FiniteSetsExt

CONSTANTS
  NumArticles,    \* bound: articles of one user; their ids follow their arrival
  NumEvents,      \* bound: events ever created, numbered in that order
  Workers,        \* bound: transactions at a time
  MaxRemoved,     \* bound: articles one removal is about
  MinArticles,    \* MIN_EVENT_ARTICLES
  None

ASSUME MembershipAssumption ==
  /\ {NumArticles, NumEvents, MinArticles, MaxRemoved} \subseteq Nat /\ MinArticles >= 2
  /\ None \notin Nat

VARIABLES
  article,   \* per id: its row, and the articles that had been read when it arrived
  event,     \* per id: its row
  tx         \* per worker: the transaction in progress

vars == <<article, event, tx>>

----------------------------------------------------------------------------
(* Rows.                                                                    *)

Articles == 1 .. NumArticles
Events == 1 .. NumEvents
Kinds == {"join", "create", "remove"}
Idle == [kind |-> "idle", articles |-> {}, first |-> None, events |-> {}, locked |-> FALSE]
NoEvent == [state |-> "new", rep |-> None, dev |-> None, count |-> 0]
GoneEvent == [NoEvent EXCEPT !.state = "gone"]

NoArticle == [state |-> "unsaved", event |-> None, read |-> FALSE, earlier |-> {}]
GoneArticle == [NoArticle EXCEPT !.state = "deleted"]

Saved(a) == article[a].state \in {"listed", "hidden"}
Eligible(a) == article[a].state = "listed"
Live(e) == event[e].state = "live"
Members(e) == {a \in Articles : Eligible(a) /\ article[a].event = e}
Unread(a) == Eligible(a) /\ ~article[a].read
ReadBefore(a, b) == article[a].read /\ a \in article[b].earlier

\* The rows a removal has locked; whoever needs one of them waits.
Rows(w) == IF tx[w].locked THEN tx[w].events ELSE {}
Free(events) == \A w \in Workers : Rows(w) \cap events = {}

Starts(w, transaction) ==
  /\ tx' = [tx EXCEPT ![w] = transaction]
  /\ UNCHANGED <<article, event>>
Ends(w) == tx' = [tx EXCEPT ![w] = Idle]

TypeOK ==
  /\ article \in [Articles -> [state : {"unsaved", "listed", "hidden", "deleted"},
                              event : Events \cup {None}, read : BOOLEAN,
                              earlier : SUBSET Articles]]
  /\ event \in [Events -> [state : {"new", "live", "gone"}, count : 0 .. NumArticles,
                           rep : Articles \cup {None}, dev : Articles \cup {None}]]
  /\ tx \in [Workers -> [kind : Kinds \cup {"idle"}, articles : SUBSET Articles,
                        first : Articles \cup {None}, events : SUBSET Events,
                        locked : BOOLEAN]]

Init ==
  /\ article = [a \in Articles |-> NoArticle]
  /\ event = [e \in Events |-> NoEvent]
  /\ tx = [w \in Workers |-> Idle]

----------------------------------------------------------------------------
(* Articles arrive; users read them; a publisher rule no longer applies.    *)

Arrive(a, state) ==
  /\ article[a].state = "unsaved" /\ \A b \in 1 .. a - 1 : article[b].state # "unsaved"
  /\ article' = [article EXCEPT ![a].state = state,
                                ![a].earlier = {b \in Articles : article[b].read}]
  /\ UNCHANGED <<event, tx>>

MarkRead(a) ==
  /\ Eligible(a) /\ ~article[a].read
  /\ article' = [article EXCEPT ![a].read = TRUE]
  /\ UNCHANGED <<event, tx>>

\* Its next reading is a later one than any article that has arrived.
MarkUnread(a) ==
  /\ Eligible(a) /\ article[a].read
  /\ article' = [b \in Articles |->
       [article[b] EXCEPT !.read = @ /\ b # a, !.earlier = @ \ {a}]]
  /\ UNCHANGED <<event, tx>>

Restore(a) ==
  /\ article[a].state = "hidden"
  /\ article' = [article EXCEPT ![a].state = "listed"]
  /\ UNCHANGED <<event, tx>>

----------------------------------------------------------------------------
(* The developing article.                                                  *)

FirstUnreadAfter(a, members) ==
  {b \in members : Unread(b) /\ ReadBefore(a, b)}

\* selectDevelopingArticleId: the pointer stays while it points to a member.
Selected(rep, dev, members) ==
  IF dev \in members THEN dev
  ELSE IF FirstUnreadAfter(rep, members) # {} THEN Min(FirstUnreadAfter(rep, members))
  ELSE rep

\* A faulty variant of DevelopingOnJoin.
DevelopingOnJoinAsRead(e, a) ==
  LET pointer == IF event[e].dev = None THEN event[e].rep ELSE event[e].dev
  IN IF Unread(a) THEN a ELSE pointer

\* resolveDevelopingArticleIdForAssignment: an unread one is kept, one that had
\* been read when the article arrived gives way to it.
DevelopingOnJoin(e, a) ==
  LET pointer == IF event[e].dev = None THEN event[e].rep ELSE event[e].dev
      present == IF pointer \in Members(e) THEN pointer ELSE event[e].rep
  IN IF present \notin Members(e) THEN Selected(present, pointer, Members(e) \cup {a})
     ELSE IF ~Unread(present) /\ Unread(a) /\ ReadBefore(present, a) THEN a
     ELSE present

----------------------------------------------------------------------------
(* Joining an event: assignArticleToExistingEvent.                          *)

ChooseEvent(w, a, e) ==
  /\ Eligible(a) /\ article[a].event = None /\ Live(e)
  /\ Starts(w, [Idle EXCEPT !.kind = "join", !.articles = {a}, !.first = a, !.events = {e}])

\* A faulty variant of Assignable.
AssignableAnyway(a) == Eligible(a)

Assignable(a) == Eligible(a) /\ article[a].event = None

Join(w, e) ==
  LET a == tx[w].first
  IN /\ tx[w].kind = "join" /\ tx[w].events = {e}
     /\ Free({e}) /\ Live(e) /\ Assignable(a)
     /\ article' = [article EXCEPT ![a].event = e]
     /\ event' = [event EXCEPT ![e].dev = DevelopingOnJoin(e, a),
                               ![e].count = Cardinality(Members(e)) + 1]
     /\ Ends(w)

----------------------------------------------------------------------------
(* Creating one from eventless articles: createAndAssignEvent.              *)

ChooseGroup(w, group, seed) ==
  /\ \A a \in group : Eligible(a) /\ article[a].event = None
  /\ Cardinality(group) >= MinArticles /\ seed \in group
  /\ \E e \in Events : event[e].state = "new"
  /\ Starts(w, [Idle EXCEPT !.kind = "create", !.articles = group, !.first = seed])

\* selectInitialArticlePointers: coverage read before the seed arrived is the anchor.
Anchors(group, seed) ==
  IF Unread(seed) THEN {a \in group \ {seed} : ReadBefore(a, seed)} ELSE {}

Create(w, e) ==
  LET group == tx[w].articles
      seed == tx[w].first
  IN /\ tx[w].kind = "create" /\ event[e].state = "new"
     /\ \A d \in 1 .. e - 1 : event[d].state # "new"
     /\ \A a \in group : Assignable(a)
     /\ event' = [event EXCEPT ![e] =
          [state |-> "live", dev |-> seed, count |-> Cardinality(group),
           rep |-> IF Anchors(group, seed) = {} THEN seed ELSE Min(Anchors(group, seed))]]
     /\ article' = [a \in Articles |-> IF a \in group THEN [article[a] EXCEPT !.event = e]
                                       ELSE article[a]]
     /\ Ends(w)

----------------------------------------------------------------------------
(* Removing articles from their events, in the transaction that hides,      *)
(* deletes or detaches them (prepareArticleEventRemoval), or repairs an     *)
(* event (reconcileTouchedEvents).                                          *)

EventsOf(group) == {article[a].event : a \in group} \ {None}

Find(w, group) ==
  /\ Cardinality(group) \in 1 .. MaxRemoved /\ \A a \in group : Saved(a)
  /\ Starts(w, [Idle EXCEPT !.kind = "remove", !.articles = group, !.events = EventsOf(group)])

PointingTo(group) == {e \in Events : {event[e].rep, event[e].dev} \cap group # {}}

LockFoundEvents(w) ==
  LET found == {e \in tx[w].events \cup PointingTo(tx[w].articles) : Live(e)}
  IN /\ tx[w].kind = "remove" /\ ~tx[w].locked /\ Free(found)
     /\ tx' = [tx EXCEPT ![w].events = found, ![w].locked = TRUE]
     /\ UNCHANGED <<article, event>>

\* What the statement that locks the articles still selects: all that are there
\* or, of those a clean-up or a repair is about, the ones still in question.
Targets(w) == SUBSET {a \in tx[w].articles : Saved(a)} \ {{}}

\* A faulty variant of TouchedEvents.
TouchedEventsAsFound(w, targets) == tx[w].events

\* The events locked and those the articles have joined since.
TouchedEvents(w, targets) == tx[w].events \cup EventsOf(targets)

\* A faulty variant of Representative.
RepresentativeAfresh(e, members) == Min(members)

Representative(e, members) == IF event[e].rep \in members THEN event[e].rep ELSE Min(members)

Reconciled(e, members) ==
  LET rep == Representative(e, members)
  IN IF Cardinality(members) < 2 THEN GoneEvent
     ELSE [event[e] EXCEPT !.rep = rep, !.dev = Selected(rep, event[e].dev, members),
                           !.count = Cardinality(members)]

\* Deleting its representative deletes an event.
EventsAfter(touched, remaining, erased) ==
  [e \in Events |-> IF e \in touched THEN Reconciled(e, remaining[e])
                    ELSE IF Live(e) /\ event[e].rep \in erased THEN GoneEvent ELSE event[e]]

\* An article that was in event e stays there, unless it is removed or the event
\* is gone.  (An ineligible one would be detached too; EventsMatchMembers says
\* that there is none.)
EventAfter(a, e, removed) ==
  IF a \in removed \/ e = None THEN None
  ELSE IF event'[e].state = "gone" THEN None ELSE e

Remove(w, targets, fate) ==
  LET touched == TouchedEvents(w, targets)
      remaining == [e \in touched |-> Members(e) \ targets]
  IN /\ Free(touched \ tx[w].events)
     /\ event' = EventsAfter(touched, remaining, IF fate = "deleted" THEN targets ELSE {})
     /\ article' = [a \in Articles |->
          IF a \in targets /\ fate = "deleted" THEN GoneArticle
          ELSE [article[a] EXCEPT
                  !.event = EventAfter(a, @, targets),
                  !.state = IF a \in targets /\ fate = "hidden" THEN "hidden" ELSE @,
                  !.earlier = IF fate = "deleted" THEN @ \ targets ELSE @]]
     /\ Ends(w)

Reconcile(e) ==
  /\ Live(e) /\ Free({e})
  /\ event' = [event EXCEPT ![e] = Reconciled(e, Members(e))]
  /\ UNCHANGED <<article, tx>>

----------------------------------------------------------------------------
(* Two feeds turn out to be one (transferArticles): both articles are locked *)
(* before anything is read, the one that stays takes the event of the other *)
(* if it has none.                                                          *)

Merge(survivor, loser) ==
  LET own == article[survivor].event
      place == IF own = None THEN article[loser].event ELSE own
      touched == {place, article[loser].event} \ {None}
      heirs(e) == IF e = place THEN {survivor} ELSE {}
      remaining == [e \in touched |-> (Members(e) \ {loser}) \cup heirs(e)]
  IN /\ survivor # loser /\ Saved(survivor) /\ Saved(loser) /\ Free(touched)
     /\ event' = EventsAfter(touched, remaining, {loser})
     /\ article' = [a \in Articles |->
          IF a = loser THEN GoneArticle
          ELSE [article[a] EXCEPT
                  !.event = EventAfter(a, IF a = survivor THEN place ELSE @, {loser}),
                  !.state = IF a = survivor /\ Eligible(loser) THEN "listed" ELSE @,
                  !.read = @ \/ (a = survivor /\ article[loser].read),
                  !.earlier = IF loser \in @ THEN (@ \ {loser}) \cup {survivor} ELSE @]]
     /\ UNCHANGED tx

----------------------------------------------------------------------------
\* A transaction rolls back: the rows have changed, the evidence is too weak,
\* it is the victim of a deadlock, or its process dies.
RollBack(w) == tx[w] # Idle /\ Ends(w) /\ UNCHANGED <<article, event>>

Begin(w) ==
  /\ tx[w] = Idle
  /\ \/ \E a \in Articles, e \in Events : ChooseEvent(w, a, e)
     \/ \E group \in SUBSET Articles, seed \in Articles : ChooseGroup(w, group, seed)
     \/ \E group \in SUBSET Articles : Find(w, group)

Commit(w) ==
  \/ \E e \in Events : Join(w, e) \/ Create(w, e)
  \/ tx[w].locked /\ \E targets \in Targets(w), fate \in {"hidden", "deleted", "detached"} :
                       Remove(w, targets, fate)

Reader(a) ==
  \/ MarkRead(a) \/ MarkUnread(a) \/ Restore(a)
  \/ \E state \in {"listed", "hidden"} : Arrive(a, state)

Next ==
  \/ \E w \in Workers : Begin(w) \/ LockFoundEvents(w) \/ Commit(w) \/ RollBack(w)
  \/ \E a, b \in Articles : Merge(a, b)
  \/ \E e \in Events : Reconcile(e)
  \/ \E a \in Articles : Reader(a)

Spec == Init /\ [][Next]_vars

----------------------------------------------------------------------------
(* Properties.                                                              *)

\* An event's row agrees with the articles that name it, whichever joins,
\* creations, removals and merges run at the same time: it has at least two
\* members, all of them listed, counts them all, and both pointers name
\* members; and no article names an event that is gone.
EventsMatchMembers ==
  /\ TypeOK
  /\ \A e \in Events : Live(e) =>
       /\ event[e].count = Cardinality(Members(e)) /\ event[e].count >= 2
       /\ {event[e].rep, event[e].dev} \subseteq Members(e)
  /\ \A a \in Articles : article[a].event # None => Eligible(a) /\ Live(article[a].event)

\* The representative of an event is replaced only when it is no member any more.
RepresentativeIsStable ==
  [][\A e \in Events : Live(e) /\ Live(e)' /\ event'[e].rep # event[e].rep =>
       event[e].rep \notin Members(e)']_event

\* An unread developing article gives way to no other while it is a member.
UnreadDevelopingIsSticky ==
  [][\A e \in Events : Live(e) /\ Live(e)' /\ event'[e].dev # event[e].dev =>
       ~Unread(event[e].dev) \/ event[e].dev \notin Members(e)']_event

\* An article leaves an event only into none, because it was removed itself or
\* because fewer than two members were left: it is never taken over by another
\* event, however old the choice of its transaction was.
MembershipEndsForAReason ==
  [][\A a \in Articles :
       LET e == article[a].event
       IN e # None /\ article'[a].event # e =>
            /\ article'[a].event = None
            /\ \/ \E w \in Workers : tx[w].locked /\ a \in tx[w].articles /\ tx'[w] = Idle
               \/ article'[a].state = "deleted"
               \/ event'[e].state = "gone"]_article
=============================================================================
