--------------------------- MODULE DerivedDataProofs ---------------------------
(***************************************************************************)
(* What is derived from articles stays true to them.                       *)
(*                                                                         *)
(* An event's row agrees with its members, for any number of articles,     *)
(* events and transactions.  The promise is inductive together with what   *)
(* transactions remember of their choice (Remembered): a removal leaves    *)
(* the events it has not found alone, because an event that an article     *)
(* belongs to, or that points to it, is found through that article's row.  *)
(*                                                                         *)
(* A completed refresh has missed no reader action, for any number of      *)
(* workers and requests.  The promise is inductive together with what      *)
(* those who are at work for the present request have seen (Answers): they *)
(* and everyone who was evaluated later account for every action, so that  *)
(* whichever of them is the last to write, the score that stays does too.  *)
(***************************************************************************)
EXTENDS EventMembership, PersonalizationRefresh, FiniteSetTheorems, WellFoundedInduction, TLAPS

ArticleRow == [state : {"unsaved", "listed", "hidden", "deleted"},
               event : Events \cup {None}, read : BOOLEAN, earlier : SUBSET Articles]
EventRow == [state : {"new", "live", "gone"}, count : 0 .. NumArticles,
             rep : Articles \cup {None}, dev : Articles \cup {None}]
Transaction == [kind : Kinds \cup {"idle"}, articles : SUBSET Articles,
                first : Articles \cup {None}, events : SUBSET Events, locked : BOOLEAN]

\* What a transaction remembers of the articles it has chosen.
Remembered ==
  \A w \in Workers :
    /\ tx[w].kind = "join" => tx[w].first \in Articles
    /\ tx[w].kind = "create" => /\ tx[w].first \in tx[w].articles
                                /\ Cardinality(tx[w].articles) >= 2

\* A row of an event agrees with a set of members.
Agrees(r, members) ==
  r.state = "live" => /\ r.count = Cardinality(members) /\ r.count >= 2
                      /\ r.rep \in members /\ r.dev \in members

\* A live event that stays one keeps its row or is reconciled with its members.
KeptOrReconciled ==
  \A e \in Events : Live(e) /\ Live(e)' =>
    event'[e] = event[e] \/ event'[e] = Reconciled(e, Members(e)')

RowsAgree == \A e \in Events : Agrees(event[e], Members(e))
NamesAreLive == \A a \in Articles : article[a].event # None => Eligible(a) /\ Live(article[a].event)

Inv == TypeOK /\ Remembered /\ RowsAgree /\ NamesAreLive

----------------------------------------------------------------------------
(* Numbers and sets.                                                       *)

LEMMA Numeric == /\ NumArticles \in Nat /\ NumEvents \in Nat
                 /\ MinArticles \in Nat /\ MinArticles >= 2 /\ None \notin Nat
BY MembershipAssumption

LEMMA Typing ==
  TypeOK <=> /\ article \in [Articles -> ArticleRow] /\ event \in [Events -> EventRow]
             /\ tx \in [Workers -> Transaction]
BY DEF TypeOK, ArticleRow, EventRow, Transaction

LEMMA TypingNext ==
  TypeOK' <=> /\ article' \in [Articles -> ArticleRow] /\ event' \in [Events -> EventRow]
              /\ tx' \in [Workers -> Transaction]
BY DEF TypeOK, ArticleRow, EventRow, Transaction

LEMMA NoneIsNobody == None \notin Articles /\ None \notin Events
BY Numeric DEF Articles, Events

LEMMA Counting ==
  ASSUME NEW members \in SUBSET Articles
  PROVE  IsFiniteSet(members) /\ Cardinality(members) \in 0 .. NumArticles
<1>1. IsFiniteSet(Articles) /\ Cardinality(Articles) = NumArticles
  BY FS_Interval, Numeric DEF Articles
<1>2. IsFiniteSet(members) /\ Cardinality(members) <= Cardinality(Articles)
  BY <1>1, FS_Subset
<1>3. QED
  BY <1>1, <1>2, FS_CardinalityType

Smaller == {pair \in Nat \X Nat : pair[1] < pair[2]}

LEMMA SmallerIsWellFounded == IsWellFoundedOn(Smaller, Nat)
<1>1. OpToRel(<, Nat) = Smaller
  BY Zenon DEF OpToRel, Smaller
<1>2. QED
  BY <1>1, NatLessThanWellFounded, Zenon

LEMMA FirstIsMember ==
  ASSUME NEW members \in SUBSET Articles, members # {}
  PROVE  Min(members) \in members
<1>1. members \subseteq Nat
  BY Numeric DEF Articles
<1>2. PICK x \in members : \A y \in members : ~ (<<y, x>> \in Smaller)
  BY <1>1, SmallerIsWellFounded, WFMin, Zenon
<1>3. \A y \in members : x <= y
  <2>1. TAKE y \in members
  <2>2. <<y, x>> \notin Smaller /\ y \in Nat /\ x \in Nat
    BY <1>1, <1>2
  <2>3. ~(y < x)
    BY <2>2 DEF Smaller
  <2>4. QED
    BY <2>2, <2>3
<1>4. QED
  BY <1>3 DEF Min

LEMMA SelectedIsMember ==
  ASSUME NEW members \in SUBSET Articles, NEW rep \in members, NEW dev
  PROVE  Selected(rep, dev, members) \in members
<1>1. FirstUnreadAfter(rep, members) \in SUBSET Articles
  BY DEF FirstUnreadAfter
<1>2. QED
  BY <1>1, FirstIsMember DEF Selected, FirstUnreadAfter

\* Reconciliation makes a live event's row agree with the members it is given,
\* and deletes the event if they are too few; it creates none.
LEMMA ReconciledAgrees ==
  ASSUME TypeOK, NEW e \in Events, NEW members \in SUBSET Articles
  PROVE  /\ Reconciled(e, members) \in EventRow
         /\ Agrees(Reconciled(e, members), members)
         /\ Reconciled(e, members).state # "gone" =>
              Cardinality(members) >= 2 /\ Reconciled(e, members).state = event[e].state
<1>1. event[e] \in EventRow
  BY Typing
<1>2. IsFiniteSet(members) /\ Cardinality(members) \in 0 .. NumArticles
  BY Counting
<1>3. CASE Cardinality(members) < 2
  BY <1>3, Numeric DEF Reconciled, GoneEvent, NoEvent, EventRow, Agrees
<1>4. CASE ~(Cardinality(members) < 2)
  <2>1. members # {}
    BY <1>2, <1>4, FS_EmptySet
  <2>2. Representative(e, members) \in members
    BY <2>1, FirstIsMember DEF Representative
  <2>3. Selected(Representative(e, members), event[e].dev, members) \in members
    BY <2>2, SelectedIsMember
  <2>4. PICK rep \in members, dev \in members :
          Reconciled(e, members) =
            [event[e] EXCEPT !.rep = rep, !.dev = dev, !.count = Cardinality(members)]
    BY <1>4, <2>2, <2>3 DEF Reconciled
  <2>5. Reconciled(e, members) \in EventRow
    BY <1>1, <1>2, <2>4 DEF EventRow
  <2>6. /\ Reconciled(e, members).rep = rep /\ Reconciled(e, members).dev = dev
        /\ Reconciled(e, members).count = Cardinality(members)
        /\ Reconciled(e, members).state = event[e].state
    BY <1>1, <2>4 DEF EventRow
  <2>7. Cardinality(members) >= 2
    BY <1>2, <1>4, Numeric
  <2>8. QED
    BY <2>5, <2>6, <2>7 DEF Agrees
<1>5. QED
  BY <1>3, <1>4

----------------------------------------------------------------------------
(* Steps that change no membership.                                        *)

LEMMA InitInv == Init => Inv
<1>1. SUFFICES ASSUME Init PROVE Inv
  OBVIOUS
<1>2. TypeOK
  BY <1>1, Numeric DEF Init, TypeOK, NoArticle, NoEvent, Idle, Kinds
<1>3. QED
  BY <1>1, <1>2 DEF Init, Inv, Remembered, RowsAgree, NamesAreLive, Agrees, NoArticle, NoEvent, Idle

\* A step that keeps the events, and of every article its event and whether it
\* is listed unless it has no event, keeps the invariant.
LEMMA QuietInv ==
  ASSUME Inv, TypeOK', UNCHANGED event, Remembered',
         \A a \in Articles : /\ article'[a].event = article[a].event
                             /\ article'[a].state = article[a].state \/ article[a].event = None
  PROVE  Inv'
<1>1. \A e \in Events : Members(e)' = Members(e)
  BY NoneIsNobody DEF Inv, Members, Eligible, NamesAreLive
<1>2. RowsAgree'
  BY <1>1 DEF Inv, RowsAgree
<1>3. NamesAreLive'
  BY DEF Inv, NamesAreLive, Eligible, Live
<1>4. QED
  BY <1>2, <1>3 DEF Inv

LEMMA ReaderInv == ASSUME Inv, NEW a \in Articles, Reader(a) PROVE Inv'
<1>1. article \in [Articles -> ArticleRow]
  BY Typing DEF Inv
<1>2. CASE MarkRead(a)
  <2>1. TypeOK'
    BY <1>1, <1>2, Typing, TypingNext DEF Inv, MarkRead, ArticleRow
  <2>2. QED
    BY <1>1, <1>2, <2>1, QuietInv DEF Inv, MarkRead, ArticleRow, Remembered
<1>3. CASE MarkUnread(a)
  <2>1. TypeOK'
    BY <1>1, <1>3, Typing, TypingNext DEF Inv, MarkUnread, ArticleRow
  <2>2. QED
    BY <1>1, <1>3, <2>1, QuietInv DEF Inv, MarkUnread, ArticleRow, Remembered
<1>4. CASE Restore(a)
  <2>1. TypeOK'
    BY <1>1, <1>4, Typing, TypingNext DEF Inv, Restore, ArticleRow
  <2>2. article[a].event = None
    BY <1>4 DEF Inv, Restore, NamesAreLive, Eligible
  <2>3. QED
    BY <1>1, <1>4, <2>1, <2>2, QuietInv DEF Inv, Restore, ArticleRow, Remembered
<1>5. ASSUME NEW state \in {"listed", "hidden"}, Arrive(a, state)
      PROVE  Inv'
  <2>1. TypeOK'
    <3> DEFINE saved == [article EXCEPT ![a].state = state]
               seen == {b \in Articles : article[b].read}
    <3>1. saved \in [Articles -> ArticleRow]
      BY <1>1 DEF ArticleRow
    <3>2. [saved EXCEPT ![a].earlier = seen] \in [Articles -> ArticleRow]
      <4>1. seen \in SUBSET Articles
        OBVIOUS
      <4>2. \A f \in [Articles -> ArticleRow], s \in SUBSET Articles :
              [f EXCEPT ![a].earlier = s] \in [Articles -> ArticleRow]
        BY DEF ArticleRow
      <4>3. QED
        BY <3>1, <4>1, <4>2
    <3>3. article' = [saved EXCEPT ![a].earlier = seen]
      BY <1>5 DEF Arrive
    <3>4. QED
      BY <1>5, <3>2, <3>3, Typing, TypingNext DEF Inv, Arrive
  <2>2. article[a].event = None
    BY <1>5 DEF Inv, Arrive, NamesAreLive, Eligible
  <2>3. QED
    BY <1>1, <1>5, <2>1, <2>2, QuietInv DEF Inv, Arrive, ArticleRow, Remembered
<1>6. QED
  BY <1>2, <1>3, <1>4, <1>5 DEF Reader

LEMMA BeginInv == ASSUME Inv, NEW w \in Workers, Begin(w) PROVE Inv'
<1>1. ASSUME NEW t \in Transaction, Starts(w, t),
             t.kind = "join" => t.first \in Articles,
             t.kind = "create" => t.first \in t.articles /\ Cardinality(t.articles) >= 2
      PROVE  Inv'
  <2>1. TypeOK' /\ Remembered'
    BY <1>1, Typing, TypingNext DEF Inv, Starts, Remembered
  <2>2. QED
    BY <1>1, <2>1, QuietInv DEF Inv, Starts
<1>2. ASSUME NEW a \in Articles, NEW e \in Events, ChooseEvent(w, a, e)
      PROVE  Inv'
  BY <1>1, <1>2 DEF ChooseEvent, Idle, Transaction, Kinds
<1>3. ASSUME NEW group \in SUBSET Articles, NEW seed \in Articles, ChooseGroup(w, group, seed)
      PROVE  Inv'
  <2>1. Cardinality(group) \in Nat /\ Cardinality(group) >= 2
    BY <1>3, Counting, Numeric DEF ChooseGroup
  <2>2. QED
    BY <1>1, <1>3, <2>1 DEF ChooseGroup, Idle, Transaction, Kinds
<1>4. ASSUME NEW group \in SUBSET Articles, Find(w, group)
      PROVE  Inv'
  <2>1. EventsOf(group) \subseteq Events
    BY Typing DEF Inv, EventsOf, ArticleRow
  <2>2. QED
    BY <1>1, <1>4, <2>1 DEF Find, Idle, Transaction, Kinds
<1>5. QED
  BY <1>2, <1>3, <1>4 DEF Begin

LEMMA LockFoundEventsInv == ASSUME Inv, NEW w \in Workers, LockFoundEvents(w) PROVE Inv'
<1> DEFINE found == {e \in tx[w].events \cup PointingTo(tx[w].articles) : Live(e)}
           having == [tx EXCEPT ![w].events = found]
<1>1. tx \in [Workers -> Transaction] /\ found \in SUBSET Events
  BY Typing DEF Inv, PointingTo, Transaction
<1>2. \A f \in [Workers -> Transaction], s \in SUBSET Events :
        LET g == [f EXCEPT ![w].events = s]
        IN  /\ g \in [Workers -> Transaction]
            /\ \A v \in Workers : /\ g[v].kind = f[v].kind /\ g[v].first = f[v].first
                                  /\ g[v].articles = f[v].articles
  BY DEF Transaction
<1>3. \A f \in [Workers -> Transaction] :
        LET g == [f EXCEPT ![w].locked = TRUE]
        IN  /\ g \in [Workers -> Transaction]
            /\ \A v \in Workers : /\ g[v].kind = f[v].kind /\ g[v].first = f[v].first
                                  /\ g[v].articles = f[v].articles
  BY DEF Transaction
<1>4. tx' = [having EXCEPT ![w].locked = TRUE]
  BY DEF LockFoundEvents
<1> HIDE DEF found
<1>5. /\ tx' \in [Workers -> Transaction]
      /\ \A v \in Workers : /\ tx'[v].kind = tx[v].kind /\ tx'[v].first = tx[v].first
                            /\ tx'[v].articles = tx[v].articles
  <2>1. /\ having \in [Workers -> Transaction]
        /\ \A v \in Workers : /\ having[v].kind = tx[v].kind /\ having[v].first = tx[v].first
                              /\ having[v].articles = tx[v].articles
    BY <1>1, <1>2
  <2> HIDE DEF having
  <2>2. QED
    BY <1>3, <1>4, <2>1
<1>6. TypeOK' /\ Remembered'
  <2>1. TypeOK'
    BY <1>5, Typing, TypingNext DEF Inv, LockFoundEvents
  <2>2. QED
    BY <1>5, <2>1 DEF Inv, Remembered
<1>7. QED
  BY <1>6, QuietInv DEF Inv, LockFoundEvents

\* A transaction that ends remembers nothing.
LEMMA EndsForgets ==
  ASSUME Inv, NEW w \in Workers, Ends(w)
  PROVE  tx' \in [Workers -> Transaction] /\ Remembered'
BY Typing DEF Inv, Ends, Idle, Transaction, Remembered

LEMMA RollBackInv == ASSUME Inv, NEW w \in Workers, RollBack(w) PROVE Inv'
<1>1. TypeOK' /\ Remembered'
  BY Typing, TypingNext, EndsForgets DEF Inv, RollBack
<1>2. QED
  BY <1>1, QuietInv DEF Inv, RollBack

----------------------------------------------------------------------------
(* Joining and creating.                                                   *)

LEMMA JoinInv ==
  ASSUME Inv, NEW w \in Workers, NEW e \in Events, Join(w, e)
  PROVE  Inv'
<1> DEFINE a == tx[w].first
<1>1. /\ a \in Articles /\ article \in [Articles -> ArticleRow] /\ event \in [Events -> EventRow]
      /\ Live(e) /\ Eligible(a) /\ article[a].event = None
  BY Typing DEF Inv, Remembered, Join, Assignable
<1>2. /\ Members(e) \in SUBSET Articles /\ a \notin Members(e)
      /\ {event[e].rep, event[e].dev} \subseteq Members(e)
      /\ event[e].count = Cardinality(Members(e)) /\ event[e].count >= 2
  BY <1>1, NoneIsNobody DEF Inv, RowsAgree, Agrees, Members, Live
<1>3. /\ Cardinality(Members(e) \cup {a}) = Cardinality(Members(e)) + 1
      /\ Cardinality(Members(e)) + 1 \in 0 .. NumArticles
      /\ Cardinality(Members(e)) + 1 >= 2
  <2>1. IsFiniteSet(Members(e)) /\ Cardinality(Members(e)) \in 0 .. NumArticles
    BY <1>2, Counting
  <2>2. Cardinality(Members(e) \cup {a}) = Cardinality(Members(e)) + 1
    BY <1>2, <2>1, FS_AddElement
  <2>3. Cardinality(Members(e) \cup {a}) \in 0 .. NumArticles
    BY <1>1, <1>2, Counting
  <2>4. QED
    BY <1>2, <2>1, <2>2, <2>3, Numeric
<1>4. DevelopingOnJoin(e, a) \in Members(e) \cup {a}
  <2>1. event[e].dev # None
    BY <1>2, NoneIsNobody
  <2>2. QED
    BY <1>1, <1>2, <2>1 DEF DevelopingOnJoin
<1>5. /\ article' = [article EXCEPT ![a].event = e]
      /\ event' = [event EXCEPT ![e].dev = DevelopingOnJoin(e, a),
                                ![e].count = Cardinality(Members(e)) + 1]
      /\ Ends(w)
  BY DEF Join
<1> HIDE DEF a
<1>6. TypeOK' /\ Remembered'
  <2>1. article' \in [Articles -> ArticleRow]
    BY <1>1, <1>5 DEF ArticleRow
  <2>2. event' \in [Events -> EventRow]
    BY <1>1, <1>2, <1>3, <1>4, <1>5 DEF EventRow
  <2>3. QED
    BY <1>5, <2>1, <2>2, TypingNext, EndsForgets
<1>7. Members(e)' = Members(e) \cup {a} /\ \A d \in Events \ {e} : Members(d)' = Members(d)
  BY <1>1, <1>5, NoneIsNobody DEF Members, Eligible, ArticleRow
<1>8. RowsAgree'
  <2>1. Agrees(event'[e], Members(e)')
    <3>1. /\ event'[e].count = Cardinality(Members(e)) + 1
          /\ event'[e].rep = event[e].rep /\ event'[e].dev = DevelopingOnJoin(e, a)
      BY <1>1, <1>5 DEF EventRow
    <3>2. QED
      BY <1>2, <1>3, <1>4, <1>7, <3>1 DEF Agrees
  <2>2. \A d \in Events \ {e} : Agrees(event'[d], Members(d)')
    BY <1>1, <1>5, <1>7 DEF Inv, RowsAgree
  <2>3. QED
    BY <2>1, <2>2 DEF RowsAgree
<1>9. NamesAreLive'
  BY <1>1, <1>5 DEF Inv, NamesAreLive, Eligible, Live, ArticleRow, EventRow
<1>10. QED
  BY <1>6, <1>8, <1>9 DEF Inv

LEMMA CreateInv ==
  ASSUME Inv, NEW w \in Workers, NEW e \in Events, Create(w, e)
  PROVE  Inv'
<1> DEFINE group == tx[w].articles
           seed == tx[w].first
           anchors == Anchors(group, seed)
           rep == IF anchors = {} THEN seed ELSE Min(anchors)
<1>1. /\ group \in SUBSET Articles /\ seed \in group /\ Cardinality(group) >= 2
      /\ article \in [Articles -> ArticleRow] /\ event \in [Events -> EventRow]
      /\ \A a \in group : Eligible(a) /\ article[a].event = None
      /\ event[e].state = "new"
  BY Typing DEF Inv, Remembered, Create, Assignable, Transaction
<1>2. Cardinality(group) \in 0 .. NumArticles
  BY <1>1, Counting
<1>3. rep \in group
  BY <1>1, FirstIsMember DEF Anchors
<1>4. /\ event' = [event EXCEPT ![e] = [state |-> "live", dev |-> seed,
                                       count |-> Cardinality(group), rep |-> rep]]
      /\ article' = [a \in Articles |-> IF a \in group THEN [article[a] EXCEPT !.event = e]
                                        ELSE article[a]]
      /\ Ends(w)
  BY DEF Create
<1> HIDE DEF group, seed, rep, anchors
<1>5. TypeOK' /\ Remembered'
  <2>1. article' \in [Articles -> ArticleRow]
    BY <1>1, <1>4 DEF ArticleRow
  <2>2. event' \in [Events -> EventRow]
    BY <1>1, <1>2, <1>3, <1>4 DEF EventRow
  <2>3. QED
    BY <1>4, <2>1, <2>2, TypingNext, EndsForgets
<1>6. \A a \in Articles : article[a].event # e
  BY <1>1, NoneIsNobody DEF Inv, NamesAreLive, Live
<1>7. Members(e)' = group /\ \A d \in Events \ {e} : Members(d)' = Members(d)
  BY <1>1, <1>4, <1>6, NoneIsNobody DEF Members, Eligible, ArticleRow
<1>8. RowsAgree'
  BY <1>1, <1>3, <1>4, <1>7 DEF Inv, RowsAgree, Agrees
<1>9. NamesAreLive'
  <2>1. SUFFICES ASSUME NEW a \in Articles, article'[a].event # None
                 PROVE  Eligible(a)' /\ Live(article[a].event)'
    BY DEF NamesAreLive
  <2>2. CASE a \in group
    BY <1>1, <1>4, <2>2 DEF Eligible, Live, ArticleRow
  <2>3. CASE a \notin group
    BY <1>1, <1>4, <1>6, <2>1, <2>3 DEF Inv, NamesAreLive, Eligible, Live
  <2>4. QED
    BY <2>2, <2>3
<1>10. QED
  BY <1>5, <1>8, <1>9 DEF Inv

----------------------------------------------------------------------------
(* Removing, repairing and merging.                                        *)

\* Events that are not touched keep their rows and members if the articles that
\* go were in none of them; those touched agree with what remains of them.
LEMMA AfterInv ==
  ASSUME Inv, NEW touched \in SUBSET Events, NEW remaining \in [touched -> SUBSET Articles],
         NEW erased \in SUBSET Articles,
         event' = EventsAfter(touched, remaining, erased),
         article' \in [Articles -> ArticleRow], tx' \in [Workers -> Transaction], Remembered',
         \A a \in erased : article[a].event \in touched \cup {None},
         \A e \in touched : event'[e].state # "gone" => Members(e)' = remaining[e],
         \A e \in Events \ touched : Members(e)' = Members(e),
         NamesAreLive'
  PROVE  Inv' /\ KeptOrReconciled
<1>1. event \in [Events -> EventRow]
  BY Typing DEF Inv
<1>2. ASSUME NEW e \in Events \ touched PROVE event'[e] = event[e]
  <2>1. Live(e) => event[e].rep \in Members(e)
    BY DEF Inv, RowsAgree, Agrees, Live
  <2>2. Live(e) => event[e].rep \notin erased
    BY <2>1, NoneIsNobody DEF Members
  <2>3. QED
    BY <2>2 DEF EventsAfter
<1>3. ASSUME NEW e \in touched PROVE event'[e] = Reconciled(e, remaining[e])
  BY DEF EventsAfter
<1>4. event' \in [Events -> EventRow]
  <2>1. \A e \in Events : event'[e] \in EventRow
    BY <1>1, <1>2, <1>3, ReconciledAgrees DEF Inv
  <2>2. event' = [e \in Events |-> event'[e]]
    BY DEF EventsAfter
  <2>3. QED
    BY <2>1, <2>2
<1>5. RowsAgree'
  <2>1. SUFFICES ASSUME NEW e \in Events PROVE Agrees(event'[e], Members(e)')
    BY DEF RowsAgree
  <2>2. CASE e \in touched
    BY <1>3, <2>2, ReconciledAgrees DEF Inv, Agrees
  <2>3. CASE e \notin touched
    BY <1>2, <2>3 DEF Inv, RowsAgree
  <2>4. QED
    BY <2>2, <2>3
<1>6. KeptOrReconciled
  BY <1>2, <1>3 DEF KeptOrReconciled, Live
<1>7. QED
  BY <1>4, <1>5, <1>6, TypingNext DEF Inv

LEMMA RemoveInv ==
  ASSUME Inv, NEW w \in Workers, tx[w].locked, NEW targets \in Targets(w),
         NEW fate \in {"hidden", "deleted", "detached"}, Remove(w, targets, fate)
  PROVE  Inv' /\ KeptOrReconciled
<1> DEFINE touched == TouchedEvents(w, targets)
           remaining == [e \in touched |-> Members(e) \ targets]
           erased == IF fate = "deleted" THEN targets ELSE {}
<1>1. /\ article \in [Articles -> ArticleRow] /\ event \in [Events -> EventRow]
      /\ targets \in SUBSET Articles
  <2>1. article \in [Articles -> ArticleRow] /\ event \in [Events -> EventRow]
    BY Typing DEF Inv
  <2>2. tx[w].articles \subseteq Articles
    BY Typing DEF Inv, Transaction
  <2>3. targets \subseteq tx[w].articles
    BY DEF Targets
  <2>4. QED
    BY <2>1, <2>2, <2>3
<1>2. /\ touched \in SUBSET Events /\ remaining \in [touched -> SUBSET Articles]
      /\ erased \in SUBSET targets
      /\ \A a \in targets : article[a].event \in touched \cup {None}
  BY <1>1, Typing DEF Inv, TouchedEvents, EventsOf, Members, Transaction, ArticleRow
<1>3. /\ event' = EventsAfter(touched, remaining, erased) /\ Ends(w)
      /\ article' = [a \in Articles |->
           IF a \in targets /\ fate = "deleted" THEN GoneArticle
           ELSE [article[a] EXCEPT
                   !.event = EventAfter(a, @, targets),
                   !.state = IF a \in targets /\ fate = "hidden" THEN "hidden" ELSE @,
                   !.earlier = IF fate = "deleted" THEN @ \ targets ELSE @]]
  BY DEF Remove
<1>4. /\ \A e \in touched : remaining[e] = Members(e) \ targets
      /\ \A e \in touched : event'[e].state # "gone" => event'[e].state = event[e].state
  <2>1. \A e \in touched : remaining[e] = Members(e) \ targets
    OBVIOUS
  <2>2. ASSUME NEW e \in touched
        PROVE  event'[e].state # "gone" => event'[e].state = event[e].state
    <3>1. event'[e] = Reconciled(e, remaining[e])
      BY <1>2, <1>3 DEF EventsAfter
    <3>2. remaining[e] \in SUBSET Articles /\ e \in Events
      BY <1>2
    <3>3. QED
      BY <3>1, <3>2, ReconciledAgrees DEF Inv
  <2>3. QED
    BY <2>1, <2>2
<1> HIDE DEF touched, remaining, erased
<1>5. ASSUME NEW a \in Articles
      PROVE  /\ article'[a] \in ArticleRow
             /\ a \in targets => article'[a].event = None
             /\ a \notin targets =>
                  /\ article'[a].state = article[a].state
                  /\ article'[a].event = EventAfter(a, article[a].event, targets)
  <2>1. article[a] \in ArticleRow
    BY <1>1
  <2>2. EventAfter(a, article[a].event, targets) \in Events \cup {None}
    BY <2>1 DEF EventAfter, ArticleRow
  <2>3. CASE a \in targets /\ fate = "deleted"
    <3>1. article'[a] = GoneArticle
      BY <1>3, <2>3
    <3>2. QED
      BY <2>3, <3>1 DEF GoneArticle, NoArticle, ArticleRow
  <2>4. CASE ~(a \in targets /\ fate = "deleted")
    <3>1. article'[a] =
            [article[a] EXCEPT
               !.event = EventAfter(a, article[a].event, targets),
               !.state = IF a \in targets /\ fate = "hidden" THEN "hidden" ELSE article[a].state,
               !.earlier = IF fate = "deleted" THEN article[a].earlier \ targets
                           ELSE article[a].earlier]
      BY <1>3, <2>1, <2>4
    <3>2. QED
      <4>1. a \in targets => EventAfter(a, article[a].event, targets) = None
        BY DEF EventAfter
      <4>2. article[a].earlier \ targets \in SUBSET Articles
        BY <2>1 DEF ArticleRow
      <4>3. QED
        BY <2>1, <2>2, <3>1, <4>1, <4>2 DEF ArticleRow
  <2>5. QED
    BY <2>3, <2>4
<1>6. article' \in [Articles -> ArticleRow]
  BY <1>3, <1>5
<1>7. \A e \in Events \ touched : Live(e) => event'[e] = event[e]
  <2>1. SUFFICES ASSUME NEW e \in Events \ touched, Live(e) PROVE event'[e] = event[e]
    OBVIOUS
  <2>2. event[e].rep \in Members(e)
    BY <2>1 DEF Inv, RowsAgree, Agrees, Live
  <2>3. event[e].rep \notin erased
    BY <1>2, <2>2, NoneIsNobody DEF Members
  <2>4. QED
    BY <1>3, <2>3 DEF EventsAfter
<1>8. ASSUME NEW a \in Articles, article'[a].event # None
      PROVE  /\ a \notin targets /\ article'[a].event = article[a].event
             /\ Eligible(a)' /\ Live(article[a].event)'
  <2>1. /\ a \notin targets /\ article'[a].event = article[a].event
        /\ event'[article[a].event].state # "gone" /\ article[a].event # None
    BY <1>5, <1>8 DEF EventAfter
  <2>2. article[a].event \in Events /\ Eligible(a) /\ Live(article[a].event)
    BY <1>1, <2>1 DEF Inv, NamesAreLive, ArticleRow
  <2>3. Eligible(a)'
    BY <1>5, <2>1, <2>2 DEF Eligible
  <2>4. event'[article[a].event].state = "live"
    <3>1. CASE article[a].event \in touched
      BY <1>4, <2>1, <2>2, <3>1 DEF Live
    <3>2. CASE article[a].event \notin touched
      BY <1>7, <2>2, <3>2 DEF Live
    <3>3. QED
      BY <3>1, <3>2
  <2>5. QED
    BY <2>1, <2>3, <2>4 DEF Live
<1>9. NamesAreLive'
  BY <1>8 DEF NamesAreLive, Live
<1>10. ASSUME NEW e \in Events, event'[e].state # "gone"
       PROVE  Members(e)' = Members(e) \ targets
  <2>1. \A a \in Articles : a \in Members(e) \ targets => a \in Members(e)'
    BY <1>5, <1>10, NoneIsNobody DEF Members, Eligible, EventAfter
  <2>2. \A a \in Articles : a \in Members(e)' => a \in Members(e) \ targets
    BY <1>5, <1>8, NoneIsNobody DEF Members, Eligible
  <2>3. QED
    BY <2>1, <2>2 DEF Members
<1>11. ASSUME NEW e \in Events \ touched
       PROVE  Members(e)' = Members(e)
  <2>1. CASE Live(e)
    <3>1. event'[e].state # "gone"
      BY <1>7, <2>1 DEF Live
    <3>2. Members(e) \cap targets = {}
      BY <1>2, NoneIsNobody DEF Members
    <3>3. QED
      BY <1>10, <3>1, <3>2
  <2>2. CASE ~Live(e)
    <3>1. Members(e) = {}
      BY <2>2, NoneIsNobody DEF Inv, NamesAreLive, Members
    <3>2. Members(e)' = {}
      BY <1>5, <1>8, <3>1, NoneIsNobody DEF Members, Eligible
    <3>3. QED
      BY <3>1, <3>2
  <2>3. QED
    BY <2>1, <2>2
<1>12. QED
  <2>1. tx' \in [Workers -> Transaction] /\ Remembered'
    BY <1>3, EndsForgets
  <2>2. \A e \in touched : event'[e].state # "gone" => Members(e)' = remaining[e]
    BY <1>2, <1>4, <1>10
  <2>3. erased \in SUBSET Articles /\ \A a \in erased : article[a].event \in touched \cup {None}
    BY <1>1, <1>2
  <2>4. QED
    BY <1>2, <1>3, <1>6, <1>9, <1>11, <2>1, <2>2, <2>3, AfterInv

\* The survivor takes the loser's event only if it has none, and then it is
\* listed as the loser was.
LEMMA MergeInv ==
  ASSUME Inv, NEW survivor \in Articles, NEW loser \in Articles, Merge(survivor, loser)
  PROVE  Inv' /\ KeptOrReconciled
<1> DEFINE own == article[survivor].event
           place == IF own = None THEN article[loser].event ELSE own
           touched == {place, article[loser].event} \ {None}
           heirs(e) == IF e = place THEN {survivor} ELSE {}
           remaining == [e \in touched |-> (Members(e) \ {loser}) \cup heirs(e)]
           next(a) == IF a = survivor THEN place ELSE article[a].event
<1>1. /\ article \in [Articles -> ArticleRow] /\ event \in [Events -> EventRow]
      /\ tx \in [Workers -> Transaction]
      /\ survivor # loser
  BY Typing DEF Inv, Merge
<1>2. /\ place \in Events \cup {None} /\ touched \in SUBSET Events
      /\ remaining \in [touched -> SUBSET Articles]
      /\ \A e \in touched : remaining[e] = (Members(e) \ {loser}) \cup heirs(e)
      /\ article[loser].event \in touched \cup {None}
  BY <1>1 DEF ArticleRow, Members
<1>3. /\ event' = EventsAfter(touched, remaining, {loser}) /\ UNCHANGED tx
      /\ article' = [a \in Articles |->
           IF a = loser THEN GoneArticle
           ELSE [article[a] EXCEPT
                   !.event = EventAfter(a, IF a = survivor THEN place ELSE @, {loser}),
                   !.state = IF a = survivor /\ Eligible(loser) THEN "listed" ELSE @,
                   !.read = @ \/ (a = survivor /\ article[loser].read),
                   !.earlier = IF loser \in @ THEN (@ \ {loser}) \cup {survivor} ELSE @]]
  BY DEF Merge
<1>4. \A a \in Articles : article[a].event # None =>
        Eligible(a) /\ Live(article[a].event) /\ article[a].event \in Events
  BY <1>1 DEF Inv, NamesAreLive, ArticleRow
<1>5. /\ place # None => Live(place) /\ (Eligible(survivor) \/ Eligible(loser))
      /\ own \in {place, None}
      /\ \A e \in touched : e # place => e # own
  BY <1>4
<1>6. /\ \A a \in Articles \ {survivor} : next(a) = article[a].event
      /\ next(survivor) = place
      /\ \A a \in Articles : next(a) \in Events \cup {None}
  BY <1>1, <1>2 DEF ArticleRow
<1>7. \A e \in Events : heirs(e) = IF e = place THEN {survivor} ELSE {}
  OBVIOUS
<1>8. \A e \in Events \ touched : e # place /\ e # own /\ e # article[loser].event
  BY <1>5, NoneIsNobody
<1> HIDE DEF own, place, touched, heirs, remaining, next
<1>9. ASSUME NEW a \in Articles \ {loser}
      PROVE  /\ article'[a] \in ArticleRow
             /\ article'[a].event = EventAfter(a, next(a), {loser})
             /\ article'[a].state = IF a = survivor /\ Eligible(loser) THEN "listed"
                                    ELSE article[a].state
  <2>1. article[a] \in ArticleRow
    BY <1>1
  <2>2. EventAfter(a, next(a), {loser}) \in Events \cup {None}
    BY <1>6 DEF EventAfter
  <2>3. article'[a] =
          [article[a] EXCEPT
             !.event = EventAfter(a, next(a), {loser}),
             !.state = IF a = survivor /\ Eligible(loser) THEN "listed" ELSE article[a].state,
             !.read = article[a].read \/ (a = survivor /\ article[loser].read),
             !.earlier = IF loser \in article[a].earlier
                         THEN (article[a].earlier \ {loser}) \cup {survivor}
                         ELSE article[a].earlier]
    BY <1>3, <2>1 DEF next
  <2>4. (article[a].earlier \ {loser}) \cup {survivor} \in SUBSET Articles
    BY <2>1 DEF ArticleRow
  <2>5. (article[a].read \/ (a = survivor /\ article[loser].read)) \in BOOLEAN
    OBVIOUS
  <2>6. QED
    BY <2>1, <2>2, <2>3, <2>4, <2>5 DEF ArticleRow
<1>10. article'[loser] = GoneArticle /\ GoneArticle \in ArticleRow /\ GoneArticle.event = None
  BY <1>3 DEF GoneArticle, NoArticle, ArticleRow
<1>11. article' \in [Articles -> ArticleRow]
  BY <1>3, <1>9, <1>10
<1>12. ASSUME NEW e \in Events, Live(e), event'[e].state # "gone"
       PROVE  event'[e].state = "live"
  <2>1. CASE e \in touched
    <3>1. event'[e] = Reconciled(e, remaining[e]) /\ remaining[e] \in SUBSET Articles
      BY <1>2, <1>3, <2>1 DEF EventsAfter
    <3>2. QED
      BY <1>12, <3>1, ReconciledAgrees DEF Inv, Live
  <2>2. CASE e \notin touched
    BY <1>3, <1>12, <2>2 DEF EventsAfter, Live, GoneEvent, NoEvent
  <2>3. QED
    BY <2>1, <2>2
<1>13. ASSUME NEW a \in Articles, article'[a].event # None
       PROVE  /\ a # loser /\ article'[a].event = next(a) /\ next(a) \in Events
              /\ Eligible(a)' /\ event'[next(a)].state = "live"
  <2>1. a # loser
    BY <1>10, <1>13
  <2>2. article'[a].event = next(a) /\ next(a) # None /\ event'[next(a)].state # "gone"
    BY <1>9, <1>13, <2>1 DEF EventAfter
  <2>3. next(a) \in Events
    BY <1>6, <2>2
  <2>4. Live(next(a)) /\ (Eligible(a) \/ (a = survivor /\ Eligible(loser)))
    BY <1>4, <1>5, <1>6, <2>2
  <2>5. event'[next(a)].state = "live"
    BY <1>12, <2>2, <2>3, <2>4
  <2>6. Eligible(a)'
    BY <1>9, <2>1, <2>4 DEF Eligible
  <2>7. QED
    BY <2>1, <2>2, <2>3, <2>5, <2>6
<1>14. NamesAreLive'
  BY <1>13 DEF NamesAreLive, Live
<1>15. ASSUME NEW e \in Events, event'[e].state # "gone"
       PROVE  \A a \in Articles : a \in Members(e)' <=> a # loser /\ next(a) = e
  <2>1. TAKE a \in Articles
  <2>2. ASSUME a \in Members(e)' PROVE a # loser /\ next(a) = e
    BY <1>13, <2>2, NoneIsNobody DEF Members
  <2>3. ASSUME a # loser, next(a) = e PROVE a \in Members(e)'
    <3>1. article'[a].event = e
      BY <1>9, <1>15, <2>3, NoneIsNobody DEF EventAfter
    <3>2. QED
      BY <1>13, <3>1, NoneIsNobody DEF Members, Eligible
  <2>4. QED
    BY <2>2, <2>3
<1>16. ASSUME NEW e \in touched, event'[e].state # "gone"
       PROVE  Members(e)' = remaining[e]
  <2>1. e \in Events /\ remaining[e] = (Members(e) \ {loser}) \cup heirs(e)
    BY <1>2
  <2>2. \A a \in Articles : a \in Members(e) <=> article[a].event = e
    BY <1>4, <2>1, NoneIsNobody DEF Members
  <2>3. \A a \in Articles : a \in remaining[e] <=> a # loser /\ next(a) = e
    BY <1>1, <1>5, <1>6, <1>7, <2>1, <2>2, NoneIsNobody DEF own
  <2>4. Members(e)' \subseteq Articles /\ remaining[e] \subseteq Articles
    BY <1>2 DEF Members
  <2>5. QED
    BY <1>15, <1>16, <2>1, <2>3, <2>4
<1>17. ASSUME NEW e \in Events \ touched
       PROVE  Members(e)' = Members(e)
  <2>1. \A a \in Articles : a \in Members(e) <=> a # loser /\ next(a) = e
    BY <1>4, <1>6, <1>8, NoneIsNobody DEF Members, own
  <2>2. Members(e)' \subseteq Articles /\ Members(e) \subseteq Articles
    BY DEF Members
  <2>3. CASE event'[e].state # "gone"
    BY <1>15, <2>1, <2>2, <2>3
  <2>4. CASE event'[e].state = "gone"
    <3>1. Members(e)' = {}
      BY <1>13, <2>4, NoneIsNobody DEF Members
    <3>2. Live(e) => event'[e] = event[e]
      <4>1. ASSUME Live(e) PROVE event[e].rep # loser
        <5>1. event[e].rep \in Members(e)
          BY <4>1 DEF Inv, RowsAgree, Agrees, Live
        <5>2. loser \notin Members(e)
          BY <1>8, <1>17 DEF Members
        <5>3. QED
          BY <5>1, <5>2
      <4>2. QED
        BY <1>3, <4>1 DEF EventsAfter
    <3>3. ~Live(e)
      BY <2>4, <3>2 DEF Live
    <3>4. Members(e) = {}
      BY <1>4, <3>3, NoneIsNobody DEF Members
    <3>5. QED
      BY <3>1, <3>4
  <2>5. QED
    BY <2>3, <2>4
<1>18. tx' \in [Workers -> Transaction] /\ Remembered'
  BY <1>1, <1>3 DEF Inv, Remembered
<1>19. QED
  <2>1. /\ {loser} \in SUBSET Articles
        /\ \A a \in {loser} : article[a].event \in touched \cup {None}
    BY <1>2
  <2>2. touched \in SUBSET Events /\ remaining \in [touched -> SUBSET Articles]
    BY <1>2
  <2>3. event' = EventsAfter(touched, remaining, {loser})
    BY <1>3
  <2>4. \A e \in touched : event'[e].state # "gone" => Members(e)' = remaining[e]
    BY <1>16
  <2>5. \A e \in Events \ touched : Members(e)' = Members(e)
    BY <1>17
  <2>6. QED
    BY <1>11, <1>14, <1>18, <2>1, <2>2, <2>3, <2>4, <2>5, AfterInv

LEMMA ReconcileInv == ASSUME Inv, NEW e \in Events, Reconcile(e) PROVE Inv' /\ KeptOrReconciled
<1>1. /\ event \in [Events -> EventRow] /\ UNCHANGED <<article, tx>> /\ Live(e)
      /\ event' = [event EXCEPT ![e] = Reconciled(e, Members(e))]
  BY Typing DEF Inv, Reconcile
<1>2. Members(e) \in SUBSET Articles /\ Cardinality(Members(e)) >= 2
  BY <1>1 DEF Inv, RowsAgree, Agrees, Live, Members
<1>3. /\ Reconciled(e, Members(e)) \in EventRow
      /\ Agrees(Reconciled(e, Members(e)), Members(e))
  BY <1>2, ReconciledAgrees DEF Inv
<1>4. Reconciled(e, Members(e)).state = "live"
  <2>1. Cardinality(Members(e)) \in Nat
    BY <1>2, Counting
  <2>2. ~(Cardinality(Members(e)) < 2)
    BY <1>2, <2>1
  <2>3. QED
    BY <1>1, <2>2 DEF Reconciled, Live, EventRow
<1>5. TypeOK' /\ Remembered'
  BY <1>1, <1>3, Typing, TypingNext DEF Inv, Remembered
<1>6. \A d \in Events : Members(d)' = Members(d)
  BY <1>1 DEF Members, Eligible
<1>7. RowsAgree'
  BY <1>1, <1>3, <1>6 DEF Inv, RowsAgree
<1>8. NamesAreLive'
  BY <1>1, <1>4 DEF Inv, NamesAreLive, Eligible, Live
<1>9. KeptOrReconciled
  BY <1>1, <1>6 DEF KeptOrReconciled
<1>10. QED
  BY <1>5, <1>7, <1>8, <1>9 DEF Inv

LEMMA NextInv == Inv /\ [Next]_vars => Inv'
<1>1. SUFFICES ASSUME Inv, [Next]_vars PROVE Inv'
  OBVIOUS
<1>2. CASE UNCHANGED vars
  BY <1>1, <1>2, Typing, TypingNext, QuietInv DEF Inv, vars, Remembered
<1>3. ASSUME NEW w \in Workers, Begin(w) \/ LockFoundEvents(w) \/ Commit(w) \/ RollBack(w)
      PROVE  Inv'
  <2>1. CASE Begin(w)
    BY <1>1, <2>1, BeginInv
  <2>2. CASE LockFoundEvents(w)
    BY <1>1, <2>2, LockFoundEventsInv
  <2>3. CASE RollBack(w)
    BY <1>1, <2>3, RollBackInv
  <2>4. CASE Commit(w)
    <3>1. ASSUME NEW e \in Events, Join(w, e) \/ Create(w, e) PROVE Inv'
      BY <1>1, <3>1, JoinInv, CreateInv
    <3>2. ASSUME tx[w].locked, NEW targets \in Targets(w),
                 NEW fate \in {"hidden", "deleted", "detached"}, Remove(w, targets, fate)
          PROVE  Inv'
      BY <1>1, <3>2, RemoveInv
    <3>3. QED
      BY <2>4, <3>1, <3>2 DEF Commit
  <2>5. QED
    BY <1>3, <2>1, <2>2, <2>3, <2>4
<1>4. ASSUME NEW a \in Articles, NEW b \in Articles, Merge(a, b) PROVE Inv'
  BY <1>1, <1>4, MergeInv
<1>5. ASSUME NEW e \in Events, Reconcile(e) PROVE Inv'
  BY <1>1, <1>5, ReconcileInv
<1>6. ASSUME NEW a \in Articles, Reader(a) PROVE Inv'
  BY <1>1, <1>6, ReaderInv
<1>7. QED
  BY <1>1, <1>2, <1>3, <1>4, <1>5, <1>6 DEF Next

\* The invariant holds of every reachable state.
THEOREM Invariance == Spec => []Inv
<1>1. Inv /\ [Next]_vars => Inv'
  BY NextInv
<1>2. QED
  BY InitInv, <1>1, PTL DEF Spec

\* The row of every live event counts its members, of which there are at least
\* two, and points to two of them; and no article names an event that is gone:
\* for any number of transactions, whatever they found before they took their
\* locks.
THEOREM RowsAlwaysAgree == Spec => []EventsMatchMembers
<1>1. Inv => EventsMatchMembers
  <2>1. SUFFICES ASSUME Inv PROVE EventsMatchMembers
    OBVIOUS
  <2>2. ASSUME NEW e \in Events, Live(e)
        PROVE  /\ event[e].count = Cardinality(Members(e)) /\ event[e].count >= 2
               /\ {event[e].rep, event[e].dev} \subseteq Members(e)
    BY <2>1, <2>2 DEF Inv, RowsAgree, Agrees, Live
  <2>3. QED
    BY <2>1, <2>2 DEF EventsMatchMembers, Inv, NamesAreLive
<1>2. QED
  BY Invariance, <1>1, PTL

----------------------------------------------------------------------------
(* What a step does to a live event that stays one.                        *)

LEMMA ReconcilingKeepsPointers ==
  ASSUME TypeOK, NEW e \in Events, NEW members \in SUBSET Articles,
         Reconciled(e, members).state = "live"
  PROVE  /\ event[e].rep \in members => Reconciled(e, members).rep = event[e].rep
         /\ event[e].dev \in members => Reconciled(e, members).dev = event[e].dev
<1>1. event[e] \in EventRow
  BY Typing
<1>2. ~(Cardinality(members) < 2)
  BY DEF Reconciled, GoneEvent, NoEvent
<1>3. /\ Reconciled(e, members).rep = Representative(e, members)
      /\ Reconciled(e, members).dev = Selected(Representative(e, members), event[e].dev, members)
  BY <1>1, <1>2 DEF Reconciled, EventRow
<1>4. QED
  BY <1>3 DEF Representative, Selected

\* A live event's pointers change only when an article joins it, or because the
\* one pointed to is no member any more.
LEMMA PointersChange ==
  ASSUME Inv, [Next]_vars, NEW e \in Events, Live(e), Live(e)'
  PROVE  /\ event'[e].rep = event[e].rep \/ event[e].rep \notin Members(e)'
         /\ \/ event'[e].dev = event[e].dev \/ event[e].dev \notin Members(e)'
            \/ ~Unread(event[e].dev)
<1>1. event \in [Events -> EventRow]
  BY Typing DEF Inv
<1>2. ASSUME KeptOrReconciled, Inv'
      PROVE  /\ event'[e].rep = event[e].rep \/ event[e].rep \notin Members(e)'
             /\ event'[e].dev = event[e].dev \/ event[e].dev \notin Members(e)'
  <2>1. CASE event'[e] = event[e]
    BY <2>1
  <2>2. CASE event'[e] = Reconciled(e, Members(e)')
    <3>1. Members(e)' \in SUBSET Articles
      BY DEF Members
    <3>2. Reconciled(e, Members(e)').state = "live"
      BY <2>2 DEF Live
    <3>3. QED
      BY <2>2, <3>1, <3>2, ReconcilingKeepsPointers DEF Inv
  <2>3. QED
    BY <1>2, <2>1, <2>2 DEF KeptOrReconciled
<1>3. CASE UNCHANGED event
  BY <1>3
<1>4. ASSUME NEW w \in Workers, NEW d \in Events, Join(w, d)
      PROVE  /\ event'[e].rep = event[e].rep
             /\ event'[e].dev = event[e].dev \/ ~Unread(event[e].dev)
  <2>1. CASE d # e
    BY <1>1, <1>4, <2>1 DEF Join
  <2>2. CASE d = e
    <3>1. event'[e].rep = event[e].rep /\ event'[e].dev = DevelopingOnJoin(e, tx[w].first)
      BY <1>1, <1>4, <2>2 DEF Join, EventRow
    <3>2. event[e].dev \in Members(e) /\ event[e].dev # None
      BY NoneIsNobody DEF Inv, RowsAgree, Agrees, Live, Members
    <3>3. QED
      BY <3>1, <3>2 DEF DevelopingOnJoin
  <2>3. QED
    BY <2>1, <2>2
<1>5. ASSUME NEW w \in Workers, NEW d \in Events, Create(w, d)
      PROVE  event'[e] = event[e]
  BY <1>1, <1>5 DEF Create, Live
<1>6. ASSUME NEW w \in Workers, Begin(w) \/ LockFoundEvents(w) \/ RollBack(w)
      PROVE  UNCHANGED event
  BY <1>6 DEF Begin, ChooseEvent, ChooseGroup, Find, Starts, LockFoundEvents, RollBack
<1>7. ASSUME NEW a \in Articles, Reader(a)
      PROVE  UNCHANGED event
  BY <1>7 DEF Reader, MarkRead, MarkUnread, Restore, Arrive
<1>8. ASSUME NEW w \in Workers, Commit(w)
      PROVE  \/ \E d \in Events : Join(w, d) \/ Create(w, d)
             \/ KeptOrReconciled /\ Inv'
  <2>1. ASSUME tx[w].locked, NEW targets \in Targets(w),
               NEW fate \in {"hidden", "deleted", "detached"}, Remove(w, targets, fate)
        PROVE  KeptOrReconciled /\ Inv'
    BY <2>1, RemoveInv
  <2>2. QED
    BY <1>8, <2>1 DEF Commit
<1>9. ASSUME NEW a \in Articles, NEW b \in Articles, Merge(a, b)
      PROVE  KeptOrReconciled /\ Inv'
  BY <1>9, MergeInv
<1>10. ASSUME NEW d \in Events, Reconcile(d)
       PROVE  KeptOrReconciled /\ Inv'
  BY <1>10, ReconcileInv
<1>11. CASE UNCHANGED vars
  BY <1>3, <1>11 DEF vars
<1>12. QED
  BY <1>2, <1>3, <1>4, <1>5, <1>6, <1>7, <1>8, <1>9, <1>10, <1>11 DEF Next

\* Whatever joins, leaves or merges, the representative of an event is replaced
\* only when it is no member any more.
THEOREM RepresentativeStays == Spec => RepresentativeIsStable
<1>1. Inv /\ [Next]_vars =>
        [\A e \in Events : Live(e) /\ Live(e)' /\ event'[e].rep # event[e].rep =>
           event[e].rep \notin Members(e)']_event
  BY PointersChange
<1>2. QED
  BY Invariance, <1>1, PTL DEF Spec, RepresentativeIsStable

\* The developing article that a user has not read yet is never replaced while
\* it is a member.
THEOREM UnreadDevelopingStays == Spec => UnreadDevelopingIsSticky
<1>1. Inv /\ [Next]_vars =>
        [\A e \in Events : Live(e) /\ Live(e)' /\ event'[e].dev # event[e].dev =>
           ~Unread(event[e].dev) \/ event[e].dev \notin Members(e)']_event
  BY PointersChange
<1>2. QED
  BY Invariance, <1>1, PTL DEF Spec, UnreadDevelopingIsSticky

Reason(a) ==
  LET e == article[a].event
  IN /\ article'[a].event = None
     /\ \/ \E w \in Workers : tx[w].locked /\ a \in tx[w].articles /\ tx'[w] = Idle
        \/ article'[a].state = "deleted"
        \/ event'[e].state = "gone"

LEMMA LeavingHasAReason ==
  ASSUME Inv, Next, NEW a \in Articles,
         article[a].event # None, article'[a].event # article[a].event
  PROVE  Reason(a)
<1>1. article \in [Articles -> ArticleRow] /\ tx \in [Workers -> Transaction]
  BY Typing DEF Inv
<1>2. article[a] \in ArticleRow
  BY <1>1
<1>3. ASSUME NEW w \in Workers, Begin(w) \/ LockFoundEvents(w) \/ RollBack(w)
      PROVE  FALSE
  BY <1>3 DEF Begin, ChooseEvent, ChooseGroup, Find, Starts, LockFoundEvents, RollBack
<1>4. ASSUME NEW w \in Workers, NEW e \in Events, Join(w, e) \/ Create(w, e)
      PROVE  FALSE
  <2>1. CASE Join(w, e)
    BY <1>1, <2>1 DEF Join, Assignable
  <2>2. CASE Create(w, e)
    BY <1>1, <2>2 DEF Create, Assignable
  <2>3. QED
    BY <1>4, <2>1, <2>2
<1>5. ASSUME NEW w \in Workers, tx[w].locked, NEW targets \in Targets(w),
             NEW fate \in {"hidden", "deleted", "detached"}, Remove(w, targets, fate)
      PROVE  Reason(a)
  <2>1. targets \subseteq tx[w].articles
    BY DEF Targets
  <2>2. tx'[w] = Idle
    BY <1>1, <1>5 DEF Remove, Ends
  <2>3. CASE a \in targets /\ fate = "deleted"
    <3>1. article'[a] = GoneArticle
      BY <1>5, <2>3 DEF Remove
    <3>2. QED
      BY <3>1 DEF Reason, GoneArticle, NoArticle
  <2>4. CASE ~(a \in targets /\ fate = "deleted")
    <3>1. article'[a].event = EventAfter(a, article[a].event, targets)
      BY <1>2, <1>5, <2>4 DEF Remove, ArticleRow
    <3>2. QED
      BY <1>5, <2>1, <2>2, <3>1 DEF EventAfter, Reason
  <2>5. QED
    BY <2>3, <2>4
<1>6. ASSUME NEW survivor \in Articles, NEW loser \in Articles, Merge(survivor, loser)
      PROVE  Reason(a)
  <2>1. CASE a = loser
    <3>1. article'[a] = GoneArticle
      BY <1>6, <2>1 DEF Merge
    <3>2. QED
      BY <3>1 DEF Reason, GoneArticle, NoArticle
  <2>2. CASE a # loser
    <3>1. article'[a].event = EventAfter(a, article[a].event, {loser})
      BY <1>2, <1>6, <2>2 DEF Merge, ArticleRow
    <3>2. QED
      BY <2>2, <3>1 DEF EventAfter, Reason
  <2>3. QED
    BY <2>1, <2>2
<1>7. ASSUME NEW e \in Events, Reconcile(e)
      PROVE  FALSE
  BY <1>7 DEF Reconcile
<1>8. ASSUME NEW b \in Articles, Reader(b)
      PROVE  FALSE
  <2>1. article[b].state = "unsaved" => b # a
    BY DEF Inv, NamesAreLive, Eligible
  <2>2. CASE MarkRead(b)
    BY <1>1, <1>2, <2>2 DEF MarkRead, ArticleRow
  <2>3. CASE MarkUnread(b)
    BY <1>1, <1>2, <2>3 DEF MarkUnread, ArticleRow
  <2>4. CASE Restore(b)
    BY <1>1, <1>2, <2>4 DEF Restore, ArticleRow
  <2>5. ASSUME NEW state \in {"listed", "hidden"}, Arrive(b, state) PROVE FALSE
    BY <1>1, <1>2, <2>1, <2>5 DEF Arrive, ArticleRow
  <2>6. QED
    BY <1>8, <2>2, <2>3, <2>4, <2>5 DEF Reader
<1>9. QED
  BY <1>3, <1>4, <1>5, <1>6, <1>7, <1>8 DEF Next, Commit

\* An article leaves its event only into none, and only because it was removed,
\* by the merge or the transaction that chose it, or because its event ended.
THEOREM LeavingNeedsAReason == Spec => MembershipEndsForAReason
<1>1. Inv /\ [Next]_vars =>
        [\A a \in Articles :
           LET e == article[a].event
           IN e # None /\ article'[a].event # e =>
                /\ article'[a].event = None
                /\ \/ \E w \in Workers : tx[w].locked /\ a \in tx[w].articles /\ tx'[w] = Idle
                   \/ article'[a].state = "deleted"
                   \/ event'[e].state = "gone"]_article
  BY LeavingHasAReason DEF Reason, vars
<1>2. QED
  BY Invariance, <1>1, PTL DEF Spec, MembershipEndsForAReason

----------------------------------------------------------------------------
(* The refresh job: the inductive invariant.                               *)

\* Things of one second are not ordered: whatever is later than one of them is
\* later than all of them.
Ordered(things, later) ==
  /\ later \subseteq things \X things
  /\ \A a \in things : <<a, a>> \notin later
  /\ \A a, b, c \in things : <<a, b>> \in later /\ <<b, c>> \in later => <<a, c>> \in later
  /\ \A a, b, c \in things : <<a, c>> \in later => <<a, b>> \in later \/ <<b, c>> \in later

\* Whoever runs knows a request, and a request has a reason.
RequestsAreKnown ==
  /\ Status = "none" => payload.request = NoRequest
  /\ Status # "none" => payload.request \in RequestIds /\ payload.reasons # {}
  /\ Status = "running" => tries[Refresh] >= 1
  /\ \A w \in Slots : at[w] # "idle" => snapshot[w] \in RequestIds

\* What x computes accounts for every reader action, or will, once the islands do.
UpToDate(x) == at[x] = "dated" \/ x \in current

\* The stored score is not stale, and no scorer that may yet replace it is.
Settled == /\ islands /\ score # "stale"
           /\ \A x \in Scorers : <<Stored, x>> \in order => UpToDate(x)

\* An execution that works for the present request has missed no action, and
\* neither has whoever was evaluated later.
Answers(w) ==
  /\ at[w] \in Dated \cup {"calibrated"} => islands
  /\ at[w] \in Dated \ {"dated"} => w \in current
  /\ at[w] \in Dated => /\ <<w, Stored>> \in order => score # "stale"
                        /\ \A x \in Scorers : <<w, x>> \in order => UpToDate(x)
  /\ at[w] = "scored" => Settled

AnswersAreUpToDate ==
  /\ payload.checkpoint = payload.request /\ payload.request # NoRequest => islands
  /\ \A w \in Slots : IsAnswered(w) => Answers(w)
  /\ Status = "succeeded" => Settled

\* Of the requests calibrated for, the job's row remembers those that matter: its
\* present one, and that of the execution that holds the lease.
Spares(w) ==
  /\ snapshot[w] # payload.request => payload.request \notin calibrated
  /\ snapshot[w] \in calibrated => payload.checkpoint = snapshot[w]
  /\ at[w] = "begun" => snapshot[w] \notin calibrated

CheckpointsAreKept ==
  /\ payload.request \in calibrated => payload.checkpoint = payload.request
  /\ \A w \in Slots : HoldsLease(w) /\ at[w] # "idle" => Spares(w)

RefreshInv ==
  /\ RefreshTypeOK /\ Ordered(Evaluated, order) /\ RequestsAreKnown
  /\ InteractionIsPrompt /\ AnswersAreUpToDate /\ CheckpointsAreKept

----------------------------------------------------------------------------
(* Orders of evaluation times.                                             *)

LEMMA LatestIsOrdered ==
  ASSUME NEW things, NEW later, Ordered(things, later), NEW s, s \notin things
  PROVE  Ordered(things \cup {s}, later \cup (things \X {s}))
BY DEF Ordered

LEMMA AmongLatestIsOrdered ==
  ASSUME NEW things, NEW later, Ordered(things, later), NEW s, s \notin things
  PROVE  LET latest == {x \in things : \A y \in things : <<x, y>> \notin later}
         IN  Ordered(things \cup {s}, later \cup ((things \ latest) \X {s}))
<1> DEFINE latest == {x \in things : \A y \in things : <<x, y>> \notin later}
           new == later \cup ((things \ latest) \X {s})
<1>1. \A a, b : <<a, b>> \in new <=> <<a, b>> \in later \/ (a \in things \ latest /\ b = s)
  OBVIOUS
<1>2. \A a, b : <<a, b>> \in later => a \in things \ latest /\ b \in things
  BY DEF Ordered
<1>3. new \subseteq (things \cup {s}) \X (things \cup {s})
  BY DEF Ordered
<1>4. \A a \in things \ latest : \E y \in things : <<a, y>> \in later
  OBVIOUS
<1> HIDE DEF latest, new
<1>5. ASSUME NEW a \in things \cup {s}, NEW b \in things \cup {s}, NEW c \in things \cup {s},
             <<a, b>> \in new, <<b, c>> \in new
      PROVE  <<a, c>> \in new
  BY <1>1, <1>2, <1>5 DEF Ordered
<1>6. ASSUME NEW a \in things \cup {s}, NEW b \in things \cup {s}, NEW c \in things \cup {s},
             <<a, c>> \in new
      PROVE  <<a, b>> \in new \/ <<b, c>> \in new
  <2>1. a \in things \ latest
    BY <1>1, <1>2, <1>6
  <2>2. CASE b = s
    BY <1>1, <2>1, <2>2
  <2>3. CASE b \in things /\ c \in things
    BY <1>1, <1>6, <2>1, <2>3 DEF Ordered
  <2>4. CASE b \in things \ latest /\ c = s
    BY <1>1, <2>4
  <2>5. CASE b \in latest
    <3>1. PICK y \in things : <<a, y>> \in later
      BY <1>4, <2>1
    <3>2. b \in things /\ <<b, y>> \notin later
      BY <2>5, <3>1 DEF latest
    <3>3. QED
      BY <1>1, <2>1, <3>1, <3>2 DEF Ordered
  <2>6. QED
    BY <2>2, <2>3, <2>4, <2>5
<1>7. \A a \in things \cup {s} : <<a, a>> \notin new
  BY <1>1 DEF Ordered
<1>8. Ordered(things \cup {s}, new)
  BY <1>3, <1>5, <1>6, <1>7 DEF Ordered
<1>9. QED
  BY <1>8 DEF latest, new

LEMMA WithoutIsOrdered ==
  ASSUME NEW things, Ordered(things, order), NEW s
  PROVE  /\ Ordered(things \ {s}, Without(s))
         /\ \A a, b \in things \ {s} : <<a, b>> \in Without(s) <=> <<a, b>> \in order
<1>1. \A a, b : <<a, b>> \in Without(s) <=> <<a, b>> \in order /\ a # s /\ b # s
  BY DEF Without
<1>2. Without(s) \subseteq (things \ {s}) \X (things \ {s})
  BY DEF Without, Ordered
<1>3. QED
  BY <1>1, <1>2 DEF Ordered

\* Whose evaluation time the one of x is, once the stored score has that of s.
Formerly(s, x) == IF x = Stored THEN s ELSE x

LEMMA InPlaceOfIsOrdered ==
  ASSUME NEW things, Ordered(things, order), NEW s \in things, s # Stored, Stored \in things
  PROVE  /\ Ordered(things \ {s}, InPlaceOf(s))
         /\ \A a, b \in things \ {s} :
              <<a, b>> \in InPlaceOf(s) <=> <<Formerly(s, a), Formerly(s, b)>> \in order
<1> DEFINE renamed(x) == IF x = s THEN Stored ELSE x
           rest == things \ {s}
<1>1. InPlaceOf(s) = {<<renamed(pair[1]), renamed(pair[2])>> : pair \in Without(Stored)}
  BY DEF InPlaceOf
<1>2. ASSUME NEW pair \in Without(Stored)
      PROVE  /\ pair \in order /\ pair = <<pair[1], pair[2]>>
             /\ pair[1] \in things \ {Stored} /\ pair[2] \in things \ {Stored}
  BY <1>2 DEF Without, Ordered
<1>3. InPlaceOf(s) \subseteq rest \X rest
  BY <1>1, <1>2
<1>4. ASSUME NEW a \in rest, NEW b \in rest
      PROVE  <<a, b>> \in InPlaceOf(s) <=> <<Formerly(s, a), Formerly(s, b)>> \in order
  <2>1. ASSUME <<a, b>> \in InPlaceOf(s) PROVE <<Formerly(s, a), Formerly(s, b)>> \in order
    <3>1. PICK pair \in Without(Stored) : <<a, b>> = <<renamed(pair[1]), renamed(pair[2])>>
      BY <1>1, <2>1
    <3>2. pair[1] = Formerly(s, a) /\ pair[2] = Formerly(s, b)
      BY <1>2, <3>1 DEF Formerly
    <3>3. QED
      BY <1>2, <3>2
  <2>2. ASSUME <<Formerly(s, a), Formerly(s, b)>> \in order PROVE <<a, b>> \in InPlaceOf(s)
    <3>1. <<Formerly(s, a), Formerly(s, b)>> \in Without(Stored)
      BY <2>2 DEF Without, Formerly
    <3>2. renamed(Formerly(s, a)) = a /\ renamed(Formerly(s, b)) = b
      BY DEF Formerly
    <3>3. QED
      BY <1>1, <3>1, <3>2
  <2>3. QED
    BY <2>1, <2>2
<1>5. \A a \in rest : Formerly(s, a) \in things
  BY DEF Formerly
<1>6. Ordered(rest, InPlaceOf(s))
  <2>1. \A a \in rest : <<a, a>> \notin InPlaceOf(s)
    BY <1>4, <1>5 DEF Ordered
  <2>2. ASSUME NEW a \in rest, NEW b \in rest, NEW c \in rest, <<a, c>> \in InPlaceOf(s)
        PROVE  <<a, b>> \in InPlaceOf(s) \/ <<b, c>> \in InPlaceOf(s)
    BY <1>4, <1>5, <2>2 DEF Ordered
  <2>3. ASSUME NEW a \in rest, NEW b \in rest, NEW c \in rest,
               <<a, b>> \in InPlaceOf(s), <<b, c>> \in InPlaceOf(s)
        PROVE  <<a, c>> \in InPlaceOf(s)
    BY <1>4, <1>5, <2>3 DEF Ordered
  <2>4. QED
    BY <1>3, <2>1, <2>2, <2>3 DEF Ordered
<1>7. QED
  BY <1>4, <1>6

----------------------------------------------------------------------------
(* Types.                                                                  *)

Phases == {"none", "pending", "running", "succeeded", "dead"}
Payloads == [request: RequestIds \cup {NoRequest}, reasons: SUBSET Reasons,
             checkpoint: RequestIds \cup {NoRequest}]

QueueTyped ==
  /\ phase \in [{Refresh} -> Phases] /\ holder \in [{Refresh} -> Slots \cup {NoSlot}]
  /\ tries \in [{Refresh} -> 0..MaxAttempts] /\ working \in [Slots -> {Refresh, NoJob}]

RestTyped ==
  /\ wait \in Waits /\ payload \in Payloads
  /\ at \in [Scorers -> Point] /\ snapshot \in [Slots -> RequestIds \cup {NoRequest}]
  /\ islands \in BOOLEAN /\ score \in {"current", "stale", "mixed", "tied"}
  /\ current \subseteq Scorers /\ calibrated \subseteq RequestIds

LEMMA RefreshTyping ==
  /\ RefreshTypeOK <=> QueueTyped /\ RestTyped /\ order \subseteq Evaluated \X Evaluated
  /\ RefreshTypeOK' <=> QueueTyped' /\ RestTyped' /\ (order \subseteq Evaluated \X Evaluated)'
BY DEF RefreshTypeOK, QueueTyped, RestTyped, Phases, Payloads

LEMMA Constants ==
  /\ MaxAttempts \in Nat \ {0} /\ NoRequest \notin RequestIds /\ NoJob # Refresh
  /\ Manual \in Scorers /\ Manual \notin Slots /\ Stored \notin Scorers /\ Slots \subseteq Scorers
  /\ NoSlot \notin Slots
  /\ Stored \in Evaluated /\ Dated \subseteq Point
  /\ "idle" \notin Dated /\ "claimed" \notin Dated /\ "begun" \notin Dated
  /\ "calibrated" \notin Dated /\ "scored" \notin Dated /\ "failing" \notin Dated
BY RefreshAssumption DEF Scorers, Evaluated, Point, Dated, Compared

\* What the queue does in a step, told of its only job.
QueueStep(p, h, n) == Status' = p /\ holder'[Refresh] = h /\ tries'[Refresh] = n

\* The tries that count once an execution leaves the job in phase p.
Left(p) == IF p = "pending" THEN tries[Refresh] ELSE 0

LEMMA Becoming ==
  ASSUME QueueTyped, NEW p \in Phases, NEW h \in Slots \cup {NoSlot}, NEW n \in 0..MaxAttempts,
         Queue!Become(Refresh, p, h, n)
  PROVE  /\ QueueStep(p, h, n)
         /\ working' \in [Slots -> {Refresh, NoJob}] => QueueTyped'
BY DEF QueueTyped, Queue!Become, QueueStep, Status

LEMMA QueueOpens ==
  ASSUME QueueTyped, Queue!Open(Refresh)
  PROVE  QueueTyped' /\ Status \notin Outstanding /\ QueueStep("pending", NoSlot, 0)
<1>1. Queue!Become(Refresh, "pending", NoSlot, 0) /\ working' = working
      /\ 0 \in 0..MaxAttempts /\ "pending" \in Phases
  BY Constants DEF Queue!Open, Phases
<1>2. QED
  BY <1>1, Becoming DEF QueueTyped, Queue!Open, Status, Outstanding

LEMMA QueueForgets ==
  ASSUME QueueTyped, Queue!Forget(Refresh)
  PROVE  QueueTyped' /\ Status \in {"succeeded", "dead"} /\ QueueStep("none", NoSlot, 0)
<1>1. Queue!Become(Refresh, "none", NoSlot, 0) /\ working' = working
      /\ 0 \in 0..MaxAttempts /\ "none" \in Phases
  BY Constants DEF Queue!Forget, Phases
<1>2. QED
  BY <1>1, Becoming DEF QueueTyped, Queue!Forget, Status

LEMMA QueueGrants ==
  ASSUME QueueTyped, NEW w \in Slots, Queue!Grant(w, Refresh)
  PROVE  QueueTyped' /\ Status \in Outstanding /\ QueueStep("running", w, tries[Refresh] + 1)
<1>1. Queue!Become(Refresh, "running", w, tries[Refresh] + 1)
      /\ working' = [working EXCEPT ![w] = Refresh]
      /\ tries[Refresh] + 1 \in 0..MaxAttempts /\ "running" \in Phases
  BY Constants DEF Queue!Grant, QueueTyped, Phases
<1>2. QED
  BY <1>1, Becoming DEF QueueTyped, Queue!Grant, Status, Outstanding

LEMMA QueueSettles ==
  ASSUME QueueTyped, NEW w \in Slots, NEW p \in {"pending", "succeeded", "dead"},
         Queue!SettleAs(w, Refresh, p)
  PROVE  QueueTyped' /\ HoldsLease(w) /\ QueueStep(p, NoSlot, Left(p))
<1>1. Queue!Become(Refresh, p, NoSlot, Left(p))
      /\ working' = [working EXCEPT ![w] = NoJob]
      /\ Left(p) \in 0..MaxAttempts /\ p \in Phases
  BY Constants DEF Queue!SettleAs, QueueTyped, Phases, Left
<1>2. QED
  BY <1>1, Becoming DEF QueueTyped, Queue!SettleAs, Status, HoldsLease

LEMMA QueueLeaves ==
  ASSUME QueueTyped, NEW w \in Slots, Queue!Leave(w)
  PROVE  QueueTyped' /\ QueueStep(Status, holder[Refresh], tries[Refresh])
BY DEF QueueTyped, Queue!Leave, QueueStep, Status

LEMMA QueueRevokes ==
  ASSUME QueueTyped, Queue!Revoke(Refresh)
  PROVE  /\ QueueTyped' /\ Status = "running"
         /\ \E p \in {"pending", "dead"} : QueueStep(p, NoSlot, Left(p))
<1>1. working' = working /\ Status = "running"
  BY DEF Queue!Revoke, Status
<1>2. PICK p \in {"pending", "dead"} : Queue!Become(Refresh, p, NoSlot, Left(p))
  BY DEF Queue!Revoke, Left
<1>3. p \in Phases /\ Left(p) \in 0..MaxAttempts
  BY Constants DEF QueueTyped, Phases, Left
<1>4. QED
  BY <1>1, <1>2, <1>3, Becoming DEF QueueTyped

LEMMA QueueFollowsUp ==
  ASSUME QueueTyped, NEW w \in Slots, FollowUp(w)
  PROVE  QueueTyped' /\ QueueStep("pending", NoSlot, 0)
<1>1. Queue!Become(Refresh, "pending", NoSlot, 0)
      /\ working' = [working EXCEPT ![w] = NoJob]
      /\ 0 \in 0..MaxAttempts /\ "pending" \in Phases
  BY Constants DEF FollowUp, Phases
<1>2. QED
  BY <1>1, Becoming DEF QueueTyped

LEMMA QueueRests ==
  ASSUME QueueTyped, UNCHANGED queueVars
  PROVE  QueueTyped' /\ QueueStep(Status, holder[Refresh], tries[Refresh])
BY DEF QueueTyped, queueVars, QueueStep, Status

LEMMA RestTypedNext == ASSUME RefreshTypeOK, RequestsAreKnown, RefreshNext PROVE RestTyped'
<1> USE Constants
<1> USE DEF RestTyped
<1>1. QueueTyped /\ RestTyped /\ wait \in Waits /\ order \subseteq Evaluated \X Evaluated
  BY RefreshTyping
<1>2. /\ NoPayload \in Payloads /\ {"action"} \subseteq Reasons /\ {"elapsed_time"} \subseteq Reasons
      /\ {"now", "soon", "later"} \subseteq Waits
  BY DEF NoPayload, Payloads, Reasons, Waits
<1>3. ASSUME NEW s \in Scorers, NEW point \in Point, Goto(s, point)
      PROVE  at' \in [Scorers -> Point]
  BY <1>1, <1>3 DEF Goto
<1>4. ASSUME NEW r \in RequestIds, NEW reasons \in SUBSET Reasons,
             Draw(r, reasons) \/ DrawAfresh(r, reasons)
      PROVE  payload' \in Payloads /\ calibrated' \subseteq RequestIds
  BY <1>1, <1>2, <1>4 DEF Draw, DrawAfresh, Payloads
<1>5. {"idle", "claimed", "begun", "calibrated", "scored", "failing", "dated", "loaded",
       "compared", "overtaken"} \subseteq Point
  BY DEF Point, Dated, Compared
<1>6. ASSUME NEW s \in Scorers, Forget(s)
      PROVE  /\ islands' \in BOOLEAN /\ score' \in {"current", "stale", "mixed", "tied"}
             /\ current' \subseteq Scorers /\ calibrated' \subseteq RequestIds
  BY <1>1, <1>6 DEF Forget
<1>7. ASSUME NEW w \in Slots, Finish(w)
      PROVE  /\ at' \in [Scorers -> Point] /\ snapshot' \in [Slots -> RequestIds \cup {NoRequest}]
             /\ islands' \in BOOLEAN /\ score' \in {"current", "stale", "mixed", "tied"}
             /\ current' \subseteq Scorers /\ calibrated' \subseteq RequestIds
  BY <1>1, <1>3, <1>5, <1>6, <1>7 DEF Finish
<1>8. ASSUME NEW r \in RequestIds, RequestActive(r) PROVE RestTyped'
  <2>1. payload' \in Payloads /\ calibrated' \subseteq RequestIds
    BY <1>2, <1>4, <1>8 DEF RequestActive
  <2>2. QED
    BY <1>1, <1>2, <1>8, <2>1 DEF RequestActive, Behave, Deadline, workerVars
<1>9. ASSUME NEW r \in RequestIds, RequestNew(r) PROVE RestTyped'
  <2>1. payload' \in Payloads /\ calibrated' \subseteq RequestIds
    BY <1>2, <1>4, <1>9 DEF RequestNew
  <2>2. QED
    BY <1>1, <1>2, <1>9, <2>1 DEF RequestNew, Behave, workerVars
<1>10. ASSUME NEW r \in RequestIds, NEW delay \in Waits, Schedule(r, delay) PROVE RestTyped'
  <2>1. payload' \in Payloads /\ calibrated' \subseteq RequestIds
    BY <1>2, <1>4, <1>10 DEF Schedule
  <2>2. QED
    BY <1>1, <1>2, <1>10, <2>1 DEF Schedule, workerVars
<1>11. ASSUME RequeueDead \/ ClearHistory \/ Expire \/ Ripen PROVE RestTyped'
  BY <1>1, <1>2, <1>11 DEF RequeueDead, ClearHistory, Expire, Ripen, workerVars, ghosts
<1>12. ASSUME NEW w \in Slots, Claim(w) PROVE RestTyped'
  <2>1. at' \in [Scorers -> Point]
    BY <1>3, <1>5, <1>12 DEF Claim
  <2>2. payload.request \in RequestIds \cup {NoRequest}
    BY <1>1 DEF Payloads
  <2>3. QED
    BY <1>1, <1>12, <2>1, <2>2 DEF Claim, ghosts
<1>13. ASSUME NEW w \in Slots, BeginRefresh(w) PROVE RestTyped'
  <2>1. at' \in [Scorers -> Point]
    BY <1>3, <1>5, <1>13 DEF BeginRefresh
  <2>2. QED
    BY <1>1, <1>13, <2>1 DEF BeginRefresh, ghosts
<1>14. ASSUME NEW w \in Slots, Calibrate(w), snapshot[w] \in RequestIds PROVE RestTyped'
  <2>1. at' \in [Scorers -> Point]
    BY <1>3, <1>5, <1>14 DEF Calibrate
  <2>2. payload' \in Payloads
    BY <1>1, <1>14 DEF Calibrate, Payloads
  <2>3. QED
    BY <1>1, <1>14, <2>1, <2>2 DEF Calibrate
<1>15. ASSUME NEW s \in Scorers, Date(s) \/ Load(s) \/ Compare(s) PROVE RestTyped'
  <2>1. at' \in [Scorers -> Point]
    BY <1>3, <1>5, <1>15 DEF Date, Load, Compare
  <2>2. QED
    BY <1>1, <1>15, <2>1 DEF Date, Load, Compare, ghosts
<1>16. ASSUME NEW s \in Scorers, WriteScores(s) PROVE RestTyped'
  <2>1. current' \subseteq Scorers
    BY <1>1, <1>16 DEF WriteScores
  <2>2. at' \in [Scorers -> Point] /\ score' \in {"current", "stale", "mixed", "tied"}
    <3>1. CASE StoreScore(s)
      BY <1>1, <1>5, <3>1 DEF StoreScore
    <3>2. CASE StoreTime(s)
      <4>1. at' \in [Scorers -> Point]
        BY <1>3, <1>5, <3>2 DEF StoreTime
      <4>2. QED
        BY <1>1, <3>2, <4>1 DEF StoreTime
    <3>3. CASE Goto(s, "scored") /\ score' = score
      BY <1>1, <1>3, <1>5, <3>3
    <3>4. QED
      BY <1>16, <3>1, <3>2, <3>3 DEF WriteScores
  <2>3. QED
    BY <1>1, <1>16, <2>1, <2>2 DEF WriteScores
<1>17. ASSUME NEW w \in Slots, Complete(w) \/ Settle(w) \/ Crash(w) PROVE RestTyped'
  <2>1. Finish(w) /\ payload' = payload
    BY <1>17 DEF Complete, Settle, Crash
  <2>2. wait' \in Waits
    BY <1>1, <1>2, <1>17 DEF Complete, Settle, Crash, FollowUp
  <2>3. QED
    BY <1>1, <1>7, <2>1, <2>2
<1>18. ASSUME NEW w \in Slots, Fail(w) PROVE RestTyped'
  <2>1. at' \in [Scorers -> Point]
    BY <1>3, <1>5, <1>18 DEF Fail
  <2>2. Forget(w) /\ wait' = wait /\ payload' = payload /\ snapshot' = snapshot
    BY <1>18 DEF Fail
  <2>3. QED
    BY <1>1, <1>6, <2>1, <2>2
<1>19. ASSUME NEW b \in BOOLEAN, ManualStart(b) PROVE RestTyped'
  <2>1. at' \in [Scorers -> Point]
    BY <1>3, <1>5, <1>19 DEF ManualStart
  <2>2. QED
    BY <1>1, <1>19, <2>1 DEF ManualStart
<1>20. ASSUME ManualEnd PROVE RestTyped'
  <2>1. at' \in [Scorers -> Point] /\ Forget(Manual)
    BY <1>3, <1>5, <1>20 DEF ManualEnd
  <2>2. wait' = wait /\ payload' = payload /\ snapshot' = snapshot
    BY <1>20 DEF ManualEnd
  <2>3. QED
    BY <1>1, <1>6, <2>1, <2>2
<1>21. ASSUME NEW w \in Slots, Calibrate(w) PROVE snapshot[w] \in RequestIds
  BY <1>21 DEF Calibrate, RequestsAreKnown
<1>22. QED
  BY <1>8, <1>9, <1>10, <1>11, <1>12, <1>13, <1>14, <1>15, <1>16, <1>17, <1>18, <1>19, <1>20, <1>21
     DEF RefreshNext, Request, Timer, Advance, Score

LEMMA QueueTypedNext == ASSUME RefreshTypeOK, RefreshNext PROVE QueueTyped'
<1>1. QueueTyped
  BY RefreshTyping
<1>2. ASSUME NEW r \in RequestIds, RequestActive(r) PROVE QueueTyped'
  BY <1>1, <1>2, QueueRests DEF RequestActive
<1>3. ASSUME NEW r \in RequestIds, NEW delay,
             RequestNew(r) \/ Schedule(r, delay)
      PROVE  QueueTyped'
  BY <1>1, <1>3, QueueOpens DEF RequestNew, Schedule
<1>4. CASE RequeueDead
  BY <1>1, <1>4, QueueOpens DEF RequeueDead
<1>5. CASE ClearHistory
  BY <1>1, <1>5, QueueForgets DEF ClearHistory
<1>6. ASSUME NEW w \in Slots, Claim(w) PROVE QueueTyped'
  BY <1>1, <1>6, QueueGrants DEF Claim
<1>7. ASSUME NEW w \in Slots, Complete(w) PROVE QueueTyped'
  BY <1>1, <1>7, QueueSettles, QueueFollowsUp DEF Complete
<1>8. ASSUME NEW w \in Slots, Settle(w) PROVE QueueTyped'
  <2>1. \/ Queue!SettleAs(w, Refresh, "pending") \/ Queue!SettleAs(w, Refresh, "dead")
        \/ Queue!Leave(w)
    BY <1>8, Zenon DEF Settle
  <2>2. QED
    BY <1>1, <2>1, QueueSettles, QueueLeaves
<1>9. ASSUME NEW w \in Slots, Crash(w) PROVE QueueTyped'
  BY <1>1, <1>9, QueueLeaves DEF Crash
<1>10. CASE Expire
  BY <1>1, <1>10, QueueRevokes, Zenon DEF Expire
<1>11. ASSUME NEW s \in Scorers, Score(s) PROVE QueueTyped'
  BY <1>1, <1>11, QueueRests DEF Score, Date, Load, Compare, WriteScores
<1>12. ASSUME NEW w \in Slots, BeginRefresh(w) \/ Calibrate(w) \/ Fail(w) PROVE QueueTyped'
  BY <1>1, <1>12, QueueRests DEF BeginRefresh, Calibrate, Fail
<1>13. ASSUME NEW b \in BOOLEAN, Ripen \/ ManualStart(b) \/ ManualEnd PROVE QueueTyped'
  BY <1>1, <1>13, QueueRests DEF Ripen, ManualStart, ManualEnd
<1>14. QED
  BY <1>2, <1>3, <1>4, <1>5, <1>6, <1>7, <1>8, <1>9, <1>10, <1>11, <1>12, <1>13, Constants
     DEF RefreshNext, Request, Timer, Advance

----------------------------------------------------------------------------
(* The order of evaluation times.                                          *)

\* What at says after the steps that move one scorer.
LEMMA Moved ==
  ASSUME RefreshTypeOK, NEW s \in Scorers, NEW point \in Point, Goto(s, point)
  PROVE  /\ at'[s] = point /\ \A x \in Scorers : x # s => at'[x] = at[x]
         /\ point \in Dated => Evaluated' = Evaluated \cup {s}
         /\ point \notin Dated => Evaluated' = Evaluated \ {s}
<1>1. at \in [Scorers -> Point]
  BY RefreshTyping DEF RestTyped
<1>2. at'[s] = point /\ \A x \in Scorers : x # s => at'[x] = at[x]
  BY <1>1 DEF Goto
<1>3. Stored # s
  BY Constants
<1>4. Evaluated' = {Stored} \cup {x \in Scorers : at'[x] \in Dated}
  BY DEF Evaluated
<1>5. QED
  BY <1>2, <1>3, <1>4 DEF Evaluated

LEMMA WritingMoves ==
  ASSUME RefreshTypeOK, NEW s \in Scorers, WriteScores(s)
  PROVE  /\ s \in Evaluated /\ at[s] \in Compared /\ at'[s] = "scored"
         /\ Evaluated' = Evaluated \ {s}
         /\ \A x \in Scorers : x # s =>
              \/ at'[x] = at[x]
              \/ at[x] = "compared" /\ at'[x] = "overtaken"
<1>1. at \in [Scorers -> Point]
  BY RefreshTyping DEF RestTyped
<1>2. s \in Evaluated /\ at[s] \in Compared
  BY DEF WriteScores, Evaluated, Dated
<1>3. /\ at'[s] = "scored"
      /\ \A x \in Scorers : x # s =>
           \/ at'[x] = at[x]
           \/ at[x] = "compared" /\ at'[x] = "overtaken"
  <2>1. CASE StoreScore(s)
    BY <1>1, <2>1 DEF StoreScore
  <2>2. CASE StoreTime(s) \/ Goto(s, "scored")
    BY <1>1, <2>2 DEF StoreTime, Goto
  <2>3. QED
    BY <2>1, <2>2 DEF WriteScores
<1>4. \A x \in Scorers : x # s => (at'[x] \in Dated <=> at[x] \in Dated)
  BY <1>3 DEF Dated, Compared
<1>5. Stored # s /\ "scored" \notin Dated
  BY Constants
<1>6. Evaluated' = {Stored} \cup {x \in Scorers : at'[x] \in Dated}
  BY DEF Evaluated
<1>7. QED
  BY <1>2, <1>3, <1>4, <1>5, <1>6 DEF Evaluated

LEMMA OrderedNext ==
  ASSUME RefreshTypeOK, Ordered(Evaluated, order), RefreshNext
  PROVE  Ordered(Evaluated', order')
<1>1. {"idle", "claimed", "begun", "calibrated", "scored", "failing", "dated", "loaded",
       "compared", "overtaken"} \subseteq Point
  BY DEF Point, Dated, Compared
<1>2. ASSUME at' = at, order' = order PROVE Ordered(Evaluated', order')
  BY <1>2 DEF Evaluated
<1>3. ASSUME NEW s \in Scorers, NEW point \in Point, Goto(s, point), order' = order,
             at[s] \in Dated <=> point \in Dated
      PROVE  Ordered(Evaluated', order')
  <2>1. Evaluated' = Evaluated
    BY <1>3, Moved, Constants DEF Evaluated
  <2>2. QED
    BY <1>3, <2>1
<1>4. ASSUME NEW s \in Scorers, NEW point \in Point, Goto(s, point), order' = Without(s),
             point \notin Dated
      PROVE  Ordered(Evaluated', order')
  BY <1>4, Moved, WithoutIsOrdered
<1>5. ASSUME NEW r \in RequestIds, NEW delay,
             RequestActive(r) \/ RequestNew(r) \/ Schedule(r, delay)
      PROVE  Ordered(Evaluated', order')
  BY <1>2, <1>5 DEF RequestActive, RequestNew, Schedule, Behave, workerVars
<1>6. ASSUME RequeueDead \/ ClearHistory \/ Expire \/ Ripen
      PROVE  Ordered(Evaluated', order')
  BY <1>2, <1>6 DEF RequeueDead, ClearHistory, Expire, Ripen, workerVars
<1>7. ASSUME NEW w \in Slots, Claim(w) \/ BeginRefresh(w) \/ Calibrate(w)
      PROVE  Ordered(Evaluated', order')
  <2>1. PICK point \in {"claimed", "begun", "calibrated"} : Goto(w, point)
    BY <1>7 DEF Claim, BeginRefresh, Calibrate
  <2>2. at[w] \notin Dated /\ point \notin Dated /\ point \in Point /\ order' = order /\ w \in Scorers
    BY <1>7, <2>1, Constants DEF Claim, BeginRefresh, Calibrate, Point
  <2>3. QED
    BY <1>3, <2>1, <2>2
<1>8. ASSUME NEW s \in Scorers, Load(s) \/ Compare(s)
      PROVE  Ordered(Evaluated', order')
  <2>1. PICK point \in {"loaded", "compared"} : Goto(s, point)
    BY <1>8 DEF Load, Compare
  <2>2. at[s] \in Dated /\ point \in Dated /\ point \in Point /\ order' = order
    BY <1>8, <2>1 DEF Load, Compare, Point, Dated, Compared
  <2>3. QED
    BY <1>3, <2>1, <2>2
<1>9. ASSUME NEW s \in Scorers, Date(s) PROVE Ordered(Evaluated', order')
  <2>1. s \notin Evaluated
    BY <1>9, Constants DEF Date, Evaluated
  <2>2. Evaluated' = Evaluated \cup {s}
    BY <1>1, <1>9, Moved DEF Date, Dated
  <2>3. Ordered(Evaluated \cup {s}, order \cup (Evaluated \X {s}))
    BY <2>1, LatestIsOrdered
  <2>4. Ordered(Evaluated \cup {s}, order \cup ((Evaluated \ Latest) \X {s}))
    BY <2>1, AmongLatestIsOrdered DEF Latest
  <2>5. QED
    BY <1>9, <2>2, <2>3, <2>4 DEF Date
<1>10. ASSUME NEW s \in Scorers, WriteScores(s) PROVE Ordered(Evaluated', order')
  <2>1. s \in Evaluated /\ Evaluated' = Evaluated \ {s} /\ s # Stored /\ Stored \in Evaluated
    BY <1>10, WritingMoves, Constants
  <2>2. order' = InPlaceOf(s) \/ order' = Without(s)
    BY <1>10 DEF WriteScores
  <2>3. QED
    BY <2>1, <2>2, InPlaceOfIsOrdered, WithoutIsOrdered
<1>11. ASSUME NEW w \in Slots, Complete(w) \/ Settle(w) \/ Crash(w) \/ Fail(w)
       PROVE  Ordered(Evaluated', order')
  <2>1. order' = Without(w) /\ (Goto(w, "idle") \/ Goto(w, "failing"))
    BY <1>11 DEF Complete, Settle, Crash, Fail, Finish, Forget
  <2>2. QED
    BY <1>1, <1>4, <2>1, Constants
<1>12. ASSUME NEW b \in BOOLEAN, ManualStart(b) PROVE Ordered(Evaluated', order')
  <2>1. Goto(Manual, "calibrated") /\ at[Manual] = "idle" /\ order' = order
    BY <1>12 DEF ManualStart
  <2>2. QED
    BY <1>1, <1>3, <2>1, Constants
<1>13. ASSUME ManualEnd PROVE Ordered(Evaluated', order')
  <2>1. Goto(Manual, "idle") /\ order' = Without(Manual)
    BY <1>13 DEF ManualEnd, Forget
  <2>2. QED
    BY <1>1, <1>4, <2>1, Constants
<1>14. QED
  BY <1>5, <1>6, <1>7, <1>8, <1>9, <1>10, <1>11, <1>12, <1>13, Constants
     DEF RefreshNext, Request, Timer, Advance, Score

----------------------------------------------------------------------------
(* Requests and their deadline.                                            *)

\* What the row of the job, a deadline and the executions may do in a step.
RowKnown == /\ Status = "none" => payload.request = NoRequest
            /\ Status # "none" => payload.request \in RequestIds /\ payload.reasons # {}
            /\ Status = "running" => tries[Refresh] >= 1
SlotsKnow == \A w \in Slots : at[w] # "idle" => snapshot[w] \in RequestIds

LEMMA Requesting ==
  ASSUME RefreshTypeOK, NEW r \in RequestIds, NEW reasons \in SUBSET Reasons
  PROVE  /\ Draw(r, reasons) => /\ payload'.request = r /\ payload'.reasons = reasons
                                /\ payload'.checkpoint = payload.checkpoint
         /\ DrawAfresh(r, reasons) => /\ payload'.request = r /\ payload'.reasons = reasons
                                      /\ payload'.checkpoint = NoRequest
BY RefreshTyping DEF RestTyped, Payloads, Draw, DrawAfresh, NoPayload

LEMMA RowKnownNext ==
  ASSUME RefreshTypeOK, RequestsAreKnown, InteractionIsPrompt, RefreshNext
  PROVE  RowKnown' /\ InteractionIsPrompt'
<1> USE Constants DEF QueueStep
<1>1. QueueTyped /\ RestTyped /\ RowKnown /\ payload \in Payloads /\ tries[Refresh] \in Nat
  BY RefreshTyping DEF QueueTyped, RestTyped, RequestsAreKnown, RowKnown
<1>2. {"action"} \in SUBSET Reasons /\ {"elapsed_time"} \in SUBSET Reasons
  BY DEF Reasons
<1>3. ASSUME QueueStep(Status, holder[Refresh], tries[Refresh]), payload'.request = payload.request,
             payload'.reasons = payload.reasons, wait' = wait \/ wait' # "later"
      PROVE  RowKnown' /\ InteractionIsPrompt'
  BY <1>1, <1>3 DEF RowKnown, InteractionIsPrompt
<1>4. ASSUME NEW r \in RequestIds, RequestActive(r) PROVE RowKnown' /\ InteractionIsPrompt'
  <2>1. QueueStep(Status, holder[Refresh], tries[Refresh])
    BY <1>1, <1>4, QueueRests DEF RequestActive
  <2>2. payload'.request = r /\ payload'.reasons = {"action"}
    BY <1>2, <1>4, Requesting DEF RequestActive
  <2>3. Status \in Outstanding /\ wait' = Deadline
    BY <1>4 DEF RequestActive
  <2>4. ASSUME Status = "pending", tries[Refresh] = 0 PROVE wait' # "later"
    <3>1. payload.reasons \in SUBSET Reasons /\ payload.reasons # {}
      BY <1>1, <2>4 DEF RowKnown, Payloads
    <3>2. "action" \in payload.reasons \/ payload.reasons = {"elapsed_time"}
      BY <3>1 DEF Reasons
    <3>3. QED
      BY <2>3, <2>4, <3>2 DEF Deadline, AwaitsTimer, InteractionIsPrompt
  <2>5. QED
    BY <1>1, <2>1, <2>2, <2>3, <2>4 DEF RowKnown, InteractionIsPrompt, Outstanding
<1>5. ASSUME NEW r \in RequestIds, RequestNew(r) PROVE RowKnown' /\ InteractionIsPrompt'
  <2>1. QueueStep("pending", NoSlot, 0)
    BY <1>1, <1>5, QueueOpens DEF RequestNew
  <2>2. payload'.request = r /\ payload'.reasons = {"action"} /\ wait' = "soon"
    BY <1>2, <1>5, Requesting DEF RequestNew
  <2>3. QED
    BY <2>1, <2>2 DEF RowKnown, InteractionIsPrompt
<1>6. ASSUME NEW r \in RequestIds, NEW delay, Schedule(r, delay)
      PROVE RowKnown' /\ InteractionIsPrompt'
  <2>1. QueueStep("pending", NoSlot, 0)
    BY <1>1, <1>6, QueueOpens DEF Schedule
  <2>2. payload'.request = r /\ payload'.reasons = {"elapsed_time"}
    BY <1>2, <1>6, Requesting DEF Schedule
  <2>3. QED
    BY <2>1, <2>2 DEF RowKnown, InteractionIsPrompt
<1>7. CASE RequeueDead
  <2>1. QueueStep("pending", NoSlot, 0) /\ Status = "dead" /\ payload' = payload /\ wait' = "now"
    BY <1>1, <1>7, QueueOpens DEF RequeueDead
  <2>2. QED
    BY <1>1, <2>1 DEF RowKnown, InteractionIsPrompt
<1>8. CASE ClearHistory
  <2>1. QueueStep("none", NoSlot, 0) /\ payload' = NoPayload
    BY <1>1, <1>8, QueueForgets DEF ClearHistory
  <2>2. QED
    BY <2>1 DEF RowKnown, InteractionIsPrompt, NoPayload
<1>9. ASSUME NEW w \in Slots, Claim(w) PROVE RowKnown' /\ InteractionIsPrompt'
  <2>1. /\ QueueStep("running", w, tries[Refresh] + 1) /\ Status \in Outstanding
        /\ payload' = payload
    BY <1>1, <1>9, QueueGrants DEF Claim
  <2>2. QED
    BY <1>1, <2>1 DEF RowKnown, InteractionIsPrompt, Outstanding
<1>10. ASSUME NEW w \in Slots, BeginRefresh(w) \/ Fail(w) PROVE RowKnown' /\ InteractionIsPrompt'
  BY <1>1, <1>3, <1>10, QueueRests DEF BeginRefresh, Fail
<1>11. ASSUME NEW w \in Slots, Calibrate(w) PROVE RowKnown' /\ InteractionIsPrompt'
  BY <1>1, <1>3, <1>11, QueueRests DEF Calibrate, Payloads
<1>12. ASSUME NEW s \in Scorers, Score(s) PROVE RowKnown' /\ InteractionIsPrompt'
  BY <1>1, <1>3, <1>12, QueueRests DEF Score, Date, Load, Compare, WriteScores
<1>13. ASSUME NEW w \in Slots, Complete(w) PROVE RowKnown' /\ InteractionIsPrompt'
  <2>1. Status = "running" /\ payload' = payload
    BY <1>13 DEF Complete, HoldsLease
  <2>2. CASE Queue!SettleAs(w, Refresh, "succeeded")
    <3>1. QueueStep("succeeded", NoSlot, 0)
      BY <1>1, <2>2, QueueSettles DEF Left
    <3>2. QED
      BY <1>1, <2>1, <3>1 DEF RowKnown, InteractionIsPrompt
  <2>3. CASE FollowUp(w)
    <3>1. QueueStep("pending", NoSlot, 0) /\ wait' = "soon"
      BY <1>1, <2>3, QueueFollowsUp DEF FollowUp
    <3>2. QED
      BY <1>1, <2>1, <3>1 DEF RowKnown, InteractionIsPrompt
  <2>4. QED
    BY <1>13, <2>2, <2>3 DEF Complete
<1>14. ASSUME NEW w \in Slots, Settle(w) PROVE RowKnown' /\ InteractionIsPrompt'
  <2>1. payload' = payload
    BY <1>14 DEF Settle
  <2>2. ASSUME NEW p \in {"pending", "dead"}, Queue!SettleAs(w, Refresh, p)
        PROVE  RowKnown' /\ InteractionIsPrompt'
    <3>1. QueueStep(p, NoSlot, Left(p)) /\ Status = "running"
      BY <1>1, <2>2, QueueSettles DEF HoldsLease
    <3>2. QED
      BY <1>1, <2>1, <3>1 DEF Left, RowKnown, InteractionIsPrompt
  <2>3. CASE Queue!Leave(w) /\ wait' = wait
    BY <1>1, <1>3, <2>1, <2>3, QueueLeaves
  <2>4. QED
    BY <1>14, <2>2, <2>3 DEF Settle
<1>15. ASSUME NEW w \in Slots, Crash(w) PROVE RowKnown' /\ InteractionIsPrompt'
  BY <1>1, <1>3, <1>15, QueueLeaves DEF Crash
<1>16. CASE Expire
  <2>1. Status = "running" /\ \E p \in {"pending", "dead"} : QueueStep(p, NoSlot, Left(p))
    BY <1>1, <1>16, QueueRevokes, Zenon DEF Expire
  <2>2. payload' = payload /\ wait' = "now"
    BY <1>16 DEF Expire
  <2>3. QED
    BY <1>1, <2>1, <2>2 DEF RowKnown, InteractionIsPrompt
<1>17. ASSUME NEW b \in BOOLEAN, Ripen \/ ManualStart(b) \/ ManualEnd
       PROVE RowKnown' /\ InteractionIsPrompt'
  BY <1>1, <1>3, <1>17, QueueRests DEF Ripen, ManualStart, ManualEnd
<1>18. QED
  BY <1>4, <1>5, <1>6, <1>7, <1>8, <1>9, <1>10, <1>11, <1>12, <1>13, <1>14, <1>15, <1>16, <1>17
     DEF RefreshNext, Request, Timer, Advance

\* Whoever is at work was at work before and keeps its snapshot, or has claimed.
LEMMA SnapshotsNext ==
  ASSUME RefreshTypeOK, RefreshNext, NEW w \in Slots
  PROVE  \/ at'[w] = "idle"
         \/ snapshot'[w] = snapshot[w] /\ at[w] # "idle"
         \/ Claim(w) /\ snapshot'[w] = payload.request /\ Status \in Outstanding
<1> DEFINE Same == snapshot'[w] = snapshot[w] /\ (at[w] = "idle" <=> at'[w] = "idle")
           P == \/ at'[w] = "idle"
                \/ snapshot'[w] = snapshot[w] /\ at[w] # "idle"
                \/ Claim(w) /\ snapshot'[w] = payload.request /\ Status \in Outstanding
<1>1. QueueTyped /\ at \in [Scorers -> Point] /\ snapshot \in [Slots -> RequestIds \cup {NoRequest}]
      /\ w \in Scorers /\ w # Manual
  BY RefreshTyping, Constants DEF RestTyped
<1>2. ASSUME NEW r, NEW delay,
             RequestActive(r) \/ RequestNew(r) \/ Schedule(r, delay)
      PROVE  P
  BY <1>2 DEF RequestActive, RequestNew, Schedule, Behave, workerVars
<1>3. ASSUME RequeueDead \/ ClearHistory \/ Expire \/ Ripen
      PROVE  P
  BY <1>3 DEF RequeueDead, ClearHistory, Expire, Ripen, workerVars
<1>4. ASSUME NEW v \in Slots, Claim(v) PROVE P
  <2>1. Status \in Outstanding
    BY <1>1, <1>4, QueueGrants DEF Claim
  <2>2. CASE v = w
    BY <1>1, <1>4, <2>1, <2>2 DEF Claim
  <2>3. CASE v # w
    BY <1>1, <1>4, <2>3 DEF Claim, Goto
  <2>4. QED
    BY <2>2, <2>3
<1>5. ASSUME NEW v \in Slots, BeginRefresh(v) \/ Calibrate(v) \/ Fail(v) PROVE P
  BY <1>1, <1>5, Constants DEF BeginRefresh, Calibrate, Fail, Goto
<1>6. ASSUME NEW s \in Scorers, Date(s) \/ Load(s) \/ Compare(s) PROVE P
  BY <1>1, <1>6, Constants DEF Date, Load, Compare, Goto
<1>7. ASSUME NEW s \in Scorers, WriteScores(s) PROVE P
  <2>1. /\ at[s] # "idle" /\ snapshot' = snapshot
        /\ \A x \in Scorers : x # s => at'[x] = at[x] \/ at[x] = "compared"
    BY <1>7, WritingMoves DEF WriteScores, Compared
  <2>2. QED
    BY <1>1, <2>1
<1>8. ASSUME NEW v \in Slots, Complete(v) \/ Settle(v) \/ Crash(v) PROVE P
  <2>1. Goto(v, "idle") /\ snapshot' = [snapshot EXCEPT ![v] = NoRequest]
    BY <1>8 DEF Complete, Settle, Crash, Finish
  <2>2. QED
    BY <1>1, <2>1, Constants DEF Goto
<1>9. ASSUME NEW b, ManualStart(b) \/ ManualEnd PROVE P
  BY <1>1, <1>9 DEF ManualStart, ManualEnd, Goto
<1>10. QED
  BY <1>2, <1>3, <1>4, <1>5, <1>6, <1>7, <1>8, <1>9, Constants
     DEF RefreshNext, Request, Timer, Advance, Score

LEMMA RequestsAreKnownNext ==
  ASSUME RefreshTypeOK, RequestsAreKnown, InteractionIsPrompt, RefreshNext
  PROVE  RequestsAreKnown' /\ InteractionIsPrompt'
<1>1. RowKnown' /\ InteractionIsPrompt'
  BY RowKnownNext
<1>2. SlotsKnow'
  BY SnapshotsNext DEF RequestsAreKnown, SlotsKnow, Outstanding
<1>3. QED
  BY <1>1, <1>2 DEF RequestsAreKnown, RowKnown, SlotsKnow

----------------------------------------------------------------------------
(* Checkpoints.                                                            *)

LEMMA CheckpointsKept ==
  ASSUME CheckpointsAreKept, payload' = payload, calibrated' = calibrated,
         \A w \in Slots : HoldsLease(w)' /\ at'[w] # "idle" =>
           /\ HoldsLease(w) /\ at[w] # "idle" /\ snapshot'[w] = snapshot[w]
           /\ at'[w] = "begun" => at[w] = "begun"
  PROVE  CheckpointsAreKept'
BY DEF CheckpointsAreKept, Spares

\* The lease is free after a step, and the row remembers its present request.
LEMMA CheckpointsOfNobody ==
  ASSUME Status' # "running",
         payload'.request \in calibrated' => payload'.checkpoint = payload'.request
  PROVE  CheckpointsAreKept'
BY DEF CheckpointsAreKept, HoldsLease, Status

LEMMA CheckpointsNext ==
  ASSUME RefreshTypeOK, RequestsAreKnown, CheckpointsAreKept, RefreshNext
  PROVE  CheckpointsAreKept'
<1> USE Constants DEF QueueStep
<1>1. /\ QueueTyped /\ RestTyped /\ payload \in Payloads /\ at \in [Scorers -> Point]
      /\ snapshot \in [Slots -> RequestIds \cup {NoRequest}] /\ calibrated \subseteq RequestIds
  BY RefreshTyping DEF RestTyped
<1>2. {"action"} \in SUBSET Reasons /\ {"elapsed_time"} \in SUBSET Reasons
  BY DEF Reasons
<1>3. payload.request \in calibrated => payload.checkpoint = payload.request
  BY DEF CheckpointsAreKept
<1>4. ASSUME QueueStep(Status, holder[Refresh], tries[Refresh])
      PROVE  \A w : HoldsLease(w)' <=> HoldsLease(w)
  BY <1>4 DEF HoldsLease
<1>5. ASSUME NEW r \in RequestIds, RequestActive(r) PROVE CheckpointsAreKept'
  <2>1. /\ payload'.request = r /\ payload'.checkpoint = payload.checkpoint
        /\ r \notin HeldIds /\ calibrated' = (calibrated \cap HeldIds) \ {r}
    BY <1>2, <1>5, Requesting DEF RequestActive, Draw
  <2>2. QueueStep(Status, holder[Refresh], tries[Refresh]) /\ at' = at /\ snapshot' = snapshot
    BY <1>1, <1>5, QueueRests DEF RequestActive, Behave, workerVars
  <2>3. \A w \in Slots : HoldsLease(w)' /\ at'[w] # "idle" => Spares(w)'
    BY <1>4, <2>1, <2>2 DEF CheckpointsAreKept, Spares
  <2>4. QED
    BY <2>1, <2>3 DEF CheckpointsAreKept
<1>6. ASSUME NEW r \in RequestIds, NEW delay, RequestNew(r) \/ Schedule(r, delay)
      PROVE  CheckpointsAreKept'
  <2>1. payload'.request = r /\ calibrated' = (calibrated \cap HeldIds) \ {r}
    BY <1>2, <1>6, Requesting DEF RequestNew, Schedule, DrawAfresh
  <2>2. Status' = "pending"
    BY <1>1, <1>6, QueueOpens DEF RequestNew, Schedule
  <2>3. QED
    BY <2>1, <2>2, CheckpointsOfNobody
<1>7. CASE RequeueDead
  <2>1. Status' = "pending" /\ payload' = payload /\ calibrated' = calibrated
    BY <1>1, <1>7, QueueOpens DEF RequeueDead, ghosts
  <2>2. QED
    BY <1>3, <2>1, CheckpointsOfNobody
<1>8. CASE ClearHistory
  <2>1. Status' = "none" /\ payload'.request = NoRequest /\ calibrated' = calibrated
    BY <1>1, <1>8, QueueForgets DEF ClearHistory, ghosts, NoPayload
  <2>2. QED
    BY <1>1, <2>1, CheckpointsOfNobody
<1>9. ASSUME NEW w \in Slots, Claim(w) PROVE CheckpointsAreKept'
  <2>1. QueueStep("running", w, tries[Refresh] + 1)
    BY <1>1, <1>9, QueueGrants DEF Claim
  <2>2. /\ payload' = payload /\ calibrated' = calibrated /\ at'[w] = "claimed"
        /\ snapshot'[w] = payload.request
    BY <1>1, <1>9 DEF Claim, Goto, ghosts
  <2>3. Spares(w)'
    BY <1>3, <2>2 DEF Spares
  <2>4. \A v \in Slots : HoldsLease(v)' => v = w
    BY <2>1 DEF HoldsLease
  <2>5. QED
    BY <1>3, <2>2, <2>3, <2>4 DEF CheckpointsAreKept
<1>10. ASSUME NEW w \in Slots, BeginRefresh(w) PROVE CheckpointsAreKept'
  <2>1. QueueStep(Status, holder[Refresh], tries[Refresh])
    BY <1>1, <1>10, QueueRests DEF BeginRefresh
  <2>2. /\ payload' = payload /\ calibrated' = calibrated /\ snapshot' = snapshot
        /\ at[w] # "idle" /\ \A v \in Slots : v # w => at'[v] = at[v]
        /\ at'[w] = "begun" => ~(Status # "none" /\ payload.checkpoint = snapshot[w])
    BY <1>1, <1>10 DEF BeginRefresh, Goto, ghosts
  <2>3. ASSUME HoldsLease(w) PROVE Spares(w)'
    <3>1. Spares(w) /\ Status # "none"
      BY <2>2, <2>3 DEF CheckpointsAreKept, HoldsLease
    <3>2. QED
      BY <2>2, <3>1 DEF Spares
  <2>4. \A v \in Slots : v # w /\ HoldsLease(v) /\ at'[v] # "idle" => Spares(v)'
    BY <2>2 DEF CheckpointsAreKept, Spares
  <2>5. QED
    BY <1>3, <1>4, <2>1, <2>2, <2>3, <2>4 DEF CheckpointsAreKept
<1>11. ASSUME NEW w \in Slots, Calibrate(w) PROVE CheckpointsAreKept'
  <2>1. QueueStep(Status, holder[Refresh], tries[Refresh])
    BY <1>1, <1>11, QueueRests DEF Calibrate
  <2>2. /\ payload'.request = payload.request /\ payload'.checkpoint = snapshot[w]
        /\ calibrated' = calibrated \cup {snapshot[w]} /\ snapshot' = snapshot
        /\ at[w] = "begun" /\ at'[w] = "calibrated"
    BY <1>1, <1>11 DEF Calibrate, Goto, Payloads
  <2>3. HoldsLease(w) /\ Spares(w)
    BY <1>11, <2>2 DEF Calibrate, CalibrationFenced, CheckpointsAreKept
  <2>4. Spares(w)'
    BY <2>2, <2>3 DEF Spares
  <2>5. \A v \in Slots : HoldsLease(v)' => v = w
    BY <1>4, <2>1, <2>3 DEF HoldsLease
  <2>6. payload'.request \in calibrated' => payload'.checkpoint = payload'.request
    BY <2>2, <2>3 DEF Spares
  <2>7. QED
    BY <2>4, <2>5, <2>6 DEF CheckpointsAreKept
<1>12. ASSUME NEW s \in Scorers, Score(s) PROVE CheckpointsAreKept'
  <2>1. QueueStep(Status, holder[Refresh], tries[Refresh])
    BY <1>1, <1>12, QueueRests DEF Score, Date, Load, Compare, WriteScores
  <2>2. payload' = payload /\ calibrated' = calibrated /\ snapshot' = snapshot
    BY <1>12 DEF Score, Date, Load, Compare, WriteScores, ghosts
  <2>3. /\ at[s] # "idle" /\ at'[s] # "begun"
        /\ \A x \in Scorers : x # s =>
             \/ at'[x] = at[x]
             \/ at[x] = "compared" /\ at'[x] = "overtaken"
    <3>1. CASE Date(s) \/ Load(s) \/ Compare(s)
      BY <1>1, <3>1 DEF Date, Load, Compare, Goto
    <3>2. CASE WriteScores(s)
      BY <3>2, WritingMoves DEF Compared
    <3>3. QED
      BY <1>12, <3>1, <3>2 DEF Score
  <2>4. QED
    BY <1>4, <2>1, <2>2, <2>3, CheckpointsKept
<1>13. ASSUME NEW w \in Slots, Complete(w) PROVE CheckpointsAreKept'
  <2>1. payload' = payload /\ calibrated' = calibrated
    BY <1>13 DEF Complete, Finish, Forget
  <2>2. Status' # "running"
    <3>1. CASE Queue!SettleAs(w, Refresh, "succeeded")
      BY <1>1, <3>1, QueueSettles
    <3>2. CASE FollowUp(w)
      BY <1>1, <3>2, QueueFollowsUp
    <3>3. QED
      BY <1>13, <3>1, <3>2 DEF Complete
  <2>3. QED
    BY <1>3, <2>1, <2>2, CheckpointsOfNobody
<1>14. ASSUME NEW w \in Slots, Settle(w) \/ Crash(w) PROVE CheckpointsAreKept'
  <2>1. payload' = payload /\ calibrated' = calibrated /\ at'[w] = "idle"
        /\ \A v \in Slots : v # w => at'[v] = at[v] /\ snapshot'[v] = snapshot[v]
    BY <1>1, <1>14 DEF Settle, Crash, Finish, Forget, Goto
  <2>2. ASSUME NEW p \in {"pending", "dead"}, Queue!SettleAs(w, Refresh, p)
        PROVE  CheckpointsAreKept'
    <3>1. Status' = p
      BY <1>1, <2>2, QueueSettles
    <3>2. QED
      BY <1>3, <2>1, <3>1, CheckpointsOfNobody
  <2>3. CASE Queue!Leave(w)
    <3>1. QueueStep(Status, holder[Refresh], tries[Refresh])
      BY <1>1, <2>3, QueueLeaves
    <3>2. QED
      BY <1>4, <2>1, <3>1, CheckpointsKept
  <2>4. QED
    BY <1>14, <2>2, <2>3 DEF Settle, Crash
<1>15. ASSUME NEW w \in Slots, Fail(w) PROVE CheckpointsAreKept'
  <2>1. QueueStep(Status, holder[Refresh], tries[Refresh])
    BY <1>1, <1>15, QueueRests DEF Fail
  <2>2. /\ payload' = payload /\ calibrated' = calibrated /\ snapshot' = snapshot
        /\ at[w] # "idle" /\ at'[w] = "failing" /\ \A v \in Slots : v # w => at'[v] = at[v]
    BY <1>1, <1>15 DEF Fail, Forget, Goto
  <2>3. QED
    BY <1>4, <2>1, <2>2, CheckpointsKept
<1>16. CASE Expire
  <2>1. \E p \in {"pending", "dead"} : QueueStep(p, NoSlot, Left(p))
    BY <1>1, <1>16, QueueRevokes, Zenon DEF Expire
  <2>2. payload' = payload /\ calibrated' = calibrated
    BY <1>16 DEF Expire, ghosts
  <2>3. QED
    BY <1>3, <2>1, <2>2, CheckpointsOfNobody
<1>17. ASSUME NEW b \in BOOLEAN, Ripen \/ ManualStart(b) \/ ManualEnd PROVE CheckpointsAreKept'
  <2>1. QueueStep(Status, holder[Refresh], tries[Refresh])
    BY <1>1, <1>17, QueueRests DEF Ripen, ManualStart, ManualEnd
  <2>2. /\ payload' = payload /\ calibrated' = calibrated /\ snapshot' = snapshot
        /\ \A w \in Slots : at'[w] = at[w]
    BY <1>1, <1>17 DEF Ripen, ManualStart, ManualEnd, Forget, Goto, workerVars, ghosts
  <2>3. QED
    BY <1>4, <2>1, <2>2, CheckpointsKept
<1>18. QED
  BY <1>5, <1>6, <1>7, <1>8, <1>9, <1>10, <1>11, <1>12, <1>13, <1>14, <1>15, <1>16, <1>17
     DEF RefreshNext, Request, Timer, Advance

----------------------------------------------------------------------------
(* Executions that answer the present request.                             *)

\* An evaluation later than that of a is up to date after the step, if it was before.
Follows(a, x) ==
  x \in Scorers /\ <<a, x>> \in order' /\ islands /\ (<<a, x>> \in order => UpToDate(x))
  => UpToDate(x)'

\* In these steps nobody falls behind the reader's actions; order may lose pairs,
\* and gain those of a scorer that is up to date.
LEMMA AnswersKept ==
  ASSUME islands => islands', score # "stale" => score' # "stale",
         \A a : <<a, Stored>> \in order' => <<a, Stored>> \in order,
         \A a, x : Follows(a, x)
  PROVE  /\ Settled => Settled'
         /\ \A w \in Slots :
              Answers(w) /\ at'[w] = at[w] /\ (w \in current => w \in current') => Answers(w)'
<1>1. Settled => Settled'
  BY DEF Settled, Follows
<1>2. ASSUME NEW w \in Slots, Answers(w), at'[w] = at[w], w \in current => w \in current'
      PROVE  Answers(w)'
  <2>1. at[w] \in Dated => islands
    BY <1>2 DEF Answers
  <2>2. QED
    BY <1>1, <1>2, <2>1 DEF Answers, Follows
<1>3. QED
  BY <1>1, <1>2

\* A point of the program at which nothing is promised.
LEMMA AnswersVacuously ==
  ASSUME NEW w, at'[w] \in {"idle", "claimed", "begun", "failing"}
  PROVE  Answers(w)'
BY DEF Answers, Dated, Compared

\* One scorer leaves, with its evaluation time.
LEMMA AnswersWithout ==
  ASSUME RefreshTypeOK, NEW s \in Scorers, Forget(s), at'[s] \notin Dated,
         \A x \in Scorers : x # s => at'[x] = at[x]
  PROVE  /\ Settled => Settled'
         /\ \A w \in Slots : w # s /\ Answers(w) => Answers(w)'
<1>1. \A a, b : <<a, b>> \in order' => <<a, b>> \in order /\ b # s
  BY DEF Forget, Without
<1>2. islands' = islands /\ score' = score /\ current' = current \ {s}
  BY DEF Forget
<1>3. \A a, x : Follows(a, x)
  BY <1>1, <1>2 DEF UpToDate, Follows
<1>4. QED
  BY <1>1, <1>2, <1>3, AnswersKept, Constants

\* The steps that leave alone what scorers compute.
LEMMA AnswersUndisturbed ==
  ASSUME AnswersAreUpToDate, payload'.request = payload.request,
         payload'.checkpoint = payload.checkpoint,
         UNCHANGED <<workerVars, ghosts>>, Status' = "succeeded" => Status = "succeeded"
  PROVE  AnswersAreUpToDate'
BY DEF AnswersAreUpToDate, IsAnswered, Answers, Settled, UpToDate, workerVars, ghosts

\* A scorer that writes has taken an evaluation time, and the stored score is as
\* good as what it computed.
LEMMA AnswersWritten ==
  ASSUME RefreshTypeOK, Ordered(Evaluated, order), NEW s \in Scorers, WriteScores(s)
  PROVE  /\ Settled => Settled'
         /\ s \in Slots /\ Answers(s) => Answers(s)'
         /\ \A w \in Slots : w # s /\ Answers(w) => Answers(w)'
<1>1. /\ s \in Evaluated /\ s # Stored /\ Stored \in Evaluated /\ Stored \notin Scorers
      /\ at[s] \in Compared /\ at'[s] = "scored"
      /\ \A x \in Scorers : x # s => \/ at'[x] = at[x]
                                     \/ at[x] = "compared" /\ at'[x] = "overtaken"
      /\ islands' = islands /\ current' = current \ {s}
  BY WritingMoves, Constants DEF WriteScores
<1>2. \A x \in Scorers : x # s /\ UpToDate(x) => UpToDate(x)'
  BY <1>1 DEF UpToDate
<1>3. at[s] \in Dated /\ at[s] # "dated" /\ (UpToDate(s) <=> s \in current)
  BY <1>1 DEF UpToDate, Dated, Compared
<1>4. order \subseteq Evaluated \X Evaluated
  BY DEF Ordered
<1>5. /\ \A x \in Evaluated : x # Stored => x \in Scorers /\ at[x] \in Dated
      /\ \A x \in Scorers : at[x] \in Dated => x \in Evaluated
  BY DEF Evaluated
<1>6. Answers(s) => islands /\ s \in current
  BY <1>3 DEF Answers
<1>7. ASSUME NotNewer(s), order' = InPlaceOf(s), StoreScore(s) \/ StoreTime(s)
      PROVE  /\ Settled => Settled'
             /\ Answers(s) => Settled'
             /\ \A w \in Slots : w # s /\ Answers(w) => Answers(w)'
  <2>1. \A x \in Evaluated : <<s, x>> \in order => <<Stored, x>> \in order
    BY <1>1, <1>7 DEF Ordered, NotNewer
  <2>2. /\ s \in current => score' # "stale"
        /\ <<Stored, s>> \notin order /\ score # "stale" => score' # "stale"
    BY <1>1, <1>7 DEF StoreScore, StoreTime, NotNewer, Tied, Compared
  <2>3. /\ order' \subseteq (Evaluated \ {s}) \X (Evaluated \ {s})
        /\ \A a, b \in Evaluated \ {s} :
             <<a, b>> \in order' <=> <<Formerly(s, a), Formerly(s, b)>> \in order
    BY <1>1, <1>7, InPlaceOfIsOrdered DEF Ordered
  <2>4. ASSUME NEW x \in Scorers, <<Stored, x>> \in order' PROVE x # s /\ <<s, x>> \in order
    BY <1>1, <2>3, <2>4 DEF Formerly
  <2>5. ASSUME NEW w \in Scorers, NEW x \in Scorers, <<w, x>> \in order'
        PROVE  x # s /\ <<w, x>> \in order
    BY <1>1, <2>3, <2>5 DEF Formerly
  <2>6. ASSUME NEW w \in Scorers, <<w, Stored>> \in order' PROVE <<w, s>> \in order
    BY <1>1, <2>3, <2>6 DEF Formerly
  <2>7. ASSUME Settled PROVE Settled'
    <3>1. score' # "stale"
      BY <1>3, <2>2, <2>7 DEF Settled
    <3>2. ASSUME NEW x \in Scorers, <<Stored, x>> \in order' PROVE UpToDate(x)'
      <4>1. x # s /\ <<s, x>> \in order /\ x \in Evaluated
        BY <1>4, <2>4, <3>2
      <4>2. <<Stored, x>> \in order
        BY <2>1, <4>1
      <4>3. QED
        BY <1>2, <2>7, <4>1, <4>2 DEF Settled
    <3>3. QED
      BY <1>1, <2>7, <3>1, <3>2 DEF Settled
  <2>8. ASSUME Answers(s) PROVE Settled'
    <3>1. ASSUME NEW x \in Scorers, <<Stored, x>> \in order' PROVE UpToDate(x)'
      <4>1. x # s /\ <<s, x>> \in order
        BY <2>4, <3>1
      <4>2. UpToDate(x)
        BY <1>3, <2>8, <4>1 DEF Answers
      <4>3. QED
        BY <1>2, <4>1, <4>2
    <3>2. QED
      BY <1>1, <1>6, <2>2, <2>8, <3>1 DEF Settled
  <2>9. ASSUME NEW w \in Slots, w # s, Answers(w) PROVE Answers(w)'
    <3>1. w \in Scorers /\ (at'[w] = at[w] \/ (at[w] = "compared" /\ at'[w] = "overtaken"))
      BY <1>1, <2>9, Constants
    <3>2. /\ at'[w] \in Dated <=> at[w] \in Dated
          /\ at'[w] \in Dated \ {"dated"} <=> at[w] \in Dated \ {"dated"}
          /\ at'[w] = "calibrated" <=> at[w] = "calibrated"
          /\ at'[w] = "scored" <=> at[w] = "scored"
      BY <3>1 DEF Dated, Compared
    <3>3. ASSUME at[w] \in Dated, <<w, Stored>> \in order' PROVE score' # "stale"
      <4>1. <<w, s>> \in order
        BY <2>6, <3>1, <3>3
      <4>2. UpToDate(s)
        BY <2>9, <3>3, <4>1 DEF Answers
      <4>3. QED
        BY <1>3, <2>2, <4>2
    <3>4. ASSUME at[w] \in Dated, NEW x \in Scorers, <<w, x>> \in order' PROVE UpToDate(x)'
      <4>1. x # s /\ <<w, x>> \in order
        BY <2>5, <3>1, <3>4
      <4>2. UpToDate(x)
        BY <2>9, <3>4, <4>1 DEF Answers
      <4>3. QED
        BY <1>2, <4>1, <4>2
    <3>5. at[w] = "scored" => Settled'
      BY <2>7, <2>9 DEF Answers
    <3>6. /\ at[w] \in Dated \cup {"calibrated"} => islands'
          /\ at[w] \in Dated \ {"dated"} => w \in current'
      BY <1>1, <2>9 DEF Answers
    <3>7. QED
      BY <3>2, <3>3, <3>4, <3>5, <3>6 DEF Answers
  <2>10. QED
    BY <2>7, <2>8, <2>9
<1>8. ASSUME ~NotNewer(s), order' = Without(s), Goto(s, "scored"), score' = score
      PROVE  /\ Settled => Settled'
             /\ Answers(s) => Settled'
             /\ \A w \in Slots : w # s /\ Answers(w) => Answers(w)'
  <2>1. \A a, b : <<a, b>> \in order' <=> <<a, b>> \in order /\ a # s /\ b # s
    BY <1>4, <1>8 DEF Without
  <2>2. \A x \in Scorers : x # s => at'[x] = at[x]
    BY <1>8, Moved, Constants DEF Point
  <2>3. \A a, x : Follows(a, x)
    BY <1>2, <2>1 DEF Follows
  <2>4. /\ Settled => Settled'
        /\ \A w \in Slots : w # s /\ Answers(w) => Answers(w)'
    BY <1>1, <1>8, <2>1, <2>2, <2>3, AnswersKept, Constants
  <2>5. ASSUME Answers(s) PROVE Settled'
    <3>1. <<s, Stored>> \in order
      BY <1>8 DEF NotNewer
    <3>2. score' # "stale"
      BY <1>3, <1>8, <2>5, <3>1 DEF Answers
    <3>3. ASSUME NEW x \in Scorers, <<Stored, x>> \in order' PROVE UpToDate(x)'
      <4>1. <<Stored, x>> \in order /\ x # s /\ x \in Evaluated
        BY <1>4, <2>1, <3>3
      <4>2. <<s, x>> \in order
        BY <1>1, <3>1, <4>1 DEF Ordered
      <4>3. UpToDate(x)
        BY <1>3, <2>5, <4>2 DEF Answers
      <4>4. QED
        BY <1>2, <4>1, <4>3
    <3>4. QED
      BY <1>1, <1>6, <2>5, <3>2, <3>3 DEF Settled
  <2>6. QED
    BY <2>4, <2>5
<1>9. /\ Settled => Settled'
      /\ Answers(s) => Settled'
      /\ \A w \in Slots : w # s /\ Answers(w) => Answers(w)'
  BY <1>7, <1>8, Zenon DEF WriteScores
<1>10. Settled' => Answers(s)'
  BY <1>1, Constants DEF Answers
<1>11. QED
  BY <1>9, <1>10

LEMMA AnswersNext ==
  ASSUME RefreshTypeOK, Ordered(Evaluated, order), RequestsAreKnown, AnswersAreUpToDate,
         RefreshNext
  PROVE  AnswersAreUpToDate'
<1> USE Constants DEF QueueStep
<1>1. /\ QueueTyped /\ RestTyped /\ payload \in Payloads /\ at \in [Scorers -> Point]
      /\ snapshot \in [Slots -> RequestIds \cup {NoRequest}]
  BY RefreshTyping DEF RestTyped
<1>2. {"action"} \in SUBSET Reasons /\ {"elapsed_time"} \in SUBSET Reasons
  BY DEF Reasons
<1>3. /\ {"idle", "claimed", "begun", "calibrated", "scored", "failing", "dated", "loaded",
          "compared", "overtaken"} \subseteq Point
      /\ {"dated", "loaded", "compared", "overtaken"} \subseteq Dated
  BY DEF Point, Dated, Compared
<1>4. /\ payload.checkpoint = payload.request /\ payload.request # NoRequest => islands
      /\ \A w \in Slots : IsAnswered(w) => Answers(w)
      /\ Status = "succeeded" => Settled
  BY DEF AnswersAreUpToDate
<1>5. order \subseteq Evaluated \X Evaluated /\ \A x \in Scorers : x \in Evaluated => at[x] \in Dated
  BY DEF Ordered, Evaluated
<1>6. ASSUME NEW r \in RequestIds, NEW delay,
             RequestActive(r) \/ RequestNew(r) \/ Schedule(r, delay)
      PROVE  AnswersAreUpToDate'
  <2>1. /\ payload'.request = r /\ payload'.checkpoint \in {payload.checkpoint, NoRequest}
        /\ r \notin HeldIds
    BY <1>2, <1>6, Requesting DEF RequestActive, RequestNew, Schedule, Draw, DrawAfresh
  <2>2. snapshot' = snapshot
    BY <1>6 DEF RequestActive, RequestNew, Schedule, Behave, workerVars
  <2>3. Status' # "succeeded"
    <3>1. CASE RequestActive(r)
      BY <1>1, <3>1, QueueRests DEF RequestActive, Outstanding
    <3>2. CASE RequestNew(r) \/ Schedule(r, delay)
      BY <1>1, <3>2, QueueOpens DEF RequestNew, Schedule
    <3>3. QED
      BY <1>6, <3>1, <3>2
  <2>4. payload'.checkpoint # payload'.request /\ \A w \in Slots : ~IsAnswered(w)'
    BY <2>1, <2>2 DEF HeldIds, IsAnswered
  <2>5. QED
    BY <2>3, <2>4 DEF AnswersAreUpToDate
<1>7. CASE RequeueDead
  <2>1. Status' = "pending"
    BY <1>1, <1>7, QueueOpens DEF RequeueDead
  <2>2. QED
    BY <1>7, <2>1, AnswersUndisturbed DEF RequeueDead
<1>8. CASE ClearHistory
  <2>1. Status' = "none" /\ payload'.request = NoRequest /\ snapshot' = snapshot /\ at' = at
    BY <1>1, <1>8, QueueForgets DEF ClearHistory, NoPayload, workerVars
  <2>2. \A w \in Slots : IsAnswered(w)' => at'[w] = "idle"
    BY <2>1 DEF IsAnswered, RequestsAreKnown
  <2>3. QED
    BY <2>1, <2>2, AnswersVacuously DEF AnswersAreUpToDate
<1>9. ASSUME Expire \/ Ripen PROVE AnswersAreUpToDate'
  <2>1. Status' = "succeeded" => Status = "succeeded"
    <3>1. CASE Expire
      BY <1>1, <3>1, QueueRevokes, Zenon DEF Expire
    <3>2. CASE Ripen
      BY <1>1, <3>2, QueueRests DEF Ripen
    <3>3. QED
      BY <1>9, <3>1, <3>2
  <2>2. QED
    BY <1>9, <2>1, AnswersUndisturbed DEF Expire, Ripen
<1>10. ASSUME NEW w \in Slots, Claim(w) PROVE AnswersAreUpToDate'
  <2>1. Status' = "running" /\ payload' = payload
    BY <1>1, <1>10, QueueGrants DEF Claim
  <2>2. /\ at'[w] = "claimed" /\ order' = order /\ UNCHANGED ghosts
        /\ \A x \in Scorers : x # w => at'[x] = at[x]
        /\ \A v \in Slots : v # w => snapshot'[v] = snapshot[v]
    BY <1>1, <1>10 DEF Claim, Goto
  <2>3. at[w] = "idle"
    BY <1>10 DEF Claim
  <2>4. \A a, x : Follows(a, x)
    BY <1>5, <2>2, <2>3 DEF Follows, UpToDate, ghosts
  <2>5. \A v \in Slots : v # w /\ IsAnswered(v)' => Answers(v)'
    BY <1>4, <2>1, <2>2, <2>4, AnswersKept DEF IsAnswered, ghosts
  <2>6. QED
    BY <1>4, <2>1, <2>2, <2>5, AnswersVacuously DEF AnswersAreUpToDate, ghosts
<1>11. ASSUME NEW w \in Slots, BeginRefresh(w) PROVE AnswersAreUpToDate'
  <2>1. /\ Status' = Status /\ payload' = payload /\ snapshot' = snapshot /\ order' = order
        /\ UNCHANGED ghosts /\ at[w] = "claimed"
    BY <1>1, <1>11, QueueRests DEF BeginRefresh
  <2>2. /\ \A x \in Scorers : x # w => at'[x] = at[x]
        /\ \/ at'[w] = "begun"
           \/ at'[w] = "calibrated" /\ Status # "none" /\ payload.checkpoint = snapshot[w]
    BY <1>1, <1>11 DEF BeginRefresh, Goto
  <2>3. \A a, x : Follows(a, x)
    BY <1>5, <2>1, <2>2 DEF Follows, UpToDate, ghosts
  <2>4. /\ Settled => Settled'
        /\ \A v \in Slots : v # w /\ IsAnswered(v)' => Answers(v)'
    BY <1>4, <2>1, <2>2, <2>3, AnswersKept DEF IsAnswered, ghosts
  <2>5. ASSUME IsAnswered(w)' PROVE Answers(w)'
    <3>1. CASE at'[w] = "begun"
      BY <3>1, AnswersVacuously
    <3>2. CASE at'[w] = "calibrated"
      <4>1. payload.checkpoint = payload.request /\ payload.request # NoRequest
        BY <2>1, <2>2, <2>5, <3>2 DEF IsAnswered, RequestsAreKnown
      <4>2. QED
        BY <1>4, <2>1, <3>2, <4>1 DEF Answers, ghosts
    <3>3. QED
      BY <2>2, <3>1, <3>2
  <2>6. QED
    BY <1>4, <2>1, <2>4, <2>5 DEF AnswersAreUpToDate, ghosts
<1>12. ASSUME NEW w \in Slots, Calibrate(w) PROVE AnswersAreUpToDate'
  <2>1. /\ Status' = Status /\ payload'.request = payload.request /\ snapshot' = snapshot
        /\ order' = order /\ islands' /\ current' = current /\ score' = score
    BY <1>1, <1>12, QueueRests DEF Calibrate, Payloads
  <2>2. at[w] = "begun" /\ at'[w] = "calibrated" /\ \A x \in Scorers : x # w => at'[x] = at[x]
    BY <1>1, <1>12 DEF Calibrate, Goto
  <2>3. \A a, x : Follows(a, x)
    BY <1>5, <2>1, <2>2 DEF Follows, UpToDate
  <2>4. /\ Settled => Settled'
        /\ \A v \in Slots : v # w /\ IsAnswered(v)' => Answers(v)'
    BY <1>4, <2>1, <2>2, <2>3, AnswersKept DEF IsAnswered
  <2>5. Answers(w)'
    BY <2>1, <2>2 DEF Answers
  <2>6. QED
    BY <1>4, <2>1, <2>4, <2>5 DEF AnswersAreUpToDate
<1>13. ASSUME NEW s \in Scorers, Date(s) PROVE AnswersAreUpToDate'
  <2>1. Status' = Status /\ payload' = payload /\ snapshot' = snapshot /\ UNCHANGED ghosts
    BY <1>1, <1>13, QueueRests DEF Date
  <2>2. /\ at[s] = "calibrated" /\ at'[s] = "dated" /\ \A x \in Scorers : x # s => at'[x] = at[x]
        /\ \A a, b : <<a, b>> \in order' => <<a, b>> \in order \/ (a \in Evaluated /\ b = s)
    BY <1>1, <1>13 DEF Date, Goto
  <2>3. s \notin Evaluated /\ s # Stored
    BY <1>5, <2>2
  <2>4. \A a, x : Follows(a, x)
    BY <2>1, <2>2 DEF Follows, UpToDate, ghosts
  <2>5. \A a : <<a, Stored>> \in order' => <<a, Stored>> \in order
    BY <2>2, <2>3
  <2>6. /\ Settled => Settled'
        /\ \A v \in Slots : v # s /\ IsAnswered(v)' => Answers(v)'
    BY <1>4, <2>1, <2>2, <2>4, <2>5, AnswersKept DEF IsAnswered, ghosts
  <2>7. ASSUME s \in Slots, IsAnswered(s)' PROVE Answers(s)'
    <3>1. islands'
      BY <1>4, <2>1, <2>2, <2>7 DEF IsAnswered, Answers, ghosts
    <3>2. \A x : <<s, x>> \notin order'
      BY <1>5, <2>2, <2>3
    <3>3. QED
      BY <2>2, <3>1, <3>2 DEF Answers
  <2>8. QED
    BY <1>4, <2>1, <2>6, <2>7 DEF AnswersAreUpToDate, ghosts
<1>14. ASSUME NEW s \in Scorers, Load(s) \/ Compare(s) PROVE AnswersAreUpToDate'
  <2>1. /\ Status' = Status /\ payload' = payload /\ snapshot' = snapshot
        /\ order' = order /\ islands' = islands /\ score' = score
    BY <1>1, <1>14, QueueRests DEF Load, Compare, ghosts
  <2>2. /\ at[s] \in Dated /\ at'[s] \in Dated \ {"dated"}
        /\ \A x \in Scorers : x # s => at'[x] = at[x]
    BY <1>1, <1>3, <1>14 DEF Load, Compare, Goto
  <2>3. /\ current \subseteq current'
        /\ islands /\ UpToDate(s) => s \in current'
    BY <1>14 DEF Load, Compare, UpToDate, ghosts
  <2>4. \A a, x : Follows(a, x)
    BY <2>1, <2>2, <2>3 DEF Follows, UpToDate
  <2>5. /\ Settled => Settled'
        /\ \A v \in Slots : v # s /\ IsAnswered(v)' => Answers(v)'
    BY <1>4, <2>1, <2>2, <2>3, <2>4, AnswersKept DEF IsAnswered
  <2>6. ASSUME s \in Slots, IsAnswered(s)' PROVE Answers(s)'
    <3>1. Answers(s)
      BY <1>4, <2>1, <2>6 DEF IsAnswered
    <3>2. islands /\ UpToDate(s)
      BY <2>2, <3>1 DEF Answers, UpToDate
    <3>3. \A x \in Scorers : <<s, x>> \in order' => UpToDate(x)'
      BY <2>1, <2>2, <2>4, <3>1, <3>2 DEF Follows, Answers
    <3>4. QED
      BY <2>1, <2>2, <2>3, <3>1, <3>2, <3>3 DEF Answers
  <2>7. QED
    BY <1>4, <2>1, <2>5, <2>6 DEF AnswersAreUpToDate
<1>15. ASSUME NEW s \in Scorers, WriteScores(s) PROVE AnswersAreUpToDate'
  <2>1. Status' = Status /\ payload' = payload /\ snapshot' = snapshot /\ islands' = islands
    BY <1>1, <1>15, QueueRests DEF WriteScores
  <2>2. /\ Settled => Settled'
        /\ \A v \in Slots : Answers(v) => Answers(v)'
    BY <1>15, AnswersWritten
  <2>3. QED
    BY <1>4, <2>1, <2>2 DEF AnswersAreUpToDate, IsAnswered
<1>16. ASSUME NEW w \in Slots, Complete(w) \/ Settle(w) \/ Crash(w) PROVE AnswersAreUpToDate'
  <2>1. /\ payload' = payload /\ Forget(w) /\ islands' = islands /\ at'[w] = "idle"
        /\ \A x \in Scorers : x # w => at'[x] = at[x]
        /\ \A v \in Slots : v # w => snapshot'[v] = snapshot[v]
    BY <1>1, <1>16 DEF Complete, Settle, Crash, Finish, Forget, Goto
  <2>2. /\ Settled => Settled'
        /\ \A v \in Slots : v # w /\ Answers(v) => Answers(v)'
    BY <2>1, AnswersWithout
  <2>3. \A v \in Slots : IsAnswered(v)' => Answers(v)'
    BY <1>4, <2>1, <2>2, AnswersVacuously DEF IsAnswered
  <2>4. Status' = "succeeded" => Settled
    <3>1. CASE Complete(w)
      <4>1. CASE IsAnswered(w)
        BY <1>4, <3>1, <4>1 DEF Complete, Answers
      <4>2. CASE FollowUp(w)
        BY <1>1, <4>2, QueueFollowsUp
      <4>3. QED
        BY <3>1, <4>1, <4>2 DEF Complete
    <3>2. ASSUME NEW p \in {"pending", "dead"}, Queue!SettleAs(w, Refresh, p)
          PROVE  Status' = "succeeded" => Settled
      BY <1>1, <3>2, QueueSettles
    <3>3. CASE Queue!Leave(w)
      BY <1>1, <1>4, <3>3, QueueLeaves
    <3>4. QED
      BY <1>16, <3>1, <3>2, <3>3 DEF Settle, Crash
  <2>5. QED
    BY <1>4, <2>1, <2>2, <2>3, <2>4 DEF AnswersAreUpToDate
<1>17. ASSUME NEW w \in Slots, Fail(w) PROVE AnswersAreUpToDate'
  <2>1. /\ Status' = Status /\ payload' = payload /\ snapshot' = snapshot
        /\ Forget(w) /\ islands' = islands /\ at'[w] = "failing"
        /\ \A x \in Scorers : x # w => at'[x] = at[x]
    BY <1>1, <1>17, QueueRests DEF Fail, Forget, Goto
  <2>2. /\ Settled => Settled'
        /\ \A v \in Slots : v # w /\ Answers(v) => Answers(v)'
    BY <2>1, AnswersWithout
  <2>3. \A v \in Slots : IsAnswered(v)' => Answers(v)'
    BY <1>4, <2>1, <2>2, AnswersVacuously DEF IsAnswered
  <2>4. QED
    BY <1>4, <2>1, <2>2, <2>3 DEF AnswersAreUpToDate
<1>18. ASSUME NEW b \in BOOLEAN, ManualStart(b) PROVE AnswersAreUpToDate'
  <2>1. /\ Status' = Status /\ payload' = payload /\ snapshot' = snapshot
        /\ order' = order /\ current' = current /\ score' = score
        /\ islands => islands'
    BY <1>1, <1>18, QueueRests DEF ManualStart
  <2>2. at[Manual] = "idle" /\ \A x \in Scorers : x # Manual => at'[x] = at[x]
    BY <1>1, <1>18 DEF ManualStart, Goto
  <2>3. \A a, x : Follows(a, x)
    BY <1>5, <2>1, <2>2 DEF Follows, UpToDate
  <2>4. /\ Settled => Settled'
        /\ \A v \in Slots : IsAnswered(v)' => Answers(v)'
    BY <1>4, <2>1, <2>2, <2>3, AnswersKept DEF IsAnswered
  <2>5. QED
    BY <1>4, <2>1, <2>4 DEF AnswersAreUpToDate
<1>19. CASE ManualEnd
  <2>1. /\ Status' = Status /\ payload' = payload /\ snapshot' = snapshot
        /\ Forget(Manual) /\ islands' = islands /\ at'[Manual] = "idle"
        /\ \A x \in Scorers : x # Manual => at'[x] = at[x]
    BY <1>1, <1>19, QueueRests DEF ManualEnd, Forget, Goto
  <2>2. /\ Settled => Settled'
        /\ \A v \in Slots : Answers(v) => Answers(v)'
    BY <2>1, AnswersWithout
  <2>3. QED
    BY <1>4, <2>1, <2>2 DEF AnswersAreUpToDate, IsAnswered
<1>20. QED
  BY <1>6, <1>7, <1>8, <1>9, <1>10, <1>11, <1>12, <1>13, <1>14, <1>15, <1>16, <1>17, <1>18, <1>19
     DEF RefreshNext, Request, Timer, Advance, Score

----------------------------------------------------------------------------
(* The theorems.                                                           *)

LEMMA RefreshStarts == ASSUME RefreshInit PROVE RefreshInv
<1> USE Constants DEF RefreshInit
<1>1. Status = "none" /\ holder[Refresh] = NoSlot /\ tries[Refresh] = 0 /\ QueueTyped
  BY DEF Queue!Init, QueueTyped, Phases, Status
<1>2. RestTyped /\ payload.request = NoRequest /\ \A s \in Scorers : at[s] = "idle"
  BY DEF RestTyped, Payloads, NoPayload, Waits, Point
<1>3. Evaluated = {Stored}
  BY <1>2 DEF Evaluated
<1>4. RefreshTypeOK /\ Ordered(Evaluated, order)
  BY <1>1, <1>2, <1>3, RefreshTyping DEF Ordered
<1>5. RequestsAreKnown /\ InteractionIsPrompt
  BY <1>1, <1>2 DEF RequestsAreKnown, InteractionIsPrompt
<1>6. AnswersAreUpToDate
  BY <1>1, <1>2 DEF AnswersAreUpToDate, Answers, Dated, Compared
<1>7. CheckpointsAreKept
  BY <1>1 DEF CheckpointsAreKept, HoldsLease
<1>8. QED
  BY <1>4, <1>5, <1>6, <1>7 DEF RefreshInv

LEMMA RefreshSteps == ASSUME RefreshInv, RefreshNext PROVE RefreshInv'
<1>1. /\ RefreshTypeOK /\ Ordered(Evaluated, order) /\ RequestsAreKnown
      /\ InteractionIsPrompt /\ AnswersAreUpToDate /\ CheckpointsAreKept
  BY DEF RefreshInv
<1>2. Ordered(Evaluated, order)'
  BY <1>1, OrderedNext
<1>3. RefreshTypeOK'
  BY <1>1, <1>2, QueueTypedNext, RestTypedNext, RefreshTyping DEF Ordered
<1>4. QED
  BY <1>1, <1>2, <1>3, RequestsAreKnownNext, AnswersNext, CheckpointsNext DEF RefreshInv

LEMMA RefreshStutters == ASSUME RefreshInv, UNCHANGED refreshVars PROVE RefreshInv'
BY DEF refreshVars, queueVars, workerVars, ghosts, RefreshInv, RefreshTypeOK, Evaluated, Ordered,
       RequestsAreKnown, InteractionIsPrompt, AnswersAreUpToDate, Answers, IsAnswered, Settled,
       UpToDate, CheckpointsAreKept, Spares, HoldsLease, Status

\* The inductive invariant of the refresh job: an execution that works for the
\* present request has missed no reader action, and the job's row remembers the
\* request that the islands were last calibrated for.
THEOREM RefreshInvariant == RefreshSpec => []RefreshInv
<1>1. RefreshInit => RefreshInv
  BY RefreshStarts
<1>2. RefreshInv /\ [RefreshNext]_refreshVars => RefreshInv'
  BY RefreshSteps, RefreshStutters
<1>3. QED
  BY <1>1, <1>2, PTL DEF RefreshSpec

\* No reader action is lost but by a mixed score or by a tie between two scorers of
\* one second, and no interaction waits behind the timer's spread: whatever the
\* number of workers, late executions, settings runs and crawls that score at the
\* same time, and however their evaluation times coincide.
THEOREM RefreshStaysConsistent == RefreshSpec => []RefreshConsistent
<1>1. RefreshInv => RefreshConsistent
  BY DEF RefreshInv, RefreshConsistent, OnlyMixedOrTiedScoresLoseActions, AnswersAreUpToDate, Settled
<1>2. QED
  BY <1>1, RefreshInvariant, PTL

\* Jobs calibrate the islands at most once for each request, through lost leases,
\* retries and crashes.
THEOREM OneCalibrationPerRequest == RefreshSpec => CalibratedOncePerRequest
<1> DEFINE Once == \A w \in Slots :
                     at[w] = "begun" /\ at'[w] = "calibrated" => snapshot[w] \notin calibrated
<1>1. ASSUME RefreshInv, RefreshNext PROVE Once
  <2> USE Constants
  <2>1. at \in [Scorers -> Point]
    BY <1>1, RefreshTyping DEF RefreshInv, RestTyped
  <2>2. SUFFICES ASSUME NEW w \in Slots, at[w] = "begun", at'[w] = "calibrated" PROVE Calibrate(w)
    BY <1>1 DEF RefreshInv, CheckpointsAreKept, Spares, Calibrate, CalibrationFenced
  <2>3. ASSUME at' = at PROVE FALSE
    BY <2>2, <2>3
  <2>4. ASSUME NEW s \in Scorers, NEW point, Goto(s, point), s # w \/ point # "calibrated"
        PROVE  FALSE
    BY <2>1, <2>2, <2>4 DEF Goto
  <2>5. ASSUME NEW s \in Scorers, WriteScores(s) PROVE FALSE
    BY <1>1, <2>2, <2>5, WritingMoves DEF RefreshInv
  <2>6. ASSUME NEW r, NEW delay, RequestActive(r) \/ RequestNew(r) \/ Schedule(r, delay) PROVE FALSE
    BY <2>3, <2>6 DEF RequestActive, RequestNew, Schedule, Behave, workerVars
  <2>7. ASSUME RequeueDead \/ ClearHistory \/ Expire \/ Ripen PROVE FALSE
    BY <2>3, <2>7 DEF RequeueDead, ClearHistory, Expire, Ripen, workerVars
  <2>8. ASSUME NEW v \in Slots, Claim(v) \/ Complete(v) \/ Settle(v) \/ Crash(v) \/ Fail(v) PROVE FALSE
    BY <2>4, <2>8 DEF Claim, Complete, Settle, Crash, Fail, Finish
  <2>9. ASSUME NEW v \in Slots, BeginRefresh(v) PROVE FALSE
    <3>1. at[v] = "claimed"
      BY <2>9 DEF BeginRefresh
    <3>2. v # w
      BY <2>2, <3>1
    <3>3. QED
      BY <2>4, <2>9, <3>2 DEF BeginRefresh
  <2>10. ASSUME NEW s \in Scorers, Date(s) \/ Load(s) \/ Compare(s) PROVE FALSE
    BY <2>4, <2>10 DEF Date, Load, Compare
  <2>11. ASSUME NEW b, ManualStart(b) \/ ManualEnd PROVE FALSE
    BY <2>4, <2>11 DEF ManualStart, ManualEnd
  <2>12. ASSUME NEW v \in Slots, Calibrate(v) PROVE v = w
    BY <2>4, <2>12 DEF Calibrate
  <2>13. QED
    BY <1>1, <2>5, <2>6, <2>7, <2>8, <2>9, <2>10, <2>11, <2>12
       DEF RefreshNext, Request, Timer, Advance, Score
<1>2. RefreshInv /\ [RefreshNext]_refreshVars => [Once]_refreshVars
  BY <1>1
<1>3. QED
  BY <1>2, RefreshInvariant, PTL DEF RefreshSpec, CalibratedOncePerRequest
=============================================================================
