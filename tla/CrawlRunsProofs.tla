-------------------------- MODULE CrawlRunsProofs --------------------------
(***************************************************************************)
(* The promises of crawls, their rows, slots and the priority lease, for   *)
(* any number of users, processes, pipelines and crawls.  The rows of a    *)
(* user are kept apart by one fact, that at most one of them says running  *)
(* (OneRunning); the slots by two, that only crawling crawls hold slots or *)
(* wait for them, in their own process (SlotsKept); and the lease by what  *)
(* a pipeline knows of its crawls (PipelinesKnow).                         *)
(***************************************************************************)
EXTENDS CrawlRuns, FiniteSetTheorems, SequenceTheorems, WellFoundedInduction, TLAPS

\* The row of a crawl that has not come to work says nothing, and a working
\* crawl has a row that runs or was failed by others.
Staged ==
  \A c \in Crawls :
    /\ ~At(c, "crawling") /\ ~At(c, "done") /\ ~At(c, "gone") => row[c].status = "none"
    /\ At(c, "crawling") => row[c].status \in {"running", "failed"}

\* Only crawls that work hold slots, or wait for them.
SlotsKept ==
  /\ \A c \in Crawls : holding[c] > 0 => At(c, "crawling")
  /\ \A h \in Hosts : \A i \in 1 .. Len(waiters[h]) :
       At(waiters[h][i], "crawling") /\ Host(waiters[h][i]) = h

OneRunning ==
  \A c, d \in Started :
    crawl[c].user = crawl[d].user /\ row[c].status = "running" /\ row[d].status = "running"
    => c = d

\* A crawl that met another's row was not mistaken.
ConflictSeen ==
  \A c \in Started : At(c, "conflict") => \E d \in Same(c) : row[d].status # "none"

FailedSibling(p) == \E d \in Started : crawl[d].pipe = p /\ Failed(d)

\* A pipeline awaits every living crawl of its own, or has given up on a batch.
PipelinesKnow ==
  \A p \in Pipelines :
    /\ \A c \in pipeline[p].mine : c \in Started /\ crawl[c].pipe = p
    /\ \A c \in Started : Living(c) /\ crawl[c].pipe = p =>
         \/ pipeline[p].pc = "crawling" /\ c \in pipeline[p].mine
         \/ FailedSibling(p)
    /\ pipeline[p].pc = "crawling" => gate[p] /\ pipeline[p].batch \in 1 .. Len(Batches[p])

\* What rows and crawls have to do with each other.
Ledger == Staged /\ VerdictIsRecorded /\ OneRunning /\ ConflictSeen /\ RefusedOnlyAfterAnEnd

Inv == TypeOK /\ Ledger /\ PipelinesKnow /\ SlotsKept /\ SlotsAreHeld

----------------------------------------------------------------------------
(* Numbers, sequences and sets of slots.                                   *)

LEMMA Numeric ==
  /\ SlotLimit \in Nat /\ SlotLimit > 0 /\ MaxFeeds \in Nat /\ MaxCrawls \in Nat
  /\ MaxFaults \in Nat /\ Crawls \subseteq Nat /\ IsFiniteSet(Crawls)
  /\ HostOf \in [Pipelines -> Hosts] /\ Workers \in [Hosts -> Nat \ {0}]
BY CrawlAssumption, FS_Interval DEF Crawls

Smaller == {pair \in Nat \X Nat : pair[1] < pair[2]}

LEMMA LeastNumber ==
  ASSUME NEW numbers \in SUBSET Nat, numbers # {}
  PROVE  \E x \in numbers : \A y \in numbers : x <= y
<1>1. IsWellFoundedOn(Smaller, Nat)
  <2>1. OpToRel(<, Nat) = Smaller
    BY Zenon DEF OpToRel, Smaller
  <2>2. QED
    BY <2>1, NatLessThanWellFounded, Zenon
<1>2. PICK x \in numbers : \A y \in numbers : ~ (<<y, x>> \in Smaller)
  BY <1>1, WFMin, Zenon
<1>3. \A y \in numbers : x <= y
  <2>1. TAKE y \in numbers
  <2>2. <<y, x>> \notin Smaller /\ y \in Nat /\ x \in Nat
    BY <1>2
  <2>3. ~(y < x)
    BY <2>2 DEF Smaller
  <2>4. QED
    BY <2>2, <2>3
<1>4. QED
  BY <1>3

LEMMA SmallerOfTwo ==
  ASSUME NEW a \in Nat, NEW b \in Nat
  PROVE  Min({a, b}) \in {a, b} /\ Min({a, b}) <= a /\ Min({a, b}) <= b
<1>1. \E x \in {a, b} : \A y \in {a, b} : x <= y
  OBVIOUS
<1>2. Min({a, b}) \in {a, b} /\ \A y \in {a, b} : Min({a, b}) <= y
  BY <1>1, Zenon DEF Min
<1>3. QED
  BY <1>2

\* The slots of the crawls C when f says how many each holds.
SlotsOf(C, f) == UNION {{c} \X (1 .. f[c]) : c \in C}

LEMMA InSlots ==
  ASSUME NEW C, NEW f
  PROVE  \A x : x \in SlotsOf(C, f) <=> \E c \in C : \E k \in 1 .. f[c] : x = <<c, k>>
BY DEF SlotsOf

LEMMA SlotsAreFinite ==
  ASSUME NEW C \in SUBSET Crawls, NEW f \in [Crawls -> Nat]
  PROVE  IsFiniteSet(SlotsOf(C, f)) /\ Cardinality(SlotsOf(C, f)) \in Nat
<1> DEFINE parts == {{c} \X (1 .. f[c]) : c \in C}
<1>1. IsFiniteSet(C)
  BY Numeric, FS_Subset
<1>2. IsFiniteSet(parts)
  <2>1. [c \in C |-> {c} \X (1 .. f[c])] \in Surjection(C, parts)
    BY DEF Surjection
  <2>2. QED
    BY <1>1, <2>1, FS_Surjection
<1>3. \A part \in parts : IsFiniteSet(part)
  <2>1. SUFFICES ASSUME NEW c \in C PROVE IsFiniteSet({c} \X (1 .. f[c]))
    OBVIOUS
  <2>2. f[c] \in Int
    OBVIOUS
  <2>3. IsFiniteSet(1 .. f[c])
    BY <2>2, FS_Interval
  <2>4. IsFiniteSet({c})
    BY FS_Singleton
  <2>5. QED
    BY <2>3, <2>4, FS_Product
<1> HIDE DEF parts
<1>4. IsFiniteSet(UNION parts)
  BY <1>2, <1>3, FS_UNION
<1>5. QED
  BY <1>4, FS_CardinalityType DEF SlotsOf, parts

\* How often d is among the first m waiters, and what each crawl holds when the
\* first m have got a slot.
Turns(ws, m, d) == Cardinality({i \in 1 .. m : ws[i] = d})
After(kept, ws, m) == [d \in Crawls |-> kept[d] + Turns(ws, m, d)]

LEMMA TurnsAreNumbers ==
  ASSUME NEW ws, NEW m \in Nat, NEW d
  PROVE  IsFiniteSet({i \in 1 .. m : ws[i] = d}) /\ Turns(ws, m, d) \in Nat
<1>1. IsFiniteSet(1 .. m)
  BY FS_Interval
<1>2. IsFiniteSet({i \in 1 .. m : ws[i] = d})
  BY <1>1, FS_Subset
<1>3. QED
  BY <1>2, FS_CardinalityType DEF Turns

LEMMA NextTurn ==
  ASSUME NEW ws, NEW m \in Nat, NEW d
  PROVE  Turns(ws, m + 1, d) = IF ws[m + 1] = d THEN Turns(ws, m, d) + 1 ELSE Turns(ws, m, d)
<1> DEFINE before == {i \in 1 .. m : ws[i] = d}
<1>1. IsFiniteSet(before) /\ m + 1 \notin before
  BY TurnsAreNumbers
<1>2. CASE ws[m + 1] = d
  <2>1. {i \in 1 .. m + 1 : ws[i] = d} = before \union {m + 1}
    BY <1>2
  <2> HIDE DEF before
  <2>2. Cardinality(before \union {m + 1}) = Cardinality(before) + 1
    BY <1>1, FS_AddElement
  <2>3. QED
    BY <1>2, <2>1, <2>2 DEF Turns, before
<1>3. CASE ws[m + 1] # d
  <2>1. {i \in 1 .. m + 1 : ws[i] = d} = before
    BY <1>3
  <2>2. QED
    BY <1>3, <2>1 DEF Turns
<1>4. QED
  BY <1>2, <1>3

LEMMA NoTurn ==
  ASSUME NEW ws, NEW m \in Nat, NEW d, \A i \in 1 .. m : ws[i] # d
  PROVE  Turns(ws, m, d) = 0
<1>1. {i \in 1 .. m : ws[i] = d} = {}
  OBVIOUS
<1>2. QED
  BY <1>1, FS_EmptySet DEF Turns

LEMMA AfterIsTyped ==
  ASSUME NEW kept \in [Crawls -> Nat], NEW ws, NEW m \in Nat
  PROVE  After(kept, ws, m) \in [Crawls -> Nat]
<1>1. \A d \in Crawls : kept[d] + Turns(ws, m, d) \in Nat
  <2>1. TAKE d \in Crawls
  <2>2. kept[d] \in Nat /\ Turns(ws, m, d) \in Nat
    BY TurnsAreNumbers
  <2>3. QED
    BY <2>2
<1>2. QED
  BY <1>1 DEF After

\* One waiter more gets one slot more.
LEMMA OneMoreSlot ==
  ASSUME NEW C \in SUBSET Crawls, NEW kept \in [Crawls -> Nat], NEW ws, NEW m \in Nat,
         ws[m + 1] \in C
  PROVE  Cardinality(SlotsOf(C, After(kept, ws, m + 1)))
           = Cardinality(SlotsOf(C, After(kept, ws, m))) + 1
<1> DEFINE f == After(kept, ws, m)
           g == After(kept, ws, m + 1)
           w == ws[m + 1]
<1>1. f \in [Crawls -> Nat] /\ g \in [Crawls -> Nat]
  BY AfterIsTyped
<1>2. \A d \in Crawls : g[d] = IF d = w THEN f[d] + 1 ELSE f[d]
  <2>1. TAKE d \in Crawls
  <2>2. /\ f[d] = kept[d] + Turns(ws, m, d) /\ g[d] = kept[d] + Turns(ws, m + 1, d)
        /\ kept[d] \in Nat /\ Turns(ws, m, d) \in Nat
    BY TurnsAreNumbers DEF After
  <2>3. Turns(ws, m + 1, d) = IF w = d THEN Turns(ws, m, d) + 1 ELSE Turns(ws, m, d)
    BY NextTurn
  <2>4. QED
    BY <2>2, <2>3
<1> HIDE DEF f, g, w
<1>3. w \in C
  BY DEF w
<1>4. SlotsOf(C, g) = SlotsOf(C, f) \union {<<w, f[w] + 1>>}
  <2>1. ASSUME NEW x, x \in SlotsOf(C, g) PROVE x \in SlotsOf(C, f) \union {<<w, f[w] + 1>>}
    <3>1. PICK c \in C : \E k \in 1 .. g[c] : x = <<c, k>>
      BY <2>1, InSlots
    <3>2. PICK k \in 1 .. g[c] : x = <<c, k>>
      BY <3>1
    <3>3. CASE k \in 1 .. f[c]
      BY <3>2, <3>3, InSlots
    <3>4. CASE k \notin 1 .. f[c]
      BY <1>1, <1>2, <3>2, <3>4
    <3>5. QED
      BY <3>3, <3>4
  <2>2. ASSUME NEW x, x \in SlotsOf(C, f) PROVE x \in SlotsOf(C, g)
    <3>1. PICK c \in C : \E k \in 1 .. f[c] : x = <<c, k>>
      BY <2>2, InSlots
    <3>2. PICK k \in 1 .. f[c] : x = <<c, k>>
      BY <3>1
    <3>3. k \in 1 .. g[c]
      BY <1>1, <1>2, <3>2
    <3>4. QED
      BY <3>2, <3>3, InSlots
  <2>3. <<w, f[w] + 1>> \in SlotsOf(C, g)
    <3>1. f[w] + 1 \in 1 .. g[w]
      BY <1>1, <1>2, <1>3
    <3>2. QED
      BY <1>3, <3>1, InSlots
  <2>4. QED
    BY <2>1, <2>2, <2>3
<1>5. <<w, f[w] + 1>> \notin SlotsOf(C, f)
  <2>1. ASSUME NEW c \in C, NEW k \in 1 .. f[c], <<w, f[w] + 1>> = <<c, k>> PROVE FALSE
    BY <1>1, <1>3, <2>1
  <2>2. QED
    BY <2>1, InSlots
<1>6. IsFiniteSet(SlotsOf(C, f))
  BY <1>1, SlotsAreFinite
<1>7. Cardinality(SlotsOf(C, f) \union {<<w, f[w] + 1>>}) = Cardinality(SlotsOf(C, f)) + 1
  BY <1>5, <1>6, FS_AddElement
<1>8. QED
  BY <1>4, <1>7 DEF f, g

\* The first n waiters get n slots.
LEMMA Granting ==
  ASSUME NEW C \in SUBSET Crawls, NEW kept \in [Crawls -> Nat], NEW ws, NEW n \in Nat,
         \A i \in 1 .. n : ws[i] \in C
  PROVE  Cardinality(SlotsOf(C, After(kept, ws, n))) = Cardinality(SlotsOf(C, kept)) + n
<1> DEFINE size(m) == Cardinality(SlotsOf(C, After(kept, ws, m)))
           start == Cardinality(SlotsOf(C, kept))
           wrong == {m \in 0 .. n : size(m) # start + m}
<1>1. start \in Nat /\ size(0) = start
  <2>1. \A d \in Crawls : Turns(ws, 0, d) = 0
    BY NoTurn
  <2>2. After(kept, ws, 0) = kept
    BY <2>1 DEF After
  <2>3. QED
    BY <2>2, SlotsAreFinite
<1>2. ASSUME NEW m \in 0 .. n, m < n PROVE size(m + 1) = size(m) + 1
  <2>1. m \in Nat /\ ws[m + 1] \in C
    BY <1>2
  <2>2. QED
    BY <2>1, OneMoreSlot
<1> HIDE DEF size, start
<1>3. ASSUME wrong # {} PROVE FALSE
  <2>1. wrong \in SUBSET Nat
    OBVIOUS
  <2>2. PICK m \in wrong : \A k \in wrong : m <= k
    BY <1>3, <2>1, LeastNumber
  <2>3. m \in 0 .. n /\ size(m) # start + m
    BY <2>2
  <2>4. m # 0
    BY <1>1, <2>3
  <2>5. m - 1 \in 0 .. n /\ m - 1 < n /\ m - 1 \notin wrong
    BY <2>2, <2>3, <2>4
  <2>6. size(m - 1) = start + (m - 1)
    BY <2>5
  <2>7. size((m - 1) + 1) = size(m - 1) + 1
    BY <1>2, <2>5
  <2>8. (m - 1) + 1 = m
    BY <2>3
  <2>9. QED
    BY <1>1, <2>3, <2>6, <2>7, <2>8
<1>4. n \notin wrong
  BY <1>3
<1>5. size(n) = start + n
  BY <1>4
<1>6. QED
  BY <1>5 DEF size, start

\* Crawls that do not wait get none.
LEMMA NotGranted ==
  ASSUME NEW C \in SUBSET Crawls, NEW kept \in [Crawls -> Nat], NEW ws, NEW n \in Nat,
         \A i \in 1 .. n : ws[i] \notin C
  PROVE  SlotsOf(C, After(kept, ws, n)) = SlotsOf(C, kept)
<1>1. \A c \in C : After(kept, ws, n)[c] = kept[c]
  <2>1. TAKE c \in C
  <2>2. Turns(ws, n, c) = 0
    BY NoTurn
  <2>3. QED
    BY <2>2 DEF After
<1>2. QED
  BY <1>1 DEF SlotsOf

\* A slot given back is one slot less.
LEMMA OneSlotLess ==
  ASSUME NEW C \in SUBSET Crawls, NEW f \in [Crawls -> Nat], NEW c \in C, f[c] > 0
  PROVE  /\ [f EXCEPT ![c] = f[c] - 1] \in [Crawls -> Nat]
         /\ Cardinality(SlotsOf(C, [f EXCEPT ![c] = f[c] - 1])) = Cardinality(SlotsOf(C, f)) - 1
<1> DEFINE g == [f EXCEPT ![c] = f[c] - 1]
<1>1. g \in [Crawls -> Nat] /\ \A d \in Crawls : g[d] = IF d = c THEN f[d] - 1 ELSE f[d]
  OBVIOUS
<1> HIDE DEF g
<1>2. SlotsOf(C, g) = SlotsOf(C, f) \ {<<c, f[c]>>}
  <2>1. ASSUME NEW x, x \in SlotsOf(C, g) PROVE x \in SlotsOf(C, f) \ {<<c, f[c]>>}
    <3>1. PICK d \in C : \E k \in 1 .. g[d] : x = <<d, k>>
      BY <2>1, InSlots
    <3>2. PICK k \in 1 .. g[d] : x = <<d, k>>
      BY <3>1
    <3>3. k \in 1 .. f[d] /\ (d = c => k # f[d])
      BY <1>1, <3>2
    <3>4. x \in SlotsOf(C, f)
      BY <3>2, <3>3, InSlots
    <3>5. QED
      BY <3>2, <3>3, <3>4
  <2>2. ASSUME NEW x, x \in SlotsOf(C, f), x # <<c, f[c]>> PROVE x \in SlotsOf(C, g)
    <3>1. PICK d \in C : \E k \in 1 .. f[d] : x = <<d, k>>
      BY <2>2, InSlots
    <3>2. PICK k \in 1 .. f[d] : x = <<d, k>>
      BY <3>1
    <3>3. k \in 1 .. g[d]
      BY <1>1, <2>2, <3>2
    <3>4. QED
      BY <3>2, <3>3, InSlots
  <2>3. QED
    BY <2>1, <2>2
<1>3. <<c, f[c]>> \in SlotsOf(C, f)
  BY InSlots
<1>4. IsFiniteSet(SlotsOf(C, f))
  BY SlotsAreFinite
<1>5. Cardinality(SlotsOf(C, f) \ {<<c, f[c]>>}) = Cardinality(SlotsOf(C, f)) - 1
  BY <1>3, <1>4, FS_RemoveElement
<1>6. QED
  BY <1>1, <1>2, <1>5 DEF g

----------------------------------------------------------------------------
(* A step that hands out slots.                                            *)

On(h) == {d \in Started : Host(d) = h}

\* What the slots' variables are like, and what they have to do with crawls.
SlotTypes ==
  /\ holding \in [Crawls -> Nat] /\ active \in [Hosts -> 0 .. SlotLimit]
  /\ waiters \in [Hosts -> Seq(Crawls)]
  /\ \A h \in Hosts : waiters[h] # <<>> => active[h] = SlotLimit

LEMMA SomeAreGranted ==
  ASSUME NEW h, NEW ws \in Seq(Crawls), NEW busy \in 0 .. SlotLimit
  PROVE  LET n == Granted(h, ws, busy)
         IN /\ n \in Nat /\ n <= Len(ws) /\ Len(ws) \in Nat /\ busy + n \in 0 .. SlotLimit
            /\ n < Len(ws) => busy + n = SlotLimit
<1> DEFINE n == Granted(h, ws, busy)
<1>1. SlotLimit - busy \in Nat /\ Len(ws) \in Nat
  BY Numeric, LenProperties
<1>2. n \in {SlotLimit - busy, Len(ws)} /\ n <= SlotLimit - busy /\ n <= Len(ws)
  BY <1>1, SmallerOfTwo DEF Granted
<1> HIDE DEF n
<1>3. /\ n \in Nat /\ n <= Len(ws) /\ busy + n \in 0 .. SlotLimit
      /\ n < Len(ws) => busy + n = SlotLimit
  BY <1>1, <1>2, Numeric
<1>4. QED
  BY <1>1, <1>3 DEF n

\* Slots and waiters stay in order when a process h hands out its slots: "kept"
\* says what its crawls hold before, "ws" who waits.
LEMMA SlotStep ==
  ASSUME SlotTypes, SlotsKept, SlotsAreHeld,
         NEW h \in Hosts, NEW ws \in Seq(Crawls), NEW busy \in 0 .. SlotLimit,
         NEW kept \in [Crawls -> Nat],
         Drain(h, ws, busy, kept),
         \A g \in Hosts : On(g)' = On(g),
         \A d \in Crawls : At(d, "crawling") => crawl'[d].pc = "crawling" /\ HostOf[crawl'[d].pipe] = Host(d),
         \A i \in 1 .. Len(ws) : ws[i] \in On(h) /\ crawl'[ws[i]].pc = "crawling"
                                 /\ HostOf[crawl'[ws[i]].pipe] = h,
         \A d \in Crawls : kept[d] > 0 => crawl'[d].pc = "crawling",
         \A d \in Crawls : d \notin On(h) => kept[d] = holding[d],
         busy = Cardinality(SlotsOf(On(h), kept))
  PROVE  SlotTypes' /\ SlotsKept' /\ SlotsAreHeld'
<1> DEFINE n == Granted(h, ws, busy)
<1>1. /\ busy + n \in 0 .. SlotLimit /\ (n < Len(ws) => busy + n = SlotLimit)
      /\ active' = [active EXCEPT ![h] = busy + n]
      /\ waiters' = [waiters EXCEPT ![h] = SubSeq(ws, n + 1, Len(ws))]
      /\ holding' = After(kept, ws, n)
  BY SomeAreGranted, Zenon DEF Drain, After, Turns
<1>2. Len(ws) \in Nat /\ n \in Nat /\ n <= Len(ws)
  BY SomeAreGranted
<1> HIDE DEF n
<1> DEFINE rest == SubSeq(ws, n + 1, Len(ws))
<1>3. /\ rest \in Seq(Crawls) /\ Len(rest) = Len(ws) - n
      /\ \A i \in 1 .. Len(rest) : rest[i] = ws[n + i]
  <2>1. /\ n + 1 \in Int /\ Len(ws) \in Int
        /\ \A i \in n + 1 .. Len(ws) : ws[i] \in Crawls
    BY <1>2
  <2>2. /\ rest \in Seq(Crawls)
        /\ Len(rest) = IF n + 1 <= Len(ws) THEN Len(ws) - (n + 1) + 1 ELSE 0
        /\ \A i \in 1 .. Len(ws) - (n + 1) + 1 : rest[i] = ws[(n + 1) + i - 1]
    BY <2>1, SubSeqProperties
  <2> HIDE DEF rest
  <2>3. Len(rest) = Len(ws) - n
    BY <1>2, <2>2
  <2>4. ASSUME NEW i \in 1 .. Len(rest) PROVE rest[i] = ws[n + i]
    <3>1. i \in 1 .. Len(ws) - (n + 1) + 1 /\ (n + 1) + i - 1 = n + i
      BY <1>2, <2>3
    <3>2. QED
      BY <2>2, <3>1
  <2>5. QED
    BY <2>2, <2>3, <2>4
<1>4. rest # <<>> => n < Len(ws)
  BY <1>2, <1>3
<1> HIDE DEF rest
<1>5. /\ waiters' \in [Hosts -> Seq(Crawls)] /\ waiters'[h] = rest
      /\ \A g \in Hosts : g # h => waiters'[g] = waiters[g]
  BY <1>1, <1>3 DEF SlotTypes, rest
<1>6. /\ active' \in [Hosts -> 0 .. SlotLimit] /\ active'[h] = busy + n
      /\ \A g \in Hosts : g # h => active'[g] = active[g]
  BY <1>1 DEF SlotTypes
<1>7. SlotTypes'
  <2>1. holding' \in [Crawls -> Nat]
    BY <1>1, <1>2, AfterIsTyped
  <2>2. ASSUME NEW g \in Hosts, waiters'[g] # <<>> PROVE active'[g] = SlotLimit
    <3>1. CASE g = h
      BY <3>1, <2>2, <1>1, <1>4, <1>5, <1>6
    <3>2. CASE g # h
      BY <3>2, <2>2, <1>5, <1>6 DEF SlotTypes
    <3>3. QED
      BY <3>1, <3>2
  <2>3. QED
    BY <2>1, <2>2, <1>5, <1>6 DEF SlotTypes
<1>8. \A i \in 1 .. n : ws[i] \in On(h) /\ crawl'[ws[i]].pc = "crawling"
  <2>1. TAKE i \in 1 .. n
  <2>2. i \in 1 .. Len(ws)
    BY <1>2
  <2>3. QED
    BY <2>2
<1>9. SlotsKept'
  <2>1. ASSUME NEW d \in Crawls, holding'[d] > 0 PROVE crawl'[d].pc = "crawling"
    <3>1. CASE \E i \in 1 .. n : ws[i] = d
      BY <3>1, <1>8
    <3>2. CASE \A i \in 1 .. n : ws[i] # d
      <4>1. holding'[d] = kept[d] + Turns(ws, n, d)
        BY <1>1 DEF After
      <4>2. Turns(ws, n, d) = 0 /\ kept[d] \in Nat
        BY <3>2, <1>2, NoTurn
      <4>3. QED
        BY <2>1, <4>1, <4>2
    <3>3. QED
      BY <3>1, <3>2
  <2>2. ASSUME NEW g \in Hosts, NEW i \in 1 .. Len(waiters'[g])
        PROVE  LET d == waiters'[g][i] IN crawl'[d].pc = "crawling" /\ HostOf[crawl'[d].pipe] = g
    <3>1. CASE g = h
      <4>1. i \in 1 .. Len(rest) /\ waiters'[g][i] = rest[i]
        BY <3>1, <2>2, <1>5
      <4>2. n + i \in 1 .. Len(ws) /\ rest[i] = ws[n + i]
        BY <4>1, <1>2, <1>3
      <4>3. QED
        BY <3>1, <4>1, <4>2
    <3>2. CASE g # h
      <4>1. waiters'[g] = waiters[g] /\ waiters[g] \in Seq(Crawls)
        BY <3>2, <1>5 DEF SlotTypes
      <4>2. i \in 1 .. Len(waiters[g]) /\ waiters[g][i] \in Crawls
        BY <4>1, <2>2
      <4>3. At(waiters[g][i], "crawling") /\ Host(waiters[g][i]) = g
        BY <4>2 DEF SlotsKept
      <4>4. QED
        BY <4>1, <4>2, <4>3 DEF Host
    <3>3. QED
      BY <3>1, <3>2
  <2>3. QED
    BY <2>1, <2>2 DEF SlotsKept, At, Host
<1>10. SlotsAreHeld'
  <2>1. SUFFICES ASSUME NEW g \in Hosts
                 PROVE  active'[g] = Cardinality(SlotsOf(On(g), holding'))
    BY DEF SlotsAreHeld, HeldOn, SlotsOf, On
  <2>2. On(g) \in SUBSET Crawls
    BY DEF On, Started
  <2>3. CASE g = h
    <3>1. \A i \in 1 .. n : ws[i] \in On(g)
      BY <2>3, <1>8
    <3>2. Cardinality(SlotsOf(On(g), After(kept, ws, n))) = Cardinality(SlotsOf(On(g), kept)) + n
      BY <2>2, <1>2, <3>1, Granting
    <3>3. QED
      BY <2>3, <3>2, <1>1, <1>6
  <2>4. CASE g # h
    <3>1. \A i \in 1 .. n : ws[i] \notin On(g)
      BY <2>4, <1>8 DEF On
    <3>2. SlotsOf(On(g), holding') = SlotsOf(On(g), kept)
      BY <2>2, <3>1, <1>1, <1>2, NotGranted
    <3>3. \A d \in On(g) : kept[d] = holding[d]
      BY <2>2, <2>4 DEF On
    <3>4. SlotsOf(On(g), kept) = SlotsOf(On(g), holding)
      BY <3>3 DEF SlotsOf
    <3>5. active[g] = Cardinality(SlotsOf(On(g), holding))
      BY DEF SlotsAreHeld, HeldOn, SlotsOf, On
    <3>6. QED
      BY <2>4, <3>2, <3>4, <3>5, <1>6
  <2>5. QED
    BY <2>3, <2>4
<1>11. QED
  BY <1>7, <1>9, <1>10

----------------------------------------------------------------------------
(* What a step of one crawl does, as far as the ledger sees it.            *)

RowType == [Crawls -> [status : Statuses, fresh : BOOLEAN]]
CrawlType == [Crawls -> StartedCrawl \cup {NoCrawl}]

LEMMA StartedHasRecord ==
  ASSUME TypeOK
  PROVE  /\ row \in RowType /\ crawl \in CrawlType
         /\ \A c \in Started : crawl[c] \in StartedCrawl
         /\ \A c \in Crawls \ Started : crawl[c] = NoCrawl
         /\ \A c \in Crawls : (crawl[c].outcome # "none") = At(c, "done")
<1>1. row \in RowType /\ crawl \in CrawlType
  BY DEF TypeOK, RowType, CrawlType
<1>2. ASSUME NEW c \in Started PROVE crawl[c] \in StartedCrawl
  BY <1>1 DEF CrawlType, Started, At, NoCrawl
<1>3. ASSUME NEW c \in Crawls \ Started PROVE crawl[c] = NoCrawl
  BY <1>1 DEF CrawlType, Started, At, StartedCrawl, Places
<1>4. QED
  BY <1>1, <1>2, <1>3 DEF TypeOK

\* Crawl c goes to a new record; nobody starts, and the pipelines rest.
Moves(c) ==
  /\ crawl' \in CrawlType /\ crawl'[c] \in StartedCrawl
  /\ crawl'[c].user = crawl[c].user /\ crawl'[c].pipe = crawl[c].pipe
  /\ \A d \in Crawls : d # c => crawl'[d] = crawl[d]
  /\ row' \in RowType
  /\ pipeline' = pipeline /\ gate' = gate /\ next' = next

LEMMA NobodyStarts ==
  ASSUME TypeOK, NEW c \in Started, Moves(c)
  PROVE  /\ Started' = Started
         /\ \A d \in Crawls : crawl'[d].user = crawl[d].user /\ crawl'[d].pipe = crawl[d].pipe
<1>1. \A d \in Crawls : crawl'[d].pc = "unused" <=> crawl[d].pc = "unused"
  <2>1. TAKE d \in Crawls
  <2>2. CASE d = c
    BY <2>2 DEF Moves, StartedCrawl, Places, Started, At
  <2>3. CASE d # c
    BY <2>3 DEF Moves
  <2>4. QED
    BY <2>2, <2>3
<1>2. Started' = Started
  BY <1>1 DEF Started, At
<1>3. \A d \in Crawls : crawl'[d].user = crawl[d].user /\ crawl'[d].pipe = crawl[d].pipe
  BY DEF Moves
<1>4. QED
  BY <1>2, <1>3

\* Rows stay what they are, or are failed by others while they run.
RowsOnlyFail ==
  \A d \in Crawls : \/ row'[d].status = row[d].status
                    \/ row[d].status = "running" /\ row'[d].status = "failed"

\* Crawls that stay where they are, or are gone, leave the ledger as it is.
LEMMA LedgerWhenStaying ==
  ASSUME TypeOK, Ledger, Started' = Started, RowsOnlyFail,
         \A d \in Crawls : /\ crawl'[d].user = crawl[d].user /\ crawl'[d].pc \in {crawl[d].pc, "gone"}
                           /\ crawl'[d].outcome = crawl[d].outcome
  PROVE  Ledger'
<1>1. \A d \in Crawls : row[d].status \in Statuses
  BY DEF TypeOK
<1>2. Staged'
  BY <1>1 DEF Ledger, Staged, At, RowsOnlyFail
<1>3. VerdictIsRecorded'
  BY <1>1 DEF Ledger, VerdictIsRecorded, RowsOnlyFail
<1>4. OneRunning'
  BY <1>1 DEF Ledger, OneRunning, RowsOnlyFail, Started
<1>5. ASSUME NEW d \in Started PROVE Same(d)' = Same(d)
  BY DEF Same, Started
<1>6. ConflictSeen'
  <2>1. SUFFICES ASSUME NEW d \in Started, At(d, "conflict")'
                 PROVE  \E e \in Same(d) : row'[e].status # "none"
    BY <1>5 DEF ConflictSeen
  <2>2. At(d, "conflict")
    BY <2>1 DEF At, Started
  <2>3. PICK e \in Same(d) : row[e].status # "none"
    BY <2>2 DEF Ledger, ConflictSeen
  <2>4. row'[e].status # "none"
    BY <2>3 DEF RowsOnlyFail, Same, Started
  <2>5. QED
    BY <2>3, <2>4
<1>7. RefusedOnlyAfterAnEnd'
  <2>1. SUFFICES ASSUME NEW d \in Started, crawl'[d].outcome = "failed", row'[d].status = "none"
                 PROVE  \E e \in Same(d) : row'[e].status \in {"failed", "completed"}
    BY <1>5 DEF RefusedOnlyAfterAnEnd
  <2>2. crawl[d].outcome = "failed" /\ row[d].status = "none"
    BY <2>1 DEF RowsOnlyFail, Started
  <2>3. PICK e \in Same(d) : row[e].status \in {"failed", "completed"}
    BY <2>2 DEF Ledger, RefusedOnlyAfterAnEnd
  <2>4. row'[e].status \in {"failed", "completed"}
    BY <2>3 DEF RowsOnlyFail, Same, Started
  <2>5. QED
    BY <2>3, <2>4
<1>8. QED
  BY <1>2, <1>3, <1>4, <1>6, <1>7 DEF Ledger

\* A crawl that comes nearer to its row, or is told that it needs none.
Approaches(c) ==
  /\ crawl[c].pc \in {"looking", "recovering", "creating", "conflict"}
  /\ crawl'[c].pc \in {"recovering", "creating", "conflict", "done"}
  /\ crawl'[c].outcome \in {"none", "reused", "failed"}
  /\ crawl'[c].pc = "conflict" => ActiveRun(c) # {}
  /\ crawl'[c].outcome = "failed" => At(c, "conflict") /\ ActiveRun(c) = {}
  /\ RowsOnlyFail

LEMMA SameUsers ==
  ASSUME TypeOK, NEW c \in Started, Moves(c), NEW d \in Crawls
  PROVE  Same(d)' = Same(d)
BY NobodyStarts DEF Same, Started

LEMMA LedgerWhenApproaching ==
  ASSUME TypeOK, Ledger, NEW c \in Started, Moves(c), Approaches(c)
  PROVE  Ledger'
<1>1. /\ Started' = Started /\ c \in Crawls
      /\ \A d \in Crawls : crawl'[d].user = crawl[d].user
      /\ \A d \in Crawls : d # c => crawl'[d] = crawl[d]
      /\ \A d \in Crawls : Same(d)' = Same(d)
  BY NobodyStarts, SameUsers DEF Moves, Started
<1>2. row[c].status = "none" /\ row'[c].status = "none" /\ crawl[c].outcome = "none"
  <2>1. row[c].status = "none"
    BY <1>1 DEF Ledger, Staged, Approaches, At
  <2>2. crawl[c].outcome \in {"none", "ok", "reused", "failed", "unrecorded"} /\ ~At(c, "done")
    BY StartedHasRecord DEF StartedCrawl, Approaches, At
  <2>3. (crawl[c].outcome # "none") = At(c, "done")
    BY <1>1, StartedHasRecord
  <2>4. QED
    BY <1>1, <2>1, <2>2, <2>3 DEF Approaches, RowsOnlyFail
<1>3. Staged'
  BY <1>1, <1>2 DEF Ledger, Staged, Approaches, RowsOnlyFail, At
<1>4. VerdictIsRecorded'
  <2>1. SUFFICES ASSUME NEW d \in Crawls
                 PROVE  /\ crawl'[d].outcome = "ok" => row'[d].status = "completed"
                        /\ row'[d].status = "completed" => crawl'[d].outcome \in {"ok", "unrecorded"}
    BY DEF VerdictIsRecorded
  <2>2. CASE d = c
    BY <2>2, <1>2 DEF Approaches
  <2>3. CASE d # c
    BY <2>3, <1>1 DEF Ledger, VerdictIsRecorded, Approaches, RowsOnlyFail
  <2>4. QED
    BY <2>2, <2>3
<1>5. OneRunning'
  BY <1>1 DEF Ledger, OneRunning, Approaches, RowsOnlyFail, Started
<1>6. ConflictSeen'
  <2>1. SUFFICES ASSUME NEW d \in Started, At(d, "conflict")'
                 PROVE  \E e \in Same(d) : row'[e].status # "none"
    BY <1>1 DEF ConflictSeen, Started
  <2>2. \E e \in Same(d) : row[e].status # "none"
    <3>1. CASE d = c
      BY <3>1, <2>1 DEF Approaches, ActiveRun, At
    <3>2. CASE d # c
      BY <3>2, <2>1, <1>1 DEF Ledger, ConflictSeen, At, Started
    <3>3. QED
      BY <3>1, <3>2
  <2>3. PICK e \in Same(d) : row[e].status # "none"
    BY <2>2
  <2>4. row'[e].status # "none"
    BY <2>3 DEF Approaches, RowsOnlyFail, Same, Started
  <2>5. QED
    BY <2>3, <2>4
<1>7. RefusedOnlyAfterAnEnd'
  <2>1. SUFFICES ASSUME NEW d \in Started, crawl'[d].outcome = "failed", row'[d].status = "none"
                 PROVE  \E e \in Same(d) : row'[e].status \in {"failed", "completed"}
    BY <1>1 DEF RefusedOnlyAfterAnEnd, Started
  <2>2. \E e \in Same(d) : row[e].status \in {"failed", "completed"}
    <3>1. CASE d = c
      <4>1. At(c, "conflict") /\ ActiveRun(c) = {}
        BY <3>1, <2>1 DEF Approaches
      <4>2. PICK e \in Same(c) : row[e].status # "none"
        BY <4>1 DEF Ledger, ConflictSeen
      <4>3. row[e].status \in Statuses /\ row[e].status # "running"
        BY <4>1, <4>2 DEF ActiveRun, TypeOK, Same, Started
      <4>4. QED
        BY <3>1, <4>2, <4>3 DEF Statuses
    <3>2. CASE d # c
      BY <3>2, <2>1, <1>1 DEF Ledger, RefusedOnlyAfterAnEnd, Approaches, RowsOnlyFail, Started
    <3>3. QED
      BY <3>1, <3>2
  <2>3. PICK e \in Same(d) : row[e].status \in {"failed", "completed"}
    BY <2>2
  <2>4. row'[e].status \in {"failed", "completed"}
    BY <2>3 DEF Approaches, RowsOnlyFail, Same, Started
  <2>5. QED
    BY <2>3, <2>4
<1>8. QED
  BY <1>3, <1>4, <1>5, <1>6, <1>7 DEF Ledger

\* A crawl that finds no running row of its user inserts its own.
Begins(c) ==
  /\ At(c, "creating") /\ ActiveRun(c) = {}
  /\ crawl'[c].pc = "crawling" /\ crawl'[c].outcome = "none"
  /\ row'[c].status = "running"
  /\ \A d \in Crawls : d # c => row'[d] = row[d]

LEMMA LedgerWhenBeginning ==
  ASSUME TypeOK, Ledger, NEW c \in Started, Moves(c), Begins(c)
  PROVE  Ledger'
<1>1. /\ Started' = Started /\ c \in Crawls
      /\ \A d \in Crawls : crawl'[d].user = crawl[d].user
      /\ \A d \in Crawls : d # c => crawl'[d] = crawl[d]
      /\ \A d \in Crawls : Same(d)' = Same(d)
  BY NobodyStarts, SameUsers DEF Moves, Started
<1>2. row[c].status = "none"
  BY <1>1 DEF Ledger, Staged, Begins, At
<1>3. Staged'
  BY <1>1 DEF Ledger, Staged, Begins, At
<1>4. VerdictIsRecorded'
  BY <1>1 DEF Ledger, VerdictIsRecorded, Begins
<1>5. OneRunning'
  <2>1. \A d \in Started : crawl[d].user = crawl[c].user => row[d].status # "running"
    BY DEF Begins, ActiveRun, Same
  <2>2. QED
    BY <1>1, <2>1 DEF Ledger, OneRunning, Begins, Started
<1>6. ConflictSeen'
  <2>1. SUFFICES ASSUME NEW d \in Started, At(d, "conflict")'
                 PROVE  \E e \in Same(d) : row'[e].status # "none"
    BY <1>1 DEF ConflictSeen, Started
  <2>2. d # c
    BY <2>1 DEF Begins, At
  <2>3. PICK e \in Same(d) : row[e].status # "none"
    BY <2>1, <2>2, <1>1 DEF Ledger, ConflictSeen, At, Started
  <2>4. row'[e].status # "none"
    BY <2>3 DEF Begins, Same, Started
  <2>5. QED
    BY <2>3, <2>4
<1>7. RefusedOnlyAfterAnEnd'
  <2>1. SUFFICES ASSUME NEW d \in Started, crawl'[d].outcome = "failed", row'[d].status = "none"
                 PROVE  \E e \in Same(d) : row'[e].status \in {"failed", "completed"}
    BY <1>1 DEF RefusedOnlyAfterAnEnd, Started
  <2>2. d # c
    BY <2>1 DEF Begins
  <2>3. PICK e \in Same(d) : row[e].status \in {"failed", "completed"}
    BY <2>1, <2>2, <1>1 DEF Ledger, RefusedOnlyAfterAnEnd, Begins, Started
  <2>4. e # c /\ e \in Crawls
    BY <2>3, <1>2 DEF Same, Started
  <2>5. row'[e].status \in {"failed", "completed"}
    BY <2>3, <2>4 DEF Begins
  <2>6. QED
    BY <2>3, <2>5
<1>8. QED
  BY <1>3, <1>4, <1>5, <1>6, <1>7 DEF Ledger

\* A crawl that ends writes its verdict into the row it still owns.
Ends(c) ==
  /\ At(c, "crawling") /\ crawl'[c].pc = "done" /\ crawl'[c].outcome \in {"ok", "failed"}
  /\ Owned(c) => row'[c].status = IF crawl'[c].outcome = "ok" THEN "completed" ELSE "failed"
  /\ ~Owned(c) => crawl'[c].outcome = "failed" /\ row'[c] = row[c]
  /\ \A d \in Crawls : d # c => row'[d] = row[d]

LEMMA LedgerWhenEnding ==
  ASSUME TypeOK, Ledger, NEW c \in Started, Moves(c), Ends(c)
  PROVE  Ledger'
<1>1. /\ Started' = Started /\ c \in Crawls
      /\ \A d \in Crawls : crawl'[d].user = crawl[d].user
      /\ \A d \in Crawls : d # c => crawl'[d] = crawl[d]
      /\ \A d \in Crawls : Same(d)' = Same(d)
  BY NobodyStarts, SameUsers DEF Moves, Started
<1>2. row[c].status \in {"running", "failed"} /\ row'[c].status \in {"completed", "failed"}
  BY <1>1 DEF Ledger, Staged, Ends, Owned
<1>3. Staged'
  BY <1>1 DEF Ledger, Staged, Ends, At
<1>4. VerdictIsRecorded'
  <2>1. SUFFICES ASSUME NEW d \in Crawls
                 PROVE  /\ crawl'[d].outcome = "ok" => row'[d].status = "completed"
                        /\ row'[d].status = "completed" => crawl'[d].outcome \in {"ok", "unrecorded"}
    BY DEF VerdictIsRecorded
  <2>2. CASE d = c
    BY <2>2, <1>2 DEF Ends, Owned
  <2>3. CASE d # c
    BY <2>3, <1>1 DEF Ledger, VerdictIsRecorded, Ends
  <2>4. QED
    BY <2>2, <2>3
<1>5. OneRunning'
  BY <1>1, <1>2 DEF Ledger, OneRunning, Ends, Started
<1>6. ConflictSeen'
  <2>1. SUFFICES ASSUME NEW d \in Started, At(d, "conflict")'
                 PROVE  \E e \in Same(d) : row'[e].status # "none"
    BY <1>1 DEF ConflictSeen, Started
  <2>2. d # c
    BY <2>1 DEF Ends, At
  <2>3. PICK e \in Same(d) : row[e].status # "none"
    BY <2>1, <2>2, <1>1 DEF Ledger, ConflictSeen, At, Started
  <2>4. row'[e].status # "none"
    BY <2>3, <1>2 DEF Ends, Same, Started
  <2>5. QED
    BY <2>3, <2>4
<1>7. RefusedOnlyAfterAnEnd'
  <2>1. SUFFICES ASSUME NEW d \in Started, crawl'[d].outcome = "failed", row'[d].status = "none"
                 PROVE  \E e \in Same(d) : row'[e].status \in {"failed", "completed"}
    BY <1>1 DEF RefusedOnlyAfterAnEnd, Started
  <2>2. d # c
    BY <2>1, <1>2
  <2>3. PICK e \in Same(d) : row[e].status \in {"failed", "completed"}
    BY <2>1, <2>2, <1>1 DEF Ledger, RefusedOnlyAfterAnEnd, Ends, Started
  <2>4. row'[e].status \in {"failed", "completed"}
    BY <2>3, <1>2 DEF Ends, Same, Started
  <2>5. QED
    BY <2>3, <2>4
<1>8. QED
  BY <1>3, <1>4, <1>5, <1>6, <1>7 DEF Ledger

\* A crawl fails with a statement, whose effect may be there.
Throws(c) ==
  /\ Living(c) /\ crawl'[c].pc = "done" /\ crawl'[c].outcome = "unrecorded"
  /\ \/ RowsOnlyFail
     \/ /\ At(c, "creating") /\ ActiveRun(c) = {} /\ row'[c].status = "running"
        /\ \A d \in Crawls : d # c => row'[d] = row[d]
     \/ /\ At(c, "crawling") /\ row'[c].status = "completed"
        /\ \A d \in Crawls : d # c => row'[d] = row[d]

LEMMA LedgerWhenThrowing ==
  ASSUME TypeOK, Ledger, NEW c \in Started, Moves(c), Throws(c)
  PROVE  Ledger'
<1>1. /\ Started' = Started /\ c \in Crawls
      /\ \A d \in Crawls : crawl'[d].user = crawl[d].user
      /\ \A d \in Crawls : d # c => crawl'[d] = crawl[d]
      /\ \A d \in Crawls : Same(d)' = Same(d)
  BY NobodyStarts, SameUsers DEF Moves, Started
<1>2. crawl'[c].pc = "done" /\ crawl'[c].outcome = "unrecorded" /\ crawl[c].outcome = "none"
  BY <1>1, StartedHasRecord DEF Throws, Living, At
<1>3. /\ row[c].status \in {"none", "running", "failed"}
      /\ At(c, "creating") => row[c].status = "none"
      /\ At(c, "crawling") => row[c].status # "none"
  BY <1>1 DEF Ledger, Staged, Throws, Living, At
<1>4. /\ \A d \in Crawls :
           d # c => \/ row'[d].status = row[d].status
                    \/ row[d].status = "running" /\ row'[d].status = "failed"
      /\ \A d \in Crawls : row[d].status # "none" => row'[d].status # "none"
      /\ \A d \in Crawls : row[d].status \in {"failed", "completed"} =>
                             row'[d].status \in {"failed", "completed"}
  BY <1>1, <1>3 DEF Throws, RowsOnlyFail
<1>5. Staged'
  BY <1>1, <1>2, <1>4 DEF Ledger, Staged, At
<1>6. VerdictIsRecorded'
  <2>1. SUFFICES ASSUME NEW d \in Crawls
                 PROVE  /\ crawl'[d].outcome = "ok" => row'[d].status = "completed"
                        /\ row'[d].status = "completed" => crawl'[d].outcome \in {"ok", "unrecorded"}
    BY DEF VerdictIsRecorded
  <2>2. CASE d = c
    BY <2>2, <1>2
  <2>3. CASE d # c
    BY <2>3, <1>1, <1>4 DEF Ledger, VerdictIsRecorded
  <2>4. QED
    BY <2>2, <2>3
<1>7. OneRunning'
  <2>1. CASE At(c, "creating") /\ ActiveRun(c) = {}
    <3>1. \A d \in Started : crawl[d].user = crawl[c].user => row[d].status # "running"
      BY <2>1 DEF ActiveRun, Same
    <3>2. QED
      BY <3>1, <1>1, <1>4 DEF Ledger, OneRunning, Started
  <2>2. CASE row'[c].status = "running" => row[c].status = "running"
    BY <2>2, <1>1, <1>4 DEF Ledger, OneRunning, Started
  <2>3. QED
    BY <2>1, <2>2, <1>1 DEF Throws, RowsOnlyFail
<1>8. ConflictSeen'
  <2>1. SUFFICES ASSUME NEW d \in Started, At(d, "conflict")'
                 PROVE  \E e \in Same(d) : row'[e].status # "none"
    BY <1>1 DEF ConflictSeen, Started
  <2>2. d # c
    BY <2>1, <1>2 DEF At
  <2>3. PICK e \in Same(d) : row[e].status # "none"
    BY <2>1, <2>2, <1>1 DEF Ledger, ConflictSeen, At, Started
  <2>4. QED
    BY <2>3, <1>4 DEF Same, Started
<1>9. RefusedOnlyAfterAnEnd'
  <2>1. SUFFICES ASSUME NEW d \in Started, crawl'[d].outcome = "failed", row'[d].status = "none"
                 PROVE  \E e \in Same(d) : row'[e].status \in {"failed", "completed"}
    BY <1>1 DEF RefusedOnlyAfterAnEnd, Started
  <2>2. d # c /\ row[d].status = "none"
    BY <2>1, <1>2, <1>4 DEF Started
  <2>3. PICK e \in Same(d) : row[e].status \in {"failed", "completed"}
    BY <2>1, <2>2, <1>1 DEF Ledger, RefusedOnlyAfterAnEnd, Started
  <2>4. QED
    BY <2>3, <1>4 DEF Same, Started
<1>10. QED
  BY <1>5, <1>6, <1>7, <1>8, <1>9 DEF Ledger

\* Crawls that start have no rows yet.
LEMMA LedgerWhenStarting ==
  ASSUME TypeOK, Ledger, NEW fresh \in SUBSET Crawls,
         row' = row, Started' = Started \cup fresh, fresh \cap Started = {},
         \A c \in fresh : crawl'[c].pc = "looking" /\ crawl'[c].outcome = "none",
         \A c \in Crawls \ fresh : crawl'[c] = crawl[c]
  PROVE  Ledger'
<1>1. \A c \in fresh : row[c].status = "none" /\ At(c, "unused")
  BY DEF Ledger, Staged, Started, At
<1>2. Staged'
  BY <1>1 DEF Ledger, Staged, At
<1>3. VerdictIsRecorded'
  BY <1>1 DEF Ledger, VerdictIsRecorded
<1>4. OneRunning'
  <2>1. SUFFICES ASSUME NEW c \in Started', NEW d \in Started', crawl'[c].user = crawl'[d].user,
                        row[c].status = "running", row[d].status = "running"
                 PROVE  c = d
    BY DEF OneRunning
  <2>2. c \in Started \ fresh /\ d \in Started \ fresh
    BY <2>1, <1>1
  <2>3. QED
    BY <2>1, <2>2 DEF Ledger, OneRunning, Started
<1>5. ASSUME NEW d \in Started \ fresh PROVE Same(d) \subseteq Same(d)'
  BY DEF Same, Started
<1>6. ConflictSeen'
  <2>1. SUFFICES ASSUME NEW d \in Started', At(d, "conflict")'
                 PROVE  \E e \in Same(d)' : row[e].status # "none"
    BY DEF ConflictSeen
  <2>2. d \in Started \ fresh /\ At(d, "conflict")
    BY <2>1 DEF At, Started
  <2>3. PICK e \in Same(d) : row[e].status # "none"
    BY <2>2 DEF Ledger, ConflictSeen
  <2>4. QED
    BY <1>5, <2>2, <2>3
<1>7. RefusedOnlyAfterAnEnd'
  <2>1. SUFFICES ASSUME NEW d \in Started', crawl'[d].outcome = "failed", row[d].status = "none"
                 PROVE  \E e \in Same(d)' : row[e].status \in {"failed", "completed"}
    BY DEF RefusedOnlyAfterAnEnd
  <2>2. d \in Started \ fresh /\ crawl[d].outcome = "failed"
    BY <2>1 DEF Started
  <2>3. PICK e \in Same(d) : row[e].status \in {"failed", "completed"}
    BY <2>1, <2>2 DEF Ledger, RefusedOnlyAfterAnEnd
  <2>4. QED
    BY <1>5, <2>2, <2>3
<1>8. QED
  BY <1>2, <1>3, <1>4, <1>6, <1>7 DEF Ledger

----------------------------------------------------------------------------
(* What a pipeline knows, and types.                                       *)

\* A pipeline's knowledge survives what its crawls do by themselves.
LEMMA KnowledgeIsKept ==
  ASSUME TypeOK, PipelinesKnow, NEW c \in Started, Moves(c),
         crawl'[c].pc \notin {"done", "gone"} => Living(c),
         ~Failed(c)
  PROVE  PipelinesKnow'
<1>1. /\ Started' = Started
      /\ \A d \in Crawls : crawl'[d].pipe = crawl[d].pipe
      /\ \A d \in Crawls : d # c => crawl'[d] = crawl[d]
      /\ pipeline' = pipeline /\ gate' = gate
  BY NobodyStarts DEF Moves
<1>2. SUFFICES ASSUME NEW p \in Pipelines
               PROVE  /\ \A d \in pipeline[p].mine : d \in Started /\ crawl'[d].pipe = p
                      /\ \A d \in Started : Living(d)' /\ crawl'[d].pipe = p =>
                           \/ pipeline[p].pc = "crawling" /\ d \in pipeline[p].mine
                           \/ FailedSibling(p)'
                      /\ pipeline[p].pc = "crawling" =>
                           gate[p] /\ pipeline[p].batch \in 1 .. Len(Batches[p])
  BY <1>1, Zenon DEF PipelinesKnow
<1>3. \A d \in pipeline[p].mine : d \in Started /\ crawl'[d].pipe = p
  BY <1>1 DEF PipelinesKnow, Started
<1>4. FailedSibling(p) => FailedSibling(p)'
  BY <1>1 DEF FailedSibling, Failed, Started
<1>5. ASSUME NEW d \in Started, Living(d)' PROVE Living(d)
  BY <1>5, <1>1 DEF Living, Started
<1>6. \A d \in Started : Living(d)' /\ crawl'[d].pipe = p =>
        \/ pipeline[p].pc = "crawling" /\ d \in pipeline[p].mine
        \/ FailedSibling(p)'
  BY <1>1, <1>4, <1>5 DEF PipelinesKnow, Started
<1>7. QED
  BY <1>3, <1>6 DEF PipelinesKnow

\* Types when a crawl moves, by the record it goes to.
LEMMA TypesWhenMoving ==
  ASSUME TypeOK, NEW c \in Started, Moves(c),
         crawl'[c].outcome # "none" <=> crawl'[c].pc = "done",
         SlotTypes', faults' \in 0 .. MaxFaults, resets' \subseteq Crawls
  PROVE  TypeOK'
<1>1. /\ Started' = Started /\ next' = next
      /\ \A d \in Crawls : d # c => crawl'[d] = crawl[d]
  BY NobodyStarts DEF Moves
<1>2. \A d \in Crawls : /\ (crawl'[d].outcome # "none") = At(d, "done")'
                        /\ d < next' <=> ~At(d, "unused")'
  <2>1. TAKE d \in Crawls
  <2>2. crawl'[d].outcome # "none" <=> crawl'[d].pc = "done"
    BY <1>1 DEF TypeOK, At
  <2>3. d < next' <=> crawl'[d].pc # "unused"
    BY <1>1 DEF TypeOK, At, Started
  <2>4. QED
    BY <2>2, <2>3 DEF At
<1>3. row' \in RowType /\ crawl' \in CrawlType /\ pipeline' = pipeline /\ gate' = gate
  BY DEF Moves
<1>4. QED
  BY <1>1, <1>2, <1>3 DEF TypeOK, SlotTypes, RowType, CrawlType

\* Slots stay in order when no crawl that works leaves, and nobody comes.
LEMMA SlotsUntouched ==
  ASSUME TypeOK, SlotsKept, SlotsAreHeld, NEW c \in Started, Moves(c),
         slots' = slots,
         At(c, "crawling") => crawl'[c].pc = "crawling" \/ FeedsSettled(c)
  PROVE  SlotTypes' /\ SlotsKept' /\ SlotsAreHeld'
<1>1. /\ Started' = Started
      /\ \A d \in Crawls : crawl'[d].pipe = crawl[d].pipe
      /\ \A d \in Crawls : d # c => crawl'[d] = crawl[d]
      /\ holding' = holding /\ active' = active /\ waiters' = waiters
  BY NobodyStarts DEF Moves, slots
<1>2. SlotTypes'
  BY <1>1 DEF TypeOK, SlotTypes
<1>3. SlotsAreHeld'
  <2>1. \A h \in Hosts : {d \in Started : Host(d)' = h} = {d \in Started : Host(d) = h}
    BY <1>1 DEF Host, Started
  <2>2. \A h \in Hosts : HeldOn(h)' = HeldOn(h)
    BY <1>1, <2>1 DEF HeldOn
  <2>3. QED
    BY <1>1, <2>2 DEF SlotsAreHeld
<1>4. \A d \in Crawls : holding[d] > 0 => crawl'[d].pc = "crawling"
  <2>1. SUFFICES ASSUME NEW d \in Crawls, holding[d] > 0 PROVE crawl'[d].pc = "crawling"
    OBVIOUS
  <2>2. At(d, "crawling")
    BY <2>1 DEF SlotsKept
  <2>3. QED
    BY <1>1, <2>1, <2>2 DEF FeedsSettled, At
<1>5. ASSUME NEW h \in Hosts, NEW i \in 1 .. Len(waiters[h])
      PROVE  LET d == waiters[h][i] IN crawl'[d].pc = "crawling" /\ HostOf[crawl'[d].pipe] = h
  <2> DEFINE d == waiters[h][i]
  <2>1. waiters[h] \in Seq(Crawls)
    BY DEF TypeOK
  <2>2. d \in Crawls /\ At(d, "crawling") /\ Host(d) = h
    BY <2>1 DEF SlotsKept
  <2>3. d \in ToSet(waiters[h])
    BY <2>1 DEF ToSet
  <2> HIDE DEF d
  <2>4. d = c => crawl'[c].pc = "crawling"
    BY <2>2, <2>3 DEF FeedsSettled
  <2>5. QED
    BY <1>1, <2>2, <2>4 DEF Host, At, d
<1>6. SlotsKept'
  BY <1>1, <1>4, <1>5 DEF SlotsKept, At, Host
<1>7. QED
  BY <1>2, <1>3, <1>6

----------------------------------------------------------------------------
(* The actions of one crawl that leave the slots alone.                    *)

LEMMA Moving ==
  ASSUME TypeOK, NEW c \in Started, NEW new \in StartedCrawl,
         new.user = crawl[c].user, new.pipe = crawl[c].pipe,
         crawl' = [crawl EXCEPT ![c] = new], row' \in RowType,
         pipeline' = pipeline, gate' = gate, next' = next
  PROVE  Moves(c) /\ crawl'[c] = new
<1>1. c \in Crawls /\ crawl \in CrawlType
  BY StartedHasRecord DEF Started
<1>2. crawl'[c] = new /\ crawl' \in CrawlType /\ \A d \in Crawls : d # c => crawl'[d] = crawl[d]
  BY <1>1 DEF CrawlType
<1>3. QED
  BY <1>2 DEF Moves

\* What is left to show for a crawl that moves without touching its slots.
LEMMA InvariantWhenMoving ==
  ASSUME Inv, NEW c \in Started, Moves(c), Living(c), Ledger', slots' = slots,
         crawl'[c].outcome # "none" <=> crawl'[c].pc = "done",
         At(c, "crawling") => crawl'[c].pc = "crawling" \/ FeedsSettled(c),
         faults' \in 0 .. MaxFaults, resets' \subseteq Crawls
  PROVE  Inv'
<1>1. TypeOK /\ PipelinesKnow /\ SlotsKept /\ SlotsAreHeld
  BY DEF Inv
<1>2. SlotTypes' /\ SlotsKept' /\ SlotsAreHeld'
  BY <1>1, SlotsUntouched
<1>3. TypeOK'
  BY <1>1, <1>2, TypesWhenMoving
<1>4. ~Failed(c)
  BY <1>1, StartedHasRecord DEF Living, At, Started, Failed
<1>5. PipelinesKnow'
  BY <1>1, <1>4, KnowledgeIsKept
<1>6. QED
  BY <1>2, <1>3, <1>5 DEF Inv

LEMMA LookStep ==
  ASSUME Inv, NEW c \in Started, Look(c)
  PROVE  Inv'
<1>1. TypeOK /\ Ledger /\ c \in Crawls /\ row \in RowType /\ crawl \in CrawlType
      /\ crawl[c] \in StartedCrawl /\ At(c, "looking") /\ Living(c) /\ crawl[c].outcome = "none"
  BY StartedHasRecord DEF Inv, Look, Living, At, Started
<1>2. /\ row' = row /\ slots' = slots /\ pipeline' = pipeline /\ gate' = gate
      /\ next' = next /\ faults' = faults /\ resets' = resets
      /\ faults' \in 0 .. MaxFaults /\ resets' \subseteq Crawls
  BY <1>1 DEF Look, bounds, TypeOK
<1>3. ASSUME NEW place \in {"recovering", "creating"}, crawl' = [crawl EXCEPT ![c].pc = place]
      PROVE  Inv'
  <2> DEFINE new == [crawl[c] EXCEPT !.pc = place]
  <2>1. new \in StartedCrawl /\ new.user = crawl[c].user /\ new.pipe = crawl[c].pipe
        /\ new.pc = place /\ new.outcome = "none" /\ crawl' = [crawl EXCEPT ![c] = new]
    BY <1>1, <1>3 DEF StartedCrawl, Places
  <2> HIDE DEF new
  <2>2. Moves(c) /\ crawl'[c] = new
    BY <1>1, <1>2, <2>1, Moving
  <2>3. Approaches(c)
    BY <1>1, <1>2, <2>1, <2>2 DEF Approaches, At, RowsOnlyFail
  <2>4. Ledger'
    BY <1>1, <2>2, <2>3, LedgerWhenApproaching
  <2>5. QED
    BY <1>1, <1>2, <2>1, <2>2, <2>4, InvariantWhenMoving DEF At
<1>4. ASSUME crawl' = Return(c, "reused") PROVE Inv'
  <2> DEFINE new == [crawl[c] EXCEPT !.pc = "done", !.outcome = "reused"]
  <2>1. new \in StartedCrawl /\ new.user = crawl[c].user /\ new.pipe = crawl[c].pipe
        /\ new.pc = "done" /\ new.outcome = "reused" /\ crawl' = [crawl EXCEPT ![c] = new]
    BY <1>1, <1>4 DEF StartedCrawl, Places, Return
  <2> HIDE DEF new
  <2>2. Moves(c) /\ crawl'[c] = new
    BY <1>1, <1>2, <2>1, Moving
  <2>3. Approaches(c)
    BY <1>1, <1>2, <2>1, <2>2 DEF Approaches, At, RowsOnlyFail
  <2>4. Ledger'
    BY <1>1, <2>2, <2>3, LedgerWhenApproaching
  <2>5. QED
    BY <1>1, <1>2, <2>1, <2>2, <2>4, InvariantWhenMoving DEF At
<1>5. \/ crawl' = [crawl EXCEPT ![c].pc = "creating"]
      \/ crawl' = Return(c, "reused")
      \/ crawl' = [crawl EXCEPT ![c].pc = "recovering"]
  BY Zenon DEF Look
<1>6. QED
  BY <1>3, <1>4, <1>5

\* Failing running rows, whichever they are.
LEMMA FailingRows ==
  ASSUME TypeOK, NEW S \in SUBSET Crawls, row' = FailedRows(S),
         \A d \in S : row[d].status = "running"
  PROVE  row' \in RowType /\ RowsOnlyFail
<1>1. row \in RowType
  BY StartedHasRecord
<1>2. ASSUME NEW d \in Crawls
      PROVE  /\ row'[d] \in [status : Statuses, fresh : BOOLEAN]
             /\ \/ row'[d].status = row[d].status
                \/ row[d].status = "running" /\ row'[d].status = "failed"
  <2>1. row'[d] = IF d \in S THEN [row[d] EXCEPT !.status = "failed"] ELSE row[d]
    BY DEF FailedRows
  <2>2. row[d] \in [status : Statuses, fresh : BOOLEAN]
    BY <1>1 DEF RowType
  <2>3. QED
    BY <2>1, <2>2 DEF Statuses
<1>3. row' \in RowType
  BY <1>2 DEF FailedRows, RowType
<1>4. QED
  BY <1>2, <1>3 DEF RowsOnlyFail

LEMMA RecoverStep ==
  ASSUME Inv, NEW c \in Started, Recover(c)
  PROVE  Inv'
<1>1. TypeOK /\ Ledger /\ c \in Crawls /\ row \in RowType /\ crawl \in CrawlType
      /\ crawl[c] \in StartedCrawl /\ At(c, "recovering") /\ Living(c) /\ crawl[c].outcome = "none"
  BY StartedHasRecord DEF Inv, Recover, Living, At, Started
<1>2. /\ slots' = slots /\ pipeline' = pipeline /\ gate' = gate
      /\ next' = next /\ faults' = faults /\ resets' = resets
      /\ faults' \in 0 .. MaxFaults /\ resets' \subseteq Crawls
  BY <1>1 DEF Recover, bounds, TypeOK
<1>3. row' \in RowType /\ RowsOnlyFail
  <2>1. {d \in Same(c) : Stale(d)} \in SUBSET Crawls
    BY DEF Same, Started
  <2>2. \A d \in {d \in Same(c) : Stale(d)} : row[d].status = "running"
    BY DEF Stale
  <2>3. QED
    BY <1>1, <2>1, <2>2, FailingRows DEF Recover, Recovered
<1> DEFINE new == [crawl[c] EXCEPT !.pc = "creating"]
<1>4. new \in StartedCrawl /\ new.user = crawl[c].user /\ new.pipe = crawl[c].pipe
      /\ new.pc = "creating" /\ new.outcome = "none" /\ crawl' = [crawl EXCEPT ![c] = new]
  BY <1>1 DEF StartedCrawl, Places, Recover
<1> HIDE DEF new
<1>5. Moves(c) /\ crawl'[c] = new
  BY <1>1, <1>2, <1>3, <1>4, Moving
<1>6. Approaches(c)
  BY <1>1, <1>3, <1>4, <1>5 DEF Approaches, At
<1>7. Ledger'
  BY <1>1, <1>5, <1>6, LedgerWhenApproaching
<1>8. QED
  BY <1>1, <1>2, <1>4, <1>5, <1>7, InvariantWhenMoving DEF At

LEMMA ConflictStep ==
  ASSUME Inv, NEW c \in Started, Conflict(c)
  PROVE  Inv'
<1>1. TypeOK /\ Ledger /\ c \in Crawls /\ row \in RowType /\ crawl \in CrawlType
      /\ crawl[c] \in StartedCrawl /\ At(c, "conflict") /\ Living(c) /\ crawl[c].outcome = "none"
  BY StartedHasRecord DEF Inv, Conflict, Living, At, Started
<1>2. /\ row' = row /\ slots' = slots /\ pipeline' = pipeline /\ gate' = gate
      /\ next' = next /\ faults' = faults /\ resets' = resets
      /\ faults' \in 0 .. MaxFaults /\ resets' \subseteq Crawls
  BY <1>1 DEF Conflict, bounds, TypeOK
<1> DEFINE verdict == IF ActiveRun(c) # {} THEN "reused" ELSE "failed"
           new == [crawl[c] EXCEPT !.pc = "done", !.outcome = verdict]
<1>3. verdict \in {"reused", "failed"} /\ (verdict = "failed" => ActiveRun(c) = {})
      /\ crawl' = Return(c, verdict)
  BY DEF Conflict
<1> HIDE DEF verdict
<1>4. new \in StartedCrawl /\ new.user = crawl[c].user /\ new.pipe = crawl[c].pipe
      /\ new.pc = "done" /\ new.outcome = verdict /\ crawl' = [crawl EXCEPT ![c] = new]
  BY <1>1, <1>3 DEF StartedCrawl, Places, Return
<1> HIDE DEF new
<1>5. Moves(c) /\ crawl'[c] = new
  BY <1>1, <1>2, <1>4, Moving
<1>6. Approaches(c)
  BY <1>1, <1>2, <1>3, <1>4, <1>5 DEF Approaches, At, RowsOnlyFail
<1>7. Ledger'
  BY <1>1, <1>5, <1>6, LedgerWhenApproaching
<1>8. QED
  BY <1>1, <1>2, <1>3, <1>4, <1>5, <1>7, InvariantWhenMoving DEF At

LEMMA EndStep ==
  ASSUME Inv, NEW c \in Started, NEW fine \in BOOLEAN, End(c, fine)
  PROVE  Inv'
<1>1. TypeOK /\ Ledger /\ c \in Crawls /\ row \in RowType /\ crawl \in CrawlType
      /\ crawl[c] \in StartedCrawl /\ At(c, "crawling") /\ Living(c) /\ FeedsSettled(c)
  BY StartedHasRecord DEF Inv, End, Living, At, Started
<1>2. /\ slots' = slots /\ pipeline' = pipeline /\ gate' = gate
      /\ next' = next /\ faults' = faults /\ resets' = resets
      /\ faults' \in 0 .. MaxFaults /\ resets' \subseteq Crawls
  BY <1>1 DEF End, bounds, TypeOK
<1> DEFINE verdict == IF Succeeds(c, fine) THEN "ok" ELSE "failed"
           status == IF fine THEN "completed" ELSE "failed"
           new == [crawl[c] EXCEPT !.pc = "done", !.outcome = verdict]
<1>3. /\ verdict \in {"ok", "failed"} /\ (~Owned(c) => verdict = "failed")
      /\ Owned(c) => status = IF verdict = "ok" THEN "completed" ELSE "failed"
      /\ status \in Statuses
      /\ crawl' = Return(c, verdict)
      /\ row' = IF Owned(c) THEN [row EXCEPT ![c].status = status] ELSE row
  BY DEF End, Ended, Succeeds, Statuses
<1> HIDE DEF verdict, status
<1>4. new \in StartedCrawl /\ new.user = crawl[c].user /\ new.pipe = crawl[c].pipe
      /\ new.pc = "done" /\ new.outcome = verdict /\ crawl' = [crawl EXCEPT ![c] = new]
  BY <1>1, <1>3 DEF StartedCrawl, Places, Return
<1> HIDE DEF new
<1>5. /\ row' \in RowType /\ row'[c].status = (IF Owned(c) THEN status ELSE row[c].status)
      /\ ~Owned(c) => row'[c] = row[c]
      /\ \A d \in Crawls : d # c => row'[d] = row[d]
  BY <1>1, <1>3 DEF RowType
<1>6. Moves(c) /\ crawl'[c] = new
  BY <1>1, <1>2, <1>4, <1>5, Moving
<1>7. Ends(c)
  BY <1>1, <1>3, <1>4, <1>5, <1>6 DEF Ends
<1>8. Ledger'
  BY <1>1, <1>6, <1>7, LedgerWhenEnding
<1>9. QED
  BY <1>1, <1>2, <1>3, <1>4, <1>6, <1>8, InvariantWhenMoving DEF At

\* A statement of a crawl throws, with or without its effect.
LEMMA StatementThrowsStep ==
  ASSUME Inv, NEW c \in Started, StatementThrows(c)
  PROVE  Inv'
<1>1. /\ TypeOK /\ Ledger /\ c \in Crawls /\ row \in RowType /\ crawl \in CrawlType
      /\ crawl[c] \in StartedCrawl /\ Living(c) /\ resets \subseteq Crawls
  BY StartedHasRecord DEF Inv, TypeOK, StatementThrows, Started
<1>2. /\ slots' = slots /\ pipeline' = pipeline /\ gate' = gate /\ next' = next
      /\ resets' = resets /\ crawl' = Return(c, "unrecorded")
      /\ At(c, "crawling") => FeedsSettled(c)
  BY DEF StatementThrows
<1>3. faults' \in 0 .. MaxFaults
  BY Numeric DEF Inv, TypeOK, StatementThrows, Fault
<1> DEFINE new == [crawl[c] EXCEPT !.pc = "done", !.outcome = "unrecorded"]
<1>4. new \in StartedCrawl /\ new.user = crawl[c].user /\ new.pipe = crawl[c].pipe
      /\ new.pc = "done" /\ new.outcome = "unrecorded" /\ crawl' = [crawl EXCEPT ![c] = new]
  BY <1>1, <1>2 DEF StartedCrawl, Places, Return
<1> HIDE DEF new
<1>5. row' \in RowType /\
        \/ RowsOnlyFail
        \/ /\ At(c, "creating") /\ ActiveRun(c) = {} /\ row'[c].status = "running"
           /\ \A d \in Crawls : d # c => row'[d] = row[d]
        \/ /\ At(c, "crawling") /\ row'[c].status = "completed"
           /\ \A d \in Crawls : d # c => row'[d] = row[d]
  <2>1. CASE row' = row
    BY <2>1, <1>1 DEF RowsOnlyFail
  <2>2. CASE row' = Recovered(c)
    <3>1. {d \in Same(c) : Stale(d)} \in SUBSET Crawls
      BY DEF Same, Started
    <3>2. \A d \in {d \in Same(c) : Stale(d)} : row[d].status = "running"
      BY DEF Stale
    <3>3. QED
      BY <2>2, <3>1, <3>2, <1>1, FailingRows DEF Recovered
  <2>3. CASE At(c, "creating") /\ ActiveRun(c) = {} /\ row' = Inserted(c)
    BY <2>3, <1>1 DEF Inserted, RowType, Statuses
  <2>4. ASSUME At(c, "crawling"), NEW fine \in BOOLEAN, row' = Ended(c, fine), row' # row
        PROVE  row' \in RowType /\ (RowsOnlyFail \/
                 (row'[c].status = "completed" /\ \A d \in Crawls : d # c => row'[d] = row[d]))
    <3>1. /\ row[c].status = "running"
          /\ row' = [row EXCEPT ![c].status = IF fine THEN "completed" ELSE "failed"]
      BY <2>4 DEF Ended, Owned
    <3>2. QED
      BY <3>1, <1>1 DEF RowType, Statuses, RowsOnlyFail
  <2>5. QED
    BY <2>1, <2>2, <2>3, <2>4 DEF StatementThrows
<1>6. Moves(c) /\ crawl'[c] = new
  BY <1>1, <1>2, <1>4, <1>5, Moving
<1>7. Ledger'
  BY <1>1, <1>4, <1>5, <1>6, LedgerWhenThrowing DEF Throws
<1>8. QED
  BY <1>1, <1>2, <1>3, <1>4, <1>6, <1>7, InvariantWhenMoving

\* A crawl whose heartbeat gives up.
LEMMA LosingStep ==
  ASSUME Inv, NEW c \in Started, At(c, "crawling"),
         crawl' = [crawl EXCEPT ![c].lost = TRUE], row' = row, slots' = slots,
         pipeline' = pipeline, gate' = gate, next' = next,
         faults' \in 0 .. MaxFaults, resets' = resets
  PROVE  Inv'
<1>1. TypeOK /\ Ledger /\ c \in Crawls /\ row \in RowType /\ crawl \in CrawlType
      /\ crawl[c] \in StartedCrawl /\ Living(c) /\ crawl[c].outcome = "none" /\ resets \subseteq Crawls
  BY StartedHasRecord DEF Inv, TypeOK, Living, At, Started
<1> DEFINE new == [crawl[c] EXCEPT !.lost = TRUE]
<1>2. new \in StartedCrawl /\ new.user = crawl[c].user /\ new.pipe = crawl[c].pipe
      /\ new.pc = crawl[c].pc /\ new.outcome = "none" /\ crawl' = [crawl EXCEPT ![c] = new]
  BY <1>1 DEF StartedCrawl
<1> HIDE DEF new
<1>3. Moves(c) /\ crawl'[c] = new
  BY <1>1, <1>2, Moving
<1>4. \A d \in Crawls : /\ crawl'[d].user = crawl[d].user /\ crawl'[d].pc \in {crawl[d].pc, "gone"}
                        /\ crawl'[d].outcome = crawl[d].outcome
  BY <1>1, <1>2, <1>3 DEF Moves
<1>5. RowsOnlyFail /\ Started' = Started
  BY <1>1, <1>3, NobodyStarts DEF RowsOnlyFail
<1>6. Ledger'
  BY <1>1, <1>4, <1>5, LedgerWhenStaying
<1>7. QED
  BY <1>1, <1>2, <1>3, <1>6, InvariantWhenMoving DEF At

\* Steps that change no crawl and no slot.
LEMMA InvariantWhenResting ==
  ASSUME Inv, crawl' = crawl, slots' = slots, next' = next,
         row' \in RowType, RowsOnlyFail,
         pipeline' \in [Pipelines -> [pc : {"idle", "crawling", "semantic"}, batch : Nat,
                                      mine : SUBSET Crawls]],
         gate' \in [Pipelines -> BOOLEAN], PipelinesKnow',
         faults' \in 0 .. MaxFaults, resets' \subseteq Crawls
  PROVE  Inv'
<1>1. Started' = Started
  BY DEF Started, At
<1>2. Ledger'
  BY <1>1, LedgerWhenStaying DEF Inv
<1>3. TypeOK'
  BY DEF Inv, TypeOK, RowType, slots, At
<1>4. SlotsKept' /\ SlotsAreHeld'
  BY <1>1 DEF Inv, slots, SlotsKept, SlotsAreHeld, HeldOn, At, Host
<1>5. QED
  BY <1>2, <1>3, <1>4 DEF Inv

LEMMA KnowledgeAtRest ==
  ASSUME PipelinesKnow, crawl' = crawl, pipeline' = pipeline, gate' = gate
  PROVE  PipelinesKnow'
BY DEF PipelinesKnow, FailedSibling, Failed, Started, Living, At

LEMMA HeartbeatStep ==
  ASSUME Inv, NEW c \in Started, Heartbeat(c)
  PROVE  Inv'
<1>1. TypeOK /\ c \in Crawls /\ row \in RowType /\ faults \in 0 .. MaxFaults /\ resets \subseteq Crawls
      /\ PipelinesKnow /\ pipeline \in [Pipelines -> [pc : {"idle", "crawling", "semantic"},
                                                      batch : Nat, mine : SUBSET Crawls]]
      /\ gate \in [Pipelines -> BOOLEAN]
  BY StartedHasRecord DEF Inv, Started, TypeOK
<1>2. /\ slots' = slots /\ pipeline' = pipeline /\ gate' = gate
      /\ next' = next /\ faults' = faults /\ resets' = resets
  BY DEF Heartbeat, bounds
<1>3. CASE row' = [row EXCEPT ![c].fresh = TRUE] /\ crawl' = crawl
  <2>1. row' \in RowType /\ RowsOnlyFail
    BY <1>1, <1>3 DEF RowType, RowsOnlyFail
  <2>2. PipelinesKnow'
    BY <1>1, <1>2, <1>3, KnowledgeAtRest
  <2>3. QED
    BY <1>1, <1>2, <1>3, <2>1, <2>2, InvariantWhenResting
<1>4. CASE row' = row /\ crawl' = [crawl EXCEPT ![c].lost = TRUE]
  BY <1>1, <1>2, <1>4, LosingStep DEF Heartbeat
<1>5. QED
  BY <1>3, <1>4 DEF Heartbeat

LEMMA HeartbeatThrowsStep ==
  ASSUME Inv, NEW c \in Started, HeartbeatThrows(c)
  PROVE  Inv'
<1>1. faults' \in 0 .. MaxFaults
  BY Numeric DEF Inv, TypeOK, HeartbeatThrows, Fault
<1>2. QED
  BY <1>1, LosingStep DEF HeartbeatThrows

LEMMA GrowStaleStep ==
  ASSUME Inv, NEW c \in Started, GrowStale(c)
  PROVE  Inv'
<1>1. c \in Crawls /\ row \in RowType /\ resets \subseteq Crawls
      /\ PipelinesKnow /\ pipeline \in [Pipelines -> [pc : {"idle", "crawling", "semantic"},
                                                      batch : Nat, mine : SUBSET Crawls]]
      /\ gate \in [Pipelines -> BOOLEAN]
  BY StartedHasRecord DEF Inv, Started, TypeOK
<1>2. /\ crawl' = crawl /\ slots' = slots /\ pipeline' = pipeline /\ gate' = gate
      /\ next' = next /\ resets' = resets /\ row' = [row EXCEPT ![c].fresh = FALSE]
  BY DEF GrowStale
<1>3. faults' \in 0 .. MaxFaults
  BY Numeric DEF Inv, TypeOK, GrowStale, Fault
<1>4. row' \in RowType /\ RowsOnlyFail
  BY <1>1, <1>2 DEF RowType, RowsOnlyFail
<1>5. PipelinesKnow'
  BY <1>1, <1>2, KnowledgeAtRest
<1>6. QED
  BY <1>1, <1>2, <1>3, <1>4, <1>5, InvariantWhenResting

LEMMA RecoverCrawlRunsStep ==
  ASSUME Inv, NEW all \in BOOLEAN, RecoverCrawlRuns(all)
  PROVE  Inv'
<1> DEFINE chosen == {c \in Crawls : IF all THEN row[c].status = "running" ELSE Stale(c)}
<1>1. resets \subseteq Crawls /\ TypeOK
      /\ PipelinesKnow /\ pipeline \in [Pipelines -> [pc : {"idle", "crawling", "semantic"},
                                                      batch : Nat, mine : SUBSET Crawls]]
      /\ gate \in [Pipelines -> BOOLEAN]
  BY DEF Inv, TypeOK
<1>2. /\ crawl' = crawl /\ slots' = slots /\ pipeline' = pipeline /\ gate' = gate
      /\ next' = next /\ row' = FailedRows(chosen) /\ chosen \in SUBSET Crawls
      /\ resets' = IF all THEN resets \cup chosen ELSE resets
  BY DEF RecoverCrawlRuns
<1>3. \A c \in chosen : row[c].status = "running"
  BY DEF Stale
<1>4. faults' \in 0 .. MaxFaults
  BY Numeric DEF Inv, TypeOK, RecoverCrawlRuns, Fault
<1> HIDE DEF chosen
<1>5. row' \in RowType /\ RowsOnlyFail
  BY <1>1, <1>2, <1>3, FailingRows
<1>6. PipelinesKnow'
  BY <1>1, <1>2, KnowledgeAtRest
<1>7. QED
  BY <1>1, <1>2, <1>4, <1>5, <1>6, InvariantWhenResting

----------------------------------------------------------------------------
(* The actions of a pipeline.                                              *)

PipelineType == [Pipelines -> [pc : {"idle", "crawling", "semantic"}, batch : Nat,
                               mine : SUBSET Crawls]]

LEMMA EndPipelineStep ==
  ASSUME Inv, NEW p \in Pipelines, EndPipeline(p)
  PROVE  Inv'
<1>1. /\ TypeOK /\ PipelinesKnow /\ row \in RowType /\ pipeline \in PipelineType
      /\ gate \in [Pipelines -> BOOLEAN] /\ faults \in 0 .. MaxFaults /\ resets \subseteq Crawls
  BY StartedHasRecord DEF Inv, TypeOK, PipelineType
<1>2. /\ crawl' = crawl /\ slots' = slots /\ row' = row
      /\ next' = next /\ faults' = faults /\ resets' = resets
      /\ pipeline' = [pipeline EXCEPT ![p] = Idle] /\ gate' = [gate EXCEPT ![p] = FALSE]
  BY DEF EndPipeline, bounds
<1>3. pipeline' \in PipelineType /\ gate' \in [Pipelines -> BOOLEAN]
  BY <1>1, <1>2 DEF PipelineType, Idle
<1>4. \A q \in Pipelines : FailedSibling(q)' <=> FailedSibling(q)
  BY <1>2 DEF FailedSibling, Failed, Started, At
<1>5. ASSUME NEW c \in Started, Living(c), crawl[c].pipe = p PROVE FailedSibling(p)
  <2>1. CASE pipeline[p].pc = "semantic"
    BY <2>1, <1>1, <1>5 DEF PipelinesKnow
  <2>2. CASE BatchFailed(p)
    BY <2>2, <1>1 DEF PipelinesKnow, BatchFailed, FailedSibling, Failed
  <2>3. QED
    BY <2>1, <2>2 DEF EndPipeline
<1>6. PipelinesKnow'
  <2>1. SUFFICES ASSUME NEW q \in Pipelines
                 PROVE  /\ \A c \in pipeline'[q].mine : c \in Started /\ crawl[c].pipe = q
                        /\ \A c \in Started : Living(c) /\ crawl[c].pipe = q =>
                             \/ pipeline'[q].pc = "crawling" /\ c \in pipeline'[q].mine
                             \/ FailedSibling(q)
                        /\ pipeline'[q].pc = "crawling" =>
                             gate'[q] /\ pipeline'[q].batch \in 1 .. Len(Batches[q])
    BY <1>2, <1>4 DEF PipelinesKnow, Started, Living, At
  <2>2. CASE q = p
    BY <2>2, <1>1, <1>2, <1>5 DEF Idle, PipelineType
  <2>3. CASE q # p
    BY <2>3, <1>1, <1>2 DEF PipelinesKnow, PipelineType
  <2>4. QED
    BY <2>2, <2>3
<1>7. RowsOnlyFail
  BY <1>2 DEF RowsOnlyFail
<1>8. QED
  BY <1>1, <1>2, <1>3, <1>6, <1>7, InvariantWhenResting DEF PipelineType

\* A batch starts when every crawl of the pipeline has ended, or one has failed.
LEMMA BatchStep ==
  ASSUME Inv, NEW p \in Pipelines, NEW n \in 1 .. Len(Batches[p]), StartBatch(p, n),
         \A c \in Started : Living(c) /\ crawl[c].pipe = p => FailedSibling(p),
         row' = row, slots' = slots, faults' = faults, resets' = resets,
         gate' \in [Pipelines -> BOOLEAN], gate'[p],
         \A q \in Pipelines : q # p => gate'[q] = gate[q]
  PROVE  Inv'
<1> DEFINE users == Batches[p][n]
           fresh == next .. next' - 1
<1>1. /\ TypeOK /\ Ledger /\ PipelinesKnow /\ SlotsKept /\ SlotsAreHeld
      /\ row \in RowType /\ pipeline \in PipelineType /\ crawl \in CrawlType
      /\ faults \in 0 .. MaxFaults /\ resets \subseteq Crawls /\ next \in 1 .. MaxCrawls + 1
  BY StartedHasRecord DEF Inv, TypeOK, PipelineType
<1>2. users \in Seq(Users) /\ Len(users) \in Nat
  <2>1. Batches[p] \in Seq(Seq(Users))
    BY CrawlAssumption
  <2>2. users \in Seq(Users)
    BY <2>1
  <2>3. QED
    BY <2>2, LenProperties
<1>3. /\ next' = next + Len(users) /\ next' <= MaxCrawls + 1
      /\ crawl' = [c \in Crawls |->
           IF c \in fresh
           THEN [pc |-> "looking", outcome |-> "none", user |-> users[c - next + 1], pipe |-> p,
                 lost |-> FALSE, claims |-> 0, over |-> FALSE, failing |-> FALSE]
           ELSE crawl[c]]
      /\ pipeline' = [pipeline EXCEPT ![p] = [pc |-> "crawling", batch |-> n, mine |-> fresh]]
  BY DEF StartBatch
<1>4. next' \in 1 .. MaxCrawls + 1 /\ fresh \in SUBSET Crawls
  <2> HIDE DEF users
  <2>1. /\ next \in Nat /\ 1 <= next /\ Len(users) \in Nat /\ MaxCrawls \in Nat
        /\ next' = next + Len(users) /\ next' <= MaxCrawls + 1
    BY <1>1, <1>2, <1>3, Numeric
  <2>2. next' \in 1 .. MaxCrawls + 1
    BY <2>1
  <2>3. \A c \in next .. next' - 1 : c \in 1 .. MaxCrawls
    BY <2>1
  <2>4. QED
    BY <2>2, <2>3 DEF Crawls
<1>5. \A c \in fresh : users[c - next + 1] \in Users
  <2>1. TAKE c \in fresh
  <2>2. c - next + 1 \in 1 .. Len(users)
    BY <1>1, <1>2, <1>3
  <2>3. QED
    BY <1>2, <2>2
<1>6. \A c \in Crawls : c < next <=> c \in Started
  BY <1>1 DEF TypeOK, Started
<1>7. fresh \cap Started = {}
  <2>1. ASSUME NEW c \in fresh PROVE c \in Crawls /\ ~(c < next)
    <3>1. next \in Nat
      BY <1>1
    <3>2. next' \in Nat
      BY <1>4
    <3>3. c \in Crawls
      BY <1>4
    <3>4. QED
      BY <3>1, <3>2, <3>3
  <2>2. QED
    BY <2>1, <1>6
<1>8. \A c \in fresh : /\ crawl'[c] \in StartedCrawl /\ crawl'[c].pc = "looking"
                       /\ crawl'[c].outcome = "none" /\ crawl'[c].pipe = p
  BY <1>3, <1>4, <1>5, Numeric DEF StartedCrawl, Places
<1>9. \A c \in Crawls \ fresh : crawl'[c] = crawl[c]
  BY <1>3
<1>10. Started' = Started \cup fresh
  BY <1>4, <1>8, <1>9 DEF Started, At
<1>11. \A c \in Crawls : c < next' <=> c \in Started'
  <2>1. \A c \in Crawls : c \in Nat
    BY Numeric
  <2>2. \A c \in Crawls : c < next' <=> c < next \/ c \in fresh
    BY <2>1, <1>1, <1>2, <1>3
  <2>3. QED
    BY <2>2, <1>6, <1>10
<1>12. pipeline' \in PipelineType
  <2>1. n \in Nat
    BY <1>1
  <2>2. [pc |-> "crawling", batch |-> n, mine |-> fresh]
          \in [pc : {"idle", "crawling", "semantic"}, batch : Nat, mine : SUBSET Crawls]
    BY <2>1, <1>4
  <2>3. QED
    BY <1>1, <1>3, <2>2 DEF PipelineType
<1>13. /\ pipeline'[p].pc = "crawling" /\ pipeline'[p].batch = n /\ pipeline'[p].mine = fresh
       /\ \A q \in Pipelines : q # p => pipeline'[q] = pipeline[q]
  BY <1>1, <1>3 DEF PipelineType
<1> HIDE DEF users, fresh
<1>14. Ledger'
  BY <1>1, <1>4, <1>7, <1>8, <1>9, <1>10, LedgerWhenStarting
<1>15. crawl' \in CrawlType
  <2>1. \A c \in Crawls : crawl'[c] \in StartedCrawl \cup {NoCrawl}
    BY <1>1, <1>8, <1>9 DEF CrawlType
  <2>2. QED
    BY <1>3, <2>1 DEF CrawlType
<1>16. TypeOK'
  <2>1. \A c \in Crawls : (crawl'[c].outcome # "none") = At(c, "done")'
    BY <1>1, <1>8, <1>9 DEF TypeOK, At
  <2>2. \A c \in Crawls : c < next' <=> ~At(c, "unused")'
    BY <1>11 DEF Started
  <2>3. QED
    BY <2>1, <2>2, <1>1, <1>4, <1>12, <1>15 DEF TypeOK, slots, RowType, CrawlType, PipelineType
<1>17. SlotsKept' /\ SlotsAreHeld'
  <2>1. \A c \in Crawls : At(c, "crawling") => At(c, "crawling")' /\ Host(c)' = Host(c)
    BY <1>7, <1>9 DEF At, Host, Started
  <2>2. SlotsKept'
    <3>1. \A h \in Hosts : waiters[h] \in Seq(Crawls)
      BY <1>1 DEF TypeOK
    <3>2. \A h \in Hosts : \A i \in 1 .. Len(waiters[h]) : waiters[h][i] \in Crawls
      BY <3>1
    <3>3. QED
      BY <2>1, <3>2, <1>1 DEF SlotsKept, slots
  <2>3. ASSUME NEW h \in Hosts PROVE HeldOn(h)' = HeldOn(h)
    <3>1. \A c \in fresh : holding[c] = 0
      <4>1. TAKE c \in fresh
      <4>2. c \in Crawls /\ ~At(c, "crawling")
        BY <1>4, <1>7 DEF Started, At
      <4>3. holding[c] \in Nat /\ ~(holding[c] > 0)
        BY <4>2, <1>1 DEF TypeOK, SlotsKept
      <4>4. QED
        BY <4>3
    <3>2. \A c \in Started : Host(c)' = Host(c)
      BY <1>7, <1>9 DEF Host, Started
    <3>3. ASSUME NEW x PROVE x \in HeldOn(h)' <=> x \in HeldOn(h)
      <4>1. x \in HeldOn(h)' <=> \E c \in Started' : Host(c)' = h /\ x \in {c} \X (1 .. holding[c])
        BY DEF HeldOn, slots
      <4>2. x \in HeldOn(h) <=> \E c \in Started : Host(c) = h /\ x \in {c} \X (1 .. holding[c])
        BY DEF HeldOn
      <4>3. \A c \in fresh : ~(x \in {c} \X (1 .. holding[c]))
        BY <3>1
      <4>4. QED
        BY <4>1, <4>2, <4>3, <3>2, <1>10
    <3>4. QED
      BY <3>3
  <2>4. QED
    BY <2>2, <2>3, <1>1 DEF SlotsAreHeld, slots
<1>18. PipelinesKnow'
  <2>1. \A q \in Pipelines : FailedSibling(q) => FailedSibling(q)'
    BY <1>7, <1>9, <1>10 DEF FailedSibling, Failed, Started
  <2>2. \A c \in Started : crawl'[c] = crawl[c] /\ (Living(c)' <=> Living(c))
    BY <1>7, <1>9 DEF Started, Living
  <2>3. SUFFICES ASSUME NEW q \in Pipelines
                 PROVE  /\ \A c \in pipeline'[q].mine : c \in Started' /\ crawl'[c].pipe = q
                        /\ \A c \in Started' : Living(c)' /\ crawl'[c].pipe = q =>
                             \/ pipeline'[q].pc = "crawling" /\ c \in pipeline'[q].mine
                             \/ FailedSibling(q)'
                        /\ pipeline'[q].pc = "crawling" =>
                             gate'[q] /\ pipeline'[q].batch \in 1 .. Len(Batches[q])
    BY Zenon DEF PipelinesKnow
  <2>4. CASE q = p
    BY <2>1, <2>2, <2>4, <1>8, <1>10, <1>13
  <2>5. CASE q # p
    BY <2>1, <2>2, <2>5, <1>1, <1>8, <1>10, <1>13 DEF PipelinesKnow
  <2>6. QED
    BY <2>4, <2>5
<1>19. QED
  BY <1>14, <1>16, <1>17, <1>18 DEF Inv

LEMMA StartStep ==
  ASSUME Inv, NEW p \in Pipelines, Start(p)
  PROVE  Inv'
<1>1. 1 \in 1 .. Len(Batches[p])
  BY CrawlAssumption, LenProperties
<1>2. \A c \in Started : Living(c) /\ crawl[c].pipe = p => FailedSibling(p)
  BY DEF Start, Inv, PipelinesKnow
<1>3. gate' \in [Pipelines -> BOOLEAN] /\ gate'[p] /\ \A q \in Pipelines : q # p => gate'[q] = gate[q]
  BY DEF Start, Inv, TypeOK
<1>4. StartBatch(p, 1) /\ row' = row /\ slots' = slots /\ faults' = faults /\ resets' = resets
  BY DEF Start
<1>5. QED
  BY <1>1, <1>2, <1>3, <1>4, BatchStep

LEMMA NextBatchStep ==
  ASSUME Inv, NEW p \in Pipelines, NextBatch(p)
  PROVE  Inv'
<1>1. /\ TypeOK /\ PipelinesKnow /\ row \in RowType /\ pipeline \in PipelineType
      /\ gate \in [Pipelines -> BOOLEAN] /\ faults \in 0 .. MaxFaults /\ resets \subseteq Crawls
  BY StartedHasRecord DEF Inv, TypeOK, PipelineType
<1>2. /\ row' = row /\ slots' = slots /\ gate' = gate /\ faults' = faults /\ resets' = resets
      /\ pipeline[p].pc = "crawling" /\ BatchSettled(p)
  BY DEF NextBatch
<1>3. gate[p] /\ pipeline[p].batch \in 1 .. Len(Batches[p])
  BY <1>1, <1>2 DEF PipelinesKnow
<1>4. \A c \in Started : Living(c) /\ crawl[c].pipe = p => FailedSibling(p)
  BY <1>1, <1>2 DEF PipelinesKnow, BatchSettled, Living, At
<1>5. CASE pipeline[p].batch < Len(Batches[p])
  <2>1. Len(Batches[p]) \in Nat
    BY CrawlAssumption, LenProperties
  <2>2. pipeline[p].batch + 1 \in 1 .. Len(Batches[p])
    BY <1>3, <1>5, <2>1
  <2>3. StartBatch(p, pipeline[p].batch + 1)
    BY <1>5 DEF NextBatch
  <2>4. QED
    BY <1>1, <1>2, <1>3, <1>4, <2>2, <2>3, BatchStep
<1>6. CASE ~(pipeline[p].batch < Len(Batches[p]))
  <2>1. crawl' = crawl /\ next' = next /\ pipeline' = [pipeline EXCEPT ![p].pc = "semantic"]
    BY <1>6 DEF NextBatch
  <2>2. /\ pipeline' \in PipelineType /\ pipeline'[p].pc = "semantic"
        /\ pipeline'[p].mine = pipeline[p].mine
        /\ \A q \in Pipelines : q # p => pipeline'[q] = pipeline[q]
    BY <1>1, <2>1 DEF PipelineType
  <2>3. \A q \in Pipelines : FailedSibling(q)' <=> FailedSibling(q)
    BY <2>1 DEF FailedSibling, Failed, Started, At
  <2>4. PipelinesKnow'
    <3>1. SUFFICES ASSUME NEW q \in Pipelines
                   PROVE  /\ \A c \in pipeline'[q].mine : c \in Started /\ crawl[c].pipe = q
                          /\ \A c \in Started : Living(c) /\ crawl[c].pipe = q =>
                               \/ pipeline'[q].pc = "crawling" /\ c \in pipeline'[q].mine
                               \/ FailedSibling(q)
                          /\ pipeline'[q].pc = "crawling" =>
                               gate[q] /\ pipeline'[q].batch \in 1 .. Len(Batches[q])
      BY <1>2, <2>1, <2>3 DEF PipelinesKnow, Started, Living, At
    <3>2. CASE q = p
      BY <3>2, <1>1, <1>4, <2>2 DEF PipelinesKnow
    <3>3. CASE q # p
      BY <3>3, <1>1, <2>2 DEF PipelinesKnow
    <3>4. QED
      BY <3>2, <3>3
  <2>5. RowsOnlyFail
    BY <1>2 DEF RowsOnlyFail
  <2>6. QED
    BY <1>1, <1>2, <2>1, <2>2, <2>4, <2>5, InvariantWhenResting DEF PipelineType
<1>7. QED
  BY <1>5, <1>6

----------------------------------------------------------------------------
(* The actions of a crawl that hand out slots.                             *)

\* What is left to show for such an action.
LEMMA InvariantWhenDraining ==
  ASSUME Inv, NEW c \in Started, Moves(c), Living(c), Ledger',
         crawl'[c].pc = "crawling", crawl'[c].outcome = "none",
         NEW ws \in Seq(Crawls), NEW busy \in 0 .. SlotLimit, NEW kept \in [Crawls -> Nat],
         Drain(Host(c), ws, busy, kept),
         \A i \in 1 .. Len(ws) :
           ws[i] = c \/ \E j \in 1 .. Len(waiters[Host(c)]) : ws[i] = waiters[Host(c)][j],
         \A d \in Crawls : d # c => kept[d] = holding[d],
         busy = Cardinality(SlotsOf(On(Host(c)), kept)),
         faults' = faults, resets' = resets
  PROVE  Inv'
<1> DEFINE h == Host(c)
<1>1. /\ TypeOK /\ PipelinesKnow /\ SlotsKept /\ SlotsAreHeld /\ SlotTypes
      /\ crawl[c] \in StartedCrawl /\ c \in Crawls /\ c \in On(h)
      /\ ~Failed(c)
  BY StartedHasRecord DEF Inv, TypeOK, SlotTypes, Started, On, Living, At, Failed
<1>2. h \in Hosts
  BY <1>1, Numeric DEF Host, StartedCrawl
<1>3. /\ Started' = Started
      /\ \A d \in Crawls : crawl'[d].pipe = crawl[d].pipe
      /\ \A d \in Crawls : d # c => crawl'[d] = crawl[d]
  BY <1>1, NobodyStarts DEF Moves
<1>4. \A g \in Hosts : On(g)' = On(g)
  BY <1>3 DEF On, Host, Started
<1>5. \A d \in Crawls : At(d, "crawling") => crawl'[d].pc = "crawling" /\ HostOf[crawl'[d].pipe] = Host(d)
  BY <1>3 DEF At, Host
<1>6. ASSUME NEW i \in 1 .. Len(ws)
      PROVE  ws[i] \in On(h) /\ crawl'[ws[i]].pc = "crawling" /\ HostOf[crawl'[ws[i]].pipe] = h
  <2>1. CASE ws[i] = c
    BY <2>1, <1>1, <1>3 DEF On, Host
  <2>2. CASE \E j \in 1 .. Len(waiters[h]) : ws[i] = waiters[h][j]
    <3>1. PICK j \in 1 .. Len(waiters[h]) : ws[i] = waiters[h][j]
      BY <2>2
    <3>2. waiters[h] \in Seq(Crawls)
      BY <1>1, <1>2 DEF SlotTypes
    <3>3. ws[i] \in Crawls /\ At(ws[i], "crawling") /\ Host(ws[i]) = h
      BY <3>1, <3>2, <1>1, <1>2 DEF SlotsKept
    <3>4. QED
      BY <3>3, <1>5 DEF On, Started, At
  <2>3. QED
    BY <2>1, <2>2
<1>7. \A d \in Crawls : kept[d] > 0 => crawl'[d].pc = "crawling"
  BY <1>1, <1>3 DEF SlotsKept, At
<1>8. \A d \in Crawls : d \notin On(h) => kept[d] = holding[d]
  BY <1>1
<1>9. SlotTypes' /\ SlotsKept' /\ SlotsAreHeld'
  BY <1>1, <1>2, <1>4, <1>5, <1>6, <1>7, <1>8, SlotStep
<1>10. faults' \in 0 .. MaxFaults /\ resets' \subseteq Crawls
  BY <1>1 DEF TypeOK
<1>11. TypeOK'
  BY <1>1, <1>9, <1>10, TypesWhenMoving
<1>12. PipelinesKnow'
  BY <1>1, KnowledgeIsKept
<1>13. QED
  BY <1>9, <1>11, <1>12 DEF Inv

LEMMA CreateStep ==
  ASSUME Inv, NEW c \in Started, Create(c)
  PROVE  Inv'
<1> DEFINE h == Host(c)
           mine == [i \in 1 .. Workers[h] |-> c]
           ws == waiters[h] \o mine
<1>1. /\ TypeOK /\ Ledger /\ PipelinesKnow /\ SlotsAreHeld /\ c \in Crawls
      /\ row \in RowType /\ crawl \in CrawlType /\ crawl[c] \in StartedCrawl
      /\ At(c, "creating") /\ Living(c) /\ crawl[c].outcome = "none"
  BY StartedHasRecord DEF Inv, Create, Living, At, Started
<1>2. /\ pipeline' = pipeline /\ gate' = gate
      /\ next' = next /\ faults' = faults /\ resets' = resets
      /\ faults' \in 0 .. MaxFaults /\ resets' \subseteq Crawls
  BY <1>1 DEF Create, bounds, TypeOK
<1>3. CASE ActiveRun(c) # {}
  <2> DEFINE new == [crawl[c] EXCEPT !.pc = "conflict"]
  <2>1. crawl' = [crawl EXCEPT ![c].pc = "conflict"] /\ row' = row /\ slots' = slots
    BY <1>3 DEF Create
  <2>2. new \in StartedCrawl /\ new.user = crawl[c].user /\ new.pipe = crawl[c].pipe
        /\ new.pc = "conflict" /\ new.outcome = "none" /\ crawl' = [crawl EXCEPT ![c] = new]
    BY <1>1, <2>1 DEF StartedCrawl, Places
  <2> HIDE DEF new
  <2>3. Moves(c) /\ crawl'[c] = new
    BY <1>1, <1>2, <2>1, <2>2, Moving
  <2>4. Approaches(c)
    BY <1>1, <1>3, <2>1, <2>2, <2>3 DEF Approaches, At, RowsOnlyFail
  <2>5. Ledger'
    BY <1>1, <2>3, <2>4, LedgerWhenApproaching
  <2>6. QED
    BY <1>1, <1>2, <2>1, <2>2, <2>3, <2>5, InvariantWhenMoving DEF At
<1>4. CASE ActiveRun(c) = {}
  <2> DEFINE new == [crawl[c] EXCEPT !.pc = "crawling"]
  <2>1. /\ crawl' = [crawl EXCEPT ![c].pc = "crawling"]
        /\ row' = [row EXCEPT ![c] = [status |-> "running", fresh |-> TRUE]]
        /\ Drain(h, ws, active[h], holding)
    BY <1>4 DEF Create, Inserted
  <2>2. new \in StartedCrawl /\ new.user = crawl[c].user /\ new.pipe = crawl[c].pipe
        /\ new.pc = "crawling" /\ new.outcome = "none" /\ crawl' = [crawl EXCEPT ![c] = new]
    BY <1>1, <2>1 DEF StartedCrawl, Places
  <2>3. /\ row' \in RowType /\ row'[c].status = "running"
        /\ \A d \in Crawls : d # c => row'[d] = row[d]
    BY <1>1, <2>1 DEF RowType, Statuses
  <2> HIDE DEF new
  <2>4. Moves(c) /\ crawl'[c] = new
    BY <1>1, <1>2, <2>2, <2>3, Moving
  <2>5. Begins(c)
    BY <1>1, <1>4, <2>2, <2>3, <2>4 DEF Begins
  <2>6. Ledger'
    BY <1>1, <2>4, <2>5, LedgerWhenBeginning
  <2>7. h \in Hosts /\ Workers[h] \in Nat /\ waiters[h] \in Seq(Crawls) /\ Len(waiters[h]) \in Nat
    <3>1. h \in Hosts
      BY <1>1, Numeric DEF Host, StartedCrawl
    <3>2. waiters[h] \in Seq(Crawls)
      BY <1>1, <3>1 DEF TypeOK
    <3>3. QED
      BY <3>1, <3>2, Numeric, LenProperties
  <2> HIDE DEF h
  <2>8. mine \in Seq(Crawls) /\ Len(mine) = Workers[h] /\ \A i \in 1 .. Workers[h] : mine[i] = c
    BY <1>1, <2>7
  <2> HIDE DEF mine
  <2>9. /\ ws \in Seq(Crawls) /\ Len(ws) = Len(waiters[h]) + Workers[h]
        /\ \A i \in 1 .. Len(waiters[h]) + Workers[h] :
             ws[i] = IF i <= Len(waiters[h]) THEN waiters[h][i] ELSE mine[i - Len(waiters[h])]
    <3>1. /\ ws \in Seq(Crawls) /\ Len(ws) = Len(waiters[h]) + Len(mine)
          /\ \A i \in 1 .. Len(waiters[h]) + Len(mine) :
               ws[i] = IF i <= Len(waiters[h]) THEN waiters[h][i] ELSE mine[i - Len(waiters[h])]
      BY <2>7, <2>8, ConcatProperties, Zenon
    <3>2. QED
      BY <2>8, <3>1, Zenon
  <2> HIDE DEF ws
  <2>10. ASSUME NEW i \in 1 .. Len(ws)
         PROVE  ws[i] = c \/ \E j \in 1 .. Len(waiters[h]) : ws[i] = waiters[h][j]
    <3>1. CASE i <= Len(waiters[h])
      BY <3>1, <2>7, <2>9
    <3>2. CASE ~(i <= Len(waiters[h]))
      <4>1. i - Len(waiters[h]) \in 1 .. Workers[h] /\ ws[i] = mine[i - Len(waiters[h])]
        BY <3>2, <2>7, <2>9
      <4>2. QED
        BY <4>1, <2>8
    <3>3. QED
      BY <3>1, <3>2
  <2>11. active[h] \in 0 .. SlotLimit /\ holding \in [Crawls -> Nat]
    BY <1>1, <2>7 DEF TypeOK
  <2>12. active[h] = Cardinality(SlotsOf(On(h), holding))
    BY <1>1, <2>7 DEF SlotsAreHeld, HeldOn, SlotsOf, On
  <2>13. QED
    BY <1>1, <1>2, <2>1, <2>2, <2>4, <2>6, <2>9, <2>10, <2>11, <2>12, InvariantWhenDraining DEF h
<1>5. QED
  BY <1>3, <1>4

\* A worker of c that gives its slot back, and may ask for another one.
LEMMA ReleaseStep ==
  ASSUME Inv, NEW c \in Started, Holds(c), NEW new \in StartedCrawl,
         new.user = crawl[c].user, new.pipe = crawl[c].pipe,
         new.pc = "crawling", new.outcome = crawl[c].outcome,
         crawl' = [crawl EXCEPT ![c] = new],
         NEW ws, ws = Append(waiters[Host(c)], c) \/ ws = waiters[Host(c)],
         Drain(Host(c), ws, active[Host(c)] - 1, [holding EXCEPT ![c] = @ - 1]),
         row' = row, pipeline' = pipeline, gate' = gate, next' = next,
         faults' = faults, resets' = resets
  PROVE  Inv'
<1> DEFINE h == Host(c)
           kept == [holding EXCEPT ![c] = holding[c] - 1]
<1>1. /\ TypeOK /\ Ledger /\ PipelinesKnow /\ SlotsAreHeld /\ c \in Crawls
      /\ row \in RowType /\ crawl \in CrawlType /\ crawl[c] \in StartedCrawl
      /\ At(c, "crawling") /\ Living(c) /\ crawl[c].outcome = "none"
      /\ c \in On(h) /\ On(h) \in SUBSET Crawls
      /\ holding \in [Crawls -> Nat] /\ holding[c] > 0
  BY StartedHasRecord DEF Inv, Holds, Living, At, Started, On, TypeOK
<1>2. Moves(c) /\ crawl'[c] = new
  BY <1>1, Moving
<1>3. h \in Hosts /\ waiters[h] \in Seq(Crawls) /\ active[h] \in 0 .. SlotLimit
  <2>1. h \in Hosts
    BY <1>1, Numeric DEF Host, StartedCrawl
  <2>2. QED
    BY <1>1, <2>1 DEF TypeOK
<1>4. Ledger'
  <2>1. \A d \in Crawls : /\ crawl'[d].user = crawl[d].user /\ crawl'[d].pc \in {crawl[d].pc, "gone"}
                          /\ crawl'[d].outcome = crawl[d].outcome
    BY <1>1, <1>2 DEF Moves, At
  <2>2. RowsOnlyFail /\ Started' = Started
    BY <1>1, <1>2, NobodyStarts DEF RowsOnlyFail
  <2>3. QED
    BY <1>1, <2>1, <2>2, LedgerWhenStaying
<1>5. Drain(h, ws, active[h] - 1, kept)
  OBVIOUS
<1>6. active[h] = Cardinality(SlotsOf(On(h), holding))
  BY <1>1, <1>3 DEF SlotsAreHeld, HeldOn, SlotsOf, On
<1>7. kept \in [Crawls -> Nat] /\ Cardinality(SlotsOf(On(h), kept)) = active[h] - 1
  <2> HIDE DEF h
  <2>1. kept \in [Crawls -> Nat]
        /\ Cardinality(SlotsOf(On(h), kept)) = Cardinality(SlotsOf(On(h), holding)) - 1
    BY <1>1, OneSlotLess, Zenon
  <2>2. QED
    BY <2>1, <1>6
<1>8. Cardinality(SlotsOf(On(h), kept)) \in Nat
  BY <1>1, <1>7, SlotsAreFinite
<1>9. active[h] - 1 \in 0 .. SlotLimit
  BY <1>3, <1>7, <1>8, Numeric
<1>10. \A d \in Crawls : d # c => kept[d] = holding[d]
  BY <1>1
<1> HIDE DEF h, kept
<1>11. ws \in Seq(Crawls) /\ \A i \in 1 .. Len(ws) :
                               ws[i] = c \/ \E j \in 1 .. Len(waiters[h]) : ws[i] = waiters[h][j]
  <2>1. CASE ws = waiters[h]
    BY <2>1, <1>3
  <2>2. CASE ws = Append(waiters[h], c)
    <3>1. /\ ws \in Seq(Crawls) /\ Len(ws) = Len(waiters[h]) + 1 /\ Len(waiters[h]) \in Nat
          /\ \A i \in 1 .. Len(waiters[h]) : ws[i] = waiters[h][i]
          /\ ws[Len(waiters[h]) + 1] = c
      BY <2>2, <1>1, <1>3, AppendProperties, LenProperties
    <3>2. ASSUME NEW i \in 1 .. Len(ws)
          PROVE  ws[i] = c \/ \E j \in 1 .. Len(waiters[h]) : ws[i] = waiters[h][j]
      <4>1. i = Len(waiters[h]) + 1 \/ i \in 1 .. Len(waiters[h])
        BY <3>1
      <4>2. QED
        BY <3>1, <4>1
    <3>3. QED
      BY <3>1, <3>2
  <2>3. QED
    BY <2>1, <2>2 DEF h
<1>12. QED
  BY <1>1, <1>2, <1>4, <1>5, <1>7, <1>9, <1>10, <1>11, InvariantWhenDraining DEF h

LEMMA FeedDoneStep ==
  ASSUME Inv, NEW c \in Started, FeedDone(c)
  PROVE  Inv'
<1>1. c \in Crawls /\ crawl \in CrawlType /\ crawl[c] \in StartedCrawl /\ Holds(c)
      /\ crawl[c].claims < MaxFeeds
  BY StartedHasRecord DEF Inv, Started, FeedDone
<1> DEFINE new == [crawl[c] EXCEPT !.claims = crawl[c].claims + 1]
           ws == IF Continues(c) THEN Append(waiters[Host(c)], c) ELSE waiters[Host(c)]
<1>2. /\ new \in StartedCrawl /\ new.user = crawl[c].user /\ new.pipe = crawl[c].pipe
      /\ new.pc = "crawling" /\ new.outcome = crawl[c].outcome /\ crawl' = [crawl EXCEPT ![c] = new]
  BY <1>1, Numeric DEF StartedCrawl, FeedDone, Holds, At
<1>3. /\ Drain(Host(c), ws, active[Host(c)] - 1, [holding EXCEPT ![c] = @ - 1])
      /\ row' = row /\ pipeline' = pipeline /\ gate' = gate /\ next' = next
      /\ faults' = faults /\ resets' = resets
  BY DEF FeedDone, Release, bounds
<1>4. ws = Append(waiters[Host(c)], c) \/ ws = waiters[Host(c)]
  OBVIOUS
<1> HIDE DEF new, ws
<1>5. QED
  BY <1>1, <1>2, <1>3, <1>4, ReleaseStep

LEMMA NoMoreFeedsStep ==
  ASSUME Inv, NEW c \in Started, NoMoreFeeds(c)
  PROVE  Inv'
<1>1. c \in Crawls /\ crawl \in CrawlType /\ crawl[c] \in StartedCrawl /\ Holds(c)
  BY StartedHasRecord DEF Inv, Started, NoMoreFeeds
<1> DEFINE new == [crawl[c] EXCEPT !.over = TRUE]
           ws == IF FALSE THEN Append(waiters[Host(c)], c) ELSE waiters[Host(c)]
<1>2. /\ new \in StartedCrawl /\ new.user = crawl[c].user /\ new.pipe = crawl[c].pipe
      /\ new.pc = "crawling" /\ new.outcome = crawl[c].outcome /\ crawl' = [crawl EXCEPT ![c] = new]
  BY <1>1 DEF StartedCrawl, NoMoreFeeds, Holds, At
<1>3. /\ Drain(Host(c), ws, active[Host(c)] - 1, [holding EXCEPT ![c] = @ - 1])
      /\ row' = row /\ pipeline' = pipeline /\ gate' = gate /\ next' = next
      /\ faults' = faults /\ resets' = resets
  BY DEF NoMoreFeeds, Release, bounds
<1>4. ws = waiters[Host(c)]
  OBVIOUS
<1> HIDE DEF new, ws
<1>5. QED
  BY <1>1, <1>2, <1>3, <1>4, ReleaseStep

LEMMA ClaimFailsStep ==
  ASSUME Inv, NEW c \in Started, ClaimFails(c)
  PROVE  Inv'
<1>1. c \in Crawls /\ crawl \in CrawlType /\ crawl[c] \in StartedCrawl /\ Holds(c)
      /\ crawl[c].claims < MaxFeeds
  BY StartedHasRecord DEF Inv, Started, ClaimFails
<1> DEFINE over == Workers[Host(c)] = 1
           new == [crawl[c] EXCEPT !.claims = crawl[c].claims + 1, !.failing = TRUE, !.over = over]
           ws == IF Continues(c) THEN Append(waiters[Host(c)], c) ELSE waiters[Host(c)]
<1>2. over \in BOOLEAN
  OBVIOUS
<1>3. crawl' = [crawl EXCEPT ![c].claims = @ + 1, ![c].failing = TRUE, ![c].over = over]
  BY DEF ClaimFails
<1> HIDE DEF over
<1>4. /\ new \in StartedCrawl /\ new.user = crawl[c].user /\ new.pipe = crawl[c].pipe
      /\ new.pc = "crawling" /\ new.outcome = crawl[c].outcome /\ crawl' = [crawl EXCEPT ![c] = new]
  <2>1. crawl[c].claims + 1 \in 0 .. MaxFeeds
    BY <1>1, Numeric DEF StartedCrawl
  <2>2. new \in StartedCrawl
    BY <1>1, <1>2, <2>1, Zenon DEF StartedCrawl
  <2>3. /\ new.user = crawl[c].user /\ new.pipe = crawl[c].pipe /\ new.pc = crawl[c].pc
        /\ new.outcome = crawl[c].outcome /\ crawl[c].pc = "crawling"
    BY <1>1 DEF StartedCrawl, Holds, At
  <2>4. crawl' = [crawl EXCEPT ![c] = new]
    BY <1>1, <1>3 DEF CrawlType
  <2>5. QED
    BY <2>2, <2>3, <2>4
<1>5. /\ Drain(Host(c), ws, active[Host(c)] - 1, [holding EXCEPT ![c] = @ - 1])
      /\ row' = row /\ pipeline' = pipeline /\ gate' = gate /\ next' = next
      /\ faults' = faults /\ resets' = resets
  BY DEF ClaimFails, ReleaseFailed, Release, bounds
<1>6. ws = Append(waiters[Host(c)], c) \/ ws = waiters[Host(c)]
  OBVIOUS
<1> HIDE DEF new, ws
<1>7. QED
  BY <1>1, <1>4, <1>5, <1>6, ReleaseStep

----------------------------------------------------------------------------
(* A process dies.                                                         *)

LEMMA CrashStep ==
  ASSUME Inv, NEW h \in Hosts, Crash(h)
  PROVE  Inv'
<1> DEFINE hit(c) == Living(c) /\ Host(c) = h
<1>1. /\ TypeOK /\ Ledger /\ PipelinesKnow /\ SlotsKept /\ SlotsAreHeld
      /\ row \in RowType /\ crawl \in CrawlType /\ pipeline \in PipelineType
      /\ gate \in [Pipelines -> BOOLEAN] /\ resets \subseteq Crawls
      /\ holding \in [Crawls -> Nat] /\ active \in [Hosts -> 0 .. SlotLimit]
      /\ waiters \in [Hosts -> Seq(Crawls)]
      /\ \A c \in Started : crawl[c] \in StartedCrawl
  BY StartedHasRecord DEF Inv, TypeOK, PipelineType
<1>2. /\ row' = row /\ gate' = gate /\ next' = next /\ resets' = resets
      /\ crawl' = [c \in Crawls |-> IF hit(c) THEN [crawl[c] EXCEPT !.pc = "gone"] ELSE crawl[c]]
      /\ holding' = [c \in Crawls |-> IF hit(c) THEN 0 ELSE holding[c]]
      /\ active' = [active EXCEPT ![h] = 0] /\ waiters' = [waiters EXCEPT ![h] = <<>>]
      /\ pipeline' = [p \in Pipelines |-> IF HostOf[p] = h THEN Idle ELSE pipeline[p]]
  BY DEF Crash
<1>3. faults' \in 0 .. MaxFaults
  BY <1>1, Numeric DEF TypeOK, Crash, Fault
<1>4. \A c \in Crawls : hit(c) => c \in Started
  BY DEF Living, Started, At
<1>5. ASSUME NEW c \in Crawls
      PROVE  /\ crawl'[c].user = crawl[c].user /\ crawl'[c].pipe = crawl[c].pipe
             /\ crawl'[c].outcome = crawl[c].outcome
             /\ crawl'[c].pc = (IF hit(c) THEN "gone" ELSE crawl[c].pc)
             /\ crawl'[c] \in StartedCrawl \cup {NoCrawl}
  <2>1. CASE hit(c)
    <3>1. crawl[c] \in StartedCrawl
      BY <2>1, <1>1, <1>4
    <3>2. crawl'[c] = [crawl[c] EXCEPT !.pc = "gone"]
      BY <2>1, <1>2
    <3>3. QED
      BY <2>1, <3>1, <3>2 DEF StartedCrawl, Places
  <2>2. CASE ~hit(c)
    BY <2>2, <1>1, <1>2 DEF CrawlType
  <2>3. QED
    BY <2>1, <2>2
<1>6. Started' = Started
  BY <1>4, <1>5 DEF Started, At
<1>7. crawl' \in CrawlType
  BY <1>2, <1>5, Zenon DEF CrawlType
<1>8. Ledger'
  <2>1. RowsOnlyFail
    BY <1>2 DEF RowsOnlyFail
  <2>2. \A c \in Crawls : /\ crawl'[c].user = crawl[c].user /\ crawl'[c].pc \in {crawl[c].pc, "gone"}
                          /\ crawl'[c].outcome = crawl[c].outcome
    BY <1>5
  <2>3. QED
    BY <2>1, <2>2, <1>1, <1>6, LedgerWhenStaying
<1>9. pipeline' \in PipelineType
  BY <1>1, <1>2 DEF PipelineType, Idle
<1>10. SlotTypes'
  BY <1>1, <1>2, Numeric DEF SlotTypes, TypeOK
<1>11. TypeOK'
  <2>1. \A c \in Crawls : hit(c) => crawl[c].outcome = "none"
    BY <1>1, <1>4 DEF TypeOK, Living, At
  <2>2. \A c \in Crawls : (crawl'[c].outcome # "none") = At(c, "done")'
    <3>1. SUFFICES ASSUME NEW c \in Crawls
                   PROVE  crawl'[c].outcome # "none" <=> crawl'[c].pc = "done"
      BY DEF At
    <3>2. crawl[c].outcome # "none" <=> crawl[c].pc = "done"
      BY <1>1 DEF TypeOK, At
    <3>3. QED
      BY <2>1, <3>2, <1>5
  <2>3. \A c \in Crawls : c < next' <=> ~At(c, "unused")'
    BY <1>1, <1>2, <1>6 DEF TypeOK, Started
  <2>4. QED
    BY <2>2, <2>3, <1>1, <1>2, <1>3, <1>7, <1>9, <1>10
       DEF TypeOK, SlotTypes, RowType, CrawlType, PipelineType
<1>12. PipelinesKnow'
  <2>1. \A p \in Pipelines : FailedSibling(p) => FailedSibling(p)'
    BY <1>5, <1>6 DEF FailedSibling, Failed, Started
  <2>2. SUFFICES ASSUME NEW p \in Pipelines
                 PROVE  /\ \A c \in pipeline'[p].mine : c \in Started /\ crawl'[c].pipe = p
                        /\ \A c \in Started : Living(c)' /\ crawl'[c].pipe = p =>
                             \/ pipeline'[p].pc = "crawling" /\ c \in pipeline'[p].mine
                             \/ FailedSibling(p)'
                        /\ pipeline'[p].pc = "crawling" =>
                             gate[p] /\ pipeline'[p].batch \in 1 .. Len(Batches[p])
    BY <1>2, <1>6, Zenon DEF PipelinesKnow
  <2>3. CASE HostOf[p] = h
    <3>1. pipeline'[p] = Idle
      BY <2>3, <1>2
    <3>2. ASSUME NEW c \in Started, Living(c)', crawl'[c].pipe = p PROVE FALSE
      <4>1. c \in Crawls /\ Host(c) = h /\ crawl'[c].pc \notin {"unused", "done", "gone"}
        BY <2>3, <3>2, <1>5 DEF Host, Started, Living
      <4>2. ~hit(c)
        BY <4>1, <1>5
      <4>3. Living(c)
        BY <4>1, <4>2, <1>5 DEF Living
      <4>4. QED
        BY <4>1, <4>2, <4>3
    <3>3. QED
      BY <3>1, <3>2 DEF Idle
  <2>4. CASE HostOf[p] # h
    <3>1. pipeline'[p] = pipeline[p]
      BY <2>4, <1>2
    <3>2. \A c \in Started : Living(c)' => Living(c)
      BY <1>5 DEF Living, Started
    <3>3. \A c \in Started : crawl'[c].pipe = crawl[c].pipe
      BY <1>5 DEF Started
    <3>4. /\ \A c \in pipeline[p].mine : c \in Started /\ crawl[c].pipe = p
          /\ \A c \in Started : Living(c) /\ crawl[c].pipe = p =>
               \/ pipeline[p].pc = "crawling" /\ c \in pipeline[p].mine
               \/ FailedSibling(p)
          /\ pipeline[p].pc = "crawling" =>
               gate[p] /\ pipeline[p].batch \in 1 .. Len(Batches[p])
      BY <1>1, Zenon DEF PipelinesKnow
    <3>5. ASSUME NEW c \in Started, Living(c)', crawl'[c].pipe = p
          PROVE  \/ pipeline[p].pc = "crawling" /\ c \in pipeline[p].mine
                 \/ FailedSibling(p)'
      BY <2>1, <3>2, <3>3, <3>4, <3>5
    <3>6. QED
      BY <3>1, <3>3, <3>4, <3>5
  <2>5. QED
    BY <2>3, <2>4
<1>13. SlotsKept'
  <2>1. ASSUME NEW c \in Crawls, holding'[c] > 0 PROVE crawl'[c].pc = "crawling"
    <3>1. ~hit(c) /\ holding[c] > 0
      BY <2>1, <1>2
    <3>2. At(c, "crawling")
      BY <3>1, <1>1 DEF SlotsKept
    <3>3. QED
      BY <3>1, <3>2, <1>5 DEF At
  <2>2. ASSUME NEW g \in Hosts, NEW i \in 1 .. Len(waiters'[g])
        PROVE  LET d == waiters'[g][i] IN crawl'[d].pc = "crawling" /\ HostOf[crawl'[d].pipe] = g
    <3>1. g # h
      BY <2>2, <1>1, <1>2
    <3>2. waiters'[g] = waiters[g] /\ waiters[g] \in Seq(Crawls)
      BY <3>1, <1>1, <1>2
    <3>3. PICK d \in Crawls : d = waiters[g][i] /\ At(d, "crawling") /\ Host(d) = g
      BY <3>2, <1>1, <2>2 DEF SlotsKept
    <3>4. ~hit(d)
      BY <3>1, <3>3
    <3>5. crawl'[d].pc = "crawling" /\ HostOf[crawl'[d].pipe] = g
      BY <3>3, <3>4, <1>5 DEF At, Host
    <3>6. QED
      BY <3>2, <3>3, <3>5
  <2>3. QED
    BY <2>1, <2>2 DEF SlotsKept, At, Host
<1>14. SlotsAreHeld'
  <2>1. SUFFICES ASSUME NEW g \in Hosts
                 PROVE  active'[g] = Cardinality(SlotsOf(On(g)', holding'))
    BY DEF SlotsAreHeld, HeldOn, SlotsOf, On
  <2>2. On(g)' = On(g)
    BY <1>5, <1>6 DEF On, Host, Started
  <2>3. CASE g = h
    <3>1. ASSUME NEW c \in On(g) PROVE holding'[c] = 0
      <4>1. c \in Crawls /\ Host(c) = h
        BY <2>3, <3>1 DEF On, Started
      <4>2. CASE hit(c)
        BY <4>1, <4>2, <1>2
      <4>3. CASE ~hit(c)
        <5>1. ~At(c, "crawling")
          BY <4>1, <4>3 DEF Living, At
        <5>2. holding[c] \in Nat /\ ~(holding[c] > 0)
          BY <4>1, <5>1, <1>1 DEF SlotsKept
        <5>3. QED
          BY <4>1, <4>3, <5>2, <1>2
      <4>4. QED
        BY <4>2, <4>3
    <3>2. \A c \in On(g) : 1 .. holding'[c] = {}
      BY <3>1
    <3>3. SlotsOf(On(g), holding') = {}
      BY <3>2 DEF SlotsOf
    <3>4. active'[g] = 0
      BY <2>3, <1>1, <1>2
    <3>5. QED
      BY <2>2, <3>3, <3>4, FS_EmptySet
  <2>4. CASE g # h
    <3>1. \A c \in On(g) : holding'[c] = holding[c]
      BY <2>4, <1>2 DEF On, Started
    <3>2. SlotsOf(On(g), holding') = SlotsOf(On(g), holding)
      BY <3>1 DEF SlotsOf
    <3>3. active[g] = Cardinality(SlotsOf(On(g), holding)) /\ active'[g] = active[g]
      BY <2>4, <1>1, <1>2 DEF SlotsAreHeld, HeldOn, SlotsOf, On
    <3>4. QED
      BY <2>2, <3>2, <3>3
  <2>5. QED
    BY <2>3, <2>4
<1>15. QED
  BY <1>8, <1>11, <1>12, <1>13, <1>14 DEF Inv

----------------------------------------------------------------------------
(* The theorems.                                                           *)

LEMMA InitiallyInv ==
  ASSUME Init
  PROVE  Inv
<1>1. Started = {}
  BY DEF Init, Started, At, NoCrawl
<1>2. TypeOK
  <2>1. \A c \in Crawls : /\ (crawl[c].outcome # "none") = At(c, "done")
                          /\ c < next <=> ~At(c, "unused")
    <3>1. TAKE c \in Crawls
    <3>2. crawl[c].outcome = "none" /\ crawl[c].pc = "unused" /\ ~(c < next)
      BY Numeric DEF Init, NoCrawl, Crawls
    <3>3. QED
      BY <3>2 DEF At
  <2>2. row \in [Crawls -> [status : Statuses, fresh : BOOLEAN]]
    BY DEF Init, NoRow, Statuses
  <2>3. pipeline \in [Pipelines -> [pc : {"idle", "crawling", "semantic"}, batch : Nat,
                                    mine : SUBSET Crawls]]
    BY DEF Init, Idle
  <2>4. /\ holding \in [Crawls -> Nat] /\ active \in [Hosts -> 0 .. SlotLimit]
        /\ waiters \in [Hosts -> Seq(Crawls)] /\ \A h \in Hosts : waiters[h] = <<>>
        /\ gate \in [Pipelines -> BOOLEAN] /\ crawl \in [Crawls -> StartedCrawl \cup {NoCrawl}]
    BY Numeric DEF Init
  <2>5. next \in 1 .. MaxCrawls + 1 /\ faults \in 0 .. MaxFaults /\ resets \subseteq Crawls
    BY Numeric DEF Init
  <2>6. QED
    BY <2>1, <2>2, <2>3, <2>4, <2>5 DEF TypeOK
<1>3. Ledger
  <2>1. \A c \in Crawls : row[c].status = "none" /\ crawl[c].outcome = "none" /\ crawl[c].pc = "unused"
    BY DEF Init, NoRow, NoCrawl
  <2>2. QED
    BY <1>1, <2>1 DEF Ledger, Staged, At, VerdictIsRecorded, OneRunning, ConflictSeen,
                      RefusedOnlyAfterAnEnd
<1>4. PipelinesKnow
  BY <1>1 DEF PipelinesKnow, Init, Idle
<1>5. SlotsKept
  BY DEF SlotsKept, Init
<1>6. SlotsAreHeld
  <2>1. \A h \in Hosts : HeldOn(h) = {}
    BY <1>1 DEF HeldOn
  <2>2. QED
    BY <2>1, FS_EmptySet DEF SlotsAreHeld, Init
<1>7. QED
  BY <1>2, <1>3, <1>4, <1>5, <1>6 DEF Inv

LEMMA InvIsKept ==
  ASSUME Inv, [Next]_vars
  PROVE  Inv'
<1>1. CASE UNCHANGED vars
  <2>1. /\ crawl' = crawl /\ slots' = slots /\ next' = next /\ row' = row /\ faults' = faults
        /\ resets' = resets /\ pipeline' = pipeline /\ gate' = gate
    BY <1>1 DEF vars, bounds
  <2>2. row' \in RowType /\ RowsOnlyFail /\ PipelinesKnow'
    BY <2>1, StartedHasRecord, KnowledgeAtRest DEF Inv, RowsOnlyFail
  <2>3. QED
    BY <2>1, <2>2, InvariantWhenResting DEF Inv, TypeOK
<1>2. ASSUME NEW p \in Pipelines, Start(p) \/ NextBatch(p) \/ EndPipeline(p) PROVE Inv'
  BY <1>2, StartStep, NextBatchStep, EndPipelineStep
<1>3. ASSUME NEW c \in Started, Run(c) PROVE Inv'
  BY <1>3, LookStep, RecoverStep, CreateStep, ConflictStep, FeedDoneStep, NoMoreFeedsStep,
     ClaimFailsStep, EndStep DEF Run
<1>4. ASSUME NEW c \in Started,
             StatementThrows(c) \/ Heartbeat(c) \/ HeartbeatThrows(c) \/ GrowStale(c)
      PROVE  Inv'
  BY <1>4, StatementThrowsStep, HeartbeatStep, HeartbeatThrowsStep, GrowStaleStep
<1>5. ASSUME NEW all \in BOOLEAN, RecoverCrawlRuns(all) PROVE Inv'
  BY <1>5, RecoverCrawlRunsStep
<1>6. ASSUME NEW h \in Hosts, Crash(h) PROVE Inv'
  BY <1>6, CrashStep
<1>7. QED
  BY <1>1, <1>2, <1>3, <1>4, <1>5, <1>6 DEF Next

\* At all times rows, crawls, slots and pipelines are what they are meant to be.
THEOREM CrawlInvariant == Spec => []Inv
<1>1. Init => Inv
  BY InitiallyInv
<1>2. Inv /\ [Next]_vars => Inv'
  BY InvIsKept
<1>3. QED
  BY <1>1, <1>2, PTL DEF Spec

\* A crawl reports success exactly when its row says completed, unless it lost
\* the answer to its last statement; the slots in use are those that crawls
\* hold; and a living pipeline whose crawls work holds the AI workers off unless
\* a crawl of its own failed (crawl.js, updateOwnedCrawlRun,
\* drainParallelFeedSlots; crawlPriorityLease.js).
THEOREM CrawlsStayConsistent == Spec => []CrawlConsistent
<1>1. Inv => CrawlConsistent
  <2>1. SUFFICES ASSUME Inv PROVE GateHeldUnlessOneFailed
    BY DEF Inv, Ledger, CrawlConsistent
  <2>2. SUFFICES ASSUME NEW c \in Started, Living(c)
                 PROVE  gate[crawl[c].pipe] \/ FailedSibling(crawl[c].pipe)
    BY DEF GateHeldUnlessOneFailed, FailedSibling
  <2>3. crawl[c].pipe \in Pipelines
    BY <2>1, StartedHasRecord DEF Inv, StartedCrawl
  <2>4. QED
    BY <2>1, <2>2, <2>3 DEF Inv, PipelinesKnow
<1>2. QED
  BY <1>1, CrawlInvariant, PTL

\* Two crawls of one user work at once only after one of them lost its row to a
\* recovery (the unique index of running rows, recoverStaleCrawlRun).
THEOREM OverlapsFollowRecovery == Spec => []OverlapOnlyAfterRecovery
<1>1. Inv => OverlapOnlyAfterRecovery
  <2>1. SUFFICES ASSUME Inv, NEW c \in Started, NEW d \in Started, c # d, d \in Same(c),
                        At(c, "crawling"), At(d, "crawling")
                 PROVE  row[c].status = "failed" \/ row[d].status = "failed"
    BY DEF OverlapOnlyAfterRecovery
  <2>2. row[c].status \in {"running", "failed"} /\ row[d].status \in {"running", "failed"}
    BY <2>1 DEF Inv, Ledger, Staged, Started
  <2>3. ~(row[c].status = "running" /\ row[d].status = "running")
    BY <2>1 DEF Inv, Ledger, OneRunning, Same
  <2>4. QED
    BY <2>2, <2>3
<1>2. QED
  BY <1>1, CrawlInvariant, PTL

\* A start is refused for a run in its way only when that run has ended
\* (performCrawlOperation, its second look).
THEOREM RefusalsFollowAnEnd == Spec => []RefusedOnlyAfterAnEnd
<1>1. Inv => RefusedOnlyAfterAnEnd
  BY DEF Inv, Ledger
<1>2. QED
  BY <1>1, CrawlInvariant, PTL

\* A row that runs and is fresh, and what ends it in a step.
EndedByRight(c) == \/ At(c, "crawling") /\ crawl'[c].pc = "done"
                   \/ c \in resets'
NotSeized ==
  \A c \in Crawls :
    row[c].status = "running" /\ row[c].fresh /\ row'[c].status # "running" => EndedByRight(c)

LEMMA NobodySeizes ==
  ASSUME Inv, [Next]_vars
  PROVE  NotSeized
<1>1. TypeOK /\ row \in RowType /\ Staged
  BY StartedHasRecord DEF Inv, Ledger
<1>2. CASE row' = row
  BY <1>2 DEF NotSeized
<1>3. ASSUME NEW c \in Started, Run(c) PROVE NotSeized
  <2>1. CASE Look(c) \/ Conflict(c) \/ FeedDone(c) \/ NoMoreFeeds(c) \/ ClaimFails(c)
    BY <2>1, <1>2 DEF Look, Conflict, FeedDone, NoMoreFeeds, ClaimFails
  <2>2. CASE Recover(c)
    BY <2>2 DEF Recover, Recovered, FailedRows, Stale, NotSeized
  <2>3. CASE Create(c)
    <3>1. row[c].status = "none" /\ c \in Crawls
      BY <2>3, <1>1 DEF Create, Staged, At, Started
    <3>2. row' = row \/ row' = [row EXCEPT ![c] = [status |-> "running", fresh |-> TRUE]]
      BY <2>3 DEF Create, Inserted, slots
    <3>3. QED
      BY <1>1, <3>1, <3>2 DEF NotSeized, RowType
  <2>4. ASSUME NEW fine \in BOOLEAN, End(c, fine) PROVE NotSeized
    <3>1. /\ At(c, "crawling") /\ c \in Crawls /\ crawl'[c].pc = "done"
      <4>1. c \in Crawls /\ crawl \in CrawlType
        BY <1>1, StartedHasRecord DEF Started
      <4>2. QED
        BY <2>4, <4>1 DEF End, Return, CrawlType
    <3>2. \A d \in Crawls : d # c => row'[d] = row[d]
      BY <2>4, <1>1 DEF End, Ended, RowType
    <3>3. QED
      BY <3>1, <3>2 DEF NotSeized, EndedByRight
  <2>5. QED
    BY <1>3, <2>1, <2>2, <2>3, <2>4 DEF Run
<1>4. ASSUME NEW c \in Started, Heartbeat(c) \/ HeartbeatThrows(c) \/ GrowStale(c) PROVE NotSeized
  <2>1. \A d \in Crawls : row'[d].status = row[d].status
    BY <1>1, <1>4 DEF Heartbeat, HeartbeatThrows, GrowStale, RowType, Started
  <2>2. QED
    BY <2>1 DEF NotSeized
<1>5. ASSUME NEW c \in Started, StatementThrows(c) PROVE NotSeized
  <2>1. c \in Crawls /\ crawl \in CrawlType
    BY <1>1, StartedHasRecord DEF Started
  <2>2. CASE row' = Recovered(c)
    BY <2>2 DEF Recovered, FailedRows, Stale, NotSeized
  <2>3. CASE At(c, "creating") /\ row' = Inserted(c)
    <3>1. row[c].status = "none"
      BY <2>1, <2>3, <1>1 DEF Staged, At
    <3>2. QED
      BY <2>3, <3>1, <1>1 DEF NotSeized, RowType, Inserted
  <2>4. ASSUME At(c, "crawling"), NEW fine \in BOOLEAN, row' = Ended(c, fine) PROVE NotSeized
    <3>1. crawl'[c].pc = "done"
      BY <1>5, <2>1 DEF StatementThrows, Return, CrawlType
    <3>2. \A d \in Crawls : d # c => row'[d] = row[d]
      BY <2>4, <1>1 DEF Ended, RowType
    <3>3. QED
      BY <2>1, <2>4, <3>1, <3>2 DEF NotSeized, EndedByRight
  <2>5. QED
    BY <1>2, <1>5, <2>2, <2>3, <2>4 DEF StatementThrows
<1>6. ASSUME NEW all \in BOOLEAN, RecoverCrawlRuns(all) PROVE NotSeized
  <2>1. CASE all
    BY <2>1, <1>6 DEF RecoverCrawlRuns, FailedRows, NotSeized, EndedByRight
  <2>2. CASE ~all
    BY <2>2, <1>6 DEF RecoverCrawlRuns, FailedRows, Stale, NotSeized
  <2>3. QED
    BY <2>1, <2>2
<1>7. QED
  BY <1>2, <1>3, <1>4, <1>5, <1>6
     DEF Next, vars, Start, NextBatch, EndPipeline, Crash

\* Only its own crawl, or an administrator, ends a run whose heartbeat is recent
\* (recoverStaleCrawlRun fails a row only under its stale condition).
THEOREM LiveRunsAreKept == Spec => LiveRunIsKept
<1>1. Inv /\ [Next]_vars => NotSeized
  BY NobodySeizes
<1>2. NotSeized =>
        [\A c \in Crawls :
           row[c].status = "running" /\ row[c].fresh /\ row'[c].status # "running"
           => \/ At(c, "crawling") /\ crawl'[c].pc = "done"
              \/ c \in resets']_vars
  BY DEF NotSeized, EndedByRight
<1>3. QED
  BY <1>1, <1>2, CrawlInvariant, PTL DEF Spec, LiveRunIsKept
=============================================================================
