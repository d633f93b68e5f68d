------------------------- MODULE EmailOutboxProofs -------------------------
(***************************************************************************)
(* The promises of the email outbox, for any number of processes,          *)
(* deliveries, attempts and faults.  The argument counts.  A message that   *)
(* the provider took is settled once its row says sent, or while the       *)
(* worker that sent it can still say so (Safe).  A worker that talks to     *)
(* SMTP without holding the row is an orphan.  Every message that is not    *)
(* settled, and every orphan, was paid for by a fault (Counted).            *)
(***************************************************************************)
EXTENDS EmailOutbox, FiniteSetTheorems, WellFoundedInduction, TLAPS

DeliveryRow == [status : Statuses, attempts : 0..MaxAttempts,
                lease : {"none", "live", "lapsed"}, due : BOOLEAN]
Seen == [accepted : SUBSET (1..MaxAttempts), tried : BOOLEAN, headed : BOOLEAN]

\* A worker that has not started its current claim has lost nothing, and one
\* without claims has not started.
Waiting == \A w \in Workers : /\ phase[w] = "next" => ~lost[w]
                              /\ batch[w] = {} => phase[w] = "next"

\* No claim is held twice, none is ahead of its row, and a batch holds a
\* delivery once.
ClaimsAreApart ==
  \A v, w \in Workers : \A c \in batch[v], e \in batch[w] :
    /\ c.attempt <= row[c.id].attempts
    /\ c.id = e.id /\ (c.attempt = e.attempt \/ v = w) => v = w /\ c = e

FirstsComeFirst == \A w \in Workers : \A c, e \in batch[w] : c.first => c.id <= e.id

\* What a worker takes for accepted, and what a row calls sent, was accepted.
AcceptedIsKnown ==
  /\ \A w \in Workers :
       phase[w] = "accepted" => Current(w).attempt \in hist[Current(w).id].accepted
  /\ \A d \in Deliveries : row[d].status = "sent" => row[d].attempts \in hist[d].accepted

Holds(w) == Owns(Current(w)) /\ ~lost[w]
Orphans == {w \in Workers : phase[w] = "smtp" /\ ~Holds(w)}

Concluding(d) == \E w \in Workers : phase[w] = "accepted" /\ Current(w).id = d /\ Holds(w)
Safe == {d \in Delivered : row[d].status = "sent" \/ Concluding(d)}

Counted == Cardinality(Acceptances) + Cardinality(Orphans) <= faults + Cardinality(Safe)
Faultless == faults = 0 => Orphans = {} /\ Delivered \subseteq Safe

\* Without faults, the first of a batch keeps its place until it is tried.
AtHead(d) == \E w \in Workers : /\ batch[w] # {} /\ phase[w] = "next"
                                /\ Current(w).id = d /\ Current(w).first
                                /\ Owns(Current(w))
HeadsWait == faults = 0 => \A d \in Deliveries : hist[d].headed => hist[d].tried \/ AtHead(d)

\* An attempt that the provider took is counted in its row, and its claim is past
\* SMTP or gone; a delivery that nobody queued was never claimed.
Early == {"next", "smtp"}
TakenOnce ==
  /\ \A d \in Deliveries : \A a \in hist[d].accepted : a <= row[d].attempts
  /\ \A w \in Workers : \A c \in batch[w] :
       c.attempt \in hist[c.id].accepted => c = Current(w) /\ phase[w] \notin Early
  /\ \A d \in Deliveries : row[d].status = "absent" => row[d].attempts = 0

Apart == Waiting /\ ClaimsAreApart /\ FirstsComeFirst
Inv == /\ TypeOK /\ Apart /\ AcceptedIsKnown /\ Counted /\ Faultless /\ HeadsWait
       /\ TakenOnce

----------------------------------------------------------------------------
(* Numbers, sets and types.                                                *)

LEMMA Numeric ==
  /\ IsFiniteSet(Workers)
  /\ NumDeliveries \in Nat /\ NumDeliveries > 0 /\ BatchSize \in Nat /\ BatchSize > 0
  /\ MaxAttempts \in Nat /\ MaxAttempts > 0 /\ MaxFaults \in Nat
  /\ Deliveries \subseteq Nat
BY BoundsAssumption DEF Deliveries

LEMMA Numbers == \A d \in Deliveries : d \in Nat /\ NumDeliveries - d \in Nat
BY Numeric DEF Deliveries

LEMMA Typing ==
  TypeOK <=> /\ row \in [Deliveries -> DeliveryRow] /\ batch \in [Workers -> SUBSET Claims]
             /\ \A w \in Workers : Cardinality(batch[w]) <= BatchSize
             /\ phase \in [Workers -> Phases] /\ lost \in [Workers -> BOOLEAN]
             /\ hist \in [Deliveries -> Seen] /\ faults \in 0..MaxFaults
BY DEF TypeOK, DeliveryRow, Seen

LEMMA TypingNext ==
  TypeOK' <=> /\ row' \in [Deliveries -> DeliveryRow] /\ batch' \in [Workers -> SUBSET Claims]
              /\ \A w \in Workers : Cardinality(batch'[w]) <= BatchSize
              /\ phase' \in [Workers -> Phases] /\ lost' \in [Workers -> BOOLEAN]
              /\ hist' \in [Deliveries -> Seen] /\ faults' \in 0..MaxFaults
BY DEF TypeOK, DeliveryRow, Seen

LEMMA FiniteSets ==
  /\ IsFiniteSet(Deliveries) /\ IsFiniteSet(Deliveries \X (1..MaxAttempts))
  /\ IsFiniteSet(Claims)
<1>1. IsFiniteSet(Deliveries) /\ IsFiniteSet(1..MaxAttempts)
  BY FS_Interval, Numeric DEF Deliveries
<1>2. IsFiniteSet(Deliveries \X (1..MaxAttempts))
  BY <1>1, FS_Product
<1>3. IsFiniteSet(BOOLEAN)
  <2>1. IsFiniteSet({TRUE})
    BY FS_Singleton
  <2>2. IsFiniteSet({TRUE} \union {FALSE})
    BY <2>1, FS_AddElement, Zenon
  <2>3. BOOLEAN = {TRUE} \union {FALSE}
    OBVIOUS
  <2>4. QED
    BY <2>2, <2>3, Zenon
<1>4. IsFiniteSet((Deliveries \X (1..MaxAttempts)) \X BOOLEAN)
  BY <1>2, <1>3, FS_Product
<1>5. IsFiniteSet(Claims)
  <2> DEFINE f == [t \in (Deliveries \X (1..MaxAttempts)) \X BOOLEAN |->
                    [id |-> t[1][1], attempt |-> t[1][2], first |-> t[2]]]
  <2>1. \A t \in (Deliveries \X (1..MaxAttempts)) \X BOOLEAN : f[t] \in Claims
    BY DEF Claims
  <2>2. \A c \in Claims : \E t \in (Deliveries \X (1..MaxAttempts)) \X BOOLEAN : f[t] = c
    <3>1. TAKE c \in Claims
    <3>2. <<<<c.id, c.attempt>>, c.first>> \in (Deliveries \X (1..MaxAttempts)) \X BOOLEAN
      BY DEF Claims
    <3>3. f[<<<<c.id, c.attempt>>, c.first>>] = c
      BY <3>2 DEF Claims
    <3>4. QED
      BY <3>2, <3>3
  <2>3. f \in Surjection((Deliveries \X (1..MaxAttempts)) \X BOOLEAN, Claims)
    <3>1. f \in [(Deliveries \X (1..MaxAttempts)) \X BOOLEAN -> Claims]
      BY <2>1
    <3> HIDE DEF f
    <3>2. QED
      BY <3>1, <2>2 DEF Surjection
  <2>4. QED
    BY <1>4, <2>3, FS_Surjection
<1>6. QED
  BY <1>1, <1>2, <1>5

Smaller == {pair \in Nat \X Nat : pair[1] < pair[2]}

\* Every set of numbers that is not empty has a least one.
LEMMA LeastNumber ==
  ASSUME NEW numbers \in SUBSET Nat, numbers # {}
  PROVE  \E x \in numbers : \A y \in numbers : x <= y
<1>1. IsWellFoundedOn(Smaller, Nat)
  <2>1. OpToRel(<, Nat) = Smaller
    BY Zenon DEF OpToRel, Smaller
  <2>2. QED
    BY <2>1, NatLessThanWellFounded, Zenon
<1>2. PICK x \in numbers : \A y \in numbers : ~ (<<y, x>> \in Smaller)
  BY <1>1, WFMin, Zenon
<1>3. \A y \in numbers : x <= y
  <2>1. TAKE y \in numbers
  <2>2. <<y, x>> \notin Smaller /\ y \in Nat /\ x \in Nat
    BY <1>2
  <2>3. ~(y < x)
    BY <2>2 DEF Smaller
  <2>4. QED
    BY <2>2, <2>3
<1>4. QED
  BY <1>3

LEMMA MinIsLeast ==
  ASSUME NEW numbers \in SUBSET Nat, numbers # {}
  PROVE  Min(numbers) \in numbers /\ \A y \in numbers : Min(numbers) <= y
BY LeastNumber DEF Min

\* A batch that is not empty has a claim with the least id.
LEMMA LeastClaim ==
  ASSUME NEW claims \in SUBSET Claims, claims # {}
  PROVE  \E c \in claims : \A e \in claims : c.id <= e.id
<1> DEFINE ids == {c.id : c \in claims}
<1>1. ids \in SUBSET Nat /\ ids # {}
  BY Numeric DEF Claims
<1>2. PICK x \in ids : \A y \in ids : x <= y
  BY <1>1, LeastNumber
<1>3. PICK c \in claims : c.id = x
  BY <1>2
<1>4. QED
  BY <1>2, <1>3

LEMMA CurrentIsFirst ==
  ASSUME TypeOK, NEW w \in Workers, batch[w] # {}
  PROVE  /\ Current(w) \in batch[w] /\ \A e \in batch[w] : Current(w).id <= e.id
         /\ Current(w) \in Claims
         /\ Current(w).id \in Deliveries /\ Current(w).attempt \in 1..MaxAttempts
<1>1. batch[w] \in SUBSET Claims
  BY Typing
<1>2. \E c \in batch[w] : \A e \in batch[w] : c.id <= e.id
  BY <1>1, LeastClaim
<1>3. Current(w) \in batch[w] /\ \A e \in batch[w] : Current(w).id <= e.id
  BY <1>2, Zenon DEF Current
<1>4. QED
  BY <1>1, <1>3 DEF Claims

LEMMA CurrentIsFirstNext ==
  ASSUME TypeOK', NEW w \in Workers, batch'[w] # {}
  PROVE  /\ Current(w)' \in batch'[w] /\ \A e \in batch'[w] : Current(w)'.id <= e.id
         /\ Current(w)' \in Claims
<1>1. batch'[w] \in SUBSET Claims
  BY TypingNext
<1>2. \E c \in batch'[w] : \A e \in batch'[w] : c.id <= e.id
  BY <1>1, LeastClaim
<1>3. Current(w)' \in batch'[w] /\ \A e \in batch'[w] : Current(w)'.id <= e.id
  BY <1>2, Zenon DEF Current
<1>4. QED
  BY <1>1, <1>3

\* The earliest BatchSize members of a set are BatchSize at most.
LEMMA EarliestAreFew ==
  ASSUME NEW S \in SUBSET Deliveries
  PROVE  IsFiniteSet(Earliest(S)) /\ Cardinality(Earliest(S)) <= BatchSize
<1>1. IsFiniteSet(S) /\ IsFiniteSet(Earliest(S)) /\ Earliest(S) \subseteq S
  BY FiniteSets, FS_Subset DEF Earliest
<1>2. CASE Earliest(S) = {}
  BY <1>1, <1>2, FS_EmptySet, Numeric
<1>3. CASE Earliest(S) # {}
  <2> DEFINE rest == {NumDeliveries - d : d \in Earliest(S)}
  <2>1. \A d \in Earliest(S) : d \in Nat /\ NumDeliveries - d \in Nat
    BY <1>1, Numbers
  <2>10. rest \in SUBSET Nat /\ rest # {}
    BY <1>3, <2>1
  <2> HIDE DEF rest
  <2>2. PICK x \in rest : \A y \in rest : x <= y
    BY <2>10, LeastNumber
  <2>3. PICK last \in Earliest(S) : x = NumDeliveries - last
    BY <2>2 DEF rest
  <2>4. \A d \in Earliest(S) : d <= last
    <3>1. TAKE d \in Earliest(S)
    <3>2. x <= NumDeliveries - d
      BY <2>2 DEF rest
    <3>3. d \in Nat /\ last \in Nat /\ NumDeliveries \in Nat
      BY <2>1, Numeric
    <3>4. QED
      BY <2>3, <3>2, <3>3
  <2> DEFINE below == {e \in S : e < last}
  <2>5. Earliest(S) \subseteq below \union {last}
    BY <1>1, <2>1, <2>4
  <2>6. IsFiniteSet(below) /\ Cardinality(below) \in Nat /\ Cardinality(below) < BatchSize
    <3>1. IsFiniteSet(below)
      BY <1>1, FS_Subset
    <3>2. Cardinality(below) \in Nat
      BY <3>1, FS_CardinalityType
    <3>3. QED
      BY <3>1, <3>2, <2>3 DEF Earliest
  <2> HIDE DEF below
  <2>7. /\ IsFiniteSet(below \union {last})
        /\ Cardinality(below \union {last}) \in Nat
        /\ Cardinality(below \union {last}) <= Cardinality(below) + 1
    <3>1. IsFiniteSet(below \union {last})
      BY <2>6, FS_AddElement, Zenon
    <3>2. Cardinality(below \union {last}) =
            IF last \in below THEN Cardinality(below) ELSE Cardinality(below) + 1
      BY <2>6, FS_AddElement, Zenon
    <3>3. QED
      BY <2>6, <3>1, <3>2
  <2>8. Cardinality(Earliest(S)) <= Cardinality(below \union {last})
    BY <2>5, <2>7, FS_Subset
  <2>9. QED
    BY <1>1, <2>6, <2>7, <2>8, FS_CardinalityType, Numeric
<1>4. QED
  BY <1>2, <1>3

----------------------------------------------------------------------------
(* Counting.  A step is quiet, or it costs a fault and frees one worker or *)
(* one delivery from its account, or the provider takes a message.         *)

LEMMA CountsAreNumbers ==
  /\ IsFiniteSet(Acceptances) /\ IsFiniteSet(Orphans) /\ IsFiniteSet(Safe)
  /\ Cardinality(Acceptances) \in Nat /\ Cardinality(Orphans) \in Nat
  /\ Cardinality(Safe) \in Nat
<1>1. IsFiniteSet(Acceptances)
  BY FiniteSets, FS_Subset DEF Acceptances
<1>2. IsFiniteSet(Orphans)
  BY Numeric, FS_Subset DEF Orphans
<1>3. IsFiniteSet(Safe)
  BY FiniteSets, FS_Subset DEF Safe, Delivered
<1>4. QED
  BY <1>1, <1>2, <1>3, FS_CardinalityType

LEMMA CountsAreNumbersNext ==
  /\ IsFiniteSet(Acceptances') /\ IsFiniteSet(Orphans') /\ IsFiniteSet(Safe')
  /\ Cardinality(Acceptances') \in Nat /\ Cardinality(Orphans') \in Nat
  /\ Cardinality(Safe') \in Nat
<1>1. IsFiniteSet(Acceptances')
  BY FiniteSets, FS_Subset DEF Acceptances
<1>2. IsFiniteSet(Orphans')
  BY Numeric, FS_Subset DEF Orphans
<1>3. IsFiniteSet(Safe')
  BY FiniteSets, FS_Subset DEF Safe, Delivered
<1>4. QED
  BY <1>1, <1>2, <1>3, FS_CardinalityType

LEMMA OneMore ==
  ASSUME NEW S, NEW T, NEW x, IsFiniteSet(S), IsFiniteSet(T), T \subseteq S \union {x}
  PROVE  Cardinality(T) <= Cardinality(S) + 1
<1>1. /\ IsFiniteSet(S \union {x})
      /\ Cardinality(S \union {x}) =
           IF x \in S THEN Cardinality(S) ELSE Cardinality(S) + 1
  BY FS_AddElement, Zenon
<1>2. Cardinality(T) <= Cardinality(S \union {x})
  BY <1>1, FS_Subset
<1>3. Cardinality(S) \in Nat /\ Cardinality(T) \in Nat
  BY FS_CardinalityType
<1>4. QED
  BY <1>1, <1>2, <1>3

LEMMA OneLess ==
  ASSUME NEW S, NEW T, NEW x \in S, IsFiniteSet(S), IsFiniteSet(T), T \subseteq S \ {x}
  PROVE  Cardinality(T) + 1 <= Cardinality(S)
<1>1. /\ IsFiniteSet(S \ {x})
      /\ Cardinality(S \ {x}) = IF x \in S THEN Cardinality(S) - 1 ELSE Cardinality(S)
  BY FS_RemoveElement, Zenon
<1>2. Cardinality(T) <= Cardinality(S \ {x})
  BY <1>1, FS_Subset
<1>3. Cardinality(S) \in Nat /\ Cardinality(T) \in Nat
  BY FS_CardinalityType
<1>4. QED
  BY <1>1, <1>2, <1>3

\* Nothing is taken, and nothing falls out of account.
Quiet == /\ Acceptances' \subseteq Acceptances /\ Delivered' \subseteq Delivered
         /\ Orphans' \subseteq Orphans /\ Safe \subseteq Safe'
         /\ faults' = faults

\* A fault makes one worker an orphan, or unsettles one delivery.
Slip == /\ faults' = faults + 1
        /\ Acceptances' \subseteq Acceptances
        /\ \/ Orphans' \subseteq Orphans /\ \E d \in Deliveries : Safe \subseteq Safe' \union {d}
           \/ Safe \subseteq Safe' /\ \E w \in Workers : Orphans' \subseteq Orphans \union {w}

\* A message is taken: from an orphan, or from a worker whose delivery becomes
\* settled, or the answer is lost.
Taken == \E w \in Workers, d \in Deliveries, a \in 1..MaxAttempts :
  /\ Acceptances' \subseteq Acceptances \union {<<d, a>>}
  /\ Delivered' \subseteq Delivered \union {d}
  /\ Safe \subseteq Safe'
  /\ \/ faults' = faults + 1 /\ Orphans' \subseteq Orphans
     \/ faults' = faults /\ w \in Orphans /\ Orphans' \subseteq Orphans \ {w}
     \/ faults' = faults /\ Orphans' \subseteq Orphans /\ d \notin Safe /\ d \in Safe'

LEMMA CountedStep ==
  ASSUME TypeOK, TypeOK', Counted, Faultless, Quiet \/ Slip \/ Taken
  PROVE  Counted' /\ Faultless'
<1>1. faults \in Nat /\ faults' \in Nat
  BY Typing, TypingNext, Numeric
<1> USE CountsAreNumbers, CountsAreNumbersNext
<1>2. CASE Quiet
  <2>1. /\ Cardinality(Acceptances') <= Cardinality(Acceptances)
        /\ Cardinality(Orphans') <= Cardinality(Orphans)
        /\ Cardinality(Safe) <= Cardinality(Safe')
    BY <1>2, FS_Subset DEF Quiet
  <2>2. Counted'
    BY <1>1, <1>2, <2>1 DEF Counted, Quiet
  <2>3. Faultless'
    BY <1>2 DEF Faultless, Quiet
  <2>4. QED
    BY <2>2, <2>3
<1>3. CASE Slip
  <2>1. Cardinality(Acceptances') <= Cardinality(Acceptances)
    BY <1>3, FS_Subset DEF Slip
  <2>2. \/ /\ Cardinality(Orphans') <= Cardinality(Orphans)
           /\ Cardinality(Safe) <= Cardinality(Safe') + 1
        \/ /\ Cardinality(Orphans') <= Cardinality(Orphans) + 1
           /\ Cardinality(Safe) <= Cardinality(Safe')
    <3>1. CASE Orphans' \subseteq Orphans /\ \E d \in Deliveries : Safe \subseteq Safe' \union {d}
      BY <3>1, FS_Subset, OneMore
    <3>2. CASE Safe \subseteq Safe' /\ \E w \in Workers : Orphans' \subseteq Orphans \union {w}
      BY <3>2, FS_Subset, OneMore
    <3>3. QED
      BY <1>3, <3>1, <3>2 DEF Slip
  <2>3. Counted'
    BY <1>1, <1>3, <2>1, <2>2 DEF Counted, Slip
  <2>4. Faultless'
    BY <1>1, <1>3 DEF Faultless, Slip
  <2>5. QED
    BY <2>3, <2>4
<1>4. CASE Taken
  <2>1. PICK w \in Workers, d \in Deliveries, a \in 1..MaxAttempts :
          /\ Acceptances' \subseteq Acceptances \union {<<d, a>>}
          /\ Delivered' \subseteq Delivered \union {d}
          /\ Safe \subseteq Safe'
          /\ \/ faults' = faults + 1 /\ Orphans' \subseteq Orphans
             \/ faults' = faults /\ w \in Orphans /\ Orphans' \subseteq Orphans \ {w}
             \/ faults' = faults /\ Orphans' \subseteq Orphans /\ d \notin Safe /\ d \in Safe'
    BY <1>4 DEF Taken
  <2>2. Cardinality(Acceptances') <= Cardinality(Acceptances) + 1
    BY <2>1, OneMore
  <2>3. Cardinality(Safe) <= Cardinality(Safe')
    BY <2>1, FS_Subset
  <2>4. CASE faults' = faults + 1 /\ Orphans' \subseteq Orphans
    <3>1. Cardinality(Orphans') <= Cardinality(Orphans)
      BY <2>4, FS_Subset
    <3>2. QED
      BY <1>1, <2>2, <2>3, <2>4, <3>1 DEF Counted, Faultless
  <2>5. CASE faults' = faults /\ w \in Orphans /\ Orphans' \subseteq Orphans \ {w}
    <3>1. Cardinality(Orphans') + 1 <= Cardinality(Orphans)
      BY <2>5, OneLess
    <3>2. QED
      BY <1>1, <2>2, <2>3, <2>5, <3>1 DEF Counted, Faultless
  <2>6. CASE faults' = faults /\ Orphans' \subseteq Orphans /\ d \notin Safe /\ d \in Safe'
    <3>1. Cardinality(Orphans') <= Cardinality(Orphans)
      BY <2>6, FS_Subset
    <3>2. Cardinality(Safe) + 1 <= Cardinality(Safe')
      <4>1. Safe \subseteq Safe' \ {d}
        BY <2>1, <2>6
      <4>2. QED
        BY <2>6, <4>1, OneLess
    <3>3. Counted'
      BY <1>1, <2>2, <2>6, <3>1, <3>2 DEF Counted
    <3>4. Faultless'
      BY <2>1, <2>6 DEF Faultless
    <3>5. QED
      BY <3>3, <3>4
  <2>7. QED
    BY <2>1, <2>4, <2>5, <2>6
<1>5. QED
  BY <1>2, <1>3, <1>4

----------------------------------------------------------------------------
(* Types.                                                                  *)

\* A claim, in parts.
Settled == [d \in Deliveries |-> Terminalized(row[d])]
Chosen  == Earliest({d \in Deliveries : Claimable(Settled[d])})
NewClaim(d) == [id |-> d, attempt |-> row[d].attempts + 1, first |-> d = Min(Chosen)]
NowHeaded(d) == hist[d].headed \/ (Chosen # {} /\ d = Min(Chosen))

LEMMA ClaimInParts ==
  ASSUME NEW w \in Workers, Claim(w)
  PROVE  /\ batch[w] = {}
         /\ row' = [d \in Deliveries |-> IF d \in Chosen THEN Leased(Settled[d]) ELSE Settled[d]]
         /\ batch' = [batch EXCEPT ![w] = {NewClaim(d) : d \in Chosen}]
         /\ hist' = [d \in Deliveries |-> [hist[d] EXCEPT !.headed = NowHeaded(d)]]
         /\ phase' = phase /\ lost' = lost /\ faults' = faults
BY DEF Claim, Settled, Chosen, NewClaim, NowHeaded

LEMMA ChosenAreClaimable ==
  /\ Chosen \in SUBSET Deliveries /\ IsFiniteSet(Chosen) /\ Cardinality(Chosen) <= BatchSize
  /\ \A d \in Chosen : Claimable(Settled[d])
<1>1. {d \in Deliveries : Claimable(Settled[d])} \in SUBSET Deliveries
  OBVIOUS
<1>2. IsFiniteSet(Chosen) /\ Cardinality(Chosen) <= BatchSize
  BY <1>1, EarliestAreFew DEF Chosen
<1>3. QED
  BY <1>2 DEF Chosen, Earliest

\* What a claim does to a row: it ends, is leased, or stays as it is.
LEMMA SettledRows ==
  ASSUME TypeOK, NEW d \in Deliveries
  PROVE  /\ Settled[d] \in DeliveryRow /\ Settled[d].attempts = row[d].attempts
         /\ \/ Settled[d] = row[d]
            \/ /\ Settled[d].status = "failed" /\ row[d].attempts >= MaxAttempts
               /\ row[d].status = "pending" \/ row[d].lease = "lapsed"
               /\ row[d].status \in {"pending", "sending"}
         /\ Claimable(Settled[d]) =>
              /\ Settled[d] = row[d] /\ row[d].attempts < MaxAttempts
              /\ row[d].status = "pending" \/ row[d].lease = "lapsed"
              /\ row[d].status \in {"pending", "sending"}
              /\ Leased(Settled[d]) \in DeliveryRow
<1>1. row[d] \in DeliveryRow
  BY Typing
<1>2. Settled[d] = Terminalized(row[d])
  BY DEF Settled
<1>3. CASE Exhausted(row[d])
  <2>1. Settled[d] = [row[d] EXCEPT !.status = "failed", !.lease = "none"]
    BY <1>2, <1>3 DEF Terminalized
  <2>2. QED
    BY <1>1, <1>3, <2>1 DEF DeliveryRow, Statuses, Exhausted, Claimable
<1>4. CASE ~Exhausted(row[d])
  <2>1. Settled[d] = row[d]
    BY <1>2, <1>4 DEF Terminalized
  <2>2. QED
    BY <1>1, <2>1, Numeric DEF DeliveryRow, Statuses, Claimable, Leased
<1>5. QED
  BY <1>3, <1>4

LEMMA NewClaimsAreTyped ==
  ASSUME TypeOK
  PROVE  /\ {NewClaim(d) : d \in Chosen} \in SUBSET Claims
         /\ Cardinality({NewClaim(d) : d \in Chosen}) <= BatchSize
<1> DEFINE new == {NewClaim(d) : d \in Chosen}
<1>1. \A d \in Chosen : NewClaim(d) \in Claims
  <2>1. TAKE d \in Chosen
  <2>2. d \in Deliveries /\ row[d].attempts < MaxAttempts /\ row[d].attempts \in 0..MaxAttempts
    BY ChosenAreClaimable, SettledRows, Typing DEF DeliveryRow
  <2>3. QED
    BY <2>2, Numeric DEF NewClaim, Claims
<1>2. [d \in Chosen |-> NewClaim(d)] \in Surjection(Chosen, new)
  BY DEF Surjection
<1>3. IsFiniteSet(new) /\ Cardinality(new) <= Cardinality(Chosen)
  BY <1>2, ChosenAreClaimable, FS_Surjection
<1>4. QED
  BY <1>1, <1>3, ChosenAreClaimable, FS_CardinalityType, Numeric

\* Turning to the next claim leaves a smaller batch.
LEMMA Turned ==
  ASSUME TypeOK, NEW w \in Workers, TurnToNext(w)
  PROVE  /\ batch' \in [Workers -> SUBSET Claims]
         /\ \A v \in Workers : Cardinality(batch'[v]) <= BatchSize
         /\ phase' \in [Workers -> Phases] /\ lost' \in [Workers -> BOOLEAN]
         /\ phase'[w] = "next" /\ ~lost'[w] /\ batch'[w] = batch[w] \ {Current(w)}
         /\ \A v \in Workers \ {w} :
              batch'[v] = batch[v] /\ phase'[v] = phase[v] /\ lost'[v] = lost[v]
<1> USE Typing
<1>1. batch' = [batch EXCEPT ![w] = batch[w] \ {Current(w)}]
  BY DEF TurnToNext
<1>2. batch' \in [Workers -> SUBSET Claims] /\ batch'[w] = batch[w] \ {Current(w)}
  BY <1>1
<1>3. IsFiniteSet(batch[w]) /\ Cardinality(batch[w]) \in Nat
  BY FiniteSets, FS_Subset, FS_CardinalityType
<1>4. Cardinality(batch'[w]) <= Cardinality(batch[w]) /\ Cardinality(batch'[w]) \in Nat
  BY <1>2, <1>3, FS_Subset, FS_CardinalityType
<1>5. \A v \in Workers : Cardinality(batch'[v]) <= BatchSize
  BY <1>1, <1>3, <1>4, Numeric
<1>6. QED
  BY <1>1, <1>2, <1>5 DEF TurnToNext, Phases

LEMMA TypesAreKept ==
  ASSUME TypeOK, [Next]_vars
  PROVE  TypeOK'
<1>0. SUFFICES ASSUME Next PROVE TypeOK'
  BY DEF TypeOK, vars
<1> USE Typing, Numeric
<1>1. ASSUME NEW d \in Deliveries, Enqueue(d) \/ Due(d) \/ Lapse(d) PROVE TypeOK'
  <2>1. row[d] \in DeliveryRow
    OBVIOUS
  <2>2. CASE Enqueue(d)
    BY <2>1, <2>2, TypingNext DEF Enqueue, DeliveryRow, Statuses
  <2>3. CASE Due(d)
    BY <2>1, <2>3, TypingNext DEF Due, DeliveryRow
  <2>4. CASE Lapse(d)
    <3>1. faults' \in 0..MaxFaults
      BY <2>4 DEF Lapse, Fault
    <3>2. QED
      BY <2>1, <2>4, <3>1, TypingNext DEF Lapse, DeliveryRow
  <2>5. QED
    BY <1>1, <2>2, <2>3, <2>4
<1>2. ASSUME NEW w \in Workers, Claim(w) PROVE TypeOK'
  <2>1. row' \in [Deliveries -> DeliveryRow]
    BY <1>2, ClaimInParts, ChosenAreClaimable, SettledRows
  <2>2. batch' \in [Workers -> SUBSET Claims]
    BY <1>2, ClaimInParts, NewClaimsAreTyped
  <2>3. \A v \in Workers : Cardinality(batch'[v]) <= BatchSize
    BY <1>2, ClaimInParts, NewClaimsAreTyped
  <2>4. hist' \in [Deliveries -> Seen]
    <3>1. \A d \in Deliveries : hist[d] \in Seen
      OBVIOUS
    <3>2. \A d \in Deliveries : [hist[d] EXCEPT !.headed = NowHeaded(d)] \in Seen
      <4>1. \A r \in Seen, b \in BOOLEAN : [r EXCEPT !.headed = b] \in Seen
        BY DEF Seen
      <4>2. \A d \in Deliveries : NowHeaded(d) \in BOOLEAN
        BY <3>1, Zenon DEF NowHeaded
      <4>3. QED
        BY <3>1, <4>1, <4>2, Zenon
    <3>3. QED
      <4>1. hist' = [d \in Deliveries |-> [hist[d] EXCEPT !.headed = NowHeaded(d)]]
        BY <1>2, ClaimInParts
      <4>2. QED
        BY <3>2, <4>1, Zenon
  <2>5. QED
    BY <1>2, <2>1, <2>2, <2>3, <2>4, ClaimInParts, TypingNext
<1>3. ASSUME NEW w \in Workers, Start(w) PROVE TypeOK'
  <2>1. CASE Startable(Current(w))
    <3>1. Current(w).id \in Deliveries
      BY <1>3, CurrentIsFirst DEF Start
    <3> DEFINE d == Current(w).id
               more == [hist[d] EXCEPT !.tried = TRUE]
    <3>2. hist' = [hist EXCEPT ![d] = more]
      BY <1>3, <2>1 DEF Start
    <3>3. d \in Deliveries /\ hist[d] \in Seen
      BY <3>1
    <3>4. more \in Seen
      BY <3>3 DEF Seen
    <3> HIDE DEF d, more
    <3>5. hist' \in [Deliveries -> Seen]
      BY <3>2, <3>3, <3>4
    <3>6. QED
      BY <1>3, <2>1, <3>5, TypingNext DEF Start, Phases
  <2>2. CASE ~Startable(Current(w))
    BY <1>3, <2>2, Turned, TypingNext DEF Start
  <2>3. QED
    BY <2>1, <2>2
<1>4. ASSUME NEW w \in Workers, StartFails(w) PROVE TypeOK'
  BY <1>4, Turned, TypingNext DEF StartFails, Fault
<1>5. ASSUME NEW w \in Workers, Accept(w) \/ LoseAnswer(w) PROVE TypeOK'
  <2>1. /\ Current(w).id \in Deliveries /\ Current(w).attempt \in 1..MaxAttempts
        /\ Accepted(w)
    BY <1>5, CurrentIsFirst DEF Accept, LoseAnswer, Sending
  <2>2. hist' \in [Deliveries -> Seen]
    <3> DEFINE seen == hist[Current(w).id]
               more == [seen EXCEPT !.accepted = seen.accepted \union {Current(w).attempt}]
    <3>1. seen \in Seen
      BY <2>1
    <3>2. more \in Seen
      BY <2>1, <3>1 DEF Seen
    <3>3. hist' = [hist EXCEPT ![Current(w).id] = more]
      BY <2>1 DEF Accepted
    <3> HIDE DEF more
    <3>4. QED
      BY <2>1, <3>2, <3>3
  <2>3. QED
    BY <1>5, <2>2, TypingNext DEF Accept, LoseAnswer, Fault, Phases
<1>6. ASSUME NEW w \in Workers, Refuse(w) PROVE TypeOK'
  BY <1>6, TypingNext DEF Refuse, Phases
<1>7. ASSUME NEW w \in Workers, HeartbeatFails(w) PROVE TypeOK'
  BY <1>7, TypingNext DEF HeartbeatFails, Fault
<1>8. ASSUME NEW w \in Workers, Complete(w) PROVE TypeOK'
  <2>1. Current(w).id \in Deliveries
    BY <1>8, CurrentIsFirst DEF Complete, Sending
  <2>2. row' \in [Deliveries -> DeliveryRow]
    <3> DEFINE sent == [row[Current(w).id] EXCEPT !.status = "sent", !.lease = "none"]
    <3>1. row[Current(w).id] \in DeliveryRow
      BY <2>1
    <3>2. sent \in DeliveryRow
      BY <3>1 DEF DeliveryRow, Statuses
    <3>3. row' = row \/ row' = [row EXCEPT ![Current(w).id] = sent]
      BY <1>8, Zenon DEF Complete
    <3> HIDE DEF sent
    <3>4. QED
      BY <2>1, <3>2, <3>3
  <2>3. QED
    BY <1>8, <2>2, Turned, TypingNext DEF Complete
<1>9. ASSUME NEW w \in Workers, CompleteFails(w) PROVE TypeOK'
  BY <1>9, TypingNext DEF CompleteFails, Fault, Phases
<1>10. ASSUME NEW w \in Workers, Fail(w) PROVE TypeOK'
  <2>1. Current(w).id \in Deliveries
    BY <1>10, CurrentIsFirst DEF Fail, Sending
  <2>2. Requeued(row[Current(w).id]) \in DeliveryRow /\ Ended(row[Current(w).id]) \in DeliveryRow
    <3>1. row[Current(w).id] \in DeliveryRow
      BY <2>1
    <3>2. \A r \in DeliveryRow : Requeued(r) \in DeliveryRow /\ Ended(r) \in DeliveryRow
      BY DEF DeliveryRow, Statuses, Requeued, Ended
    <3>3. QED
      BY <3>1, <3>2, Zenon
  <2>3. row' \in [Deliveries -> DeliveryRow]
    BY <1>10, <2>1, <2>2 DEF Fail
  <2>4. QED
    BY <1>10, <2>3, Turned, TypingNext DEF Fail
<1>11. ASSUME NEW w \in Workers, Crash(w) PROVE TypeOK'
  <2>1. batch' \in [Workers -> SUBSET Claims] /\ \A v \in Workers : Cardinality(batch'[v]) <= BatchSize
    BY <1>11, FS_EmptySet DEF Crash
  <2>2. QED
    BY <1>11, <2>1, TypingNext DEF Crash, Fault, Phases
<1>12. QED
  BY <1>0, <1>1, <1>2, <1>3, <1>4, <1>5, <1>6, <1>7, <1>8, <1>9, <1>10, <1>11 DEF Next

----------------------------------------------------------------------------
(* Claims stay apart.                                                      *)

\* The provider's history grows by one attempt.
LEMMA AcceptedGrows ==
  ASSUME TypeOK, NEW w \in Workers, Sending(w), Accepted(w)
  PROVE  /\ hist'[Current(w).id] =
              [hist[Current(w).id] EXCEPT
                 !.accepted = hist[Current(w).id].accepted \union {Current(w).attempt}]
         /\ \A d \in Deliveries : d # Current(w).id => hist'[d] = hist[d]
         /\ \A d \in Deliveries :
              /\ hist'[d].accepted = IF d = Current(w).id
                                     THEN hist[d].accepted \union {Current(w).attempt}
                                     ELSE hist[d].accepted
              /\ hist'[d].headed = hist[d].headed /\ hist'[d].tried = hist[d].tried
<1> DEFINE id == Current(w).id
           more == hist[id].accepted \union {Current(w).attempt}
<1>1. id \in Deliveries
  BY CurrentIsFirst DEF Sending
<1>2. hist' = [hist EXCEPT ![id].accepted = more]
  BY DEF Accepted
<1>3. hist \in [Deliveries -> Seen]
  BY Typing
<1> HIDE DEF id, more
<1>4. /\ hist'[id] = [hist[id] EXCEPT !.accepted = more]
      /\ \A d \in Deliveries : d # id => hist'[d] = hist[d]
  BY <1>1, <1>2, <1>3
<1>5. hist[id] \in Seen
  BY <1>1, <1>3
<1>6. /\ hist'[id].accepted = more /\ hist'[id].headed = hist[id].headed
      /\ hist'[id].tried = hist[id].tried
  BY <1>4, <1>5 DEF Seen
<1>7. QED
  BY <1>4, <1>6 DEF id, more

LEMMA StartedIsTried ==
  ASSUME TypeOK, NEW w \in Workers, batch[w] # {},
         hist' = [hist EXCEPT ![Current(w).id].tried = TRUE]
  PROVE  \A d \in Deliveries :
           /\ hist'[d].accepted = hist[d].accepted /\ hist'[d].headed = hist[d].headed
           /\ d # Current(w).id => hist'[d].tried = hist[d].tried
           /\ d = Current(w).id => hist'[d].tried
<1> DEFINE id == Current(w).id
<1>1. id \in Deliveries /\ hist' = [hist EXCEPT ![id].tried = TRUE]
  BY CurrentIsFirst
<1>2. hist \in [Deliveries -> Seen]
  BY Typing
<1> HIDE DEF id
<1>3. /\ hist'[id] = [hist[id] EXCEPT !.tried = TRUE]
      /\ \A d \in Deliveries : d # id => hist'[d] = hist[d]
  BY <1>1, <1>2
<1>4. hist[id] \in Seen
  BY <1>1, <1>2
<1>5. hist'[id].accepted = hist[id].accepted /\ hist'[id].headed = hist[id].headed /\ hist'[id].tried
  BY <1>3, <1>4 DEF Seen
<1>6. \A d \in Deliveries :
        /\ hist'[d].accepted = hist[d].accepted /\ hist'[d].headed = hist[d].headed
        /\ d # id => hist'[d].tried = hist[d].tried
        /\ d = id => hist'[d].tried
  BY <1>3, <1>5
<1>7. QED
  BY <1>6 DEF id

LEMMA ClaimHeads ==
  ASSUME TypeOK, NEW w \in Workers, Claim(w)
  PROVE  \A d \in Deliveries :
           /\ hist'[d].accepted = hist[d].accepted /\ hist'[d].tried = hist[d].tried
           /\ hist'[d].headed = NowHeaded(d)
<1>1. TAKE d \in Deliveries
<1>2. hist' = [x \in Deliveries |-> [hist[x] EXCEPT !.headed = NowHeaded(x)]]
  BY ClaimInParts
<1>3. hist'[d] = [hist[d] EXCEPT !.headed = NowHeaded(d)]
  BY <1>2, Zenon
<1>4. hist[d] \in Seen
  BY Typing
<1> DEFINE now == NowHeaded(d)
           new == [hist[d] EXCEPT !.headed = now]
<1> HIDE DEF now
<1>5. new.accepted = hist[d].accepted /\ new.tried = hist[d].tried /\ new.headed = now
  BY <1>4 DEF Seen
<1>6. hist'[d] = new
  BY <1>3 DEF now
<1> HIDE DEF new
<1>7. QED
  BY <1>5, <1>6, Zenon DEF now

LEMMA FewerClaims ==
  ASSUME TypeOK, TypeOK', ClaimsAreApart, FirstsComeFirst,
         \A v \in Workers : batch'[v] \subseteq batch[v],
         \A d \in Deliveries : row'[d].attempts = row[d].attempts
  PROVE  ClaimsAreApart' /\ FirstsComeFirst'
<1>1. \A v \in Workers : \A c \in batch[v] : c.id \in Deliveries
  BY Typing DEF Claims
<1>2. ClaimsAreApart'
  BY <1>1 DEF ClaimsAreApart
<1>3. FirstsComeFirst'
  BY DEF FirstsComeFirst
<1>4. QED
  BY <1>2, <1>3

\* Only a claim adds claims and counts attempts.
LEMMA OnlyClaimsCount ==
  ASSUME TypeOK, Next, ~ \E w \in Workers : Claim(w)
  PROVE  /\ \A v \in Workers : batch'[v] \subseteq batch[v]
         /\ \A d \in Deliveries : row'[d].attempts = row[d].attempts
<1> USE Typing
<1>1. ASSUME NEW d \in Deliveries, Enqueue(d) \/ Due(d) \/ Lapse(d)
      PROVE  /\ \A v \in Workers : batch'[v] \subseteq batch[v]
             /\ \A e \in Deliveries : row'[e].attempts = row[e].attempts
  BY <1>1 DEF Enqueue, Due, Lapse, DeliveryRow
<1>2. ASSUME NEW w \in Workers, Start(w) \/ StartFails(w)
      PROVE  /\ \A v \in Workers : batch'[v] \subseteq batch[v]
             /\ \A e \in Deliveries : row'[e].attempts = row[e].attempts
  BY <1>2, Turned DEF Start, StartFails
<1>3. ASSUME NEW w \in Workers,
             Accept(w) \/ LoseAnswer(w) \/ Refuse(w) \/ HeartbeatFails(w) \/ CompleteFails(w)
      PROVE  row' = row /\ batch' = batch
  BY <1>3 DEF Accept, LoseAnswer, Refuse, HeartbeatFails, CompleteFails
<1>4. ASSUME NEW w \in Workers, Complete(w) \/ Fail(w)
      PROVE  /\ \A v \in Workers : batch'[v] \subseteq batch[v]
             /\ \A e \in Deliveries : row'[e].attempts = row[e].attempts
  <2>1. TurnToNext(w) /\ Current(w).id \in Deliveries
    BY <1>4, CurrentIsFirst DEF Complete, Fail, Sending
  <2>2. \A v \in Workers : batch'[v] \subseteq batch[v]
    BY <2>1, Turned
  <2>3. \A r \in DeliveryRow :
          /\ [r EXCEPT !.status = "sent", !.lease = "none"].attempts = r.attempts
          /\ Requeued(r).attempts = r.attempts /\ Ended(r).attempts = r.attempts
    BY DEF DeliveryRow, Requeued, Ended
  <2>4. \A e \in Deliveries : row'[e].attempts = row[e].attempts
    <3> DEFINE id == Current(w).id
               sent == [row[id] EXCEPT !.status = "sent", !.lease = "none"]
    <3>1. \/ row' = row \/ row' = [row EXCEPT ![id] = sent]
          \/ row' = [row EXCEPT ![id] = Requeued(row[id])]
          \/ row' = [row EXCEPT ![id] = Ended(row[id])]
      BY <1>4, Zenon DEF Complete, Fail
    <3>2. id \in Deliveries /\ row[id] \in DeliveryRow
      BY <2>1
    <3>3. /\ sent.attempts = row[id].attempts /\ Requeued(row[id]).attempts = row[id].attempts
          /\ Ended(row[id]).attempts = row[id].attempts
      BY <2>3, <3>2
    <3> HIDE DEF id, sent
    <3>4. QED
      BY <3>1, <3>2, <3>3
  <2>5. QED
    BY <2>2, <2>4
<1>5. ASSUME NEW w \in Workers, Crash(w)
      PROVE  row' = row /\ \A v \in Workers : batch'[v] \subseteq batch[v]
  BY <1>5 DEF Crash
<1>6. QED
  BY <1>1, <1>2, <1>3, <1>4, <1>5 DEF Next

\* A new claim counts an attempt more than any claim of its row before.
LEMMA ClaimsCount ==
  ASSUME TypeOK, NEW w \in Workers, Claim(w)
  PROVE  /\ \A d \in Deliveries : row'[d].attempts =
              IF d \in Chosen THEN row[d].attempts + 1 ELSE row[d].attempts
         /\ batch'[w] = {NewClaim(d) : d \in Chosen}
         /\ \A v \in Workers \ {w} : batch'[v] = batch[v]
<1>1. \A d \in Deliveries : Leased(Settled[d]).attempts = Settled[d].attempts + 1
  BY DEF Leased
<1>2. \A d \in Deliveries : Settled[d].attempts = row[d].attempts
  BY SettledRows
<1>3. \A d \in Deliveries : row'[d] = IF d \in Chosen THEN Leased(Settled[d]) ELSE Settled[d]
  BY ClaimInParts
<1>4. QED
  BY <1>1, <1>2, <1>3, ClaimInParts, Typing

LEMMA ApartIsKept ==
  ASSUME TypeOK, TypeOK', Apart, Next
  PROVE  Apart'
<1>0. Waiting /\ ClaimsAreApart /\ FirstsComeFirst
  BY DEF Apart
<1> USE <1>0
<1>1. Waiting'
  <2> USE Typing DEF Waiting
  <2>1. ASSUME NEW d \in Deliveries, Enqueue(d) \/ Due(d) \/ Lapse(d) PROVE Waiting'
    BY <2>1 DEF Enqueue, Due, Lapse
  <2>2. ASSUME NEW w \in Workers, Claim(w) PROVE Waiting'
    BY <2>2, ClaimInParts
  <2>3. ASSUME NEW w \in Workers, Start(w) PROVE Waiting'
    BY <2>3, Turned DEF Start
  <2>4. ASSUME NEW w \in Workers, StartFails(w) \/ Complete(w) \/ Fail(w) PROVE Waiting'
    BY <2>4, Turned DEF StartFails, Complete, Fail
  <2>5. ASSUME NEW w \in Workers,
               Accept(w) \/ LoseAnswer(w) \/ Refuse(w) \/ HeartbeatFails(w) \/ CompleteFails(w)
        PROVE  Waiting'
    BY <2>5 DEF Accept, LoseAnswer, Refuse, HeartbeatFails, CompleteFails, Sending
  <2>6. ASSUME NEW w \in Workers, Crash(w) PROVE Waiting'
    BY <2>6 DEF Crash
  <2>7. QED
    BY <2>1, <2>2, <2>3, <2>4, <2>5, <2>6 DEF Next
<1>2. ASSUME NEW w \in Workers, Claim(w) PROVE ClaimsAreApart' /\ FirstsComeFirst'
  <2>1. Chosen \in SUBSET Deliveries /\ Chosen \in SUBSET Nat
    BY ChosenAreClaimable, Numeric
  <2>2. \A d \in Deliveries : row[d].attempts \in Nat
    BY Typing DEF DeliveryRow
  <2>3. \A v \in Workers \ {w} : \A c \in batch'[v] :
          /\ c \in batch[v] /\ c.id \in Deliveries /\ c.attempt \in Nat
          /\ c.attempt <= row[c.id].attempts
    BY <1>2, ClaimsCount, Typing, Numeric DEF ClaimsAreApart, Claims
  <2>4. \A c \in batch'[w] : /\ c.id \in Chosen /\ c = NewClaim(c.id)
                             /\ c.attempt = row[c.id].attempts + 1
                             /\ c.first = (c.id = Min(Chosen))
    BY <1>2, ClaimsCount DEF NewClaim
  <2>5. ASSUME NEW u \in Workers, NEW v \in Workers, NEW c \in batch'[u], NEW e \in batch'[v]
        PROVE  /\ c.attempt <= row'[c.id].attempts
               /\ c.id = e.id /\ (c.attempt = e.attempt \/ u = v) => u = v /\ c = e
    <3>1. c.attempt <= row'[c.id].attempts
      <4>1. CASE u = w
        <5>1. c.id \in Chosen /\ c.attempt = row[c.id].attempts + 1
          BY <2>4, <4>1
        <5>2. row'[c.id].attempts = row[c.id].attempts + 1 /\ row[c.id].attempts \in Nat
          BY <1>2, <2>1, <2>2, <5>1, ClaimsCount
        <5>3. QED
          BY <5>1, <5>2
      <4>2. CASE u # w
        <5>1. u \in Workers \ {w}
          BY <4>2
        <5>2. c.id \in Deliveries /\ c.attempt \in Nat /\ c.attempt <= row[c.id].attempts
          BY <2>3, <5>1
        <5>3. row'[c.id].attempts = row[c.id].attempts \/ row'[c.id].attempts = row[c.id].attempts + 1
          BY <1>2, <5>2, ClaimsCount
        <5>4. QED
          BY <2>2, <5>2, <5>3
      <4>3. QED
        BY <4>1, <4>2
    <3>2. ASSUME c.id = e.id, c.attempt = e.attempt \/ u = v PROVE u = v /\ c = e
      <4>1. CASE u = w /\ v = w
        BY <2>4, <3>2, <4>1
      <4>2. CASE u # w /\ v # w
        <5>1. c \in batch[u] /\ e \in batch[v]
          BY <2>3, <4>2
        <5>2. QED
          BY <3>2, <5>1 DEF ClaimsAreApart
      <4>3. CASE u = w /\ v # w
        <5>1. c.id \in Deliveries /\ c.attempt = row[c.id].attempts + 1
          BY <2>1, <2>4, <4>3
        <5>2. e.attempt \in Nat /\ e.attempt <= row[e.id].attempts
          BY <2>3, <4>3
        <5>3. QED
          BY <2>2, <3>2, <4>3, <5>1, <5>2
      <4>4. CASE u # w /\ v = w
        <5>1. e.id \in Deliveries /\ e.attempt = row[e.id].attempts + 1
          BY <2>1, <2>4, <4>4
        <5>2. c.attempt \in Nat /\ c.attempt <= row[c.id].attempts
          BY <2>3, <4>4
        <5>3. QED
          BY <2>2, <3>2, <4>4, <5>1, <5>2
      <4>5. QED
        BY <4>1, <4>2, <4>3, <4>4
    <3>3. QED
      BY <3>1, <3>2
  <2>6. ClaimsAreApart'
    BY <2>5, Zenon DEF ClaimsAreApart
  <2>7. ASSUME NEW v \in Workers, NEW c \in batch'[v], NEW e \in batch'[v], c.first
        PROVE  c.id <= e.id
    <3>1. CASE v = w
      <4>1. e.id \in Chosen /\ c.id = Min(Chosen)
        BY <2>4, <2>7, <3>1
      <4>2. \A y \in Chosen : Min(Chosen) <= y
        BY <2>1, <4>1, MinIsLeast
      <4>3. QED
        BY <4>1, <4>2
    <3>2. CASE v # w
      <4>1. c \in batch[v] /\ e \in batch[v]
        BY <2>3, <2>7, <3>2
      <4>2. QED
        BY <2>7, <4>1 DEF FirstsComeFirst
    <3>3. QED
      BY <3>1, <3>2
  <2>8. QED
    BY <2>6, <2>7 DEF FirstsComeFirst
<1>3. ASSUME ~ \E w \in Workers : Claim(w) PROVE ClaimsAreApart' /\ FirstsComeFirst'
  BY <1>3, OnlyClaimsCount, FewerClaims
<1>4. ClaimsAreApart' /\ FirstsComeFirst'
  BY <1>2, <1>3, Zenon
<1>5. QED
  BY <1>1, <1>4 DEF Apart

----------------------------------------------------------------------------
(* Who owns a row after a step.                                            *)

OwnsNext(c) == /\ row'[c.id].status = "sending"
               /\ row'[c.id].attempts = c.attempt
               /\ row'[c.id].lease = "live"

LEMMA ClaimsAreTyped ==
  ASSUME TypeOK, NEW v \in Workers, NEW c \in batch[v]
  PROVE  /\ c.id \in Deliveries /\ c.attempt \in 1..MaxAttempts /\ c \in Claims
         /\ row[c.id] \in DeliveryRow
BY Typing DEF Claims

\* New mail, a retry that comes due and a claim leave the owners of rows alone.
LEMMA UnownedRows ==
  ASSUME TypeOK, Apart, NEW v \in Workers, NEW c \in batch[v],
         (\E d \in Deliveries : Enqueue(d) \/ Due(d)) \/ (\E w \in Workers : Claim(w))
  PROVE  OwnsNext(c) <=> Owns(c)
<1>1. c.id \in Deliveries /\ c.attempt \in 1..MaxAttempts /\ row[c.id] \in DeliveryRow
  BY ClaimsAreTyped
<1>2. ASSUME NEW d \in Deliveries, Enqueue(d) \/ Due(d) PROVE OwnsNext(c) <=> Owns(c)
  <2>1. row[d].status # "sending" /\ row'[d].status # "sending"
        /\ \A e \in Deliveries \ {d} : row'[e] = row[e]
    BY <1>2, Typing DEF Enqueue, Due, DeliveryRow
  <2>2. QED
    BY <1>1, <2>1 DEF OwnsNext, Owns
<1>3. ASSUME NEW w \in Workers, Claim(w) PROVE OwnsNext(c) <=> Owns(c)
  <2>1. row'[c.id] = IF c.id \in Chosen THEN Leased(Settled[c.id]) ELSE Settled[c.id]
    BY <1>1, <1>3, ClaimInParts
  <2>2. CASE c.id \in Chosen
    <3>1. Claimable(Settled[c.id])
      BY <2>2, ChosenAreClaimable
    <3>2. ~Owns(c)
      BY <1>1, <3>1, SettledRows DEF Owns, DeliveryRow
    <3>3. row'[c.id].attempts = row[c.id].attempts + 1
      BY <1>1, <1>3, <2>2, ClaimsCount
    <3>4. c.attempt <= row[c.id].attempts
      BY DEF Apart, ClaimsAreApart
    <3>5. ~OwnsNext(c)
      BY <1>1, <3>3, <3>4, Numeric DEF OwnsNext, DeliveryRow
    <3>6. QED
      BY <3>2, <3>5
  <2>3. CASE c.id \notin Chosen
    <3>1. row'[c.id] = Settled[c.id]
      BY <2>1, <2>3
    <3>2. CASE Settled[c.id] = row[c.id]
      BY <3>1, <3>2 DEF OwnsNext, Owns
    <3>3. CASE Settled[c.id] # row[c.id]
      <4>1. ~OwnsNext(c)
        BY <1>1, <3>1, <3>3, SettledRows DEF OwnsNext
      <4>2. ~Owns(c)
        BY <1>1, <3>3, SettledRows DEF Owns, DeliveryRow
      <4>3. QED
        BY <4>1, <4>2
    <3>4. QED
      BY <3>2, <3>3
  <2>4. QED
    BY <2>2, <2>3
<1>4. QED
  BY <1>2, <1>3

\* Of two claims of one row, one owns it at most.
LEMMA OwnersAreOne ==
  ASSUME TypeOK, Apart, NEW v \in Workers, NEW w \in Workers,
         NEW c \in batch[v], NEW e \in batch[w],
         Owns(c), Owns(e), c.id = e.id
  PROVE  v = w /\ c = e
BY DEF Apart, ClaimsAreApart, Owns

\* The end of a send changes the row only for the claim that owned it.
LEMMA OthersKeepTheirs ==
  ASSUME TypeOK, Apart, NEW w \in Workers, Complete(w) \/ Fail(w)
  PROVE  /\ Sending(w) /\ Current(w) \in batch[w] /\ Current(w).id \in Deliveries
         /\ row' = row \/ (Holds(w) /\ row'[Current(w).id].status \in {"sent", "pending", "failed"})
         /\ \A d \in Deliveries : d # Current(w).id => row'[d] = row[d]
         /\ \A v \in Workers \ {w} : \A c \in batch[v] : OwnsNext(c) <=> Owns(c)
<1> DEFINE id == Current(w).id
           sent == [row[id] EXCEPT !.status = "sent", !.lease = "none"]
<1>1. Sending(w) /\ Current(w) \in batch[w] /\ id \in Deliveries
  BY CurrentIsFirst DEF Complete, Fail, Sending
<1>2. \/ row' = row
      \/ Holds(w) /\ \/ row' = [row EXCEPT ![id] = sent]
                     \/ row' = [row EXCEPT ![id] = Requeued(row[id])]
                     \/ row' = [row EXCEPT ![id] = Ended(row[id])]
  BY Zenon DEF Complete, Fail, Recordable, Holds
<1>3. row[id] \in DeliveryRow /\ row \in [Deliveries -> DeliveryRow]
  BY <1>1, Typing
<1>4. /\ sent.status = "sent" /\ Requeued(row[id]).status = "pending"
      /\ Ended(row[id]).status = "failed"
  <2>1. \A r \in DeliveryRow :
          /\ [r EXCEPT !.status = "sent", !.lease = "none"].status = "sent"
          /\ Requeued(r).status = "pending" /\ Ended(r).status = "failed"
    BY DEF DeliveryRow, Requeued, Ended
  <2>2. QED
    BY <1>3, <2>1
<1>5. /\ row' = row \/ (Holds(w) /\ row'[id].status \in {"sent", "pending", "failed"})
      /\ \A d \in Deliveries : d # id => row'[d] = row[d]
  <2> HIDE DEF id, sent
  <2>1. QED
    BY <1>1, <1>2, <1>3, <1>4
<1>6. ASSUME NEW v \in Workers \ {w}, NEW c \in batch[v] PROVE OwnsNext(c) <=> Owns(c)
  <2>1. c.id \in Deliveries
    BY ClaimsAreTyped
  <2>2. CASE c.id # id
    BY <1>5, <2>1, <2>2 DEF OwnsNext, Owns
  <2>3. CASE c.id = id /\ row' = row
    BY <2>3 DEF OwnsNext, Owns
  <2>4. CASE c.id = id /\ row' # row
    <3>1. Owns(Current(w)) /\ ~OwnsNext(c)
      BY <1>5, <2>4 DEF OwnsNext, Holds
    <3>2. ~Owns(c)
      BY <1>1, <2>4, <3>1, OwnersAreOne
    <3>3. QED
      BY <3>1, <3>2
  <2>5. QED
    BY <2>2, <2>3, <2>4
<1>7. QED
  BY <1>1, <1>5, <1>6

LEMMA LapsedRows ==
  ASSUME TypeOK, NEW d \in Deliveries, Lapse(d), NEW v \in Workers, NEW c \in batch[v]
  PROVE  /\ c.id # d => (OwnsNext(c) <=> Owns(c))
         /\ c.id = d => ~OwnsNext(c)
<1>1. c.id \in Deliveries /\ row[d] \in DeliveryRow
  BY ClaimsAreTyped, Typing
<1>2. row'[d].lease = "lapsed" /\ \A e \in Deliveries \ {d} : row'[e] = row[e]
  BY <1>1, Typing DEF Lapse, DeliveryRow
<1>3. QED
  BY <1>1, <1>2 DEF OwnsNext, Owns

----------------------------------------------------------------------------
(* What the provider took, and what rows say of it.                        *)

LEMMA HistoryGrows ==
  ASSUME TypeOK, Apart, Next
  PROVE  /\ \A d \in Deliveries : hist[d].accepted \subseteq hist'[d].accepted
         /\ \A v \in Workers : phase'[v] = "accepted" =>
              \/ phase[v] = "accepted" /\ batch'[v] = batch[v]
              \/ Accept(v)
<1> DEFINE P == /\ \A d \in Deliveries : hist[d].accepted \subseteq hist'[d].accepted
                /\ \A v \in Workers : phase'[v] = "accepted" =>
                     \/ phase[v] = "accepted" /\ batch'[v] = batch[v]
                     \/ Accept(v)
<1> USE Typing
<1>1. ASSUME NEW d \in Deliveries, Enqueue(d) \/ Due(d) \/ Lapse(d) PROVE P
  BY <1>1 DEF Enqueue, Due, Lapse
<1>2. ASSUME NEW w \in Workers, Claim(w) PROVE P
  <2>1. /\ phase' = phase /\ batch[w] = {}
        /\ \A v \in Workers \ {w} : batch'[v] = batch[v]
    BY <1>2, ClaimInParts
  <2>2. \A d \in Deliveries : hist'[d].accepted = hist[d].accepted
    BY <1>2, ClaimHeads
  <2>3. \A v \in Workers : phase[v] = "accepted" => batch'[v] = batch[v]
    BY <2>1 DEF Apart, Waiting
  <2>4. QED
    BY <2>1, <2>2, <2>3
<1>3. ASSUME NEW w \in Workers, Start(w) PROVE P
  <2>1. CASE Startable(Current(w))
    <3>1. \A d \in Deliveries : hist'[d].accepted = hist[d].accepted
      BY <1>3, <2>1, StartedIsTried DEF Start
    <3>2. QED
      BY <1>3, <2>1, <3>1 DEF Start
  <2>2. CASE ~Startable(Current(w))
    BY <1>3, <2>2, Turned DEF Start
  <2>3. QED
    BY <2>1, <2>2
<1>4. ASSUME NEW w \in Workers, StartFails(w) \/ Complete(w) \/ Fail(w) PROVE P
  BY <1>4, Turned DEF StartFails, Complete, Fail
<1>5. ASSUME NEW w \in Workers, Accept(w) \/ LoseAnswer(w) PROVE P
  <2>1. \A d \in Deliveries : hist[d].accepted \subseteq hist'[d].accepted
    BY <1>5, AcceptedGrows DEF Accept, LoseAnswer
  <2>2. QED
    BY <1>5, <2>1 DEF Accept, LoseAnswer
<1>6. ASSUME NEW w \in Workers, Refuse(w) \/ HeartbeatFails(w) \/ CompleteFails(w) PROVE P
  BY <1>6 DEF Refuse, HeartbeatFails, CompleteFails
<1>7. ASSUME NEW w \in Workers, Crash(w) PROVE P
  BY <1>7 DEF Crash
<1>8. QED
  BY <1>1, <1>2, <1>3, <1>4, <1>5, <1>6, <1>7 DEF Next

LEMMA SentRows ==
  ASSUME TypeOK, Apart, Next, NEW d \in Deliveries
  PROVE  /\ row[d].status = "sent" =>
              row'[d].status = "sent" /\ row'[d].attempts = row[d].attempts
         /\ row'[d].status = "sent" /\ row[d].status # "sent" =>
              \E w \in Workers : Complete(w) /\ Recordable(w) /\ Current(w).id = d
<1> DEFINE P == /\ row[d].status = "sent" =>
                     row'[d].status = "sent" /\ row'[d].attempts = row[d].attempts
                /\ row'[d].status = "sent" /\ row[d].status # "sent" =>
                     \E w \in Workers : Complete(w) /\ Recordable(w) /\ Current(w).id = d
<1>0. row[d] \in DeliveryRow /\ row \in [Deliveries -> DeliveryRow]
  BY Typing
<1>1. ASSUME NEW e \in Deliveries, Enqueue(e) \/ Due(e) \/ Lapse(e) PROVE P
  BY <1>0, <1>1 DEF Enqueue, Due, Lapse, DeliveryRow
<1>2. ASSUME NEW w \in Workers, Claim(w) PROVE P
  <2>1. row'[d] = IF d \in Chosen THEN Leased(Settled[d]) ELSE Settled[d]
    BY <1>2, ClaimInParts
  <2>2. d \in Chosen => row[d].status # "sent" /\ row'[d].status = "sending"
    BY <2>1, ChosenAreClaimable, SettledRows DEF Leased
  <2>3. d \notin Chosen => row'[d] = row[d] \/ (row'[d].status = "failed" /\ row[d].status # "sent")
    BY <2>1, SettledRows
  <2>4. QED
    BY <2>2, <2>3
<1>3. ASSUME NEW w \in Workers, row' = row PROVE P
  BY <1>3
<1>4. ASSUME NEW w \in Workers, Complete(w) \/ Fail(w), row' # row PROVE P
  <2>1. /\ Holds(w) /\ Current(w).id \in Deliveries
        /\ \A e \in Deliveries : e # Current(w).id => row'[e] = row[e]
    BY <1>4, OthersKeepTheirs
  <2>2. CASE d # Current(w).id
    BY <2>1, <2>2
  <2>3. CASE d = Current(w).id
    <3>1. row[d].status = "sending"
      BY <2>1, <2>3 DEF Holds, Owns
    <3>2. CASE Complete(w)
      BY <1>4, <2>3, <3>1, <3>2 DEF Complete
    <3>3. CASE Fail(w)
      <4>1. row'[d] = Requeued(row[d]) \/ row'[d] = Ended(row[d])
        BY <1>0, <1>4, <2>3, <3>3, Zenon DEF Fail
      <4>2. row'[d].status \in {"pending", "failed"}
        BY <1>0, <4>1 DEF Requeued, Ended, DeliveryRow
      <4>3. QED
        BY <3>1, <4>2
    <3>4. QED
      BY <1>4, <3>2, <3>3
  <2>4. QED
    BY <2>2, <2>3
<1>5. QED
  BY <1>1, <1>2, <1>3, <1>4
     DEF Next, Start, StartFails, Accept, LoseAnswer, Refuse, HeartbeatFails, CompleteFails, Crash

LEMMA AcceptedStaysKnown ==
  ASSUME TypeOK, TypeOK', Apart, Apart', AcceptedIsKnown, Next
  PROVE  AcceptedIsKnown'
<1>1. ASSUME NEW v \in Workers, phase'[v] = "accepted"
      PROVE  Current(v)'.attempt \in hist'[Current(v)'.id].accepted
  <2>1. CASE phase[v] = "accepted" /\ batch'[v] = batch[v]
    <3>1. Current(v)' = Current(v) /\ batch[v] # {}
      BY <2>1 DEF Current, Apart, Waiting
    <3>2. Current(v).id \in Deliveries
      BY <3>1, CurrentIsFirst
    <3>3. QED
      BY <2>1, <3>1, <3>2, HistoryGrows DEF AcceptedIsKnown
  <2>2. CASE Accept(v)
    <3>1. Current(v)' = Current(v) /\ Sending(v) /\ Accepted(v)
      BY <2>2 DEF Accept, Current
    <3>2. Current(v).id \in Deliveries
      BY <3>1, CurrentIsFirst DEF Sending
    <3>3. QED
      BY <3>1, <3>2, AcceptedGrows
  <2>3. QED
    BY <1>1, <2>1, <2>2, HistoryGrows
<1>2. ASSUME NEW d \in Deliveries, row'[d].status = "sent"
      PROVE  row'[d].attempts \in hist'[d].accepted
  <2>1. CASE row[d].status = "sent"
    BY <2>1, SentRows, HistoryGrows DEF AcceptedIsKnown
  <2>2. CASE row[d].status # "sent"
    <3>1. PICK w \in Workers : Complete(w) /\ Recordable(w) /\ Current(w).id = d
      BY <1>2, <2>2, SentRows
    <3>2. row'[d].attempts = row[d].attempts
      <4>1. row'[d] = [row[d] EXCEPT !.status = "sent", !.lease = "none"]
        BY <3>1, Typing, Zenon DEF Complete
      <4>2. row[d] \in DeliveryRow
        BY Typing
      <4>3. QED
        BY <4>1, <4>2 DEF DeliveryRow
    <3>3. row[d].attempts = Current(w).attempt /\ phase[w] = "accepted"
      BY <3>1 DEF Recordable, Owns, Complete
    <3>4. QED
      BY <3>1, <3>2, <3>3, HistoryGrows DEF AcceptedIsKnown
  <2>3. QED
    BY <2>1, <2>2
<1>3. QED
  BY <1>1, <1>2 DEF AcceptedIsKnown

----------------------------------------------------------------------------
(* Every step keeps the account.                                           *)

\* A worker between SMTP and the row keeps its place, and its hold on the row.
Stays(v) ==
  /\ phase'[v] = phase[v]
  /\ phase[v] \in {"smtp", "accepted"} =>
       Current(v)' = Current(v) /\ (Holds(v)' <=> Holds(v))

LEMMA StaysIf ==
  ASSUME TypeOK, Apart, NEW v \in Workers,
         batch'[v] = batch[v], phase'[v] = phase[v], lost'[v] = lost[v],
         \A c \in batch[v] : OwnsNext(c) <=> Owns(c)
  PROVE  Stays(v)
<1>1. Current(v)' = Current(v)
  BY DEF Current
<1>2. ASSUME phase[v] \in {"smtp", "accepted"} PROVE Holds(v)' <=> Holds(v)
  <2>1. batch[v] # {}
    BY <1>2 DEF Apart, Waiting
  <2>2. OwnsNext(Current(v)) <=> Owns(Current(v))
    BY <2>1, CurrentIsFirst
  <2>3. Owns(Current(v))' <=> OwnsNext(Current(v))
    BY <1>1 DEF Owns, OwnsNext
  <2>4. QED
    BY <2>2, <2>3 DEF Holds
<1>3. QED
  BY <1>1, <1>2 DEF Stays

\* The account changes for those workers only that do not stay.
LEMMA Accounts ==
  ASSUME TypeOK, Apart, Next, NEW moved \in SUBSET Workers,
         \A v \in Workers \ moved : Stays(v)
  PROVE  /\ \A v \in Orphans' : v \in moved \/ v \in Orphans
         /\ \A d \in Safe : d \in Safe' \/ \E w \in moved :
              phase[w] = "accepted" /\ Current(w).id = d /\ Holds(w)
<1>1. \A v \in Orphans' : v \in moved \/ v \in Orphans
  BY DEF Orphans, Stays
<1>2. ASSUME NEW d \in Safe
      PROVE  d \in Safe' \/ \E w \in moved :
               phase[w] = "accepted" /\ Current(w).id = d /\ Holds(w)
  <2>1. d \in Deliveries /\ d \in Delivered'
    BY HistoryGrows DEF Safe, Delivered
  <2>2. CASE row[d].status = "sent"
    BY <2>1, <2>2, SentRows DEF Safe
  <2>3. CASE Concluding(d)
    <3>1. PICK v \in Workers : phase[v] = "accepted" /\ Current(v).id = d /\ Holds(v)
      BY <2>3 DEF Concluding
    <3>2. CASE v \in moved
      BY <3>1, <3>2
    <3>3. CASE v \notin moved
      <4>1. phase'[v] = "accepted" /\ Current(v)' = Current(v) /\ Holds(v)'
        BY <3>1, <3>3 DEF Stays
      <4>2. Concluding(d)'
        BY <3>1, <4>1 DEF Concluding
      <4>3. QED
        BY <2>1, <4>2 DEF Safe
    <3>4. QED
      BY <3>2, <3>3
  <2>4. QED
    BY <2>2, <2>3 DEF Safe
<1>3. QED
  BY <1>1, <1>2

LEMMA AccountsOfOne ==
  ASSUME TypeOK, Apart, Next, NEW w \in Workers, \A v \in Workers \ {w} : Stays(v)
  PROVE  /\ \A v \in Orphans' : v = w \/ v \in Orphans
         /\ \A d \in Safe :
              d \in Safe' \/ (phase[w] = "accepted" /\ Current(w).id = d /\ Holds(w))
<1>1. {w} \in SUBSET Workers
  OBVIOUS
<1>2. /\ \A v \in Orphans' : v \in {w} \/ v \in Orphans
      /\ \A d \in Safe : d \in Safe' \/ \E v \in {w} :
           phase[v] = "accepted" /\ Current(v).id = d /\ Holds(v)
  BY <1>1, Accounts
<1>3. QED
  BY <1>2, Zenon

LEMMA SameAccepted ==
  ASSUME \A d \in Deliveries : hist'[d].accepted = hist[d].accepted
  PROVE  Acceptances' = Acceptances /\ Delivered' = Delivered
BY DEF Acceptances, Delivered

\* What the rest of this section shows of each step.
Paid == Quiet \/ Slip \/ Taken

LEMMA StayingIsPaid ==
  ASSUME TypeOK, Apart, Next, \A v \in Workers : Stays(v),
         \A d \in Deliveries : hist'[d].accepted = hist[d].accepted,
         faults' = faults \/ faults' = faults + 1
  PROVE  Paid
<1>1. Orphans' \subseteq Orphans /\ Safe \subseteq Safe'
  <2>1. {} \in SUBSET Workers /\ \A v \in Workers \ {} : Stays(v)
    OBVIOUS
  <2>2. QED
    BY <2>1, Accounts
<1>2. 1 \in Deliveries
  BY Numeric DEF Deliveries
<1>3. QED
  BY <1>1, <1>2, SameAccepted DEF Paid, Quiet, Slip

\* The step of a worker that accepts nothing and does not unsettle its delivery.
LEMMA TurningIsPaid ==
  ASSUME TypeOK, Apart, Next, NEW w \in Workers, \A v \in Workers \ {w} : Stays(v),
         \A d \in Deliveries : hist'[d].accepted = hist[d].accepted,
         faults' = faults, phase'[w] # "smtp" \/ Holds(w)',
         phase[w] = "accepted" /\ Holds(w) /\ Current(w).id \in Delivered
           => row'[Current(w).id].status = "sent"
  PROVE  Paid
<1>1. Orphans' \subseteq Orphans
  BY AccountsOfOne DEF Orphans
<1>2. ASSUME NEW d \in Safe PROVE d \in Safe'
  <2>1. d \in Safe' \/ (phase[w] = "accepted" /\ Current(w).id = d /\ Holds(w))
    BY AccountsOfOne, Zenon
  <2>2. d \in Delivered /\ d \in Deliveries
    BY DEF Safe, Delivered
  <2>3. QED
    BY <2>1, <2>2, SameAccepted DEF Safe
<1>3. QED
  BY <1>1, <1>2, SameAccepted DEF Paid, Quiet

\* A fault of a worker that has claims.
LEMMA FaultIsPaid ==
  ASSUME TypeOK, Apart, Next, NEW w \in Workers, \A v \in Workers \ {w} : Stays(v),
         \A d \in Deliveries : hist'[d].accepted = hist[d].accepted,
         batch[w] # {}, faults' = faults + 1,
         phase[w] = "accepted" => phase'[w] # "smtp"
  PROVE  Paid
<1>1. Current(w).id \in Deliveries
  BY CurrentIsFirst
<1>2. CASE phase[w] = "accepted"
  <2>1. Orphans' \subseteq Orphans
    BY <1>2, AccountsOfOne DEF Orphans
  <2>2. Safe \subseteq Safe' \union {Current(w).id}
    BY AccountsOfOne
  <2>3. QED
    BY <1>1, <2>1, <2>2, SameAccepted DEF Paid, Slip
<1>3. CASE phase[w] # "accepted"
  <2>1. Orphans' \subseteq Orphans \union {w}
    BY AccountsOfOne
  <2>2. Safe \subseteq Safe'
    BY <1>3, AccountsOfOne
  <2>3. QED
    BY <2>1, <2>2, SameAccepted DEF Paid, Slip
<1>4. QED
  BY <1>2, <1>3

LEMMA TimeIsPaid ==
  ASSUME TypeOK, Apart, Next, NEW d \in Deliveries, Enqueue(d) \/ Due(d) \/ Lapse(d)
  PROVE  Paid
<1>1. /\ batch' = batch /\ phase' = phase /\ lost' = lost /\ hist' = hist
      /\ faults' = faults \/ faults' = faults + 1
  BY DEF Enqueue, Due, Lapse, Fault
<1>2. CASE Enqueue(d) \/ Due(d)
  <2>1. ASSUME NEW v \in Workers PROVE Stays(v)
    <3>1. \A c \in batch[v] : OwnsNext(c) <=> Owns(c)
      BY <1>2, UnownedRows
    <3>2. QED
      BY <1>1, <3>1, StaysIf
  <2>2. QED
    BY <1>1, <2>1, StayingIsPaid
<1>3. CASE Lapse(d)
  <2> DEFINE hit == {v \in Workers : /\ phase[v] \in {"smtp", "accepted"}
                                     /\ Current(v).id = d /\ Holds(v)}
  <2>1. ASSUME NEW v \in Workers, v \notin hit PROVE Stays(v)
    <3>1. Current(v)' = Current(v)
      BY <1>1 DEF Current
    <3>2. ASSUME phase[v] \in {"smtp", "accepted"} PROVE Holds(v)' <=> Holds(v)
      <4>1. batch[v] # {}
        BY <3>2 DEF Apart, Waiting
      <4>2. /\ Current(v).id # d => (OwnsNext(Current(v)) <=> Owns(Current(v)))
            /\ Current(v).id = d => ~OwnsNext(Current(v))
        BY <1>3, <4>1, CurrentIsFirst, LapsedRows
      <4>3. Owns(Current(v))' <=> OwnsNext(Current(v))
        BY <3>1 DEF Owns, OwnsNext
      <4>4. Current(v).id = d => ~Holds(v)
        BY <2>1, <3>2
      <4>5. lost'[v] = lost[v]
        BY <1>1
      <4>6. QED
        BY <4>2, <4>3, <4>4, <4>5 DEF Holds
    <3>3. QED
      BY <1>1, <3>1, <3>2 DEF Stays
  <2>2. CASE hit = {}
    BY <1>1, <2>1, <2>2, StayingIsPaid
  <2>3. CASE hit # {}
    <3>1. PICK w \in hit : TRUE
      BY <2>3
    <3>2. w \in Workers /\ batch[w] # {} /\ Current(w) \in batch[w]
      BY <3>1, CurrentIsFirst DEF Apart, Waiting
    <3>3. \A v \in Workers \ {w} : Stays(v)
      <4>1. ASSUME NEW v \in Workers, v \in hit PROVE v = w
        <5>1. batch[v] # {} /\ Current(v) \in batch[v]
          BY <4>1, CurrentIsFirst DEF Apart, Waiting
        <5>2. QED
          BY <3>1, <3>2, <4>1, <5>1, OwnersAreOne DEF Holds
      <4>2. QED
        BY <2>1, <4>1
    <3>4. Kept(d)
      BY <3>1, <3>2 DEF Kept, Holds
    <3>5. faults' = faults + 1
      BY <1>3, <3>4 DEF Lapse, Fault
    <3>6. QED
      BY <1>1, <3>2, <3>3, <3>5, FaultIsPaid
  <2>4. QED
    BY <2>2, <2>3
<1>4. QED
  BY <1>2, <1>3

\* Workers whose row, batch and phase a step leaves alone stay.
LEMMA UntouchedStay ==
  ASSUME TypeOK, Apart, NEW v \in Workers, row' = row,
         batch'[v] = batch[v], phase'[v] = phase[v], lost'[v] = lost[v]
  PROVE  Stays(v)
<1>1. \A c \in batch[v] : OwnsNext(c) <=> Owns(c)
  BY DEF OwnsNext, Owns
<1>2. QED
  BY <1>1, StaysIf

LEMMA ClaimIsPaid ==
  ASSUME TypeOK, Apart, Next, NEW w \in Workers, Claim(w)
  PROVE  Paid
<1>1. phase' = phase /\ lost' = lost /\ faults' = faults
  BY ClaimInParts
<1>2. ASSUME NEW v \in Workers \ {w} PROVE Stays(v)
  <2>1. batch'[v] = batch[v]
    BY ClaimsCount
  <2>2. \A c \in batch[v] : OwnsNext(c) <=> Owns(c)
    BY UnownedRows
  <2>3. QED
    BY <1>1, <2>1, <2>2, StaysIf
<1>3. phase[w] = "next"
  BY ClaimInParts DEF Apart, Waiting
<1>4. Stays(w)
  BY <1>1, <1>3 DEF Stays
<1>5. QED
  BY <1>1, <1>2, <1>4, ClaimHeads, StayingIsPaid

LEMMA StartIsPaid ==
  ASSUME TypeOK, Apart, Next, NEW w \in Workers, Start(w) \/ StartFails(w)
  PROVE  Paid
<1>1. row' = row /\ batch[w] # {} /\ phase[w] = "next" /\ ~lost[w]
  BY DEF Start, StartFails, Apart, Waiting
<1>2. CASE Start(w) /\ Startable(Current(w))
  <2>1. /\ batch' = batch /\ lost' = lost /\ phase'[w] = "smtp" /\ faults' = faults
        /\ \A v \in Workers \ {w} : phase'[v] = phase[v]
    BY <1>2, Typing DEF Start
  <2>2. \A v \in Workers \ {w} : Stays(v)
    BY <1>1, <2>1, UntouchedStay
  <2>3. \A d \in Deliveries : hist'[d].accepted = hist[d].accepted
    BY <1>1, <1>2, StartedIsTried DEF Start
  <2>4. Holds(w)'
    <3>1. Current(w)' = Current(w)
      BY <2>1 DEF Current
    <3>2. QED
      BY <1>1, <1>2, <2>1, <3>1 DEF Holds, Owns, Startable
  <2>5. QED
    BY <1>1, <2>1, <2>2, <2>3, <2>4, TurningIsPaid
<1>3. CASE Start(w) /\ ~Startable(Current(w))
  <2>1. TurnToNext(w) /\ hist' = hist /\ faults' = faults
    BY <1>3 DEF Start
  <2>2. \A v \in Workers \ {w} : Stays(v)
    BY <1>1, <2>1, Turned, UntouchedStay
  <2>3. phase'[w] # "smtp"
    BY <2>1, Turned
  <2>4. QED
    BY <1>1, <2>1, <2>2, <2>3, TurningIsPaid
<1>4. CASE StartFails(w)
  <2>1. TurnToNext(w) /\ hist' = hist /\ faults' = faults + 1
    BY <1>4 DEF StartFails, Fault
  <2>2. \A v \in Workers \ {w} : Stays(v)
    BY <1>1, <2>1, Turned, UntouchedStay
  <2>3. QED
    BY <1>1, <2>1, <2>2, FaultIsPaid
<1>5. QED
  BY <1>2, <1>3, <1>4

LEMMA TakingIsPaid ==
  ASSUME TypeOK, Apart, Next, NEW w \in Workers, Accept(w) \/ LoseAnswer(w)
  PROVE  Paid
<1>1. /\ Sending(w) /\ phase[w] = "smtp" /\ Accepted(w) /\ phase'[w] # "smtp"
      /\ row' = row /\ batch' = batch /\ lost' = lost
      /\ \A v \in Workers \ {w} : phase'[v] = phase[v]
  BY Typing DEF Accept, LoseAnswer
<1>2. PICK d \in Deliveries, a \in 1..MaxAttempts :
        d = Current(w).id /\ a = Current(w).attempt /\ Current(w) \in batch[w]
  BY <1>1, CurrentIsFirst DEF Sending
<1>3. /\ \A v \in Workers \ {w} : Stays(v)
      /\ Orphans' \subseteq Orphans \ {w} /\ Safe \subseteq Safe'
  <2>1. \A v \in Workers \ {w} : Stays(v)
    BY <1>1, UntouchedStay
  <2>2. Orphans' \subseteq Orphans \ {w}
    BY <1>1, <2>1, AccountsOfOne DEF Orphans
  <2>3. Safe \subseteq Safe'
    BY <1>1, <2>1, AccountsOfOne
  <2>4. QED
    BY <2>1, <2>2, <2>3
<1>4. \A e \in Deliveries : hist'[e].accepted =
        IF e = d THEN hist[e].accepted \union {a} ELSE hist[e].accepted
  BY <1>1, <1>2, AcceptedGrows
<1>5. /\ Acceptances' \subseteq Acceptances \union {<<d, a>>}
      /\ Delivered' \subseteq Delivered \union {d} /\ d \in Delivered'
  <2>1. ASSUME NEW pair \in Acceptances' PROVE pair \in Acceptances \/ pair = <<d, a>>
    <3>1. /\ pair \in Deliveries \X (1..MaxAttempts) /\ pair[1] \in Deliveries
          /\ pair[2] \in hist'[pair[1]].accepted /\ pair = <<pair[1], pair[2]>>
      BY DEF Acceptances
    <3>2. pair[2] \in hist[pair[1]].accepted \/ (pair[1] = d /\ pair[2] = a)
      BY <1>4, <3>1
    <3>3. QED
      BY <3>1, <3>2 DEF Acceptances
  <2>2. \A e \in Delivered' : e \in Delivered \/ e = d
    BY <1>4 DEF Delivered
  <2>3. d \in Delivered'
    BY <1>2, <1>4 DEF Delivered
  <2>4. QED
    BY <2>1, <2>2, <2>3
<1>6. CASE LoseAnswer(w)
  BY <1>2, <1>3, <1>5, <1>6 DEF LoseAnswer, Fault, Paid, Taken
<1>7. CASE Accept(w) /\ w \in Orphans
  BY <1>2, <1>3, <1>5, <1>7 DEF Accept, Paid, Taken
<1>8. CASE Accept(w) /\ w \notin Orphans
  <2>1. Holds(w)
    BY <1>1, <1>8 DEF Orphans
  <2>2. d \notin Safe
    <3>1. row[d].status # "sent"
      BY <1>2, <2>1 DEF Holds, Owns
    <3>2. ASSUME NEW v \in Workers, phase[v] = "accepted", Current(v).id = d, Holds(v) PROVE FALSE
      <4>1. Current(v) \in batch[v]
        BY <3>2, CurrentIsFirst DEF Apart, Waiting
      <4>2. v = w
        BY <1>2, <2>1, <3>2, <4>1, OwnersAreOne DEF Holds
      <4>3. QED
        BY <1>1, <3>2, <4>2
    <3>3. QED
      BY <3>1, <3>2 DEF Safe, Concluding
  <2>3. d \in Safe'
    <3>1. Current(w)' = Current(w) /\ phase'[w] = "accepted"
      BY <1>1, <1>8, Typing DEF Current, Accept
    <3>2. Holds(w)'
      BY <1>1, <2>1, <3>1 DEF Holds, Owns
    <3>3. Concluding(d)'
      BY <1>2, <3>1, <3>2 DEF Concluding
    <3>4. QED
      BY <1>5, <3>3 DEF Safe
  <2>4. QED
    BY <1>2, <1>3, <1>5, <1>8, <2>2, <2>3 DEF Accept, Paid, Taken
<1>9. QED
  BY <1>6, <1>7, <1>8

LEMMA OtherFaultsArePaid ==
  ASSUME TypeOK, Apart, Next, NEW w \in Workers,
         HeartbeatFails(w) \/ CompleteFails(w) \/ Crash(w)
  PROVE  Paid
<1>1. /\ row' = row /\ hist' = hist /\ faults' = faults + 1 /\ batch[w] # {}
      /\ phase'[w] = phase[w] \/ phase'[w] # "smtp"
      /\ \A v \in Workers \ {w} :
           batch'[v] = batch[v] /\ phase'[v] = phase[v] /\ lost'[v] = lost[v]
  BY Typing DEF HeartbeatFails, CompleteFails, Crash, Fault, Sending
<1>2. \A v \in Workers \ {w} : Stays(v)
  BY <1>1, UntouchedStay
<1>3. QED
  BY <1>1, <1>2, FaultIsPaid

LEMMA RefusalIsPaid ==
  ASSUME TypeOK, Apart, Next, NEW w \in Workers, Refuse(w)
  PROVE  Paid
<1>1. /\ row' = row /\ hist' = hist /\ faults' = faults
      /\ phase[w] = "smtp" /\ phase'[w] # "smtp"
      /\ \A v \in Workers \ {w} :
           batch'[v] = batch[v] /\ phase'[v] = phase[v] /\ lost'[v] = lost[v]
  BY Typing DEF Refuse
<1>2. \A v \in Workers \ {w} : Stays(v)
  BY <1>1, UntouchedStay
<1>3. QED
  BY <1>1, <1>2, TurningIsPaid

LEMMA EndingIsPaid ==
  ASSUME TypeOK, Apart, Next, NEW w \in Workers, Complete(w) \/ Fail(w)
  PROVE  Paid
<1>1. TurnToNext(w) /\ hist' = hist /\ faults' = faults /\ Sending(w)
  BY DEF Complete, Fail
<1>2. ASSUME NEW v \in Workers \ {w} PROVE Stays(v)
  <2>1. \A c \in batch[v] : OwnsNext(c) <=> Owns(c)
    BY OthersKeepTheirs
  <2>2. batch'[v] = batch[v] /\ phase'[v] = phase[v] /\ lost'[v] = lost[v]
    BY <1>1, Turned
  <2>3. QED
    BY <2>1, <2>2, StaysIf
<1>3. phase'[w] # "smtp"
  BY <1>1, Turned
<1>4. ASSUME phase[w] = "accepted", Holds(w) PROVE row'[Current(w).id].status = "sent"
  <2>1. Complete(w) /\ Recordable(w)
    BY <1>4 DEF Fail, Recordable, Holds
  <2>2. row'[Current(w).id] = [row[Current(w).id] EXCEPT !.status = "sent", !.lease = "none"]
    BY <1>1, <2>1, Typing, CurrentIsFirst, Zenon DEF Complete, Sending
  <2>3. row[Current(w).id] \in DeliveryRow
    BY <1>1, Typing, CurrentIsFirst DEF Sending
  <2>4. QED
    BY <2>2, <2>3 DEF DeliveryRow
<1>5. QED
  BY <1>1, <1>2, <1>3, <1>4, TurningIsPaid

LEMMA EveryStepIsPaid ==
  ASSUME TypeOK, Apart, Next
  PROVE  Paid
BY TimeIsPaid, ClaimIsPaid, StartIsPaid, TakingIsPaid, OtherFaultsArePaid, RefusalIsPaid,
   EndingIsPaid DEF Next

----------------------------------------------------------------------------
(* The first of a batch is tried.                                          *)

\* A worker that is at the head of a batch stays there.
LEMMA HeadStays ==
  ASSUME TypeOK, NEW d \in Deliveries, NEW w \in Workers,
         batch[w] # {}, phase[w] = "next", Current(w).id = d, Current(w).first,
         batch'[w] = batch[w], phase'[w] = phase[w], OwnsNext(Current(w))
  PROVE  AtHead(d)'
<1>1. Current(w)' = Current(w)
  BY DEF Current
<1>2. Owns(Current(w))'
  BY <1>1 DEF Owns, OwnsNext
<1>3. QED
  BY <1>1, <1>2 DEF AtHead

LEMMA ClaimedIsAtHead ==
  ASSUME TypeOK, TypeOK', Apart, NEW w \in Workers, Claim(w), Chosen # {},
         NEW d \in Deliveries, d = Min(Chosen)
  PROVE  AtHead(d)'
<1>1. d \in Chosen /\ \A e \in Chosen : d <= e
  BY ChosenAreClaimable, MinIsLeast, Numeric
<1>2. Chosen \in SUBSET Nat
  BY ChosenAreClaimable, Numeric
<1>3. batch'[w] = {NewClaim(e) : e \in Chosen} /\ phase'[w] = "next"
  BY ClaimsCount, ClaimInParts DEF Apart, Waiting
<1>4. NewClaim(d) \in batch'[w] /\ batch'[w] # {}
  BY <1>1, <1>3
<1>5. Current(w)' \in batch'[w] /\ Current(w)'.id <= d
  <2>1. NewClaim(d).id = d
    BY DEF NewClaim
  <2>2. QED
    BY <1>4, <2>1, CurrentIsFirstNext
<1>6. PICK e \in Chosen : Current(w)' = NewClaim(e)
  BY <1>3, <1>5
<1>7. e = d
  <2>1. e <= d /\ d <= e
    BY <1>1, <1>5, <1>6 DEF NewClaim
  <2>2. QED
    BY <1>1, <1>2, <1>6, <2>1
<1>8. Current(w)'.id = d /\ Current(w)'.first /\ Current(w)'.attempt = row[d].attempts + 1
  <2>1. NewClaim(d).id = d /\ NewClaim(d).attempt = row[d].attempts + 1
    BY DEF NewClaim
  <2>2. NewClaim(d).first = (d = Min(Chosen))
    BY DEF NewClaim
  <2>3. QED
    BY <1>6, <1>7, <2>1, <2>2
<1>9. row'[d].status = "sending" /\ row'[d].lease = "live" /\ row'[d].attempts = row[d].attempts + 1
  <2>1. row'[d] = Leased(Settled[d])
    BY <1>1, ClaimInParts
  <2>2. QED
    BY <1>1, <2>1, ClaimsCount DEF Leased
<1>10. Owns(Current(w))'
  BY <1>8, <1>9 DEF Owns
<1>11. QED
  BY <1>3, <1>4, <1>8, <1>10 DEF AtHead

LEMMA HeadsKeepWaiting ==
  ASSUME TypeOK, TypeOK', Apart, HeadsWait, Next
  PROVE  HeadsWait'
<1>1. SUFFICES ASSUME faults' = 0, NEW d \in Deliveries, hist'[d].headed
               PROVE  hist'[d].tried \/ AtHead(d)'
  BY DEF HeadsWait
<1>2. faults \in Nat
  BY Typing
<1> DEFINE P == hist'[d].tried \/ AtHead(d)'
<1>3. ASSUME faults = 0, hist[d].headed PROVE hist[d].tried \/ AtHead(d)
  BY <1>3 DEF HeadsWait
<1>4. ASSUME NEW e \in Deliveries, Enqueue(e) \/ Due(e) \/ Lapse(e) PROVE P
  <2>1. hist' = hist /\ batch' = batch /\ phase' = phase
    BY <1>4 DEF Enqueue, Due, Lapse
  <2>2. faults = 0
    BY <1>1, <1>2, <1>4 DEF Enqueue, Due, Lapse, Fault
  <2>3. CASE AtHead(d)
    <3>1. PICK w \in Workers : /\ batch[w] # {} /\ phase[w] = "next" /\ Current(w).id = d
                              /\ Current(w).first /\ Owns(Current(w))
      BY <2>3 DEF AtHead
    <3>2. Current(w) \in batch[w]
      BY <3>1, CurrentIsFirst
    <3>3. CASE Enqueue(e) \/ Due(e)
      <4>1. OwnsNext(Current(w))
        BY <3>1, <3>2, <3>3, UnownedRows
      <4>2. QED
        BY <2>1, <3>1, <4>1, HeadStays
    <3>4. CASE Lapse(e)
      <4>1. d # e
        BY <1>1, <1>2, <2>2, <3>1, <3>4 DEF Lapse, Kept, Fault
      <4>2. OwnsNext(Current(w))
        BY <3>1, <3>2, <3>4, <4>1, LapsedRows
      <4>3. QED
        BY <2>1, <3>1, <4>2, HeadStays
    <3>5. QED
      BY <1>4, <3>3, <3>4
  <2>4. CASE hist[d].tried
    BY <2>1, <2>4
  <2>5. QED
    BY <1>1, <1>3, <2>1, <2>2, <2>3, <2>4
<1>5. ASSUME NEW w \in Workers, Claim(w) PROVE P
  <2>1. /\ hist'[d].tried = hist[d].tried /\ faults = 0
        /\ hist[d].headed \/ (Chosen # {} /\ d = Min(Chosen))
    BY <1>1, <1>5, ClaimHeads, ClaimInParts DEF NowHeaded
  <2>2. CASE Chosen # {} /\ d = Min(Chosen)
    BY <1>5, <2>2, ClaimedIsAtHead
  <2>3. CASE hist[d].headed /\ AtHead(d)
    <3>1. PICK v \in Workers : /\ batch[v] # {} /\ phase[v] = "next" /\ Current(v).id = d
                              /\ Current(v).first /\ Owns(Current(v))
      BY <2>3 DEF AtHead
    <3>2. batch'[v] = batch[v] /\ phase'[v] = phase[v]
      BY <1>5, <3>1, ClaimInParts, ClaimsCount
    <3>3. OwnsNext(Current(v))
      BY <1>5, <3>1, CurrentIsFirst, UnownedRows
    <3>4. QED
      BY <3>1, <3>2, <3>3, HeadStays
  <2>4. QED
    BY <1>3, <2>1, <2>2, <2>3
<1>6. ASSUME NEW w \in Workers, Start(w) PROVE P
  <2>1. row' = row /\ faults = 0 /\ batch[w] # {} /\ phase[w] = "next"
    BY <1>1, <1>6 DEF Start
  <2>2. CASE Startable(Current(w))
    <3>1. /\ hist'[d].headed = hist[d].headed
          /\ d # Current(w).id => hist'[d].tried = hist[d].tried
          /\ d = Current(w).id => hist'[d].tried
      BY <1>6, <2>1, <2>2, StartedIsTried DEF Start
    <3>2. CASE AtHead(d) /\ d # Current(w).id
      <4>1. PICK v \in Workers : /\ batch[v] # {} /\ phase[v] = "next" /\ Current(v).id = d
                                /\ Current(v).first /\ Owns(Current(v))
        BY <3>2 DEF AtHead
      <4>2. batch'[v] = batch[v] /\ phase'[v] = phase[v] /\ OwnsNext(Current(v))
        BY <1>6, <2>1, <2>2, <3>2, <4>1, Typing DEF Start, Owns, OwnsNext
      <4>3. QED
        BY <4>1, <4>2, HeadStays
    <3>3. QED
      BY <1>1, <1>3, <2>1, <3>1, <3>2
  <2>3. CASE ~Startable(Current(w))
    <3>1. TurnToNext(w) /\ hist' = hist
      BY <1>6, <2>3 DEF Start
    <3>2. CASE AtHead(d)
      <4>1. PICK v \in Workers : /\ batch[v] # {} /\ phase[v] = "next" /\ Current(v).id = d
                                /\ Current(v).first /\ Owns(Current(v))
        BY <3>2 DEF AtHead
      <4>2. v # w
        BY <2>3, <4>1 DEF Startable
      <4>3. batch'[v] = batch[v] /\ phase'[v] = phase[v] /\ OwnsNext(Current(v))
        BY <2>1, <3>1, <4>1, <4>2, Turned DEF Owns, OwnsNext
      <4>4. QED
        BY <4>1, <4>3, HeadStays
    <3>3. QED
      BY <1>1, <1>3, <2>1, <3>1, <3>2
  <2>4. QED
    BY <2>2, <2>3
<1>7. ASSUME NEW w \in Workers, Accept(w) \/ Refuse(w) PROVE P
  <2>1. /\ row' = row /\ batch' = batch /\ faults = 0 /\ phase[w] = "smtp"
        /\ \A v \in Workers \ {w} : phase'[v] = phase[v]
    BY <1>1, <1>7, Typing DEF Accept, Refuse
  <2>2. hist'[d].headed = hist[d].headed /\ hist'[d].tried = hist[d].tried
    BY <1>7, AcceptedGrows DEF Accept, Refuse
  <2>3. CASE AtHead(d)
    <3>1. PICK v \in Workers : /\ batch[v] # {} /\ phase[v] = "next" /\ Current(v).id = d
                              /\ Current(v).first /\ Owns(Current(v))
      BY <2>3 DEF AtHead
    <3>2. phase'[v] = phase[v] /\ batch'[v] = batch[v] /\ OwnsNext(Current(v))
      BY <2>1, <3>1 DEF Owns, OwnsNext
    <3>3. QED
      BY <3>1, <3>2, HeadStays
  <2>4. QED
    BY <1>1, <1>3, <2>1, <2>2, <2>3
<1>8. ASSUME NEW w \in Workers, Complete(w) \/ Fail(w) PROVE P
  <2>1. hist' = hist /\ faults = 0 /\ TurnToNext(w) /\ phase[w] # "next"
    BY <1>1, <1>8 DEF Complete, Fail, Sending
  <2>2. CASE AtHead(d)
    <3>1. PICK v \in Workers : /\ batch[v] # {} /\ phase[v] = "next" /\ Current(v).id = d
                              /\ Current(v).first /\ Owns(Current(v))
      BY <2>2 DEF AtHead
    <3>2. v # w /\ Current(v) \in batch[v]
      BY <2>1, <3>1, CurrentIsFirst
    <3>3. phase'[v] = phase[v] /\ batch'[v] = batch[v]
      BY <2>1, <3>2, Turned
    <3>4. OwnsNext(Current(v))
      BY <1>8, <3>1, <3>2, OthersKeepTheirs
    <3>5. QED
      BY <3>1, <3>3, <3>4, HeadStays
  <2>3. QED
    BY <1>1, <1>3, <2>1, <2>2
<1>9. ASSUME NEW w \in Workers, StartFails(w) \/ LoseAnswer(w) \/ HeartbeatFails(w)
                                \/ CompleteFails(w) \/ Crash(w)
      PROVE  P
  BY <1>1, <1>2, <1>9 DEF StartFails, LoseAnswer, HeartbeatFails, CompleteFails, Crash, Fault
<1>10. QED
  BY <1>4, <1>5, <1>6, <1>7, <1>8, <1>9 DEF Next

----------------------------------------------------------------------------
(* An attempt has the provider take the message once.                      *)

\* A worker keeps its batch and does not go back before SMTP, or is done with
\* its claim.
Proceeds(v) ==
  \/ batch'[v] = batch[v] /\ (phase[v] \notin Early => phase'[v] \notin Early)
  \/ batch'[v] \subseteq batch[v] \ {Current(v)}

SameTaken == \A d \in Deliveries : hist'[d].accepted = hist[d].accepted
Takes(w) == Accept(w) \/ LoseAnswer(w)

LEMMA WorkProceeds ==
  ASSUME TypeOK, Apart, Next, ~ \E w \in Workers : Claim(w)
  PROVE  /\ \A v \in Workers : Proceeds(v)
         /\ SameTaken \/ \E w \in Workers : Takes(w)
<1> DEFINE P == /\ \A v \in Workers : Proceeds(v)
                /\ SameTaken \/ \E w \in Workers : Takes(w)
<1> USE Typing
<1>1. ASSUME NEW d \in Deliveries, Enqueue(d) \/ Due(d) \/ Lapse(d) PROVE P
  BY <1>1 DEF Enqueue, Due, Lapse, Proceeds, SameTaken
<1>2. ASSUME NEW w \in Workers, TurnToNext(w), hist' = hist PROVE P
  <2>1. \A v \in Workers : Proceeds(v)
    BY <1>2, Turned DEF Proceeds
  <2>2. QED
    BY <1>2, <2>1 DEF SameTaken
<1>3. ASSUME NEW w \in Workers, Start(w), Startable(Current(w)) PROVE P
  <2>1. SameTaken
    BY <1>3, StartedIsTried DEF Start, SameTaken
  <2>2. \A v \in Workers : Proceeds(v)
    BY <1>3 DEF Start, Proceeds, Early
  <2>3. QED
    BY <2>1, <2>2
<1>4. ASSUME NEW w \in Workers, Takes(w) PROVE P
  <2>1. \A v \in Workers : Proceeds(v)
    BY <1>4 DEF Takes, Accept, LoseAnswer, Proceeds, Early
  <2>2. QED
    BY <1>4, <2>1
<1>5. ASSUME NEW w \in Workers, Refuse(w) \/ HeartbeatFails(w) \/ CompleteFails(w) PROVE P
  BY <1>5 DEF Refuse, HeartbeatFails, CompleteFails, Proceeds, SameTaken, Early
<1>6. ASSUME NEW w \in Workers, Crash(w) PROVE P
  BY <1>6 DEF Crash, Proceeds, SameTaken
<1>7. ASSUME NEW w \in Workers, StartFails(w) \/ Complete(w) \/ Fail(w) PROVE P
  BY <1>2, <1>7 DEF StartFails, Complete, Fail
<1>8. ASSUME NEW w \in Workers, Start(w) PROVE P
  BY <1>2, <1>3, <1>8 DEF Start
<1>9. QED
  BY <1>1, <1>4, <1>5, <1>6, <1>7, <1>8 DEF Next, Takes

\* Only a producer queues a delivery, and no step takes it out.
LEMMA QueuedStays ==
  ASSUME TypeOK, Apart, Next, NEW d \in Deliveries, row'[d].status = "absent"
  PROVE  row[d].status = "absent" /\ row'[d].attempts = row[d].attempts
<1> DEFINE P == row[d].status = "absent" /\ row'[d].attempts = row[d].attempts
<1>0. row[d] \in DeliveryRow /\ row \in [Deliveries -> DeliveryRow]
  BY Typing
<1>1. ASSUME NEW e \in Deliveries, Enqueue(e) \/ Due(e) \/ Lapse(e) PROVE P
  BY <1>0, <1>1 DEF Enqueue, Due, Lapse, DeliveryRow
<1>2. ASSUME NEW w \in Workers, Claim(w) PROVE P
  <2>1. row'[d] = IF d \in Chosen THEN Leased(Settled[d]) ELSE Settled[d]
    BY <1>2, ClaimInParts
  <2>2. QED
    BY <2>1, SettledRows DEF Leased
<1>3. ASSUME NEW w \in Workers, Complete(w) \/ Fail(w) PROVE P
  BY <1>3, OthersKeepTheirs
<1>4. QED
  BY <1>1, <1>2, <1>3
     DEF Next, Start, StartFails, Accept, LoseAnswer, Refuse, HeartbeatFails, CompleteFails, Crash

LEMMA TakenOnceIsKept ==
  ASSUME TypeOK, TypeOK', Apart, TakenOnce, Next
  PROVE  TakenOnce'
<1>0. \A d \in Deliveries : row[d].attempts \in Nat /\ hist[d].accepted \in SUBSET Nat
  BY Typing, Numeric DEF DeliveryRow, Seen
<1>1. \A d \in Deliveries : row'[d].status = "absent" => row'[d].attempts = 0
  BY QueuedStays DEF TakenOnce
<1>2. CASE \E w \in Workers : Claim(w)
  <2>1. PICK w \in Workers : Claim(w)
    BY <1>2
  <2>2. SameTaken
    BY <2>1, ClaimHeads DEF SameTaken
  <2>3. \A d \in Deliveries : \A a \in hist'[d].accepted : a <= row'[d].attempts
    <3>1. TAKE d \in Deliveries
    <3>2. TAKE a \in hist'[d].accepted
    <3>3. a \in Nat /\ a <= row[d].attempts
      BY <1>0, <2>2 DEF SameTaken, TakenOnce
    <3>4. QED
      BY <1>0, <2>1, <3>3, ClaimsCount
  <2>4. ASSUME NEW v \in Workers, NEW c \in batch'[v], c.attempt \in hist'[c.id].accepted
        PROVE  c = Current(v)' /\ phase'[v] \notin Early
    <3>1. CASE v = w
      <4>1. c.id \in Chosen /\ c.attempt = row[c.id].attempts + 1
        BY <2>1, <3>1, ClaimsCount DEF NewClaim
      <4>2. c.id \in Deliveries
        BY <4>1, ChosenAreClaimable
      <4>3. c.attempt \in hist[c.id].accepted
        BY <2>2, <2>4, <4>2 DEF SameTaken
      <4>4. QED
        BY <1>0, <4>1, <4>2, <4>3 DEF TakenOnce
    <3>2. CASE v # w
      <4>1. batch'[v] = batch[v] /\ phase'[v] = phase[v]
        BY <2>1, <3>2, ClaimsCount, ClaimInParts
      <4>2. c.id \in Deliveries
        BY <4>1, ClaimsAreTyped
      <4>3. c = Current(v) /\ phase[v] \notin Early
        BY <2>2, <2>4, <4>1, <4>2 DEF SameTaken, TakenOnce
      <4>4. QED
        BY <4>1, <4>3 DEF Current
    <3>3. QED
      BY <3>1, <3>2
  <2>5. QED
    BY <1>1, <2>3, <2>4 DEF TakenOnce
<1>3. CASE ~ \E w \in Workers : Claim(w)
  <2>1. /\ \A v \in Workers : batch'[v] \subseteq batch[v] /\ Proceeds(v)
        /\ \A d \in Deliveries : row'[d].attempts = row[d].attempts
    BY <1>3, OnlyClaimsCount, WorkProceeds
  <2>2. ASSUME NEW v \in Workers, NEW c \in batch'[v], c.attempt \in hist[c.id].accepted
        PROVE  c = Current(v)' /\ phase'[v] \notin Early
    <3>1. c \in batch[v] /\ c = Current(v) /\ phase[v] \notin Early
      BY <2>1, <2>2 DEF TakenOnce
    <3>2. batch'[v] = batch[v] /\ phase'[v] \notin Early
      BY <2>1, <3>1 DEF Proceeds
    <3>3. QED
      BY <3>1, <3>2 DEF Current
  <2>3. CASE SameTaken
    <3>1. \A d \in Deliveries : \A a \in hist'[d].accepted : a <= row'[d].attempts
      BY <2>1, <2>3 DEF SameTaken, TakenOnce
    <3>2. \A v \in Workers : \A c \in batch'[v] : c.id \in Deliveries
      BY <2>1, ClaimsAreTyped
    <3>3. QED
      BY <1>1, <2>2, <2>3, <3>1, <3>2 DEF SameTaken, TakenOnce
  <2>4. ASSUME NEW w \in Workers, Takes(w) PROVE TakenOnce'
    <3>1. /\ Sending(w) /\ Accepted(w) /\ batch' = batch /\ phase'[w] \notin Early
          /\ row' = row
      BY <2>4, Typing DEF Takes, Accept, LoseAnswer, Early
    <3>2. Current(w) \in batch[w] /\ Current(w).id \in Deliveries
      BY <3>1, CurrentIsFirst DEF Sending
    <3>3. \A d \in Deliveries :
            hist'[d].accepted = IF d = Current(w).id
                                THEN hist[d].accepted \union {Current(w).attempt}
                                ELSE hist[d].accepted
      BY <3>1, AcceptedGrows
    <3>4. Current(w).attempt <= row[Current(w).id].attempts
      BY <3>2 DEF Apart, ClaimsAreApart
    <3>5. \A d \in Deliveries : \A a \in hist'[d].accepted : a <= row'[d].attempts
      BY <3>1, <3>3, <3>4 DEF TakenOnce
    <3>6. ASSUME NEW v \in Workers, NEW c \in batch'[v], c.attempt \in hist'[c.id].accepted
          PROVE  c = Current(v)' /\ phase'[v] \notin Early
      <4>1. c \in batch[v] /\ c.id \in Deliveries
        BY <3>1, ClaimsAreTyped
      <4>2. CASE c.attempt \in hist[c.id].accepted
        BY <2>2, <4>2
      <4>3. CASE c.id = Current(w).id /\ c.attempt = Current(w).attempt
        <5>1. v = w /\ c = Current(w)
          BY <3>2, <4>1, <4>3 DEF Apart, ClaimsAreApart
        <5>2. QED
          BY <3>1, <5>1 DEF Current
      <4>4. QED
        BY <3>3, <3>6, <4>1, <4>2, <4>3
    <3>7. QED
      BY <1>1, <3>5, <3>6 DEF TakenOnce
  <2>5. QED
    BY <1>3, <2>3, <2>4, WorkProceeds
<1>4. QED
  BY <1>2, <1>3

----------------------------------------------------------------------------
(* The theorems.                                                           *)

LEMMA InitInv == Init => Inv
<1>1. SUFFICES ASSUME Init PROVE Inv
  OBVIOUS
<1>2. TypeOK
  BY <1>1, Numeric, FS_EmptySet DEF Init, TypeOK, Statuses, Phases
<1>3. Apart /\ AcceptedIsKnown
  BY <1>1 DEF Init, Apart, Waiting, ClaimsAreApart, FirstsComeFirst, AcceptedIsKnown
<1>4. Acceptances = {} /\ Orphans = {} /\ Delivered = {}
  BY <1>1 DEF Init, Acceptances, Orphans, Delivered
<1>5. Counted
  BY <1>1, <1>4, CountsAreNumbers, FS_EmptySet DEF Init, Counted
<1>6. Faultless
  BY <1>4 DEF Faultless
<1>7. HeadsWait
  BY <1>1 DEF Init, HeadsWait
<1>8. TakenOnce
  BY <1>1 DEF Init, TakenOnce
<1>9. QED
  BY <1>2, <1>3, <1>5, <1>6, <1>7, <1>8 DEF Inv

LEMMA NextInv == Inv /\ [Next]_vars => Inv'
<1>1. SUFFICES ASSUME Inv, [Next]_vars PROVE Inv'
  OBVIOUS
<1>2. CASE Next
  <2>1. TypeOK'
    BY <1>1, TypesAreKept DEF Inv
  <2>2. Apart'
    BY <1>1, <1>2, <2>1, ApartIsKept DEF Inv
  <2>3. AcceptedIsKnown'
    BY <1>1, <1>2, <2>1, <2>2, AcceptedStaysKnown DEF Inv
  <2>4. Counted' /\ Faultless'
    BY <1>1, <1>2, <2>1, EveryStepIsPaid, CountedStep DEF Inv, Paid
  <2>5. HeadsWait'
    BY <1>1, <1>2, <2>1, HeadsKeepWaiting DEF Inv
  <2>6. TakenOnce'
    BY <1>1, <1>2, <2>1, TakenOnceIsKept DEF Inv
  <2>7. QED
    BY <2>1, <2>2, <2>3, <2>4, <2>5, <2>6 DEF Inv
<1>3. CASE UNCHANGED vars
  <2>1. /\ row' = row /\ batch' = batch /\ phase' = phase /\ lost' = lost
        /\ hist' = hist /\ faults' = faults
    BY <1>3 DEF vars
  <2>2. TypeOK'
    BY <1>1, TypesAreKept DEF Inv
  <2>3. Apart' /\ AcceptedIsKnown'
    BY <1>1, <2>1
       DEF Inv, Apart, Waiting, ClaimsAreApart, FirstsComeFirst, AcceptedIsKnown, Current
  <2>4. \A w \in Workers : Current(w)' = Current(w) /\ (Owns(Current(w))' <=> Owns(Current(w)))
    BY <2>1 DEF Current, Owns
  <2>5. Acceptances' = Acceptances /\ Delivered' = Delivered /\ Orphans' = Orphans
    BY <2>1, <2>4 DEF Acceptances, Delivered, Orphans, Holds
  <2>6. Safe' = Safe
    BY <2>1, <2>4, <2>5 DEF Safe, Concluding, Holds
  <2>7. Counted' /\ Faultless'
    BY <1>1, <2>1, <2>5, <2>6 DEF Inv, Counted, Faultless
  <2>8. HeadsWait'
    BY <1>1, <2>1, <2>4 DEF Inv, HeadsWait, AtHead
  <2>9. TakenOnce'
    BY <1>1, <2>1, <2>4 DEF Inv, TakenOnce
  <2>10. QED
    BY <2>2, <2>3, <2>7, <2>8, <2>9 DEF Inv
<1>4. QED
  BY <1>1, <1>2, <1>3

\* In every reachable state the account of messages, orphans and faults holds,
\* and no two claims are the same (emailOutbox.js and emailService.js).
THEOREM OutboxInvariant == Spec => []Inv
BY InitInv, NextInv, PTL DEF Spec

LEMMA InvTries == Inv => FirstInLineIsTried
<1>1. SUFFICES ASSUME Inv, NEW d \in Deliveries, row[d].status = "failed", hist[d].headed,
                      ~hist[d].tried, faults = 0
               PROVE  FALSE
  <2>1. Inv => faults \in Nat
    BY Typing, Numeric DEF Inv
  <2>2. QED
    BY <2>1 DEF FirstInLineIsTried
<1>2. AtHead(d)
  BY <1>1 DEF Inv, HeadsWait
<1>3. QED
  BY <1>1, <1>2 DEF AtHead, Owns

LEMMA InvIsConsistent == Inv => OutboxConsistent
<1>1. SUFFICES ASSUME Inv PROVE OutboxConsistent
  OBVIOUS
<1>2. faults \in Nat /\ TypeOK
  BY <1>1, Typing, Numeric DEF Inv
<1>3. OneSenderUnlessFault
  <2>1. SUFFICES ASSUME NEW v \in Workers, NEW w \in Workers,
                        v # w, batch[v] # {}, batch[w] # {},
                        phase[v] = "smtp", phase[w] = "smtp",
                        Current(v).id = Current(w).id, faults = 0
                 PROVE  FALSE
    BY <1>2 DEF OneSenderUnlessFault
  <2>2. Holds(v) /\ Holds(w)
    BY <1>1, <2>1 DEF Inv, Faultless, Orphans
  <2>3. QED
    BY <1>1, <1>2, <2>1, <2>2, CurrentIsFirst, OwnersAreOne DEF Inv, Holds
<1>4. StatusTellsTheTruth
  <2>1. \A d \in Deliveries : row[d].status = "sent" => row[d].attempts \in hist[d].accepted
    BY <1>1 DEF Inv, AcceptedIsKnown
  <2>2. ASSUME NEW d \in Deliveries, row[d].status = "failed", hist[d].accepted # {}, faults = 0 PROVE FALSE
    <3>1. d \in Safe
      BY <1>1, <2>2 DEF Inv, Faultless, Delivered
    <3>2. QED
      BY <2>2, <3>1 DEF Safe, Concluding, Holds, Owns
  <2>3. QED
    BY <1>2, <2>1, <2>2 DEF StatusTellsTheTruth
<1>5. QED
  BY <1>1, <1>2, <1>3, <1>4, InvTries DEF OutboxConsistent

\* Types; two workers send one row at a time only after a fault; a final status
\* tells what the provider took, unless a fault hid it; and the first of a batch
\* fails only tried.
THEOREM OutboxStaysConsistent == Spec => []OutboxConsistent
BY OutboxInvariant, InvIsConsistent, PTL

LEMMA InvCounts == Inv => DuplicatesNeedFaults
<1>1. SUFFICES ASSUME Inv PROVE DuplicatesNeedFaults
  OBVIOUS
<1>2. faults \in Nat
  BY <1>1, Typing, Numeric DEF Inv
<1>3. IsFiniteSet(Delivered) /\ Cardinality(Delivered) \in Nat
  BY FiniteSets, FS_Subset, FS_CardinalityType DEF Delivered
<1>4. Cardinality(Safe) <= Cardinality(Delivered)
  BY <1>3, FS_Subset DEF Safe
<1>5. QED
  BY <1>1, <1>2, <1>3, <1>4, CountsAreNumbers DEF Inv, Counted, DuplicatesNeedFaults

\* Every message that the provider took beyond the first of a delivery was paid
\* for by a fault of its own (emailService.js:178).
THEOREM DuplicatesArePaidFor == Spec => []DuplicatesNeedFaults
BY OutboxInvariant, InvCounts, PTL

\* Without faults, the first delivery of a batch does not fail before SMTP was
\* asked to send it: its lease lasts until the worker takes it up
\* (emailDeliveryWorker.js:40).
THEOREM FirstsAreTried == Spec => []FirstInLineIsTried
BY OutboxInvariant, InvTries, PTL

----------------------------------------------------------------------------
(* The deliveries are an outbox.                                           *)

\* Nothing that the abstract outbox shows changes.
LEMMA UnseenSteps ==
  ASSUME SameTaken, \A d \in Deliveries : Stage(d)' = Stage(d)
  PROVE  [Promised!Next]_(Promised!vars)
<1>1. /\ [d \in Deliveries |-> Stage(d)]' = [d \in Deliveries |-> Stage(d)]
      /\ [d \in Deliveries |-> hist[d].accepted]' = [d \in Deliveries |-> hist[d].accepted]
  BY DEF SameTaken
<1>2. QED
  BY <1>1 DEF Promised!vars

\* Some open deliveries fail.
LEMMA FailingGivesUp ==
  ASSUME SameTaken, NEW some \in SUBSET Deliveries, \A d \in some : Stage(d) = "open",
         \A d \in Deliveries : Stage(d)' = IF d \in some THEN "failed" ELSE Stage(d)
  PROVE  [Promised!Next]_(Promised!vars)
<1> DEFINE stage  == [d \in Deliveries |-> Stage(d)]
           copies == [d \in Deliveries |-> hist[d].accepted]
<1>1. CASE some = {}
  BY <1>1, UnseenSteps
<1>2. CASE some # {}
  <2>1. copies' = copies
    BY DEF SameTaken
  <2>2. stage' = [d \in Deliveries |-> IF d \in some THEN "failed" ELSE stage[d]]
    OBVIOUS
  <2>3. \A d \in some : stage[d] = "open"
    OBVIOUS
  <2>4. Promised!GiveUp(some)
    BY <1>2, <2>1, <2>2, <2>3 DEF Promised!GiveUp
  <2>5. QED
    BY <2>4 DEF Promised!Next
<1>3. QED
  BY <1>1, <1>2

\* One delivery is queued, or sent after the provider took it.
LEMMA QueuedOrSent ==
  ASSUME SameTaken, NEW d \in Deliveries,
         \A e \in Deliveries : e # d => Stage(e)' = Stage(e),
         \/ Stage(d) = "none" /\ Stage(d)' = "open"
         \/ Stage(d) = "open" /\ Stage(d)' = "sent" /\ hist[d].accepted # {}
  PROVE  [Promised!Next]_(Promised!vars)
<1> DEFINE stage  == [e \in Deliveries |-> Stage(e)]
           copies == [e \in Deliveries |-> hist[e].accepted]
<1>1. copies' = copies
  BY DEF SameTaken
<1>2. stage' = [stage EXCEPT ![d] = Stage(d)']
  OBVIOUS
<1>3. stage[d] = Stage(d) /\ copies[d] = hist[d].accepted
  OBVIOUS
<1>4. CASE Stage(d) = "none" /\ Stage(d)' = "open"
  BY <1>1, <1>2, <1>3, <1>4 DEF Promised!Next, Promised!Put
<1>5. CASE Stage(d) = "open" /\ Stage(d)' = "sent" /\ hist[d].accepted # {}
  BY <1>1, <1>2, <1>3, <1>5 DEF Promised!Next, Promised!Confirm
<1>6. QED
  BY <1>4, <1>5

\* The provider takes a message under an attempt that carried none before.
LEMMA TakingCarries ==
  ASSUME Inv, NEW w \in Workers, Takes(w)
  PROVE  [Promised!Next]_(Promised!vars)
<1> DEFINE stage  == [d \in Deliveries |-> Stage(d)]
           copies == [d \in Deliveries |-> hist[d].accepted]
<1>1. /\ Sending(w) /\ Accepted(w) /\ phase[w] \in Early /\ row' = row
  BY DEF Takes, Accept, LoseAnswer, Early
<1>2. /\ Current(w) \in batch[w] /\ Current(w).id \in Deliveries
      /\ Current(w).attempt \in 1..MaxAttempts
  BY <1>1, CurrentIsFirst DEF Inv, Sending
<1>3. PICK d \in Deliveries, n \in 1..MaxAttempts : d = Current(w).id /\ n = Current(w).attempt
  BY <1>2
<1>4. copies' = [copies EXCEPT ![d] = @ \union {n}]
  <2>1. \A e \in Deliveries :
          hist'[e].accepted = IF e = d THEN hist[e].accepted \union {n} ELSE hist[e].accepted
    BY <1>1, <1>3, AcceptedGrows DEF Inv
  <2>2. QED
    BY <2>1
<1>5. n \notin copies[d]
  BY <1>1, <1>2, <1>3 DEF Inv, TakenOnce
<1>6. stage' = stage
  BY <1>1 DEF Stage
<1>7. stage[d] # "none"
  <2>1. n <= row[d].attempts /\ row[d] \in DeliveryRow
    BY <1>2, <1>3, Typing DEF Inv, Apart, ClaimsAreApart
  <2>2. row[d].status # "absent"
    BY <2>1, Numeric DEF Inv, TakenOnce, DeliveryRow
  <2>3. QED
    BY <2>1, <2>2 DEF Stage, DeliveryRow, Statuses
<1>8. Promised!Carry(d, n)
  <2> HIDE DEF stage, copies
  <2>1. QED
    BY <1>4, <1>5, <1>6, <1>7 DEF Promised!Carry, stage, copies
<1>9. \E e \in Deliveries, m \in 1..MaxAttempts : Promised!Carry(e, m)
  <2>1. WITNESS d \in Deliveries, n \in 1..MaxAttempts
  <2>2. QED
    BY <1>8
<1>10. QED
  BY <1>9 DEF Promised!Next

\* A claim ends exhausted deliveries, and those it leases stay open.
LEMMA ClaimingMoves ==
  ASSUME Inv, NEW w \in Workers, Claim(w)
  PROVE  [Promised!Next]_(Promised!vars)
<1> DEFINE over == {d \in Deliveries : d \notin Chosen /\ Settled[d] # row[d]}
<1>1. SameTaken
  BY ClaimHeads DEF Inv, SameTaken
<1>2. ASSUME NEW d \in Deliveries
      PROVE  /\ d \in over => Stage(d) = "open"
             /\ Stage(d)' = IF d \in over THEN "failed" ELSE Stage(d)
  <2>1. row'[d] = IF d \in Chosen THEN Leased(Settled[d]) ELSE Settled[d]
    BY ClaimInParts
  <2>2. TypeOK
    BY DEF Inv
  <2>3. CASE d \in Chosen
    <3>1. row'[d].status = "sending" /\ row[d].status \in {"pending", "sending"}
      BY <2>1, <2>2, <2>3, ChosenAreClaimable, SettledRows DEF Leased
    <3>2. QED
      BY <2>3, <3>1 DEF Stage
  <2>4. CASE d \in over
    <3>1. row'[d].status = "failed" /\ row[d].status \in {"pending", "sending"}
      BY <2>1, <2>2, <2>4, SettledRows
    <3>2. QED
      BY <2>4, <3>1 DEF Stage
  <2>5. CASE d \notin Chosen /\ Settled[d] = row[d]
    <3>1. row'[d] = row[d]
      BY <2>1, <2>5
    <3>2. QED
      BY <2>5, <3>1 DEF Stage
  <2>6. QED
    BY <2>3, <2>4, <2>5
<1>3. over \in SUBSET Deliveries
  OBVIOUS
<1>4. PICK some \in SUBSET Deliveries :
        /\ \A d \in some : Stage(d) = "open"
        /\ \A d \in Deliveries : Stage(d)' = IF d \in some THEN "failed" ELSE Stage(d)
  BY <1>2, <1>3
<1>5. QED
  BY <1>1, <1>4, FailingGivesUp

\* The end of a send: the row is settled by the claim that owns it, or stays open.
LEMMA EndingMoves ==
  ASSUME Inv, NEW w \in Workers, Complete(w) \/ Fail(w)
  PROVE  [Promised!Next]_(Promised!vars)
<1>1. TypeOK /\ Apart /\ AcceptedIsKnown
  BY DEF Inv
<1>2. /\ Current(w).id \in Deliveries
      /\ row' = row \/ (Holds(w) /\ row'[Current(w).id].status \in {"sent", "pending", "failed"})
      /\ \A e \in Deliveries : e # Current(w).id => row'[e] = row[e]
  BY <1>1, OthersKeepTheirs
<1>3. SameTaken
  BY DEF Complete, Fail, SameTaken
<1>4. PICK d \in Deliveries : d = Current(w).id
  BY <1>2
<1>5. \A e \in Deliveries : e # d => Stage(e)' = Stage(e)
  BY <1>2, <1>4 DEF Stage
<1>6. CASE row' = row
  BY <1>3, <1>6, UnseenSteps DEF Stage
<1>7. CASE row' # row
  <2>1. row[d].status = "sending" /\ Stage(d) = "open"
    BY <1>2, <1>4, <1>7 DEF Holds, Owns, Stage
  <2>2. CASE row'[d].status = "sent"
    <3>1. PICK v \in Workers : Complete(v) /\ Recordable(v) /\ Current(v).id = d
      BY <1>1, <2>1, <2>2, SentRows DEF Next
    <3>2. hist[d].accepted # {}
      BY <1>1, <3>1 DEF Complete, AcceptedIsKnown
    <3>3. Stage(d)' = "sent"
      BY <2>2 DEF Stage
    <3>4. QED
      BY <1>3, <1>5, <2>1, <3>2, <3>3, QueuedOrSent
  <2>3. CASE row'[d].status = "pending"
    <3>1. Stage(d)' = "open"
      BY <2>3 DEF Stage
    <3>2. \A e \in Deliveries : Stage(e)' = Stage(e)
      BY <1>5, <2>1, <3>1
    <3>3. QED
      BY <1>3, <3>2, UnseenSteps
  <2>4. CASE row'[d].status = "failed"
    <3>1. Stage(d)' = "failed"
      BY <2>4 DEF Stage
    <3>2. \A e \in Deliveries : Stage(e)' = IF e \in {d} THEN "failed" ELSE Stage(e)
      BY <1>5, <3>1
    <3>3. \A e \in {d} : Stage(e) = "open"
      BY <2>1
    <3>4. QED
      BY <1>3, <3>2, <3>3, FailingGivesUp
  <2>5. QED
    BY <1>2, <1>4, <1>7, <2>2, <2>3, <2>4
<1>8. QED
  BY <1>6, <1>7

LEMMA EmailStepsAreMoves ==
  ASSUME Inv, [Next]_vars
  PROVE  [Promised!Next]_(Promised!vars)
<1>0. TypeOK /\ Apart /\ row \in [Deliveries -> DeliveryRow]
  BY Typing DEF Inv
<1>1. ASSUME row' = row, SameTaken PROVE [Promised!Next]_(Promised!vars)
  BY <1>1, UnseenSteps DEF Stage
<1>2. ASSUME NEW d \in Deliveries, Enqueue(d) \/ Due(d) \/ Lapse(d)
      PROVE  [Promised!Next]_(Promised!vars)
  <2>1. SameTaken /\ \A e \in Deliveries : e # d => row'[e] = row[e]
    BY <1>0, <1>2 DEF Enqueue, Due, Lapse, SameTaken
  <2>2. \A e \in Deliveries : e # d => Stage(e)' = Stage(e)
    BY <2>1 DEF Stage
  <2>3. row[d] \in DeliveryRow
    BY <1>0
  <2>4. CASE Enqueue(d)
    <3>1. row[d].status = "absent" /\ row'[d].status = "pending"
      BY <1>0, <2>3, <2>4 DEF Enqueue, DeliveryRow
    <3>2. Stage(d) = "none" /\ Stage(d)' = "open"
      BY <3>1 DEF Stage
    <3>3. QED
      BY <2>1, <2>2, <3>2, QueuedOrSent
  <2>5. CASE Due(d) \/ Lapse(d)
    <3>1. row'[d].status = row[d].status
      BY <1>0, <2>3, <2>5 DEF Due, Lapse, DeliveryRow
    <3>2. Stage(d)' = Stage(d)
      BY <3>1 DEF Stage
    <3>3. QED
      BY <2>1, <2>2, <3>2, UnseenSteps
  <2>6. QED
    BY <1>2, <2>4, <2>5
<1>3. ASSUME NEW w \in Workers, Start(w) PROVE [Promised!Next]_(Promised!vars)
  <2>1. SameTaken
    <3>1. CASE Startable(Current(w))
      BY <1>0, <1>3, <3>1, StartedIsTried DEF Start, SameTaken
    <3>2. CASE ~Startable(Current(w))
      BY <1>3, <3>2 DEF Start, SameTaken
    <3>3. QED
      BY <3>1, <3>2
  <2>2. row' = row
    BY <1>3 DEF Start
  <2>3. QED
    BY <1>1, <2>1, <2>2
<1>4. ASSUME NEW w \in Workers, StartFails(w) \/ Refuse(w) \/ HeartbeatFails(w)
                                \/ CompleteFails(w) \/ Crash(w)
      PROVE  [Promised!Next]_(Promised!vars)
  <2>1. row' = row /\ hist' = hist
    BY <1>4 DEF StartFails, Refuse, HeartbeatFails, CompleteFails, Crash
  <2>2. QED
    BY <1>1, <2>1 DEF SameTaken
<1>5. CASE UNCHANGED vars
  BY <1>1, <1>5 DEF vars, SameTaken
<1>6. QED
  BY <1>2, <1>3, <1>4, <1>5, ClaimingMoves, TakingCarries, EndingMoves DEF Next, Takes

\* The email outbox implements the abstract one: leases, batches, crashes and
\* lost answers do not show, an attempt has the provider take a message at most
\* once, a delivery called sent was taken, and a final status stands
\* (completeEmailDelivery, failEmailDelivery).
THEOREM EmailImplementsOutbox == Spec => ImplementsOutbox
<1>1. Init => Promised!Init
  BY DEF Init, Promised!Init, Stage
<1>2. Inv /\ [Next]_vars => [Promised!Next]_(Promised!vars)
  BY EmailStepsAreMoves
<1>3. QED
  BY <1>1, <1>2, OutboxInvariant, PTL DEF Spec, ImplementsOutbox, Promised!Spec
=============================================================================
