-------------------------- MODULE OutboundCallsProofs --------------------------
(***************************************************************************)
(* Safety of the two ways the server calls out: webhook deliveries, for    *)
(* any deliveries, places and budget, and the inference path, for any      *)
(* capabilities, requests and queue lengths.  The parts are independent.   *)
(*                                                                         *)
(* The heart of the first is Numbers: numbers are given back, yet those    *)
(* held for one delivery are distinct and none lies above its counter, so  *)
(* the only place that may lower the counter holds its highest number and  *)
(* has not sent it.  The heart of the second is Accounted: a request is    *)
(* always at exactly one of five stages, and with it its caller, its       *)
(* answer, its job and its place in the gate.                              *)
(***************************************************************************)
EXTENDS WebhookDelivery, InferencePath, SequenceTheorems, FiniteSetTheorems,
        WellFoundedInduction, TLAPS

----------------------------------------------------------------------------
(* Webhook deliveries: the inductive invariant.                            *)


Unsent(p) == place[p].at \in {"claimed", "sending", "disabled"}

Numbers ==
  /\ \A p \in Place : Holds(p) => /\ row[place[p].of].status # "none"
                                  /\ place[p].number <= row[place[p].of].attempts
  /\ \A p, q \in Place : p # q /\ Holds(p) /\ Holds(q) /\ place[p].of = place[q].of =>
       place[p].number # place[q].number
  /\ \A d \in Delivery, n \in Number : heard[d][n] # "unsent" => n <= row[d].attempts
  /\ \A d \in Delivery : row[d].status = "none" => row[d].attempts = 0

AnswerIsHeard ==
  \A p \in Place :
    /\ place[p].at = "answered" /\ place[p].answer = "success" =>
         heard[place[p].of][place[p].number] = "success"
    /\ place[p].at = "answered" /\ place[p].answer = "final" =>
         heard[place[p].of][place[p].number] \in {"final", "sourceless"}
    /\ place[p].at = "failing" => place[p].answer = "retry"

Inv == /\ TypeOK /\ Numbers /\ EachNumberSentOnce /\ AnswerIsHeard
       /\ NothingIsStranded /\ VerdictIsEarned

----------------------------------------------------------------------------
LEMMA Numeric == MaxAttempts \in Nat /\ MaxAttempts >= 1
BY WebhookDeliveryAssumption

\* A place that is not idle holds an attempt.
LEMMA HeldIsAttempt ==
  ASSUME TypeOK, NEW p \in Place, Holds(p)
  PROVE  /\ place[p] \in Attempt
         /\ place[p].of \in Delivery /\ row[place[p].of] \in Row
         /\ place[p].number \in Nat /\ place[p].number >= 1
         /\ place[p].number <= MaxAttempts
         /\ row[place[p].of].attempts \in Nat
         /\ row[place[p].of].attempts <= MaxAttempts
<1>1. place[p] \in Attempt
  BY DEF TypeOK, Holds, Idle
<1>2. place[p].of \in Delivery /\ place[p].number \in 1 .. MaxAttempts
  BY <1>1 DEF Attempt, Number
<1>3. row[place[p].of] \in Row
  BY <1>2 DEF TypeOK
<1>4. row[place[p].of].attempts \in 0 .. MaxAttempts
  BY <1>3 DEF Row
<1>5. QED
  BY <1>1, <1>2, <1>3, <1>4, Numeric

LEMMA RecordedType ==
  ASSUME TypeOK, NEW p \in Place, Holds(p)
  PROVE  Recorded(p) \in [Delivery -> Row]
<1>1. place[p].of \in Delivery /\ row[place[p].of] \in Row
  BY HeldIsAttempt
<1>2. QED
  BY <1>1 DEF TypeOK, Recorded, Row, When

LEMMA InitialType == ASSUME Init PROVE TypeOK
<1>1. NoRow \in Row
  BY Numeric DEF NoRow, Row, When
<1>2. QED
  BY <1>1, WebhookDeliveryAssumption DEF Init, TypeOK, Outcome

\* The steps in which an attempt ends, with a request or without.
Ends(p) == Send(p) \/ SourceUnavailable(p)

LEMMA EndingIsHeard ==
  ASSUME NEW p \in Place, Ends(p)
  PROVE  \E outcome \in Outcome \ {"unsent"} :
           heard' = [heard EXCEPT ![place[p].of][place[p].number] = outcome]
<1>1. CASE Send(p)
  BY <1>1 DEF Send, Outcome, Answer
<1>2. CASE SourceUnavailable(p)
  BY <1>2 DEF SourceUnavailable, Outcome
<1>3. QED
  BY <1>1, <1>2 DEF Ends

LEMMA OthersAreHeardAsBefore ==
  ASSUME TypeOK, NEW p \in Place, Ends(p), place[p].of \in Delivery, place[p].number \in Number
  PROVE  \A e \in Delivery, m \in Number :
           e # place[p].of \/ m # place[p].number => heard'[e][m] = heard[e][m]
<1>1. PICK outcome : heard' = [heard EXCEPT ![place[p].of][place[p].number] = outcome]
  BY EndingIsHeard
<1>2. QED
  BY <1>1 DEF TypeOK

LEMMA TypeStep == ASSUME TypeOK, [Next]_vars PROVE TypeOK'
<1>1. ASSUME NEW d \in Delivery, Enqueue(d) \/ Elapse(d) \/ Delete(d) \/ ExpireFinal(d)
      PROVE  TypeOK'
  <2>1. row[d] \in Row /\ NoRow \in Row
    BY Numeric DEF TypeOK, NoRow, Row, When
  <2>2. PICK r \in Row : row' = [row EXCEPT ![d] = r]
    <3>1. CASE Enqueue(d)
      <4>1. [NoRow EXCEPT !.status = "pending", !.next = "due"] \in Row
        BY <2>1 DEF Row, When
      <4>2. QED
        BY <3>1, <4>1 DEF Enqueue
    <3>2. CASE Elapse(d)
      <4>1. [row[d] EXCEPT !.next = "due"] \in Row
        BY <2>1 DEF Row, When
      <4>2. QED
        BY <3>2, <4>1 DEF Elapse
    <3>3. CASE Delete(d)
      <4>1. [[row[d] EXCEPT !.status = "gone"] EXCEPT !.next = "null"] \in Row
        BY <2>1 DEF Row, When
      <4>2. QED
        BY <3>3, <4>1 DEF TypeOK, Delete
    <3>4. CASE ExpireFinal(d)
      <4>1. [[row[d] EXCEPT !.status = "failed"] EXCEPT !.next = "null"] \in Row
        BY <2>1 DEF Row, When
      <4>2. QED
        BY <3>4, <4>1 DEF TypeOK, ExpireFinal
    <3>5. QED
      BY <1>1, <3>1, <3>2, <3>3, <3>4
  <2>3. QED
    BY <1>1, <2>2 DEF TypeOK, Enqueue, Elapse, Delete, ExpireFinal
<1>2. ASSUME NEW p \in Place, NEW d \in Delivery, Claim(p, d)
      PROVE  TypeOK'
  <2>1. row[d] \in Row /\ row[d].attempts \in 0 .. MaxAttempts /\ row[d].tried \in BOOLEAN
    BY DEF TypeOK, Row
  <2>2. row[d].attempts + 1 \in Number /\ row[d].attempts + 1 \in 0 .. MaxAttempts
    BY <1>2, <2>1, Numeric DEF Claim, Claimable, Number
  <2>3. row' \in [Delivery -> Row]
    BY <1>2, <2>2 DEF TypeOK, Claim, Row, When
  <2>4. place' \in [Place -> Attempt \cup {Idle}]
    BY <1>2, <2>1, <2>2 DEF TypeOK, Claim, Attempt, Answer
  <2>5. QED
    BY <1>2, <2>3, <2>4 DEF TypeOK, Claim
<1>3. ASSUME NEW p \in Place, ReadWebhook(p) PROVE TypeOK'
  <2>1. place[p] \in Attempt
    BY <1>3, HeldIsAttempt DEF ReadWebhook, Holds
  <2>2. QED
    BY <1>3, <2>1 DEF TypeOK, ReadWebhook, Attempt
<1>4. ASSUME NEW p \in Place, GiveBack(p) PROVE TypeOK'
  <2>1. place[p] \in Attempt /\ place[p].of \in Delivery /\ row[place[p].of] \in Row
        /\ place[p].number - 1 \in 0 .. MaxAttempts /\ place[p].tried \in BOOLEAN
    BY <1>4, HeldIsAttempt, Numeric DEF GiveBack, Holds, Attempt
  <2>2. row' \in [Delivery -> Row]
    BY <1>4, <2>1 DEF TypeOK, GiveBack, Row, When
  <2>3. QED
    BY <1>4, <2>2 DEF TypeOK, GiveBack, Free
<1>5. ASSUME NEW p \in Place, Ends(p) PROVE TypeOK'
  <2>1. place[p] \in Attempt /\ place[p].of \in Delivery /\ place[p].number \in Number
    BY <1>5, HeldIsAttempt DEF Ends, Send, SourceUnavailable, Holds, Attempt
  <2>2. PICK answer \in Answer, outcome \in Outcome :
          /\ place' = [place EXCEPT ![p].at = "answered", ![p].answer = answer]
          /\ heard' = [heard EXCEPT ![place[p].of][place[p].number] = outcome]
    BY <1>5 DEF Ends, Send, SourceUnavailable, Outcome, Answer
  <2>3. place' \in [Place -> Attempt \cup {Idle}]
    <3>1. [[place[p] EXCEPT !.at = "answered"] EXCEPT !.answer = answer] \in Attempt
      BY <2>1 DEF Attempt
    <3>2. QED
      BY <2>2, <3>1 DEF TypeOK
  <2>4. heard' \in [Delivery -> [Number -> Outcome]]
    BY <2>1, <2>2 DEF TypeOK
  <2>5. QED
    BY <1>5, <2>3, <2>4 DEF TypeOK, Ends, Send, SourceUnavailable
<1>6. ASSUME NEW p \in Place, Record(p) PROVE TypeOK'
  <2>1. Recorded(p) \in [Delivery -> Row]
    BY <1>6, RecordedType DEF Record, Holds
  <2>2. QED
    BY <1>6, <2>1 DEF TypeOK, Record, Free
<1>7. ASSUME NEW p \in Place, RecordThrows(p) PROVE TypeOK'
  <2>1. place[p] \in Attempt /\ Recorded(p) \in [Delivery -> Row]
    BY <1>7, HeldIsAttempt, RecordedType DEF RecordThrows, Holds
  <2>2. QED
    BY <1>7, <2>1 DEF TypeOK, RecordThrows, Attempt, Answer
<1>8. ASSUME NEW p \in Place, Drop(p) PROVE TypeOK'
  BY <1>8 DEF TypeOK, Drop, Free
<1>9. ASSUME Toggle PROVE TypeOK'
  BY <1>9, WebhookDeliveryAssumption DEF TypeOK, Toggle
<1>10. CASE UNCHANGED vars
  BY <1>10 DEF TypeOK, vars
<1>11. QED
  BY <1>1, <1>2, <1>3, <1>4, <1>5, <1>6, <1>7, <1>8, <1>9, <1>10 DEF Next, Process, Ends

----------------------------------------------------------------------------
\* What a step of place p leaves of the other places.
LEMMA OthersKeep ==
  ASSUME TypeOK, NEW p \in Place, Process(p) \/ Drop(p)
  PROVE  /\ \A q \in Place : q # p => place'[q] = place[q]
         /\ Holds(p)
         /\ Holds(p)' => /\ place'[p].of = place[p].of
                         /\ place'[p].number = place[p].number
<1>1. \A q \in Place : q # p => place'[q] = place[q]
  BY DEF TypeOK, Process, Drop, ReadWebhook, GiveBack, Send, SourceUnavailable,
         Record, RecordThrows, Free
<1>2. Holds(p)
  BY DEF Holds, Process, Drop, ReadWebhook, GiveBack, Send, SourceUnavailable,
         Record, RecordThrows
<1>3. place[p] \in Attempt
  BY <1>2, HeldIsAttempt
<1>4. CASE ReadWebhook(p) \/ Send(p) \/ SourceUnavailable(p) \/ RecordThrows(p)
  BY <1>1, <1>2, <1>3, <1>4
     DEF TypeOK, Attempt, ReadWebhook, Send, SourceUnavailable, RecordThrows
<1>5. CASE GiveBack(p) \/ Record(p) \/ Drop(p)
  BY <1>1, <1>2, <1>5 DEF TypeOK, Holds, Idle, GiveBack, Record, Drop, Free
<1>6. QED
  BY <1>4, <1>5 DEF Process

\* recordResult changes the status and the time of at most its own row.
LEMMA RecordedKeeps ==
  ASSUME TypeOK, NEW p \in Place, Holds(p), NEW d \in Delivery
  PROVE  /\ Recorded(p)[d].attempts = row[d].attempts
         /\ Recorded(p)[d].tried = row[d].tried
         /\ Recorded(p)[d].status # row[d].status =>
              row[d].status = "pending" /\ Recorded(p)[d].status \in {"success", "failed"}
<1>1. row[d] \in Row /\ place[p].of \in Delivery /\ row \in [Delivery -> Row]
  BY HeldIsAttempt DEF TypeOK
<1>2. QED
  BY <1>1 DEF Recorded, Current, Row

\* A step that claims nothing, sends nothing and leaves every counter alone.
Quiet ==
  /\ heard' = heard
  /\ \A p \in Place : Holds(p)' =>
       /\ Holds(p) /\ place'[p].of = place[p].of /\ place'[p].number = place[p].number
       /\ Unsent(p)' => Unsent(p)
  /\ \A d \in Delivery : /\ row'[d].attempts = row[d].attempts
                         /\ row'[d].status = "none" => row[d].status = "none"

LEMMA QuietKeepsNumbers ==
  ASSUME TypeOK, TypeOK', Numbers, EachNumberSentOnce, Quiet
  PROVE  Numbers' /\ EachNumberSentOnce'
<1>1. ASSUME NEW p \in Place, Holds(p)'
      PROVE  /\ Holds(p) /\ place'[p].of = place[p].of /\ place[p].of \in Delivery
             /\ place'[p].number = place[p].number
  BY <1>1, HeldIsAttempt DEF Quiet
<1>2. Numbers'
  <2>1. \A p \in Place : Holds(p)' => /\ row'[place'[p].of].status # "none"
                                      /\ place'[p].number <= row'[place'[p].of].attempts
    <3>1. ASSUME NEW p \in Place, Holds(p)'
          PROVE  /\ row'[place'[p].of].status # "none"
                 /\ place'[p].number <= row'[place'[p].of].attempts
      <4>1. /\ row'[place[p].of].attempts = row[place[p].of].attempts
            /\ row'[place[p].of].status = "none" => row[place[p].of].status = "none"
        BY <1>1, <3>1 DEF Quiet
      <4>2. /\ row[place[p].of].status # "none"
            /\ place[p].number <= row[place[p].of].attempts
        BY <1>1, <3>1 DEF Numbers
      <4>3. QED
        BY <1>1, <3>1, <4>1, <4>2
    <3>2. QED
      BY <3>1
  <2>2. \A p, q \in Place : p # q /\ Holds(p)' /\ Holds(q)' /\ place'[p].of = place'[q].of =>
          place'[p].number # place'[q].number
    BY <1>1 DEF Numbers
  <2>3. ASSUME NEW d \in Delivery
        PROVE  /\ \A n \in Number : heard'[d][n] # "unsent" => n <= row'[d].attempts
               /\ row'[d].status = "none" => row'[d].attempts = 0
    <3>1. /\ heard' = heard /\ row'[d].attempts = row[d].attempts
          /\ row'[d].status = "none" => row[d].status = "none"
      BY DEF Quiet
    <3>2. /\ \A n \in Number : heard[d][n] # "unsent" => n <= row[d].attempts
          /\ row[d].status = "none" => row[d].attempts = 0
      BY DEF Numbers
    <3>3. QED
      BY <3>1, <3>2
  <2>4. QED
    BY <2>1, <2>2, <2>3 DEF Numbers
<1>3. EachNumberSentOnce'
  <2>1. \A p \in Place : Unsent(p)' => Holds(p)'
    BY DEF Unsent, Holds
  <2>2. QED
    BY <1>1, <2>1 DEF EachNumberSentOnce, Quiet, Unsent
<1>4. QED
  BY <1>2, <1>3

LEMMA QuietSteps ==
  ASSUME TypeOK, Numbers,
         \/ Toggle \/ UNCHANGED vars
         \/ \E d \in Delivery : Enqueue(d) \/ Elapse(d) \/ Delete(d) \/ ExpireFinal(d)
         \/ \E p \in Place : ReadWebhook(p) \/ Record(p) \/ RecordThrows(p) \/ Drop(p)
  PROVE  Quiet
<1>1. ASSUME NEW d \in Delivery, Enqueue(d) \/ Elapse(d) \/ Delete(d) \/ ExpireFinal(d)
      PROVE  Quiet
  <2>1. row[d] \in Row /\ row \in [Delivery -> Row]
    BY DEF TypeOK
  <2>2. \A e \in Delivery : /\ row'[e].attempts = row[e].attempts
                            /\ row'[e].status = "none" => row[e].status = "none"
    <3>1. CASE Enqueue(d)
      BY <2>1, <3>1 DEF Numbers, Enqueue, NoRow
    <3>2. CASE Elapse(d) \/ Delete(d) \/ ExpireFinal(d)
      BY <2>1, <3>2 DEF Row, Elapse, Delete, ExpireFinal
    <3>3. QED
      BY <1>1, <3>1, <3>2
  <2>3. place' = place /\ heard' = heard
    BY <1>1 DEF Enqueue, Elapse, Delete, ExpireFinal
  <2>4. QED
    BY <2>2, <2>3 DEF Quiet, Holds, Unsent
<1>2. ASSUME NEW p \in Place, ReadWebhook(p) \/ Record(p) \/ RecordThrows(p) \/ Drop(p)
      PROVE  Quiet
  <2>1. /\ \A q \in Place : q # p => place'[q] = place[q]
        /\ Holds(p)
        /\ Holds(p)' => /\ place'[p].of = place[p].of
                        /\ place'[p].number = place[p].number
    BY <1>2, OthersKeep DEF Process
  <2>2. heard' = heard /\ (row' = row \/ row' = Recorded(p))
    BY <1>2 DEF ReadWebhook, Record, RecordThrows, Drop
  <2>3. \A e \in Delivery : /\ row'[e].attempts = row[e].attempts
                            /\ row'[e].status = "none" => row[e].status = "none"
    BY <2>1, <2>2, RecordedKeeps
  <2>4. Unsent(p)' => Unsent(p)
    <3>1. place[p] \in Attempt
      BY <2>1, HeldIsAttempt
    <3>2. CASE ReadWebhook(p)
      BY <3>2 DEF ReadWebhook, Unsent
    <3>3. CASE RecordThrows(p)
      BY <3>1, <3>3 DEF TypeOK, Attempt, RecordThrows, Unsent
    <3>4. CASE Record(p) \/ Drop(p)
      BY <3>4 DEF TypeOK, Record, Drop, Free, Idle, Unsent
    <3>5. QED
      BY <1>2, <3>2, <3>3, <3>4
  <2>5. \A q \in Place : q # p => (Holds(q)' => Holds(q)) /\ (Unsent(q)' => Unsent(q))
    BY <2>1 DEF Holds, Unsent
  <2>6. QED
    BY <2>1, <2>2, <2>3, <2>4, <2>5 DEF Quiet
<1>3. CASE Toggle \/ UNCHANGED vars
  BY <1>3 DEF Toggle, vars, Quiet, Holds, Unsent
<1>4. QED
  BY <1>1, <1>2, <1>3

LEMMA ClaimKeepsNumbers ==
  ASSUME TypeOK, Numbers, EachNumberSentOnce,
         NEW p \in Place, NEW d \in Delivery, Claim(p, d)
  PROVE  Numbers' /\ EachNumberSentOnce'
<1> DEFINE n == row[d].attempts + 1
<1>1. /\ row[d] \in Row /\ row[d].attempts \in 0 .. MaxAttempts
      /\ row[d].attempts < MaxAttempts /\ row[d].status \in {"pending", "failed"}
  BY DEF TypeOK, Row, Claim, Claimable
<1>2. n \in Number /\ n > row[d].attempts
  BY <1>1, Numeric DEF Number
<1>3. /\ row'[d].attempts = n /\ row'[d].status = "pending"
      /\ \A e \in Delivery \ {d} : row'[e] = row[e]
  BY DEF TypeOK, Claim
<1>4. /\ place'[p].of = d /\ place'[p].number = n
      /\ \A q \in Place \ {p} : place'[q] = place[q]
  BY DEF TypeOK, Claim
<1>5. heard' = heard /\ ~Holds(p)
  BY DEF Claim
<1>6. \A q \in Place \ {p} : (Holds(q)' <=> Holds(q)) /\ (Unsent(q)' <=> Unsent(q))
  BY <1>4 DEF Holds, Unsent
<1>7. \A q \in Place : Holds(q) =>
        /\ place[q].of \in Delivery /\ place[q].number \in Nat
        /\ place[q].number <= row[place[q].of].attempts
        /\ row[place[q].of].status # "none"
        /\ (place[q].of = d => place[q].number < n /\ place[q].number # n)
  BY <1>1, HeldIsAttempt, Numeric DEF Numbers
<1>8. \A m \in Number : heard[d][m] # "unsent" => m <= row[d].attempts /\ m # n /\ m <= n
  <2>1. \A m \in Number : m \in Nat
    BY Numeric DEF Number
  <2>2. QED
    BY <1>1, <2>1, Numeric DEF Numbers
<1>9. Numbers'
  <2>1. \A q \in Place : Holds(q)' => /\ row'[place'[q].of].status # "none"
                                      /\ place'[q].number <= row'[place'[q].of].attempts
    <3>1. n <= n /\ \A m \in Nat : m < n => m <= n
      BY <1>1
    <3>2. QED
      BY <1>3, <1>4, <1>6, <1>7, <3>1
  <2>2. \A q, r \in Place : q # r /\ Holds(q)' /\ Holds(r)' /\ place'[q].of = place'[r].of =>
          place'[q].number # place'[r].number
    BY <1>4, <1>6, <1>7 DEF Numbers
  <2>3. \A e \in Delivery, m \in Number : heard'[e][m] # "unsent" => m <= row'[e].attempts
    BY <1>3, <1>5, <1>8 DEF Numbers
  <2>4. \A e \in Delivery : row'[e].status = "none" => row'[e].attempts = 0
    BY <1>3 DEF Numbers
  <2>5. QED
    BY <2>1, <2>2, <2>3, <2>4 DEF Numbers, Holds
<1>10. EachNumberSentOnce'
  <2>1. heard[d][n] = "unsent"
    BY <1>2, <1>8
  <2>2. \A q \in Place : Unsent(q)' => heard'[place'[q].of][place'[q].number] = "unsent"
    BY <1>4, <1>5, <1>6, <2>1 DEF EachNumberSentOnce, Unsent
  <2>3. QED
    BY <2>2 DEF EachNumberSentOnce, Unsent
<1>11. QED
  BY <1>9, <1>10

\* The counter may go down because the place that lowers it holds the highest
\* number, which nobody else holds and which was never sent.
LEMMA GiveBackKeepsNumbers ==
  ASSUME TypeOK, Numbers, EachNumberSentOnce, NEW p \in Place, GiveBack(p)
  PROVE  Numbers' /\ EachNumberSentOnce'
<1> DEFINE d == place[p].of
<1>1. /\ Holds(p) /\ Unsent(p) /\ d \in Delivery /\ heard' = heard
      /\ row \in [Delivery -> Row]
  <2>1. Holds(p) /\ Unsent(p) /\ heard' = heard
    BY DEF GiveBack, Holds, Unsent
  <2>2. QED
    BY <2>1, HeldIsAttempt DEF TypeOK
<1>2. ~Holds(p)' /\ ~Unsent(p)' /\ \A q \in Place \ {p} : place'[q] = place[q]
  BY DEF TypeOK, GiveBack, Free, Holds, Unsent, Idle
<1>3. \A q \in Place : /\ Holds(q)' => q # p /\ Holds(q)
                       /\ Unsent(q)' => q # p /\ Unsent(q)
  BY <1>2 DEF Holds, Unsent
<1>4. CASE ~Current(p)
  <2>1. Quiet
    BY <1>1, <1>2, <1>3, <1>4 DEF GiveBack, Quiet
  <2>2. row' = row
    BY <1>4 DEF GiveBack
  <2>3. Numbers'
    BY <1>1, <1>2, <1>3, <2>2 DEF Numbers
  <2>4. EachNumberSentOnce'
    BY <1>1, <1>2, <1>3 DEF EachNumberSentOnce, Unsent
  <2>5. QED
    BY <2>3, <2>4
<1>5. CASE Current(p)
  <2>1. /\ place[p].number \in Nat /\ place[p].number >= 1
        /\ row[d].attempts = place[p].number /\ row[d].status = "pending"
    BY <1>1, <1>5, HeldIsAttempt DEF Current
  <2>2. /\ row'[d].attempts = place[p].number - 1 /\ row'[d].status = "pending"
        /\ \A e \in Delivery \ {d} : row'[e] = row[e]
    BY <1>1, <1>5, <2>1 DEF GiveBack, Row
  <2>3. \A q \in Place \ {p} : Holds(q) /\ place[q].of = d =>
          place[q].number <= place[p].number - 1
    <3>1. \A q \in Place \ {p} : Holds(q) /\ place[q].of = d =>
            /\ place[q].number \in Nat /\ place[q].number <= place[p].number
            /\ place[q].number # place[p].number
      BY <1>1, <2>1, HeldIsAttempt DEF Numbers
    <3>2. QED
      BY <2>1, <3>1
  <2>4. \A n \in Number : heard[d][n] # "unsent" => n <= place[p].number - 1
    <3>1. \A n \in Number : heard[d][n] # "unsent" =>
            n \in Nat /\ n <= place[p].number /\ n # place[p].number
      BY <1>1, <2>1, Numeric DEF Numbers, EachNumberSentOnce, Unsent, Number
    <3>2. QED
      BY <2>1, <3>1
  <2>5. \A q \in Place : Holds(q)' => /\ row'[place'[q].of].status # "none"
                                      /\ place'[q].number <= row'[place'[q].of].attempts
    <3>1. \A q \in Place \ {p} : Holds(q) => place[q].of \in Delivery
      BY HeldIsAttempt
    <3>2. QED
      BY <1>2, <1>3, <2>2, <2>3, <3>1 DEF Numbers
  <2>6. \A q, r \in Place : q # r /\ Holds(q)' /\ Holds(r)' /\ place'[q].of = place'[r].of =>
          place'[q].number # place'[r].number
    BY <1>2, <1>3 DEF Numbers
  <2>7. \A e \in Delivery, n \in Number : heard'[e][n] # "unsent" => n <= row'[e].attempts
    BY <1>1, <2>2, <2>4 DEF Numbers
  <2>8. \A e \in Delivery : row'[e].status = "none" => row'[e].attempts = 0
    BY <2>2 DEF Numbers
  <2>9. Numbers'
    BY <2>5, <2>6, <2>7, <2>8 DEF Numbers
  <2>10. EachNumberSentOnce'
    BY <1>1, <1>2, <1>3 DEF EachNumberSentOnce, Unsent
  <2>11. QED
    BY <2>9, <2>10
<1>6. QED
  BY <1>4, <1>5

LEMMA EndingKeepsNumbers ==
  ASSUME TypeOK, Numbers, EachNumberSentOnce, NEW p \in Place, Ends(p)
  PROVE  Numbers' /\ EachNumberSentOnce'
<1> DEFINE d == place[p].of
           n == place[p].number
<1>1. /\ Holds(p) /\ d \in Delivery /\ n \in Number /\ row' = row
      /\ row[d].attempts >= n
  <2>1. Holds(p) /\ row' = row
    BY DEF Ends, Send, SourceUnavailable, Holds
  <2>2. place[p] \in Attempt /\ d \in Delivery /\ n <= row[d].attempts
        /\ n \in Nat /\ row[d].attempts \in Nat
    BY <2>1, HeldIsAttempt DEF Numbers
  <2>3. QED
    BY <2>1, <2>2 DEF Attempt
<1>2. /\ \A q \in Place : q # p => place'[q] = place[q]
      /\ Holds(p)' => place'[p].of = d /\ place'[p].number = n
  BY OthersKeep DEF Process, Ends
<1>3. ~Unsent(p)'
  <2>1. place[p] \in Attempt
    BY <1>1, HeldIsAttempt
  <2>2. QED
    BY <2>1 DEF TypeOK, Ends, Send, SourceUnavailable, Attempt, Unsent
<1>4. \A e \in Delivery, m \in Number : e # d \/ m # n => heard'[e][m] = heard[e][m]
  BY <1>1, OthersAreHeardAsBefore
<1>5. \A q \in Place : q # p => (Holds(q)' <=> Holds(q)) /\ (Unsent(q)' <=> Unsent(q))
  BY <1>2 DEF Holds, Unsent
<1>6. Numbers'
  <2>1. \A q \in Place : Holds(q)' => Holds(q) /\ place'[q].of = place[q].of
                                     /\ place'[q].number = place[q].number
    BY <1>1, <1>2, <1>5
  <2>2. /\ \A q \in Place : Holds(q)' => /\ row'[place'[q].of].status # "none"
                                         /\ place'[q].number <= row'[place'[q].of].attempts
        /\ \A q, r \in Place : q # r /\ Holds(q)' /\ Holds(r)' /\ place'[q].of = place'[r].of =>
             place'[q].number # place'[r].number
    BY <1>1, <2>1 DEF Numbers
  <2>3. \A e \in Delivery, m \in Number : heard'[e][m] # "unsent" => m <= row'[e].attempts
    <3>1. n <= row[d].attempts
      BY <1>1 DEF Numbers
    <3>2. QED
      BY <1>1, <1>4, <3>1 DEF Numbers
  <2>4. \A e \in Delivery : row'[e].status = "none" => row'[e].attempts = 0
    BY <1>1 DEF Numbers
  <2>5. QED
    BY <2>2, <2>3, <2>4 DEF Numbers
<1>7. EachNumberSentOnce'
  <2>1. ASSUME NEW q \in Place, Unsent(q)'
        PROVE  heard'[place'[q].of][place'[q].number] = "unsent"
    <3>1. q # p /\ Unsent(q) /\ Holds(q) /\ place'[q] = place[q]
      BY <1>2, <1>3, <1>5, <2>1 DEF Unsent, Holds
    <3>2. place[q] \in Attempt
      BY <3>1, HeldIsAttempt
    <3>3. place[q].of \in Delivery /\ place[q].number \in Number
      BY <3>2 DEF Attempt
    <3>4. place[q].of # d \/ place[q].number # n
      BY <1>1, <3>1 DEF Numbers
    <3>5. QED
      BY <1>4, <3>1, <3>3, <3>4 DEF EachNumberSentOnce, Unsent
  <2>2. QED
    BY <2>1 DEF EachNumberSentOnce, Unsent
<1>8. QED
  BY <1>6, <1>7

LEMMA NumbersStep ==
  ASSUME TypeOK, TypeOK', Numbers, EachNumberSentOnce, [Next]_vars
  PROVE  Numbers' /\ EachNumberSentOnce'
<1>1. CASE \E p \in Place, d \in Delivery : Claim(p, d)
  BY <1>1, ClaimKeepsNumbers
<1>2. CASE \E p \in Place : GiveBack(p)
  BY <1>2, GiveBackKeepsNumbers
<1>3. CASE \E p \in Place : Ends(p)
  BY <1>3, EndingKeepsNumbers
<1>4. CASE Quiet
  BY <1>4, QuietKeepsNumbers
<1>5. QED
  BY <1>1, <1>2, <1>3, <1>4, QuietSteps DEF Next, Process, Ends

----------------------------------------------------------------------------
LEMMA AnswerStep ==
  ASSUME TypeOK, TypeOK', Numbers, EachNumberSentOnce, AnswerIsHeard, [Next]_vars
  PROVE  AnswerIsHeard'
<1> DEFINE Heard(p) ==
      /\ place[p].at = "answered" /\ place[p].answer = "success" =>
           heard[place[p].of][place[p].number] = "success"
      /\ place[p].at = "answered" /\ place[p].answer = "final" =>
           heard[place[p].of][place[p].number] \in {"final", "sourceless"}
      /\ place[p].at = "failing" => place[p].answer = "retry"
\* What was heard of a place stays heard while it does not move.
<1>1. ASSUME NEW p \in Place, place'[p] = place[p], ~Ends(p)
      PROVE  Heard(p)'
  <2>1. CASE ~Holds(p)
    BY <1>1, <2>1 DEF Holds
  <2>2. CASE Holds(p)
    <3>1. /\ place[p] \in Attempt /\ place[p].of \in Delivery /\ place[p].number \in Number
      BY <2>2, HeldIsAttempt DEF Attempt
    <3>2. heard'[place[p].of][place[p].number] = heard[place[p].of][place[p].number]
      <4>1. ASSUME NEW q \in Place, Ends(q)
            PROVE  heard'[place[p].of][place[p].number] = heard[place[p].of][place[p].number]
        <5>1. q # p /\ Holds(q)
          BY <1>1, <4>1 DEF Ends, Send, SourceUnavailable, Holds
        <5>2. place[q].of \in Delivery /\ place[q] \in Attempt
          BY <5>1, HeldIsAttempt
        <5>3. place[q].of # place[p].of \/ place[q].number # place[p].number
          BY <2>2, <5>1 DEF Numbers
        <5>4. QED
          BY <3>1, <4>1, <5>2, <5>3, OthersAreHeardAsBefore DEF Attempt
      <4>2. CASE heard' = heard
        BY <4>2
      <4>3. QED
        BY <4>1, <4>2
           DEF Next, vars, Toggle, Enqueue, Elapse, Delete, ExpireFinal, Claim,
               Process, Ends, Drop, ReadWebhook, GiveBack, Record, RecordThrows
    <3>3. Heard(p)
      BY DEF AnswerIsHeard
    <3>4. QED
      BY <1>1, <3>2, <3>3
  <2>3. QED
    BY <2>1, <2>2
<1>2. ASSUME NEW p \in Place, Process(p) \/ Drop(p)
      PROVE  Heard(p)'
  <2>1. Holds(p) /\ place[p] \in Attempt
    BY <1>2, OthersKeep, HeldIsAttempt
  <2>2. place[p].of \in Delivery /\ place[p].number \in Number
    BY <2>1 DEF Attempt
  <2>3. CASE ReadWebhook(p)
    BY <2>1, <2>3 DEF TypeOK, ReadWebhook
  <2>4. CASE GiveBack(p) \/ Record(p) \/ Drop(p)
    BY <2>4 DEF TypeOK, GiveBack, Record, Drop, Free, Idle
  <2>5. CASE Send(p)
    <3>1. PICK answer \in Answer :
            /\ place' = [place EXCEPT ![p].at = "answered", ![p].answer = answer]
            /\ heard' = [heard EXCEPT ![place[p].of][place[p].number] = answer]
      BY <2>5 DEF Send
    <3>2. /\ place'[p].at = "answered" /\ place'[p].answer = answer
          /\ place'[p].of = place[p].of /\ place'[p].number = place[p].number
      BY <2>1, <3>1 DEF TypeOK, Attempt
    <3>3. heard'[place[p].of][place[p].number] = answer
      BY <2>2, <3>1 DEF TypeOK
    <3>4. QED
      BY <3>2, <3>3
  <2>6. CASE SourceUnavailable(p)
    <3>1. /\ place'[p].at = "answered" /\ place'[p].answer = "final"
          /\ place'[p].of = place[p].of /\ place'[p].number = place[p].number
      BY <2>1, <2>6 DEF TypeOK, Attempt, SourceUnavailable
    <3>2. heard'[place[p].of][place[p].number] = "sourceless"
      BY <2>2, <2>6 DEF TypeOK, SourceUnavailable
    <3>3. QED
      BY <3>1, <3>2
  <2>7. CASE RecordThrows(p)
    <3>1. place'[p].at = "failing" /\ place'[p].answer = "retry"
      BY <2>1, <2>7 DEF TypeOK, Attempt, RecordThrows
    <3>2. QED
      BY <3>1
  <2>8. QED
    BY <1>2, <2>3, <2>4, <2>5, <2>6, <2>7 DEF Process
<1>3. ASSUME NEW p \in Place, NEW d \in Delivery, Claim(p, d)
      PROVE  Heard(p)'
  BY <1>3 DEF TypeOK, Claim
<1>4. ASSUME NEW p \in Place PROVE Heard(p)'
  <2>1. CASE Process(p) \/ Drop(p) \/ \E d \in Delivery : Claim(p, d)
    BY <1>2, <1>3, <2>1
  <2>2. CASE ~(Process(p) \/ Drop(p) \/ \E d \in Delivery : Claim(p, d))
    <3>1. place'[p] = place[p]
      <4>1. ASSUME NEW q \in Place, Process(q) \/ Drop(q) PROVE place'[p] = place[p]
        BY <2>2, <4>1, OthersKeep
      <4>2. ASSUME NEW q \in Place, NEW d \in Delivery, Claim(q, d)
            PROVE  place'[p] = place[p]
        BY <2>2, <4>2 DEF TypeOK, Claim
      <4>3. QED
        BY <4>1, <4>2 DEF Next, vars, Toggle, Enqueue, Elapse, Delete, ExpireFinal
    <3>2. QED
      BY <1>1, <2>2, <3>1 DEF Process, Ends
  <2>3. QED
    BY <2>1, <2>2
<1>5. QED
  BY <1>4 DEF AnswerIsHeard

----------------------------------------------------------------------------
\* What a step makes of one row.
Changes(d) ==
  \/ row'[d] = row[d]
  \/ row'[d].status = "gone" /\ Exists(d)
  \/ Enqueue(d) \/ Elapse(d) \/ ExpireFinal(d)
  \/ \E p \in Place : Claim(p, d)
  \/ \E p \in Place : /\ place[p].of = d /\ Current(p) /\ Holds(p)
                      /\ \/ GiveBack(p)
                         \/ /\ place[p].at \in {"answered", "failing"}
                            /\ row' = Recorded(p)

LEMMA RowChanges == ASSUME TypeOK, [Next]_vars, NEW d \in Delivery PROVE Changes(d)
<1>1. row \in [Delivery -> Row]
  BY DEF TypeOK
<1>2. ASSUME NEW e \in Delivery, Enqueue(e) \/ Elapse(e) \/ Delete(e) \/ ExpireFinal(e)
      PROVE  Changes(d)
  <2>1. CASE e = d
    <3>1. CASE Delete(d)
      BY <1>1, <3>1 DEF Changes, Delete, Row
    <3>2. QED
      BY <1>2, <2>1, <3>1 DEF Changes
  <2>2. CASE e # d
    BY <1>1, <1>2, <2>2 DEF Changes, Enqueue, Elapse, Delete, ExpireFinal
  <2>3. QED
    BY <2>1, <2>2
<1>3. ASSUME NEW p \in Place, NEW e \in Delivery, Claim(p, e)
      PROVE  Changes(d)
  BY <1>1, <1>3 DEF Changes, Claim
<1>4. ASSUME NEW p \in Place, GiveBack(p) \/ Record(p) \/ RecordThrows(p)
      PROVE  Changes(d)
  <2>1. Holds(p)
    BY <1>4 DEF GiveBack, Record, RecordThrows, Holds
  <2>2. CASE row' = row
    BY <2>2 DEF Changes
  <2>3. CASE row' # row
    <3>1. Current(p)
      BY <1>4, <2>3 DEF GiveBack, Record, RecordThrows, Recorded
    <3>2. CASE place[p].of # d
      BY <1>1, <1>4, <3>2 DEF Changes, GiveBack, Record, RecordThrows, Recorded
    <3>3. CASE place[p].of = d
      BY <1>4, <2>1, <2>3, <3>1, <3>3 DEF Changes, Record, RecordThrows
    <3>4. QED
      BY <3>2, <3>3
  <2>4. QED
    BY <2>2, <2>3
<1>5. CASE UNCHANGED row
  BY <1>5 DEF Changes
<1>6. QED
  BY <1>2, <1>3, <1>4, <1>5
     DEF Next, Process, Toggle, ReadWebhook, Send, SourceUnavailable, Drop, vars

LEMMA StrandedStep ==
  ASSUME TypeOK, NothingIsStranded, [Next]_vars
  PROVE  NothingIsStranded'
<1> DEFINE Reachable(r) ==
      /\ r.status = "pending" => r.next # "null" /\ (r.attempts < MaxAttempts \/ r.tried)
      /\ r.status = "failed" /\ r.next # "null" => r.attempts < MaxAttempts
      /\ r.status = "success" => r.next = "null"
<1>1. ASSUME NEW d \in Delivery PROVE Reachable(row'[d])
  <2>1. Reachable(row[d]) /\ row[d] \in Row /\ row \in [Delivery -> Row]
    BY DEF NothingIsStranded, TypeOK
  <2>2. CASE Enqueue(d)
    BY <2>1, <2>2, Numeric DEF Enqueue, NoRow
  <2>3. CASE Elapse(d)
    BY <2>1, <2>3 DEF Elapse, Row
  <2>4. CASE ExpireFinal(d)
    BY <2>1, <2>4 DEF ExpireFinal, Row
  <2>5. ASSUME NEW p \in Place, Claim(p, d) PROVE Reachable(row'[d])
    BY <2>1, <2>5 DEF Claim
  <2>6. ASSUME NEW p \in Place, place[p].of = d, Current(p), Holds(p),
               \/ GiveBack(p)
               \/ row' = Recorded(p)
        PROVE  Reachable(row'[d])
    <3>1. /\ place[p].number \in Nat /\ place[p].number >= 1 /\ place[p].number <= MaxAttempts
          /\ row[d].attempts = place[p].number /\ row[d].status = "pending"
      BY <2>6, HeldIsAttempt DEF Current
    <3>2. CASE GiveBack(p)
      <4>1. /\ row'[d].attempts = place[p].number - 1 /\ row'[d].next = "due"
            /\ row'[d].status = "pending"
        BY <2>1, <2>6, <3>1, <3>2 DEF GiveBack, Row
      <4>2. QED
        BY <3>1, <4>1, Numeric
    <3>3. CASE row' = Recorded(p)
      <4>1. /\ row'[d].attempts = place[p].number
            /\ row'[d].status = (IF place[p].answer = "success" THEN "success" ELSE "failed")
            /\ row'[d].next = (IF place[p].answer = "retry" /\ place[p].number < MaxAttempts
                               THEN "ahead" ELSE "null")
        BY <2>1, <2>6, <3>1, <3>3 DEF Recorded, Row
      <4>2. QED
        BY <4>1
    <3>4. QED
      BY <2>6, <3>2, <3>3
  <2>7. Changes(d)
    BY RowChanges
  <2>8. CASE row'[d] = row[d] \/ row'[d].status = "gone"
    BY <2>1, <2>8
  <2>9. QED
    BY <2>2, <2>3, <2>4, <2>5, <2>6, <2>7, <2>8 DEF Changes
<1>2. QED
  BY <1>1 DEF NothingIsStranded

LEMMA VerdictStep ==
  ASSUME TypeOK, Numbers, EachNumberSentOnce, AnswerIsHeard, NothingIsStranded,
         VerdictIsEarned, [Next]_vars
  PROVE  VerdictIsEarned'
<1> DEFINE Earned(r, h) ==
      /\ r.status = "success" => h[r.attempts] = "success"
      /\ r.status = "failed" /\ r.next = "null" /\ r.attempts < MaxAttempts =>
           h[r.attempts] \in {"final", "sourceless"}
<1>1. ASSUME NEW d \in Delivery PROVE Earned(row'[d], heard'[d])
  <2>1. /\ Earned(row[d], heard[d]) /\ row[d] \in Row /\ row \in [Delivery -> Row]
        /\ row[d].attempts \in 0 .. MaxAttempts
    BY DEF VerdictIsEarned, TypeOK, Row
  \* A request's answer does not replace the one the row rests on.
  <2>2. ASSUME NEW p \in Place, Ends(p) PROVE Earned(row'[d], heard'[d])
    <3>1. /\ Unsent(p) /\ Holds(p) /\ row' = row
      BY <2>2 DEF Ends, Send, SourceUnavailable, Unsent, Holds
    <3>2. /\ place[p].of \in Delivery /\ place[p].number \in Number
          /\ heard[place[p].of][place[p].number] = "unsent"
      <4>1. place[p] \in Attempt
        BY <3>1, HeldIsAttempt
      <4>2. QED
        BY <3>1, <4>1 DEF Attempt, EachNumberSentOnce, Unsent
    <3>3. heard[d][row[d].attempts] # "unsent" =>
            heard'[d][row[d].attempts] = heard[d][row[d].attempts]
      <4>1. PICK outcome \in Outcome :
              heard' = [heard EXCEPT ![place[p].of][place[p].number] = outcome]
        BY <2>2, EndingIsHeard
      <4>2. \A m : heard[d][m] # "unsent" => heard'[d][m] = heard[d][m]
        BY <3>2, <4>1 DEF TypeOK
      <4>3. QED
        BY <4>2
    <3>4. QED
      BY <2>1, <3>1, <3>3
  <2>3. CASE heard' = heard
    <3>1. CASE Enqueue(d)
      BY <2>1, <3>1 DEF Enqueue, NoRow
    <3>2. CASE Elapse(d)
      BY <2>1, <3>2 DEF Elapse, NothingIsStranded, Row
    <3>3. CASE ExpireFinal(d)
      BY <2>1, <3>3, Numeric DEF ExpireFinal, Row
    <3>4. ASSUME NEW p \in Place, Claim(p, d) PROVE Earned(row'[d], heard'[d])
      BY <2>1, <3>4 DEF Claim
    <3>5. ASSUME NEW p \in Place, place[p].of = d, Current(p), Holds(p), GiveBack(p)
          PROVE  Earned(row'[d], heard'[d])
      BY <2>1, <3>5 DEF GiveBack, Current, Row
    <3>6. ASSUME NEW p \in Place, place[p].of = d, Current(p), Holds(p),
                 place[p].at \in {"answered", "failing"}, row' = Recorded(p)
          PROVE  Earned(row'[d], heard'[d])
      <4>1. /\ row[d].attempts = place[p].number /\ row[d].status = "pending"
            /\ place[p] \in Attempt /\ place[p].number \in Nat /\ place[p].number <= MaxAttempts
        BY <3>6, HeldIsAttempt DEF Current
      <4>2. /\ row'[d].attempts = place[p].number
            /\ row'[d].status = (IF place[p].answer = "success" THEN "success" ELSE "failed")
            /\ row'[d].next = (IF place[p].answer = "retry" /\ place[p].number < MaxAttempts
                               THEN "ahead" ELSE "null")
        BY <2>1, <3>6, <4>1 DEF Recorded, Row
      <4>3. /\ place[p].answer = "success" => heard[d][place[p].number] = "success"
            /\ place[p].answer = "final" => heard[d][place[p].number] \in {"final", "sourceless"}
        BY <3>6, <4>1 DEF AnswerIsHeard
      <4>4. place[p].answer \in Answer
        BY <4>1 DEF Attempt
      <4>5. QED
        BY <2>3, <4>2, <4>3, <4>4 DEF Answer
    <3>7. CASE row'[d] = row[d] \/ row'[d].status = "gone"
      BY <2>1, <2>3, <3>7
    <3>8. Changes(d)
      BY RowChanges
    <3>9. QED
      BY <3>1, <3>2, <3>3, <3>4, <3>5, <3>6, <3>7, <3>8 DEF Changes
  <2>4. QED
    BY <2>2, <2>3
       DEF Next, vars, Toggle, Enqueue, Elapse, Delete, ExpireFinal, Claim,
           Process, Ends, Drop, ReadWebhook, GiveBack, Record, RecordThrows
<1>2. QED
  BY <1>1 DEF VerdictIsEarned

----------------------------------------------------------------------------
LEMMA InitialInv == ASSUME Init PROVE Inv
<1>1. TypeOK
  BY InitialType
<1>2. /\ \A p \in Place : ~Holds(p)
      /\ \A d \in Delivery : row[d] = NoRow /\ \A n \in Number : heard[d][n] = "unsent"
  BY DEF Init, Holds, Idle
<1>3. Numbers /\ EachNumberSentOnce /\ AnswerIsHeard
  BY <1>2 DEF Numbers, EachNumberSentOnce, AnswerIsHeard, Holds, NoRow
<1>4. NothingIsStranded /\ VerdictIsEarned
  BY <1>2 DEF NothingIsStranded, VerdictIsEarned, NoRow
<1>5. QED
  BY <1>1, <1>3, <1>4 DEF Inv

LEMMA InvStep == ASSUME Inv, [Next]_vars PROVE Inv'
<1>1. TypeOK'
  BY TypeStep DEF Inv
<1>2. QED
  BY <1>1, NumbersStep, AnswerStep, StrandedStep, VerdictStep DEF Inv

\* The inductive invariant, which Numbers strengthens.
THEOREM Invariance == Spec => []Inv
BY InitialInv, InvStep, PTL DEF Spec

\* Rows, places and history keep their types.
THEOREM TypeCorrect == Spec => []TypeOK
<1>1. Inv => TypeOK
  BY DEF Inv
<1>2. QED
  BY <1>1, Invariance, PTL

\* No attempt number is sent twice (processWebhookDelivery gives numbers back
\* only where it has not sent): a receiver gets at most MaxAttempts requests.
THEOREM NumbersAreSentOnce == Spec => []EachNumberSentOnce
<1>1. Inv => EachNumberSentOnce
  BY DEF Inv
<1>2. QED
  BY <1>1, Invariance, PTL

\* Every unfinished row can be claimed or expired when its time comes
\* (claimWebhookDeliveries, expireFinalWebhookAttempts).
THEOREM NothingIsEverStranded == Spec => []NothingIsStranded
<1>1. Inv => NothingIsStranded
  BY DEF Inv
<1>2. QED
  BY <1>1, Invariance, PTL

\* The stored verdict is that of the attempt the row counts (recordResult): what
\* the receiver answered, or that the attempt did not find what it was to send.
THEOREM VerdictsAreEarned == Spec => []VerdictIsEarned
<1>1. Inv => VerdictIsEarned
  BY DEF Inv
<1>2. QED
  BY <1>1, Invariance, PTL

\* A settled row changes no more: late results find no pending row.
THEOREM SettledStaysFinal == Spec => SettledIsFinal
<1>1. ASSUME Inv, [Next]_vars
      PROVE  [\A d \in Delivery : Settled(d) =>
                row'[d] = row[d] \/ row'[d].status = "gone"]_vars
  <2>1. ASSUME NEW d \in Delivery, Settled(d)
        PROVE  row'[d] = row[d] \/ row'[d].status = "gone"
    <3>1. /\ row[d].next = "null" /\ row[d].status # "none" /\ row[d].status # "pending"
          /\ Changes(d)
      BY <1>1, <2>1, RowChanges DEF Inv, Settled, Exists, NothingIsStranded
    <3>2. QED
      BY <3>1 DEF Changes, Enqueue, Elapse, ExpireFinal, Claim, Claimable, Current
  <2>2. QED
    BY <2>1
<1>2. QED
  BY <1>1, Invariance, PTL DEF Spec, SettledIsFinal

\* The promises of the deliveries in one: the run's invariant.
THEOREM DeliveriesStayConsistent == Spec => []DeliveriesConsistent
<1>1. Inv => DeliveriesConsistent
  BY DEF Inv, DeliveriesConsistent
<1>2. QED
  BY <1>1, Invariance, PTL

----------------------------------------------------------------------------
(* The deliveries are an outbox.                                           *)

\* How far one delivery may get in a step.
Moves(d) ==
  \/ Stage(d)' = Stage(d)
  \/ Stage(d) = "none" /\ Stage(d)' = "open"
  \/ Stage(d) = "open" /\ Stage(d)' = "sent" /\ \E n \in Number : heard[d][n] = "success"
  \/ Stage(d) = "open" /\ Stage(d)' = "failed"
  \/ Stage(d) \in {"open", "sent", "failed"} /\ Stage(d)' = "gone"

LEMMA OneMoves ==
  ASSUME NEW d \in Delivery, Moves(d), heard' = heard,
         \A x \in Delivery : x # d => row'[x] = row[x]
  PROVE  [Promised!Next]_(Promised!vars)
<1> DEFINE stage  == [x \in Delivery |-> Stage(x)]
           copies == [x \in Delivery |-> {n \in Number : heard[x][n] \in Answer}]
           taken  == [x \in Delivery |-> {n \in Number : heard[x][n] = "success"}]
<1>1. \A x \in Delivery : x # d => Stage(x)' = Stage(x)
  BY DEF Stage
<1>2. copies' = copies /\ taken' = taken
  OBVIOUS
<1>3. stage' = [stage EXCEPT ![d] = Stage(d)']
  BY <1>1
<1>4. stage' = [x \in Delivery |-> IF x \in {d} THEN Stage(d)' ELSE stage[x]]
  BY <1>1
<1>5. stage[d] = Stage(d) /\ taken[d] = {n \in Number : heard[d][n] = "success"}
  OBVIOUS
<1>6. CASE Stage(d)' = Stage(d)
  <2>1. stage' = stage
    BY <1>1, <1>6
  <2>2. QED
    BY <1>2, <2>1 DEF Promised!vars
<1>7. CASE Stage(d) = "none" /\ Stage(d)' = "open"
  BY <1>2, <1>3, <1>5, <1>7 DEF Promised!Next, Promised!Put
<1>8. CASE Stage(d) = "open" /\ Stage(d)' = "sent" /\ \E n \in Number : heard[d][n] = "success"
  BY <1>2, <1>3, <1>5, <1>8 DEF Promised!Next, Promised!Confirm
<1>9. CASE Stage(d) = "open" /\ Stage(d)' = "failed"
  <2>1. Promised!GiveUp({d})
    BY <1>2, <1>4, <1>5, <1>9 DEF Promised!GiveUp
  <2>2. QED
    BY <2>1 DEF Promised!Next
<1>10. CASE Stage(d) \in {"open", "sent", "failed"} /\ Stage(d)' = "gone"
  BY <1>2, <1>3, <1>5, <1>10 DEF Promised!Next, Promised!Remove
<1>11. QED
  BY <1>6, <1>7, <1>8, <1>9, <1>10 DEF Moves

\* The update of a place leaves the rows of other deliveries alone, and says
\* of its own what was heard.
LEMMA RecordedMoves ==
  ASSUME Inv, NEW p \in Place, place[p].at \in {"answered", "failing"}, row' = Recorded(p),
         NEW d \in Delivery, d = place[p].of
  PROVE  /\ Moves(d)
         /\ \A x \in Delivery : x # d => row'[x] = row[x]
<1>1. /\ row \in [Delivery -> Row] /\ row[d] \in Row
      /\ place[p].number \in Number /\ place[p].answer \in Answer
  <2>1. Holds(p)
    BY DEF Holds
  <2>2. QED
    BY <2>1, HeldIsAttempt DEF Inv, TypeOK, Attempt
<1>2. CASE Current(p)
  <2>1. /\ row'[d].status = (IF place[p].answer = "success" THEN "success" ELSE "failed")
        /\ \A x \in Delivery : x # d => row'[x] = row[x]
    BY <1>1, <1>2 DEF Recorded, Row
  <2>2. Stage(d) = "open" /\ Stage(d)' \in {"sent", "failed", "open"}
    BY <1>1, <1>2, <2>1 DEF Stage, Current
  <2>3. Stage(d)' = "sent" => heard[d][place[p].number] = "success"
    <3>1. Stage(d)' = "sent" => place[p].answer = "success"
      BY <2>1 DEF Stage
    <3>2. QED
      BY <3>1 DEF Inv, AnswerIsHeard
  <2>4. QED
    BY <1>1, <2>1, <2>2, <2>3 DEF Moves
<1>3. CASE ~Current(p)
  <2>1. row' = row
    BY <1>3 DEF Recorded
  <2>2. QED
    BY <1>1, <2>1 DEF Moves, Stage
<1>4. QED
  BY <1>2, <1>3

\* A request is a copy under a number that carried none, of a delivery that is there.
LEMMA SendingCarries ==
  ASSUME Inv, NEW p \in Place, Send(p)
  PROVE  [Promised!Next]_(Promised!vars)
<1> DEFINE d == place[p].of
           n == place[p].number
           stage  == [x \in Delivery |-> Stage(x)]
           copies == [x \in Delivery |-> {m \in Number : heard[x][m] \in Answer}]
           taken  == [x \in Delivery |-> {m \in Number : heard[x][m] = "success"}]
<1>1. Holds(p) /\ Unsent(p)
  BY DEF Send, Holds, Unsent
<1>2. d \in Delivery /\ n \in Number
  BY <1>1, HeldIsAttempt DEF Inv, Attempt
<1>3. heard[d][n] = "unsent" /\ row[d].status # "none"
  BY <1>1 DEF Inv, EachNumberSentOnce, Numbers, Unsent
<1>4. PICK answer \in Answer : heard' = [heard EXCEPT ![d][n] = answer]
  BY DEF Send
<1>5. /\ heard \in [Delivery -> [Number -> Outcome]] /\ "unsent" \notin Answer
      /\ stage' = stage
  BY DEF Inv, TypeOK, Send, Stage, Answer
<1>6. \A x \in Delivery, m \in Number :
        heard'[x][m] = IF x = d /\ m = n THEN answer ELSE heard[x][m]
  BY <1>2, <1>4, <1>5
<1>7. copies' = [copies EXCEPT ![d] = @ \cup {n}]
  <2>1. \A x \in Delivery : copies'[x] = IF x = d THEN copies[d] \cup {n} ELSE copies[x]
    BY <1>2, <1>5, <1>6
  <2>2. QED
    BY <2>1
<1>8. taken' \in {taken, [taken EXCEPT ![d] = @ \cup {n}]}
  <2>1. CASE answer = "success"
    <3>1. \A x \in Delivery : taken'[x] = IF x = d THEN taken[d] \cup {n} ELSE taken[x]
      BY <1>2, <1>6, <2>1
    <3>2. QED
      BY <3>1
  <2>2. CASE answer # "success"
    <3>1. \A x \in Delivery : taken'[x] = taken[x]
      BY <1>2, <1>3, <1>6, <2>2
    <3>2. QED
      BY <3>1
  <2>3. QED
    BY <2>1, <2>2
<1>9. stage[d] # "none" /\ n \notin copies[d] /\ n \in 1 .. MaxAttempts
  BY <1>2, <1>3, <1>5 DEF Stage, Number
<1>10. PICK x \in Delivery, m \in 1 .. MaxAttempts : x = d /\ m = n
  BY <1>2, <1>9
<1>11. Promised!Carry(x, m)
  <2> HIDE DEF stage, copies, taken, d, n
  <2>1. QED
    BY <1>5, <1>7, <1>8, <1>9, <1>10 DEF Promised!Carry, stage, copies, taken
<1>12. \E y \in Delivery, k \in 1 .. MaxAttempts : Promised!Carry(y, k)
  <2> HIDE DEF d, n
  <2>1. WITNESS x \in Delivery, m \in 1 .. MaxAttempts
  <2>2. QED
    BY <1>11
<1>13. QED
  BY <1>12 DEF Promised!Next

\* An attempt that found nothing to send reaches nobody.
LEMMA SourcelessReachesNobody ==
  ASSUME Inv, NEW p \in Place, SourceUnavailable(p)
  PROVE  UNCHANGED Promised!vars
<1> DEFINE d == place[p].of
           n == place[p].number
<1>1. Holds(p) /\ Unsent(p)
  BY DEF SourceUnavailable, Holds, Unsent
<1>2. d \in Delivery /\ n \in Number
  BY <1>1, HeldIsAttempt DEF Inv, Attempt
<1>3. heard[d][n] = "unsent"
  BY <1>1 DEF Inv, EachNumberSentOnce, Unsent
<1>4. /\ heard \in [Delivery -> [Number -> Outcome]] /\ row' = row
      /\ heard' = [heard EXCEPT ![d][n] = "sourceless"]
  BY DEF Inv, TypeOK, SourceUnavailable
<1>5. \A x \in Delivery, m \in Number :
        /\ heard'[x][m] \in Answer <=> heard[x][m] \in Answer
        /\ heard'[x][m] = "success" <=> heard[x][m] = "success"
  <2>1. \A x \in Delivery, m \in Number :
          heard'[x][m] = IF x = d /\ m = n THEN "sourceless" ELSE heard[x][m]
    BY <1>2, <1>4
  <2>2. QED
    BY <1>3, <2>1 DEF Answer
<1>6. \A x \in Delivery :
        /\ {m \in Number : heard'[x][m] \in Answer} = {m \in Number : heard[x][m] \in Answer}
        /\ {m \in Number : heard'[x][m] = "success"} = {m \in Number : heard[x][m] = "success"}
        /\ Stage(x)' = Stage(x)
  BY <1>4, <1>5 DEF Stage
<1>7. QED
  BY <1>6 DEF Promised!vars

LEMMA WebhookStepsAreMoves ==
  ASSUME Inv, [Next]_vars
  PROVE  [Promised!Next]_(Promised!vars)
<1>1. row \in [Delivery -> Row]
  BY DEF Inv, TypeOK
<1>2. ASSUME NEW d \in Delivery, Enqueue(d) \/ Elapse(d) \/ Delete(d) \/ ExpireFinal(d)
      PROVE  [Promised!Next]_(Promised!vars)
  <2>1. /\ \A x \in Delivery : x # d => row'[x] = row[x]
        /\ heard' = heard
    BY <1>1, <1>2 DEF Enqueue, Elapse, Delete, ExpireFinal
  <2>2. row[d] \in Row
    BY <1>1
  <2>3. Moves(d)
    <3>1. CASE Enqueue(d)
      BY <1>1, <3>1 DEF Enqueue, NoRow, Moves, Stage
    <3>2. CASE Elapse(d)
      BY <1>1, <2>2, <3>2 DEF Elapse, Moves, Stage, Row
    <3>3. CASE Delete(d)
      BY <1>1, <2>2, <3>3 DEF Delete, Exists, Moves, Stage, Row
    <3>4. CASE ExpireFinal(d)
      BY <1>1, <2>2, <3>4 DEF ExpireFinal, Moves, Stage, Row
    <3>5. QED
      BY <1>2, <3>1, <3>2, <3>3, <3>4
  <2>4. QED
    BY <2>1, <2>3, OneMoves
<1>3. ASSUME NEW p \in Place, NEW d \in Delivery, Claim(p, d)
      PROVE  [Promised!Next]_(Promised!vars)
  <2>1. /\ \A x \in Delivery : x # d => row'[x] = row[x]
        /\ heard' = heard /\ row'[d].status = "pending" /\ row'[d].next = "ahead"
        /\ row[d].status \in {"pending", "failed"} /\ row[d].next = "due"
    BY <1>1, <1>3 DEF Claim, Claimable
  <2>2. QED
    BY <2>1, OneMoves DEF Moves, Stage
<1>4. ASSUME NEW p \in Place, GiveBack(p)
      PROVE  [Promised!Next]_(Promised!vars)
  <2>1. PICK d \in Delivery : d = place[p].of
    BY <1>4, HeldIsAttempt DEF Inv, GiveBack, Holds
  <2>2. row[d] \in Row
    BY <1>1
  <2>3. /\ \A x \in Delivery : x # d => row'[x] = row[x]
        /\ heard' = heard
        /\ \/ row'[d] = row[d]
           \/ row'[d].status = "pending" /\ row'[d].next = "due" /\ row[d].status = "pending"
    BY <1>1, <1>4, <2>1, <2>2 DEF GiveBack, Current, Row
  <2>4. Moves(d)
    BY <2>3 DEF Moves, Stage
  <2>5. QED
    BY <2>3, <2>4, OneMoves
<1>5. ASSUME NEW p \in Place, Record(p) \/ RecordThrows(p)
      PROVE  [Promised!Next]_(Promised!vars)
  <2>1. heard' = heard /\ place[p].at \in {"answered", "failing"}
    BY <1>5 DEF Record, RecordThrows
  <2>2. PICK d \in Delivery : d = place[p].of
    BY <2>1, HeldIsAttempt DEF Inv, Holds
  <2>3. CASE row' = row
    BY <2>1, <2>3 DEF Promised!vars, Stage
  <2>4. CASE row' = Recorded(p)
    BY <2>1, <2>2, <2>4, RecordedMoves, OneMoves
  <2>5. QED
    BY <1>5, <2>3, <2>4 DEF Record, RecordThrows
<1>6. CASE row' = row /\ heard' = heard
  BY <1>6 DEF Promised!vars, Stage
<1>7. QED
  BY <1>2, <1>3, <1>4, <1>5, <1>6, SendingCarries, SourcelessReachesNobody
     DEF Next, Process, Toggle, ReadWebhook, Drop, vars

\* Whatever leases run out and numbers are given back, the deliveries do what an
\* outbox does: one request for each number, success when the receiver said so,
\* and a last word that stands.
THEOREM WebhooksImplementOutbox == Spec => ImplementsOutbox
<1>1. Init => Promised!Init
  BY DEF Init, NoRow, Answer, Promised!Init, Stage
<1>2. Inv /\ [Next]_vars => [Promised!Next]_(Promised!vars)
  BY WebhookStepsAreMoves
<1>3. QED
  BY <1>1, <1>2, Invariance, PTL DEF Spec, ImplementsOutbox, Promised!Spec

----------------------------------------------------------------------------
(* The inference path: numbers and sequences.                              *)

Smaller == {pair \in Nat \X Nat : pair[1] < pair[2]}

LEMMA LeastNumber ==
  ASSUME NEW numbers \in SUBSET Nat, numbers # {}
  PROVE  \E x \in numbers : \A y \in numbers : x <= y
<1>1. IsWellFoundedOn(Smaller, Nat)
  <2>1. OpToRel(<, Nat) = Smaller
    BY Zenon DEF OpToRel, Smaller
  <2>2. QED
    BY <2>1, NatLessThanWellFounded, Zenon
<1>2. PICK x \in numbers : \A y \in numbers : ~ (<<y, x>> \in Smaller)
  BY <1>1, WFMin, Zenon
<1>3. \A y \in numbers : x <= y
  <2>1. TAKE y \in numbers
  <2>2. <<y, x>> \notin Smaller /\ y \in Nat /\ x \in Nat
    BY <1>2
  <2>3. ~(y < x)
    BY <2>2 DEF Smaller
  <2>4. QED
    BY <2>2, <2>3
<1>4. QED
  BY <1>3

\* p is q with e put in at place i, or with what is at place i taken out.
WithInserted(S, q, i, e, p) ==
  /\ p \in Seq(S) /\ Len(p) = Len(q) + 1
  /\ \A j \in 1..(Len(q) + 1) :
       p[j] = IF j < i THEN q[j] ELSE IF j = i THEN e ELSE q[j - 1]
WithRemoved(S, q, i, p) ==
  /\ p \in Seq(S) /\ Len(p) = Len(q) - 1
  /\ \A j \in 1..(Len(q) - 1) : p[j] = IF j < i THEN q[j] ELSE q[j + 1]

LEMMA InsertedParts ==
  ASSUME NEW S, NEW q \in Seq(S), NEW e \in S, NEW i \in 1..(Len(q) + 1)
  PROVE  WithInserted(S, q, i, e, InsertAt(q, i, e))
<1>0. PICK p : p = InsertAt(q, i, e)
  OBVIOUS
<1> DEFINE before == SubSeq(q, 1, i - 1)
           after == SubSeq(q, i, Len(q))
<1>1. Len(q) \in Nat
  BY LenProperties
<1>2. /\ before \in Seq(S) /\ Len(before) = i - 1
      /\ \A j \in 1..(i - 1) : before[j] = q[j]
  BY <1>1
<1>3. /\ after \in Seq(S) /\ Len(after) = Len(q) - i + 1
      /\ \A j \in 1..(Len(q) - i + 1) : after[j] = q[i + j - 1]
  BY <1>1
<1>4. /\ before \o <<e>> \in Seq(S) /\ Len(before \o <<e>>) = i
      /\ \A j \in 1..(i - 1) : (before \o <<e>>)[j] = q[j]
      /\ (before \o <<e>>)[i] = e
  <2>1. <<e>> \in Seq(S) /\ Len(<<e>>) = 1 /\ <<e>>[1] = e
    OBVIOUS
  <2>2. /\ before \o <<e>> \in Seq(S) /\ Len(before \o <<e>>) = Len(before) + 1
        /\ \A j \in 1..(Len(before) + 1) : (before \o <<e>>)[j] =
             IF j <= Len(before) THEN before[j] ELSE <<e>>[j - Len(before)]
    BY <1>2, <2>1, ConcatProperties
  <2>3. i - 1 + 1 = i /\ i - (i - 1) = 1 /\ ~(i <= i - 1) /\ i \in 1..i
    BY <1>1
  <2>4. \A j \in 1..(i - 1) : j \in 1..i /\ j <= i - 1
    BY <1>1
  <2> DEFINE first == before \o <<e>>
  <2> HIDE DEF first
  <2>5. /\ first \in Seq(S) /\ Len(first) = i
        /\ \A j \in 1..i : first[j] = IF j <= i - 1 THEN before[j] ELSE <<e>>[j - (i - 1)]
    BY <1>2, <2>2, <2>3, Zenon DEF first
  <2>6. \A j \in 1..(i - 1) : first[j] = q[j]
    BY <1>2, <2>4, <2>5, Zenon
  <2>7. first[i] = e
    BY <2>1, <2>3, <2>5, Zenon
  <2>8. QED
    BY <2>5, <2>6, <2>7, Zenon DEF first
<1> HIDE DEF before, after
<1>5. /\ (before \o <<e>>) \o after \in Seq(S)
      /\ Len((before \o <<e>>) \o after) = Len(q) + 1
      /\ \A j \in 1..i : ((before \o <<e>>) \o after)[j] = (before \o <<e>>)[j]
      /\ \A j \in (i + 1)..(Len(q) + 1) :
           ((before \o <<e>>) \o after)[j] = after[j - i]
  <2> DEFINE first == before \o <<e>>
  <2>2. first \in Seq(S) /\ Len(first) = i
    BY <1>4
  <2> HIDE DEF first
  <2>3. /\ first \o after \in Seq(S) /\ Len(first \o after) = i + (Len(q) - i + 1)
        /\ \A j \in 1..(i + (Len(q) - i + 1)) : (first \o after)[j] =
             IF j <= i THEN first[j] ELSE after[j - i]
    <3>1. first \in Seq(S) /\ after \in Seq(S)
      BY <1>3, <2>2
    <3>2. /\ first \o after \in Seq(S)
          /\ Len(first \o after) = Len(first) + Len(after)
          /\ \A j \in 1..(Len(first) + Len(after)) : (first \o after)[j] =
               IF j <= Len(first) THEN first[j] ELSE after[j - Len(first)]
      BY <3>1, ConcatProperties
    <3>3. Len(first) = i /\ Len(after) = Len(q) - i + 1
      BY <1>3, <2>2
    <3>4. QED
      BY <3>2, <3>3, Zenon
  <2>4. i + (Len(q) - i + 1) = Len(q) + 1
    BY <1>1
  <2>5. \A j \in 1..i : j \in 1..(Len(q) + 1) /\ j <= i
    BY <1>1
  <2>6. \A j \in (i + 1)..(Len(q) + 1) : j \in 1..(Len(q) + 1) /\ ~(j <= i)
    BY <1>1
  <2>7. QED
    BY <2>3, <2>4, <2>5, <2>6 DEF first
<1>6. p = (before \o <<e>>) \o after
  BY <1>0 DEF InsertAt, before, after
<1>7. ASSUME NEW j \in 1..(Len(q) + 1)
      PROVE  p[j] = IF j < i THEN q[j] ELSE IF j = i THEN e ELSE q[j - 1]
  <2>1. CASE j <= i
    BY <1>1, <1>4, <1>5, <1>6, <2>1
  <2>2. CASE j > i
    <3>1. j - i \in 1..(Len(q) - i + 1) /\ i + (j - i) - 1 = j - 1
      BY <1>1, <2>2
    <3>2. QED
      BY <1>1, <1>3, <1>5, <1>6, <2>2, <3>1
  <2>3. QED
    BY <1>1, <2>1, <2>2
<1>8. QED
  BY <1>0, <1>5, <1>6, <1>7 DEF WithInserted

LEMMA Inserted ==
  ASSUME NEW S, NEW q \in Seq(S), NEW e \in S, NEW i \in 1..(Len(q) + 1)
  PROVE  /\ InsertAt(q, i, e) \in Seq(S) /\ InsertAt(q, i, e) # <<>>
         /\ ToSet(InsertAt(q, i, e)) = ToSet(q) \union {e}
         /\ IsInjective(q) /\ e \notin ToSet(q) => IsInjective(InsertAt(q, i, e))
<1>1. PICK p : p = InsertAt(q, i, e)
  OBVIOUS
<1>2. /\ p \in Seq(S) /\ Len(p) = Len(q) + 1
      /\ \A j \in 1..(Len(q) + 1) :
           p[j] = IF j < i THEN q[j] ELSE IF j = i THEN e ELSE q[j - 1]
  <2>1. WithInserted(S, q, i, e, InsertAt(q, i, e))
    BY InsertedParts, Zenon
  <2>2. QED
    BY <1>1, <2>1, Zenon DEF WithInserted
<1>3. /\ Len(q) \in Nat /\ DOMAIN p = 1..(Len(q) + 1) /\ DOMAIN q = 1..Len(q)
  BY <1>2, LenProperties
<1>4. ToSet(p) \subseteq ToSet(q) \union {e}
  <2>1. ASSUME NEW j \in 1..(Len(q) + 1) PROVE p[j] \in ToSet(q) \union {e}
    <3>1. j < i => j \in 1..Len(q)
      BY <1>2, <1>3
    <3>2. j > i => j - 1 \in 1..Len(q)
      BY <1>2, <1>3
    <3>3. \/ p[j] = e
          \/ j \in 1..Len(q) /\ p[j] = q[j]
          \/ j - 1 \in 1..Len(q) /\ p[j] = q[j - 1]
      BY <1>2, <3>1, <3>2
    <3>4. \A k \in 1..Len(q) : q[k] \in ToSet(q)
      BY DEF ToSet
    <3>5. QED
      BY <3>3, <3>4
  <2>2. QED
    BY <1>2, <1>3, <2>1 DEF ToSet
<1>5. ToSet(q) \union {e} \subseteq ToSet(p)
  <2>1. ASSUME NEW k \in 1..Len(q) PROVE q[k] \in ToSet(p)
    <3>1. CASE k < i
      <4>1. k \in 1..(Len(q) + 1)
        BY <1>3
      <4>2. p[k] = q[k]
        BY <1>2, <3>1, <4>1
      <4>3. QED
        BY <1>3, <4>1, <4>2 DEF ToSet
    <3>2. CASE k >= i
      <4>1. k + 1 \in 1..(Len(q) + 1) /\ ~(k + 1 < i) /\ k + 1 # i /\ (k + 1) - 1 = k
        BY <1>2, <1>3, <3>2
      <4>2. p[k + 1] = q[k]
        BY <1>2, <1>3, <4>1
      <4>3. QED
        BY <1>3, <4>1, <4>2 DEF ToSet
    <3>3. QED
      BY <1>2, <1>3, <3>1, <3>2
  <2>2. e \in ToSet(p)
    BY <1>2, <1>3 DEF ToSet
  <2>3. QED
    BY <1>2, <1>3, <2>1, <2>2 DEF ToSet
<1>6. ASSUME IsInjective(q), e \notin ToSet(q) PROVE IsInjective(p)
  <2>1. SUFFICES ASSUME NEW a \in 1..(Len(q) + 1), NEW b \in 1..(Len(q) + 1), p[a] = p[b]
                 PROVE  a = b
    BY <1>2, <1>3 DEF IsInjective
  <2>2. \A k \in 1..Len(q) : q[k] # e
    BY <1>2, <1>3, <1>6 DEF ToSet
  <2>3. \A j \in 1..(Len(q) + 1) : /\ j < i => j \in 1..Len(q)
                                   /\ j > i => j - 1 \in 1..Len(q)
    BY <1>2, <1>3
  <2>4. \A k, l \in 1..Len(q) : q[k] = q[l] => k = l
    BY <1>2, <1>3, <1>6 DEF IsInjective
  <2>5. CASE a = i \/ b = i
    BY <1>2, <1>3, <2>1, <2>2, <2>3, <2>5
  <2>6. CASE a # i /\ b # i
    <3>1. PICK k \in 1..Len(q) : p[a] = q[k] /\ k = IF a < i THEN a ELSE a - 1
      BY <1>2, <1>3, <2>3, <2>6
    <3>2. PICK l \in 1..Len(q) : p[b] = q[l] /\ l = IF b < i THEN b ELSE b - 1
      BY <1>2, <1>3, <2>3, <2>6
    <3>3. k = l
      BY <2>1, <2>4, <3>1, <3>2
    <3>4. QED
      BY <1>2, <1>3, <2>6, <3>1, <3>2, <3>3
  <2>7. QED
    BY <2>5, <2>6
<1>7. p # <<>>
  BY <1>2, <1>3
<1>8. QED
  BY <1>1, <1>2, <1>4, <1>5, <1>6, <1>7

LEMMA Appended ==
  ASSUME NEW S, NEW q \in Seq(S), NEW e \in S
  PROVE  /\ Append(q, e) \in Seq(S) /\ Len(Append(q, e)) = Len(q) + 1
         /\ \A x : Contains(Append(q, e), x) <=> Contains(q, x) \/ x = e
         /\ IsInjective(q) /\ ~Contains(q, e) => IsInjective(Append(q, e))
<1> DEFINE p == Append(q, e)
<1>1. /\ p \in Seq(S) /\ Len(p) = Len(q) + 1 /\ Len(q) \in Nat
      /\ DOMAIN p = 1..Len(p) /\ DOMAIN q = 1..Len(q)
      /\ \A j \in 1..Len(q) : p[j] = q[j]
      /\ p[Len(q) + 1] = e
  BY AppendProperties
<1> HIDE DEF p
<1>2. ASSUME NEW x PROVE Contains(p, x) <=> Contains(q, x) \/ x = e
  <2>1. ASSUME NEW j \in 1..Len(p), p[j] = x PROVE Contains(q, x) \/ x = e
    <3>1. CASE j \in 1..Len(q)
      BY <1>1, <2>1, <3>1 DEF Contains
    <3>2. CASE j = Len(q) + 1
      BY <1>1, <2>1, <3>2
    <3>3. QED
      BY <1>1, <3>1, <3>2
  <2>2. ASSUME NEW j \in 1..Len(q), q[j] = x PROVE Contains(p, x)
    BY <1>1, <2>2 DEF Contains
  <2>3. x = e => Contains(p, x)
    BY <1>1 DEF Contains
  <2>4. QED
    BY <2>1, <2>2, <2>3 DEF Contains
<1>3. ASSUME IsInjective(q), ~Contains(q, e) PROVE IsInjective(p)
  BY <1>1, <1>3 DEF IsInjective, Contains
<1>4. QED
  BY <1>1, <1>2, <1>3 DEF p

LEMMA Taken ==
  ASSUME NEW S, NEW q \in Seq(S), q # <<>>
  PROVE  /\ Head(q) \in S /\ Tail(q) \in Seq(S) /\ Len(Tail(q)) = Len(q) - 1
         /\ \A x : Contains(q, x) <=> x = Head(q) \/ Contains(Tail(q), x)
         /\ IsInjective(q) => IsInjective(Tail(q)) /\ ~Contains(Tail(q), Head(q))
<1> DEFINE p == Tail(q)
<1>1. /\ Len(q) \in Nat \ {0} /\ Head(q) = q[1] /\ Head(q) \in S /\ p \in Seq(S)
      /\ Len(p) = Len(q) - 1 /\ \A j \in 1..Len(p) : p[j] = q[j + 1]
  <2>1. Len(q) \in Nat
    BY LenProperties
  <2>2. Len(q) # 0
    BY EmptySeq
  <2>3. QED
    BY <2>1, <2>2, HeadTailProperties
<1>2. DOMAIN p = 1..Len(p) /\ DOMAIN q = 1..Len(q)
  BY <1>1, LenProperties
<1> HIDE DEF p
<1>3. ASSUME NEW x PROVE Contains(q, x) <=> x = Head(q) \/ Contains(p, x)
  <2>1. ASSUME NEW j \in 1..Len(q), q[j] = x PROVE x = Head(q) \/ Contains(p, x)
    <3>1. CASE j = 1
      BY <1>1, <2>1, <3>1
    <3>2. CASE j # 1
      <4>1. j - 1 \in 1..Len(p) /\ (j - 1) + 1 = j
        BY <1>1, <3>2
      <4>2. QED
        BY <1>1, <2>1, <4>1 DEF Contains
    <3>3. QED
      BY <3>1, <3>2
  <2>2. ASSUME NEW j \in 1..Len(p), p[j] = x PROVE Contains(q, x)
    <3>1. j + 1 \in 1..Len(q)
      BY <1>1
    <3>2. QED
      BY <1>1, <2>2, <3>1 DEF Contains
  <2>3. x = Head(q) => Contains(q, x)
    BY <1>1 DEF Contains
  <2>4. QED
    BY <2>1, <2>2, <2>3 DEF Contains
<1>4. ASSUME IsInjective(q) PROVE IsInjective(p) /\ ~Contains(p, Head(q))
  <2>1. \A j \in 1..Len(p) : j + 1 \in 1..Len(q) /\ j + 1 # 1 /\ 1 \in 1..Len(q)
    BY <1>1
  <2>2. \A a, b \in 1..Len(q) : q[a] = q[b] => a = b
    BY <1>2, <1>4 DEF IsInjective
  <2>3. ASSUME NEW a \in 1..Len(p), NEW b \in 1..Len(p), p[a] = p[b] PROVE a = b
    <3>1. a + 1 = b + 1
      BY <1>1, <2>1, <2>2, <2>3
    <3>2. QED
      BY <1>1, <3>1
  <2>4. ASSUME NEW j \in 1..Len(p), p[j] = Head(q) PROVE FALSE
    BY <1>1, <2>1, <2>2, <2>4
  <2>5. QED
    BY <1>2, <2>3, <2>4 DEF IsInjective, Contains
<1>5. QED
  BY <1>1, <1>3, <1>4 DEF p

LEMMA RemovedParts ==
  ASSUME NEW S, NEW q \in Seq(S), NEW i \in 1..Len(q)
  PROVE  WithRemoved(S, q, i, RemoveAt(q, i))
<1>0. PICK p : p = RemoveAt(q, i)
  OBVIOUS
<1> DEFINE before == SubSeq(q, 1, i - 1)
           after == SubSeq(q, i + 1, Len(q))
<1>1. Len(q) \in Nat
  BY LenProperties
<1>2. /\ before \in Seq(S) /\ Len(before) = i - 1
      /\ \A j \in 1..(i - 1) : before[j] = q[j]
  BY <1>1
<1>3. /\ after \in Seq(S) /\ Len(after) = Len(q) - i
      /\ \A j \in 1..(Len(q) - i) : after[j] = q[i + j]
  BY <1>1
<1> HIDE DEF before, after
<1>4. p = before \o after
  BY <1>0 DEF RemoveAt, before, after
<1>5. /\ p \in Seq(S) /\ Len(p) = Len(before) + Len(after)
      /\ \A j \in 1..(Len(before) + Len(after)) : p[j] =
           IF j <= Len(before) THEN before[j] ELSE after[j - Len(before)]
  <2>1. before \in Seq(S) /\ after \in Seq(S)
    BY <1>2, <1>3
  <2>2. QED
    BY <1>4, <2>1, ConcatProperties
<1>6. Len(before) + Len(after) = Len(q) - 1
  BY <1>1, <1>2, <1>3
<1>7. ASSUME NEW j \in 1..(Len(q) - 1)
      PROVE  p[j] = IF j < i THEN q[j] ELSE q[j + 1]
  <2>1. CASE j < i
    <3>1. j \in 1..(i - 1) /\ j <= Len(before)
      BY <1>1, <1>2, <2>1
    <3>2. p[j] = before[j]
      BY <1>5, <1>6, <3>1
    <3>3. QED
      BY <1>2, <2>1, <3>1, <3>2
  <2>2. CASE j >= i
    <3>1. /\ ~(j <= Len(before)) /\ ~(j < i) /\ j - Len(before) \in 1..(Len(q) - i)
          /\ i + (j - Len(before)) = j + 1
      BY <1>1, <1>2, <2>2
    <3>2. p[j] = after[j - Len(before)]
      BY <1>5, <1>6, <3>1
    <3>3. QED
      BY <1>3, <3>1, <3>2
  <2>3. QED
    BY <1>1, <2>1, <2>2
<1>8. QED
  BY <1>0, <1>5, <1>6, <1>7 DEF WithRemoved

LEMMA Removed ==
  ASSUME NEW S, NEW q \in Seq(S), NEW e
  PROVE  /\ RemoveFirst(q, e) \in Seq(S) /\ Len(RemoveFirst(q, e)) <= Len(q)
         /\ \A x : Contains(RemoveFirst(q, e), x) => Contains(q, x)
         /\ \A x : Contains(q, x) /\ x # e => Contains(RemoveFirst(q, e), x)
         /\ IsInjective(q) => /\ IsInjective(RemoveFirst(q, e))
                              /\ ~Contains(RemoveFirst(q, e), e)
<1>1. Len(q) \in Nat /\ DOMAIN q = 1..Len(q)
  BY LenProperties
<1>2. CASE ~Contains(q, e)
  <2>1. RemoveFirst(q, e) = q
    BY <1>2 DEF RemoveFirst, Contains
  <2>2. QED
    BY <1>1, <1>2, <2>1
<1>3. CASE Contains(q, e)
  <2>1. DEFINE Is == {i \in 1..Len(q) : q[i] = e}
               k == Min(Is)
  <2>2. Is # {} /\ Is \in SUBSET Nat
    BY <1>1, <1>3 DEF Contains
  <2>3. \E x \in Is : \A y \in Is : x <= y
    BY <2>2, LeastNumber
  <2>4. k \in Is
    BY <2>3, Zenon DEF Min
  <2>5. RemoveFirst(q, e) = RemoveAt(q, k)
    BY <1>3, <2>2, Zenon DEF RemoveFirst, SelectInSeq, Contains
  <2>6. k \in 1..Len(q) /\ q[k] = e
    BY <2>4
  <2> HIDE DEF Is, k
  <2>7. PICK p : p = RemoveFirst(q, e)
    OBVIOUS
  <2>8. /\ p \in Seq(S) /\ Len(p) = Len(q) - 1
        /\ \A j \in 1..(Len(q) - 1) : p[j] = IF j < k THEN q[j] ELSE q[j + 1]
    <3>1. WithRemoved(S, q, k, RemoveAt(q, k))
      BY <2>6, RemovedParts, Zenon
    <3>2. QED
      BY <2>5, <2>7, <3>1, Zenon DEF WithRemoved
  <2>9. DOMAIN p = 1..(Len(q) - 1)
    BY <1>1, <2>8, LenProperties
  <2>10. ASSUME NEW j \in 1..(Len(q) - 1)
         PROVE  \E i \in 1..Len(q) : /\ p[j] = q[i] /\ i # k
                                     /\ i = IF j < k THEN j ELSE j + 1
    <3>1. (IF j < k THEN j ELSE j + 1) \in 1..Len(q) \ {k}
      BY <1>1, <2>6
    <3>2. QED
      BY <2>8, <3>1
  <2>11. ASSUME NEW x, Contains(p, x) PROVE Contains(q, x)
    BY <2>8, <2>10, <2>11 DEF Contains
  <2>12. ASSUME NEW x, Contains(q, x), x # e PROVE Contains(p, x)
    <3>1. PICK i \in 1..Len(q) : q[i] = x
      BY <2>12 DEF Contains
    <3>2. i # k
      BY <2>6, <2>12, <3>1
    <3>3. CASE i < k
      <4>1. i \in 1..(Len(q) - 1)
        BY <1>1, <2>6, <3>3
      <4>2. QED
        BY <2>8, <3>1, <3>3, <4>1 DEF Contains
    <3>4. CASE i > k
      <4>1. i - 1 \in 1..(Len(q) - 1) /\ ~(i - 1 < k) /\ (i - 1) + 1 = i
        BY <1>1, <2>6, <3>4
      <4>2. QED
        BY <2>8, <3>1, <4>1 DEF Contains
    <3>5. QED
      BY <1>1, <2>6, <3>2, <3>3, <3>4
  <2>13. ASSUME IsInjective(q) PROVE IsInjective(p) /\ ~Contains(p, e)
    <3>1. \A a, b \in 1..Len(q) : q[a] = q[b] => a = b
      BY <1>1, <2>13 DEF IsInjective
    <3>2. ASSUME NEW a \in 1..(Len(q) - 1), NEW b \in 1..(Len(q) - 1), p[a] = p[b]
          PROVE  a = b
      <4>1. PICK i \in 1..Len(q) : p[a] = q[i] /\ i = IF a < k THEN a ELSE a + 1
        BY <2>10
      <4>2. PICK j \in 1..Len(q) : p[b] = q[j] /\ j = IF b < k THEN b ELSE b + 1
        BY <2>10
      <4>3. i = j
        BY <3>1, <3>2, <4>1, <4>2
      <4>4. QED
        BY <1>1, <2>6, <4>1, <4>2, <4>3
    <3>3. ASSUME NEW j \in 1..(Len(q) - 1), p[j] = e PROVE FALSE
      BY <2>6, <2>10, <3>1, <3>3
    <3>4. QED
      BY <2>8, <2>9, <3>2, <3>3 DEF IsInjective, Contains
  <2>14. Len(p) <= Len(q)
    BY <1>1, <2>8
  <2>15. QED
    BY <2>7, <2>8, <2>11, <2>12, <2>13, <2>14
<1>4. QED
  BY <1>2, <1>3

\* A job always has a place in the gate.
LEMMA EnteredParts ==
  ASSUME NEW q \in Seq(Requests), NEW r \in Requests
  PROVE  /\ Entered(q, r) \in Seq(Requests) /\ Entered(q, r) # <<>>
         /\ ToSet(Entered(q, r)) = ToSet(q) \union {r}
         /\ IsInjective(q) /\ r \notin ToSet(q) => IsInjective(Entered(q, r))
<1> DEFINE behind == {i \in 1..(Len(q) + 1) :
                        i <= Len(q) => PriorityOf(q[i]) < PriorityOf(r)}
<1>1. Len(q) \in Nat
  BY LenProperties
<1>2. behind \in SUBSET Nat /\ Len(q) + 1 \in behind
  BY <1>1
<1>3. PICK i \in behind : \A j \in behind : i <= j
  BY <1>2, LeastNumber
<1>4. ASSUME NEW x \in Requests PROVE PriorityOf(x) \in Nat
  BY BoundsAssumption DEF PriorityOf
<1>5. \A j \in 1..(i - 1) : PriorityOf(q[j]) >= PriorityOf(r)
  <2>1. TAKE j \in 1..(i - 1)
  <2>2. j \in 1..Len(q) /\ j < i
    BY <1>1, <1>3
  <2>3. j \notin behind
    BY <1>1, <1>3, <2>2
  <2>4. ~(PriorityOf(q[j]) < PriorityOf(r))
    BY <1>1, <2>2, <2>3
  <2>5. q[j] \in Requests
    BY <2>2
  <2>6. QED
    BY <1>4, <2>4, <2>5
<1>6. IsPlaceFor(q, r, i) /\ i \in 1..(Len(q) + 1)
  BY <1>3, <1>5 DEF IsPlaceFor
<1>7. PICK k \in 1..(Len(q) + 1) : Entered(q, r) = InsertAt(q, k, r)
  BY <1>6, Zenon DEF Entered
<1>8. /\ InsertAt(q, k, r) \in Seq(Requests) /\ InsertAt(q, k, r) # <<>>
      /\ ToSet(InsertAt(q, k, r)) = ToSet(q) \union {r}
      /\ IsInjective(q) /\ r \notin ToSet(q) => IsInjective(InsertAt(q, k, r))
  BY Inserted, Zenon
<1>9. QED
  BY <1>7, <1>8, Zenon

----------------------------------------------------------------------------
(* The inductive invariant.                                                *)

Breakers == [state : {"closed", "open", "half_open"},
             failures : 0..Threshold, probe : BOOLEAN, cooled : BOOLEAN]

\* The flag of a circuit is set exactly while one call of it is the probe.
ProbesAreKnown ==
  /\ \A r \in Requests : call[r] = "probe" => breaker[CapabilityOf[r]].probe
  /\ \A c \in Capabilities : breaker[c].probe =>
       breaker[c].state = "half_open" /\ \E r \in Of(c) : call[r] = "probe"
  /\ \A r, s \in Requests :
       call[r] = "probe" /\ call[s] = "probe" /\ CapabilityOf[r] = CapabilityOf[s] => r = s

\* A job is in the queue of its capability, and in one place of it.
JobsArePlaced ==
  /\ waiting \in [Capabilities -> Seq(Requests)]
  /\ \A c \in Capabilities : /\ running[c] \in Of(c) \union {None}
                             /\ IsInjective(waiting[c])
                             /\ ~Contains(waiting[c], running[c])

\* The stages of a request: not under way, served, answered, left by its caller
\* without the service having noticed, and left for its model call to end.
Asleep(r) == call[r] = "idle" /\ net[r] = "none" /\ r \notin gone \union detached /\ ~Queued(r)
Served(r) == call[r] # "idle" /\ net[r] = "none" /\ r \notin gone \union detached /\ Queued(r)
Answered(r) == call[r] # "idle" /\ net[r] # "none" /\ r \notin gone \union detached /\ ~Queued(r)
Left(r) == call[r] = "idle" /\ net[r] = "none" /\ r \in gone \ detached /\ Queued(r)
Forgotten(r) == /\ call[r] = "idle" /\ net[r] = "none" /\ r \in detached \ gone
                /\ r = running[CapabilityOf[r]]
Accounted(r) == Asleep(r) \/ Served(r) \/ Answered(r) \/ Left(r) \/ Forgotten(r)

PathInv ==
  /\ PathTypeOK /\ ProbesAreKnown /\ JobsArePlaced /\ GateMirrorsQueues /\ NoIdlePlace
  /\ \A r \in Requests : Accounted(r)

LEMMA Capability ==
  ASSUME NEW r \in Requests
  PROVE  CapabilityOf[r] \in Capabilities /\ r \in Of(CapabilityOf[r]) /\ r # None
BY BoundsAssumption DEF Of

\* What the gate holds, job by job.
Gated(m, g, jobs) ==
  /\ IsInjective(g) /\ ~Contains(g, m)
  /\ \A x \in Requests : x = m \/ Contains(g, x) <=> \E c \in Capabilities : jobs[c] = x

GateIs(m, g, jobs) ==
  LET inGate == (IF m = None THEN <<>> ELSE <<m>>) \o g IN
  /\ IsInjective(inGate)
  /\ ToSet(inGate) = {jobs[c] : c \in Capabilities} \ {None}

LEMMA GateJobByJob ==
  ASSUME NEW m \in Requests \union {None}, NEW g \in Seq(Requests),
         NEW jobs \in [Capabilities -> Requests \union {None}]
  PROVE  GateIs(m, g, jobs) <=> Gated(m, g, jobs)
<1>1. None \notin Requests
  BY BoundsAssumption
<1>2. Len(g) \in Nat /\ DOMAIN g = 1..Len(g) /\ \A i \in 1..Len(g) : g[i] \in Requests
  BY LenProperties
<1>3. CASE m = None
  <2>1. (IF m = None THEN <<>> ELSE <<m>>) \o g = g
    BY <1>3, ConcatEmptySeq
  <2>2. ~Contains(g, m)
    BY <1>1, <1>2, <1>3 DEF Contains
  <2>3. ToSet(g) = {jobs[c] : c \in Capabilities} \ {None}
        <=> \A x \in Requests : Contains(g, x) <=> \E c \in Capabilities : jobs[c] = x
    <3>1. \A x : x \in ToSet(g) <=> Contains(g, x)
      BY <1>2 DEF ToSet, Contains
    <3>2. \A x \in ToSet(g) : x \in Requests
      BY <1>2 DEF ToSet
    <3>3. \A x \in {jobs[c] : c \in Capabilities} \ {None} : x \in Requests
      OBVIOUS
    <3>4. QED
      BY <1>1, <3>1, <3>2, <3>3
  <2>4. QED
    BY <1>1, <1>3, <2>1, <2>2, <2>3 DEF GateIs, Gated
<1>4. CASE m # None
  <2>1. PICK p : p = <<m>> \o g
    OBVIOUS
  <2>2. <<m>> \in Seq(Requests) /\ Len(<<m>>) = 1 /\ <<m>>[1] = m
    BY <1>4
  <2>3. /\ p \in Seq(Requests) /\ Len(p) = 1 + Len(g)
        /\ \A i \in 1..(1 + Len(g)) : p[i] = IF i <= 1 THEN <<m>>[i] ELSE g[i - 1]
    BY <2>1, <2>2, ConcatProperties
  <2>4. /\ DOMAIN p = 1..(Len(g) + 1) /\ p[1] = m
        /\ \A i \in 1..Len(g) : i + 1 \in 1..(Len(g) + 1) /\ p[i + 1] = g[i]
        /\ \A i \in 1..(Len(g) + 1) : i # 1 => i - 1 \in 1..Len(g) /\ p[i] = g[i - 1]
    <3>1. DOMAIN p = 1..(Len(g) + 1) /\ 1 \in 1..(1 + Len(g)) /\ 1 <= 1
      BY <1>2, <2>3, LenProperties
    <3>2. ASSUME NEW i \in 1..Len(g)
          PROVE  i + 1 \in 1..(1 + Len(g)) /\ ~(i + 1 <= 1) /\ (i + 1) - 1 = i
      BY <1>2
    <3>3. ASSUME NEW i \in 1..(Len(g) + 1), i # 1
          PROVE  i \in 1..(1 + Len(g)) /\ ~(i <= 1) /\ i - 1 \in 1..Len(g)
      BY <1>2, <3>3
    <3>4. \A i \in 1..Len(g) : i + 1 \in 1..(Len(g) + 1) /\ p[i + 1] = g[i]
      BY <1>2, <2>3, <3>2
    <3>5. \A i \in 1..(Len(g) + 1) : i # 1 => i - 1 \in 1..Len(g) /\ p[i] = g[i - 1]
      BY <2>3, <3>3
    <3>6. QED
      BY <2>2, <2>3, <3>1, <3>4, <3>5
  <2>5. IsInjective(p) <=> IsInjective(g) /\ ~Contains(g, m)
    <3>1. ASSUME IsInjective(p) PROVE IsInjective(g) /\ ~Contains(g, m)
      <4>1. \A a, b \in 1..(Len(g) + 1) : p[a] = p[b] => a = b
        BY <2>4, <3>1 DEF IsInjective
      <4>2. \A a, b \in 1..Len(g) : g[a] = g[b] => a = b
        <5>1. TAKE a, b \in 1..Len(g)
        <5>2. HAVE g[a] = g[b]
        <5>3. a + 1 = b + 1
          BY <2>4, <4>1, <5>2
        <5>4. QED
          BY <1>2, <5>3
      <4>3. ASSUME NEW i \in 1..Len(g), g[i] = m PROVE FALSE
        <5>1. 1 \in 1..(Len(g) + 1) /\ i + 1 # 1
          BY <1>2
        <5>2. QED
          BY <2>4, <4>1, <4>3, <5>1
      <4>4. QED
        BY <1>2, <4>2, <4>3 DEF IsInjective, Contains
    <3>2. ASSUME IsInjective(g), ~Contains(g, m) PROVE IsInjective(p)
      <4>1. \A a, b \in 1..Len(g) : g[a] = g[b] => a = b
        BY <1>2, <3>2 DEF IsInjective
      <4>2. \A i \in 1..Len(g) : g[i] # m
        BY <3>2 DEF Contains
      <4>3. ASSUME NEW a \in 1..(Len(g) + 1), NEW b \in 1..(Len(g) + 1), p[a] = p[b]
            PROVE  a = b
        <5>1. CASE a = 1 \/ b = 1
          <6>1. \A c \in 1..(Len(g) + 1) : c # 1 => p[c] # m
            BY <1>2, <2>4, <4>2
          <6>2. p[1] = m
            BY <2>4
          <6>3. QED
            BY <4>3, <5>1, <6>1, <6>2
        <5>2. CASE a # 1 /\ b # 1
          <6>1. a - 1 = b - 1
            BY <2>4, <4>1, <4>3, <5>2
          <6>2. QED
            BY <1>2, <6>1
        <5>3. QED
          BY <5>1, <5>2
      <4>4. QED
        BY <2>4, <4>3 DEF IsInjective
    <3>3. QED
      BY <3>1, <3>2
  <2>6. \A x : x \in ToSet(p) <=> x = m \/ Contains(g, x)
    <3>1. ASSUME NEW i \in 1..(Len(g) + 1) PROVE p[i] = m \/ Contains(g, p[i])
      BY <2>4 DEF Contains
    <3>2. ASSUME NEW x, Contains(g, x) PROVE x \in ToSet(p)
      BY <2>4, <3>2 DEF Contains, ToSet
    <3>3. m \in ToSet(p)
      <4>1. 1 \in 1..(Len(g) + 1)
        BY <1>2
      <4>2. QED
        BY <2>4, <4>1 DEF ToSet
    <3>4. QED
      BY <2>4, <3>1, <3>2, <3>3 DEF ToSet
  <2>7. \A x \in ToSet(p) : x \in Requests
    BY <1>2, <1>4, <2>6 DEF Contains
  <2>8. ToSet(p) = {jobs[c] : c \in Capabilities} \ {None}
        <=> \A x \in Requests : x = m \/ Contains(g, x) <=> \E c \in Capabilities : jobs[c] = x
    <3>1. \A x \in {jobs[c] : c \in Capabilities} \ {None} : x \in Requests
      OBVIOUS
    <3>2. QED
      BY <1>1, <2>6, <2>7, <3>1
  <2>9. QED
    BY <1>4, <2>1, <2>5, <2>8 DEF GateIs, Gated
<1>5. QED
  BY <1>3, <1>4

\* The parts of the invariant that speak of the queues, about any queues.
PlacedIn(w, jobs) ==
  /\ w \in [Capabilities -> Seq(Requests)]
  /\ \A c \in Capabilities : /\ w[c] \in Seq(Of(c)) /\ Len(w[c]) <= MaximumPending
                             /\ jobs[c] \in Of(c) \union {None}
                             /\ IsInjective(w[c]) /\ ~Contains(w[c], jobs[c])
                             /\ w[c] # <<>> => jobs[c] # None

GateKept(m, g, jobs) ==
  /\ m \in Requests \union {None} /\ g \in Seq(Requests)
  /\ g # <<>> => m # None
  /\ Gated(m, g, jobs)

QueuesKept ==
  /\ running \in [Capabilities -> Requests \union {None}]
  /\ PlacedIn(waiting, running) /\ GateKept(model, gate, running)

LEMMA QueuesByPart ==
  QueuesKept <=> /\ running \in [Capabilities -> Requests \union {None}]
                 /\ \A c \in Capabilities : /\ waiting[c] \in Seq(Of(c))
                                            /\ Len(waiting[c]) <= MaximumPending
                 /\ model \in Requests \union {None} /\ gate \in Seq(Requests)
                 /\ JobsArePlaced /\ GateMirrorsQueues /\ NoIdlePlace
<1>1. ASSUME running \in [Capabilities -> Requests \union {None}],
             model \in Requests \union {None}, gate \in Seq(Requests)
      PROVE  GateMirrorsQueues <=> Gated(model, gate, running)
  BY <1>1, GateJobByJob DEF GateMirrorsQueues, GateIs
<1>2. ASSUME QueuesKept PROVE /\ JobsArePlaced /\ NoIdlePlace /\ GateMirrorsQueues
  <2>1. JobsArePlaced /\ NoIdlePlace
    BY <1>2 DEF QueuesKept, PlacedIn, GateKept, JobsArePlaced, NoIdlePlace
  <2>2. GateMirrorsQueues
    BY <1>1, <1>2 DEF QueuesKept, GateKept
  <2>3. QED
    BY <2>1, <2>2
<1>3. ASSUME /\ running \in [Capabilities -> Requests \union {None}]
             /\ \A c \in Capabilities : /\ waiting[c] \in Seq(Of(c))
                                        /\ Len(waiting[c]) <= MaximumPending
             /\ model \in Requests \union {None} /\ gate \in Seq(Requests)
             /\ JobsArePlaced /\ GateMirrorsQueues /\ NoIdlePlace
      PROVE  QueuesKept
  <2>1. PlacedIn(waiting, running)
    BY <1>3 DEF PlacedIn, JobsArePlaced, NoIdlePlace
  <2>2. GateKept(model, gate, running)
    BY <1>1, <1>3 DEF GateKept, NoIdlePlace
  <2>3. QED
    BY <1>3, <2>1, <2>2 DEF QueuesKept
<1>4. ASSUME QueuesKept
      PROVE  /\ running \in [Capabilities -> Requests \union {None}]
             /\ \A c \in Capabilities : /\ waiting[c] \in Seq(Of(c))
                                        /\ Len(waiting[c]) <= MaximumPending
             /\ model \in Requests \union {None} /\ gate \in Seq(Requests)
  BY <1>4 DEF QueuesKept, PlacedIn, GateKept
<1>5. QED
  BY <1>2, <1>3, <1>4

LEMMA QueuesByPartNext ==
  QueuesKept' <=> /\ running' \in [Capabilities -> Requests \union {None}]
                  /\ \A c \in Capabilities : /\ waiting'[c] \in Seq(Of(c))
                                             /\ Len(waiting'[c]) <= MaximumPending
                  /\ model' \in Requests \union {None} /\ gate' \in Seq(Requests)
                  /\ JobsArePlaced' /\ GateMirrorsQueues' /\ NoIdlePlace'
<1>1. ASSUME running' \in [Capabilities -> Requests \union {None}],
             model' \in Requests \union {None}, gate' \in Seq(Requests)
      PROVE  GateMirrorsQueues' <=> Gated(model', gate', running')
  BY <1>1, GateJobByJob DEF GateMirrorsQueues, GateIs
<1>2. ASSUME QueuesKept' PROVE /\ JobsArePlaced' /\ NoIdlePlace' /\ GateMirrorsQueues'
  <2>1. JobsArePlaced' /\ NoIdlePlace'
    BY <1>2 DEF QueuesKept, PlacedIn, GateKept, JobsArePlaced, NoIdlePlace
  <2>2. GateMirrorsQueues'
    BY <1>1, <1>2 DEF QueuesKept, GateKept
  <2>3. QED
    BY <2>1, <2>2
<1>3. ASSUME /\ running' \in [Capabilities -> Requests \union {None}]
             /\ \A c \in Capabilities : /\ waiting'[c] \in Seq(Of(c))
                                        /\ Len(waiting'[c]) <= MaximumPending
             /\ model' \in Requests \union {None} /\ gate' \in Seq(Requests)
             /\ JobsArePlaced' /\ GateMirrorsQueues' /\ NoIdlePlace'
      PROVE  QueuesKept'
  <2>1. PlacedIn(waiting', running')
    BY <1>3 DEF PlacedIn, JobsArePlaced, NoIdlePlace
  <2>2. GateKept(model', gate', running')
    BY <1>1, <1>3 DEF GateKept, NoIdlePlace
  <2>3. QED
    BY <1>3, <2>1, <2>2 DEF QueuesKept
<1>4. ASSUME QueuesKept'
      PROVE  /\ running' \in [Capabilities -> Requests \union {None}]
             /\ \A c \in Capabilities : /\ waiting'[c] \in Seq(Of(c))
                                        /\ Len(waiting'[c]) <= MaximumPending
             /\ model' \in Requests \union {None} /\ gate' \in Seq(Requests)
  BY <1>4 DEF QueuesKept, PlacedIn, GateKept
<1>5. QED
  BY <1>2, <1>3, <1>4

RestTyped ==
  /\ breaker \in [Capabilities -> Breakers]
  /\ call \in [Requests -> {"idle", "normal", "probe", "stale"}]
  /\ net \in [Requests -> Replies \union {"none"}]
  /\ gone \subseteq Requests /\ detached \subseteq Requests
  /\ ready \in BOOLEAN
  /\ faults \in 0..MaxFaults

LEMMA InvariantByPart ==
  PathInv <=> /\ RestTyped /\ QueuesKept /\ ProbesAreKnown
              /\ \A r \in Requests : Accounted(r)
BY QueuesByPart DEF PathInv, PathTypeOK, RestTyped, Breakers

LEMMA InvariantByPartNext ==
  PathInv' <=> /\ RestTyped' /\ QueuesKept' /\ ProbesAreKnown'
               /\ \A r \in Requests : Accounted(r)'
BY QueuesByPartNext DEF PathInv, PathTypeOK, RestTyped, Breakers

----------------------------------------------------------------------------
(* Calls end, and their circuits hear of it.                               *)

LEMMA QueuesRest ==
  ASSUME QueuesKept, UNCHANGED <<running, waiting, model, gate>>
  PROVE  QueuesKept'
BY DEF QueuesKept, PlacedIn, GateKept, Gated

\* A request that a step leaves alone stays at its stage.
LEMMA StillAccounted ==
  ASSUME NEW s \in Requests, Accounted(s), call'[s] = call[s], net'[s] = net[s],
         s \in gone' <=> s \in gone, s \in detached' <=> s \in detached,
         Queued(s)' <=> Queued(s),
         s \in detached => running'[CapabilityOf[s]] = running[CapabilityOf[s]]
  PROVE  Accounted(s)'
BY DEF Accounted, Asleep, Served, Answered, Left, Forgotten

\* How a circuit may change when a call of that admission ends.
Heard(old, admission, new) ==
  /\ new \in Breakers
  /\ admission = "probe" => ~new.probe
  /\ admission = "normal" => new.probe = old.probe
  /\ new.probe => new.state = "half_open"

LEMMA OutcomesAreHeard ==
  ASSUME NEW b \in Breakers, NEW admission \in {"normal", "probe"},
         b.probe => b.state = "half_open"
  PROVE  /\ Heard(b, admission, Failed(b, admission))
         /\ Heard(b, admission, Succeeded(b, admission))
         /\ Heard(b, admission, Ignored(b, admission))
<1>1. Threshold \in Nat \ {0}
  BY BoundsAssumption
<1>2. Closed \in Breakers /\ Opened \in Breakers
  BY <1>1 DEF Closed, Opened, Breakers
<1>3. b.state = "closed" => b.probe = FALSE
  BY DEF Breakers
<1>4. Heard(b, admission, Failed(b, admission))
  <2>1. CASE b.state = "closed" /\ b.failures + 1 < Threshold /\ admission = "normal"
    <3>1. Failed(b, admission) = [b EXCEPT !.failures = @ + 1]
      BY <1>1, <2>1 DEF Failed, Breakers
    <3>2. QED
      BY <1>1, <2>1, <3>1 DEF Heard, Breakers
  <2>2. CASE Failed(b, admission) = b /\ admission = "normal"
    BY <2>2 DEF Heard
  <2>3. CASE Failed(b, admission) = Opened /\ (admission = "normal" => b.state = "closed")
    <3>1. Opened.probe = FALSE
      BY DEF Opened
    <3>2. Heard(b, admission, Opened)
      BY <1>2, <1>3, <2>3, <3>1, Zenon DEF Heard
    <3>3. QED
      BY <2>3, <3>2
  <2>4. CASE admission = "probe" \/ (b.state = "closed" /\ b.failures + 1 >= Threshold)
    <3>1. Failed(b, admission) = Opened
      BY <2>4 DEF Failed
    <3>2. QED
      BY <2>3, <2>4, <3>1
  <2>5. CASE admission = "normal" /\ b.state # "closed"
    <3>1. Failed(b, admission) = b
      BY <2>5 DEF Failed
    <3>2. QED
      BY <2>2, <2>5, <3>1
  <2>6. b.failures + 1 < Threshold \/ b.failures + 1 >= Threshold
    BY <1>1 DEF Breakers
  <2>7. admission = "probe" \/ admission = "normal"
    OBVIOUS
  <2>8. QED
    BY <2>1, <2>4, <2>5, <2>6, <2>7
<1>5. Heard(b, admission, Succeeded(b, admission))
  <2>1. CASE Succeeded(b, admission) = b /\ admission = "normal"
    BY <2>1 DEF Heard
  <2>2. CASE Succeeded(b, admission) = Closed /\ (admission = "normal" => b.state = "closed")
    <3>1. Closed.probe = FALSE
      BY DEF Closed
    <3>2. Heard(b, admission, Closed)
      BY <1>2, <1>3, <2>2, <3>1, Zenon DEF Heard
    <3>3. QED
      BY <2>2, <3>2
  <2>3. CASE admission = "probe" \/ b.state = "closed"
    <3>1. Succeeded(b, admission) = Closed
      BY <2>3 DEF Succeeded
    <3>2. QED
      BY <2>2, <2>3, <3>1
  <2>4. CASE admission = "normal" /\ b.state # "closed"
    <3>1. Succeeded(b, admission) = b
      BY <2>4 DEF Succeeded
    <3>2. QED
      BY <2>1, <2>4, <3>1
  <2>5. QED
    BY <2>3, <2>4
<1>6. Heard(b, admission, Ignored(b, admission))
  BY DEF Heard, Ignored, Breakers
<1>7. QED
  BY <1>4, <1>5, <1>6

LEMMA ProbesAfterCall ==
  ASSUME RestTyped, ProbesAreKnown, NEW r \in Requests, call[r] # "idle",
         call' = [call EXCEPT ![r] = "idle"],
         NEW b, call[r] # "stale" => Heard(breaker[CapabilityOf[r]], call[r], b),
         breaker' = IF call[r] = "stale" THEN breaker
                    ELSE [breaker EXCEPT ![CapabilityOf[r]] = b]
  PROVE  /\ ProbesAreKnown' /\ breaker' \in [Capabilities -> Breakers]
         /\ call' \in [Requests -> {"idle", "normal", "probe", "stale"}]
<1> DEFINE k == CapabilityOf[r]
<1>1. k \in Capabilities /\ \A s \in Requests : CapabilityOf[s] \in Capabilities
  BY BoundsAssumption
<1>2. /\ call' \in [Requests -> {"idle", "normal", "probe", "stale"}]
      /\ call'[r] = "idle" /\ \A s \in Requests : s # r => call'[s] = call[s]
      /\ call[r] \in {"normal", "probe", "stale"}
  BY DEF RestTyped
<1>3. /\ breaker' \in [Capabilities -> Breakers]
      /\ \A c \in Capabilities : c # k => breaker'[c] = breaker[c]
      /\ breaker'[k] = IF call[r] = "stale" THEN breaker[k] ELSE b
  BY <1>1, <1>2 DEF RestTyped, Heard
<1>4. ASSUME NEW s \in Requests, call'[s] = "probe" PROVE breaker'[CapabilityOf[s]].probe
  <2>1. s # r /\ call[s] = "probe" /\ breaker[CapabilityOf[s]].probe
    BY <1>2, <1>4 DEF ProbesAreKnown
  <2>2. CapabilityOf[s] = k => call[r] # "probe"
    BY <2>1 DEF ProbesAreKnown
  <2>3. QED
    BY <1>1, <1>2, <1>3, <2>1, <2>2 DEF Heard
<1>5. ASSUME NEW c \in Capabilities, breaker'[c].probe
      PROVE  breaker'[c].state = "half_open" /\ \E s \in Of(c) : call'[s] = "probe"
  <2>1. breaker[c].probe /\ (c = k => call[r] # "probe") /\ breaker'[c].state = "half_open"
    <3>1. CASE c # k
      BY <1>3, <1>5, <3>1 DEF ProbesAreKnown
    <3>2. CASE c = k /\ call[r] = "stale"
      BY <1>3, <1>5, <3>2 DEF ProbesAreKnown
    <3>3. CASE c = k /\ call[r] # "stale"
      BY <1>2, <1>3, <1>5, <3>3 DEF ProbesAreKnown, Heard
    <3>4. QED
      BY <3>1, <3>2, <3>3
  <2>2. PICK s \in Of(c) : call[s] = "probe"
    BY <2>1 DEF ProbesAreKnown
  <2>3. s # r /\ s \in Requests
    BY <2>1, <2>2 DEF Of
  <2>4. QED
    BY <1>2, <2>1, <2>2, <2>3
<1>6. \A q, s \in Requests :
        call'[q] = "probe" /\ call'[s] = "probe" /\ CapabilityOf[q] = CapabilityOf[s] => q = s
  BY <1>2 DEF ProbesAreKnown
<1>7. QED
  BY <1>2, <1>3, <1>4, <1>5, <1>6 DEF ProbesAreKnown

LEMMA CallEnds ==
  ASSUME RestTyped, ProbesAreKnown, NEW r \in Requests, call[r] # "idle",
         EndCall(r, Failed) \/ EndCall(r, Succeeded) \/ EndCall(r, Ignored)
  PROVE  /\ ProbesAreKnown' /\ breaker' \in [Capabilities -> Breakers]
         /\ call' \in [Requests -> {"idle", "normal", "probe", "stale"}]
         /\ call'[r] = "idle" /\ \A s \in Requests : s # r => call'[s] = call[s]
<1> DEFINE k == CapabilityOf[r]
           old == breaker[k]
<1>1. /\ k \in Capabilities /\ old \in Breakers
      /\ old.probe => old.state = "half_open"
      /\ call[r] \in {"normal", "probe", "stale"}
  BY Capability DEF RestTyped, ProbesAreKnown
<1>2. PICK b : /\ call[r] # "stale" => Heard(old, call[r], b)
               /\ call' = [call EXCEPT ![r] = "idle"]
               /\ breaker' = IF call[r] = "stale" THEN breaker
                             ELSE [breaker EXCEPT ![k] = b]
  <2>1. call[r] # "stale" => /\ Heard(old, call[r], Failed(old, call[r]))
                             /\ Heard(old, call[r], Succeeded(old, call[r]))
                             /\ Heard(old, call[r], Ignored(old, call[r]))
    BY <1>1, OutcomesAreHeard
  <2>2. CASE EndCall(r, Failed)
    <3>1. breaker' = IF call[r] = "stale" THEN breaker
                     ELSE [breaker EXCEPT ![k] = Failed(old, call[r])]
      BY <2>2 DEF EndCall
    <3>2. QED
      BY <2>1, <2>2, <3>1 DEF EndCall
  <2>3. CASE EndCall(r, Succeeded)
    <3>1. breaker' = IF call[r] = "stale" THEN breaker
                     ELSE [breaker EXCEPT ![k] = Succeeded(old, call[r])]
      BY <2>3 DEF EndCall
    <3>2. QED
      BY <2>1, <2>3, <3>1 DEF EndCall
  <2>4. CASE EndCall(r, Ignored)
    <3>1. breaker' = IF call[r] = "stale" THEN breaker
                     ELSE [breaker EXCEPT ![k] = Ignored(old, call[r])]
      BY <2>4 DEF EndCall
    <3>2. QED
      BY <2>1, <2>4, <3>1 DEF EndCall
  <2>5. QED
    BY <2>2, <2>3, <2>4
<1>3. QED
  BY <1>2, ProbesAfterCall DEF RestTyped

LEMMA ReplyStep ==
  ASSUME PathInv, NEW r \in Requests, Reply(r)
  PROVE  PathInv'
<1>1. /\ RestTyped /\ QueuesKept /\ ProbesAreKnown /\ \A s \in Requests : Accounted(s)
  BY InvariantByPart
<1>2. Answered(r) /\ net[r] # "none"
  BY <1>1 DEF Reply, Replies, Accounted, Asleep, Served, Answered, Left, Forgotten
<1>3. call[r] # "idle"
  BY <1>2 DEF Answered
<1>4. EndCall(r, Failed) \/ EndCall(r, Succeeded)
  BY DEF Reply
<1>5. /\ ProbesAreKnown' /\ breaker' \in [Capabilities -> Breakers]
      /\ call' \in [Requests -> {"idle", "normal", "probe", "stale"}]
      /\ call'[r] = "idle" /\ \A s \in Requests : s # r => call'[s] = call[s]
  BY <1>1, <1>3, <1>4, CallEnds
<1>6. /\ net' \in [Requests -> Replies \union {"none"}]
      /\ net'[r] = "none" /\ \A s \in Requests : s # r => net'[s] = net[s]
      /\ UNCHANGED <<gone, running, waiting, detached, model, gate, ready, faults>>
  BY <1>1 DEF Reply, RestTyped, queueVars
<1>7. RestTyped'
  BY <1>1, <1>5, <1>6 DEF RestTyped
<1>8. QueuesKept'
  BY <1>1, <1>6, QueuesRest
<1>9. \A s \in Requests : Queued(s)' <=> Queued(s)
  BY <1>6 DEF Queued
<1>10. ASSUME NEW s \in Requests PROVE Accounted(s)'
  <2>1. CASE s = r
    BY <1>2, <1>5, <1>6, <1>9, <2>1 DEF Accounted, Answered, Asleep
  <2>2. CASE s # r
    BY <1>1, <1>5, <1>6, <1>9, <2>2, StillAccounted
  <2>3. QED
    BY <2>1, <2>2
<1>11. QED
  BY <1>5, <1>7, <1>8, <1>10, InvariantByPartNext

LEMMA LeaveStep ==
  ASSUME PathInv, NEW r \in Requests, Timeout(r) \/ Abort(r)
  PROVE  PathInv'
<1>1. /\ RestTyped /\ QueuesKept /\ ProbesAreKnown /\ \A s \in Requests : Accounted(s)
  BY InvariantByPart
<1>2. call[r] # "idle" /\ Leave(r) /\ (EndCall(r, Failed) \/ EndCall(r, Ignored))
  BY DEF Timeout, Abort
<1>3. /\ ProbesAreKnown' /\ breaker' \in [Capabilities -> Breakers]
      /\ call' \in [Requests -> {"idle", "normal", "probe", "stale"}]
      /\ call'[r] = "idle" /\ \A s \in Requests : s # r => call'[s] = call[s]
  BY <1>1, <1>2, CallEnds
<1>4. /\ net' \in [Requests -> Replies \union {"none"}]
      /\ net'[r] = "none" /\ \A s \in Requests : s # r => net'[s] = net[s]
      /\ gone' = IF net[r] \in Replies THEN gone ELSE gone \union {r}
      /\ UNCHANGED <<running, waiting, detached, model, gate, ready, faults>>
  BY <1>1, <1>2 DEF Leave, RestTyped, queueVars
<1>5. RestTyped'
  BY <1>1, <1>3, <1>4 DEF RestTyped
<1>6. QueuesKept'
  BY <1>1, <1>4, QueuesRest
<1>7. \A s \in Requests : Queued(s)' <=> Queued(s)
  BY <1>4 DEF Queued
<1>8. Accounted(r)'
  <2>1. net[r] # "none" <=> net[r] \in Replies
    BY <1>1 DEF RestTyped, Replies
  <2>2. CASE Served(r)
    BY <1>3, <1>4, <1>7, <2>1, <2>2 DEF Accounted, Served, Left
  <2>3. CASE Answered(r)
    BY <1>3, <1>4, <1>7, <2>1, <2>3 DEF Accounted, Answered, Asleep
  <2>4. QED
    BY <1>1, <1>2, <2>2, <2>3 DEF Accounted, Asleep, Left, Forgotten
<1>9. ASSUME NEW s \in Requests, s # r PROVE Accounted(s)'
  BY <1>1, <1>3, <1>4, <1>7, <1>9, StillAccounted
<1>10. QED
  BY <1>3, <1>5, <1>6, <1>8, <1>9, InvariantByPartNext

----------------------------------------------------------------------------
(* Circuits that cool down or are replaced, and the service's readiness.   *)

LEMMA CoolDownStep ==
  ASSUME PathInv, NEW c \in Capabilities, CoolDown(c)
  PROVE  PathInv'
<1>1. /\ RestTyped /\ QueuesKept /\ ProbesAreKnown /\ \A s \in Requests : Accounted(s)
  BY InvariantByPart
<1>2. UNCHANGED <<call, net, gone, running, waiting, detached, model, gate, ready, faults>>
  BY DEF CoolDown, queueVars
<1>3. /\ breaker' \in [Capabilities -> Breakers]
      /\ \A d \in Capabilities : /\ breaker'[d].probe = breaker[d].probe
                                 /\ breaker'[d].state = breaker[d].state
  BY <1>1 DEF CoolDown, RestTyped, Breakers
<1>4. RestTyped' /\ ProbesAreKnown'
  BY <1>1, <1>2, <1>3, Capability DEF RestTyped, ProbesAreKnown, Of
<1>5. QueuesKept'
  BY <1>1, <1>2, QueuesRest
<1>6. \A s \in Requests : Accounted(s)'
  BY <1>1, <1>2, StillAccounted DEF Queued
<1>7. QED
  BY <1>4, <1>5, <1>6, InvariantByPartNext

LEMMA ReconfigureStep ==
  ASSUME PathInv, Reconfigure
  PROVE  PathInv'
<1>1. /\ RestTyped /\ QueuesKept /\ ProbesAreKnown /\ \A s \in Requests : Accounted(s)
  BY InvariantByPart
<1>2. /\ UNCHANGED <<net, gone, running, waiting, detached, model, gate, ready>>
      /\ faults' = faults + 1 /\ faults < MaxFaults
  BY DEF Reconfigure, queueVars
<1>3. /\ \A s \in Requests : call'[s] = IF call[s] = "idle" THEN "idle" ELSE "stale"
      /\ call' \in [Requests -> {"idle", "normal", "probe", "stale"}]
  BY DEF Reconfigure
<1>4. Closed \in Breakers /\ Closed.probe = FALSE
  BY BoundsAssumption DEF Closed, Breakers
<1>5. /\ breaker' \in [Capabilities -> Breakers]
      /\ \A d \in Capabilities : breaker'[d].probe = FALSE
  BY <1>4 DEF Reconfigure
<1>6. RestTyped'
  BY <1>1, <1>2, <1>3, <1>5, BoundsAssumption DEF RestTyped
<1>7. ProbesAreKnown'
  BY <1>3, <1>5 DEF ProbesAreKnown
<1>8. QueuesKept'
  BY <1>1, <1>2, QueuesRest
<1>9. ASSUME NEW s \in Requests PROVE Accounted(s)'
  <2>1. Accounted(s) /\ (Queued(s)' <=> Queued(s))
    BY <1>1, <1>2 DEF Queued
  <2>2. call'[s] = "idle" <=> call[s] = "idle"
    BY <1>3
  <2>3. QED
    BY <1>2, <2>1, <2>2 DEF Accounted, Asleep, Served, Answered, Left, Forgotten
<1>10. QED
  BY <1>6, <1>7, <1>8, <1>9, InvariantByPartNext

LEMMA ModelsLoadedStep ==
  ASSUME PathInv, ModelsLoaded
  PROVE  PathInv'
<1>1. /\ RestTyped /\ QueuesKept /\ ProbesAreKnown /\ \A s \in Requests : Accounted(s)
  BY InvariantByPart
<1>2. /\ UNCHANGED <<breaker, call, net, gone, running, waiting, detached, model, gate, faults>>
      /\ ready' = TRUE
  BY DEF ModelsLoaded, queueVars, serverVars
<1>3. RestTyped' /\ ProbesAreKnown'
  BY <1>1, <1>2 DEF RestTyped, ProbesAreKnown
<1>4. QueuesKept'
  BY <1>1, <1>2, QueuesRest
<1>5. \A s \in Requests : Accounted(s)'
  BY <1>1, <1>2, StillAccounted DEF Queued
<1>6. QED
  BY <1>3, <1>4, <1>5, InvariantByPartNext

LEMMA RestartStep ==
  ASSUME PathInv, Restart
  PROVE  PathInv'
<1>1. /\ RestTyped /\ QueuesKept /\ ProbesAreKnown /\ \A s \in Requests : Accounted(s)
  BY InvariantByPart
<1>2. /\ UNCHANGED <<breaker, call>> /\ faults' = faults + 1 /\ faults < MaxFaults
      /\ gone' = {} /\ detached' = {} /\ model' = None /\ gate' = <<>> /\ ready' = FALSE
      /\ running' = [c \in Capabilities |-> None]
      /\ waiting' = [c \in Capabilities |-> <<>>]
      /\ net' = [r \in Requests |->
           IF net[r] \in Replies THEN net[r]
           ELSE IF call[r] # "idle" THEN "unavailable" ELSE "none"]
  BY DEF Restart, serverVars
<1>3. net' \in [Requests -> Replies \union {"none"}]
  BY <1>2 DEF Replies
<1>4. RestTyped' /\ ProbesAreKnown'
  <2>1. faults' \in 0..MaxFaults
    BY <1>1, <1>2, BoundsAssumption DEF RestTyped
  <2>2. RestTyped'
    BY <1>1, <1>2, <1>3, <2>1 DEF RestTyped
  <2>3. ProbesAreKnown'
    BY <1>1, <1>2 DEF ProbesAreKnown
  <2>4. QED
    BY <2>2, <2>3
<1>5. QueuesKept'
  <2>1. MaximumPending \in Nat /\ None \notin Requests
    BY BoundsAssumption
  <2>2. ASSUME NEW S PROVE /\ <<>> \in Seq(S) /\ Len(<<>>) = 0 /\ IsInjective(<<>>)
                           /\ \A x : ~Contains(<<>>, x)
    BY DEF IsInjective, Contains
  <2>3. PlacedIn(waiting', running')
    BY <1>2, <2>1, <2>2 DEF PlacedIn
  <2>4. GateKept(model', gate', running')
    BY <1>2, <2>1, <2>2 DEF GateKept, Gated
  <2>5. QED
    BY <1>2, <2>3, <2>4 DEF QueuesKept
<1>6. ASSUME NEW s \in Requests PROVE Accounted(s)'
  <2>1. ~Queued(s)' /\ s \notin gone' \union detached'
    BY <1>2, Capability DEF Queued, Contains
  <2>2. net'[s] # "none" <=> call[s] # "idle"
    <3>1. net[s] \in Replies => call[s] # "idle"
      BY <1>1 DEF Replies, Accounted, Asleep, Served, Answered, Left, Forgotten
    <3>2. QED
      BY <1>2, <3>1 DEF Replies
  <2>3. QED
    BY <1>2, <2>1, <2>2 DEF Accounted, Asleep, Answered
<1>7. QED
  BY <1>4, <1>5, <1>6, InvariantByPartNext

----------------------------------------------------------------------------
(* A request is admitted and arrives.                                      *)

LEMMA AdmittedProbes ==
  ASSUME RestTyped, ProbesAreKnown, NEW r \in Requests, call[r] = "idle",
         Admits(breaker[CapabilityOf[r]]),
         call' = [call EXCEPT ![r] =
           IF breaker[CapabilityOf[r]].state = "closed" THEN "normal" ELSE "probe"],
         breaker' = IF breaker[CapabilityOf[r]].state = "closed" THEN breaker
                    ELSE [breaker EXCEPT ![CapabilityOf[r]].state = "half_open",
                                         ![CapabilityOf[r]].probe = TRUE]
  PROVE  ProbesAreKnown' /\ breaker' \in [Capabilities -> Breakers]
<1> DEFINE k == CapabilityOf[r]
<1>1. k \in Capabilities /\ r \in Of(k) /\ breaker[k] \in Breakers
  BY Capability DEF RestTyped
<1>2. CASE breaker[k].state = "closed"
  <2>1. breaker' = breaker /\ \A s \in Requests : call'[s] = "probe" <=> call[s] = "probe"
    BY <1>2 DEF RestTyped
  <2>2. \A c \in Capabilities : \A s \in Of(c) : s \in Requests
    BY DEF Of
  <2>3. QED
    BY <2>1, <2>2 DEF RestTyped, ProbesAreKnown
<1>3. CASE breaker[k].state # "closed"
  <2>1. /\ \A c \in Capabilities : c # k => breaker'[c] = breaker[c]
        /\ breaker'[k] = [breaker[k] EXCEPT !.state = "half_open", !.probe = TRUE]
    BY <1>1, <1>3 DEF RestTyped
  <2>2. /\ breaker'[k] \in Breakers /\ breaker'[k].probe /\ breaker'[k].state = "half_open"
        /\ breaker' \in [Capabilities -> Breakers]
    BY <1>1, <1>3, <2>1 DEF RestTyped, Breakers
  <2>3. ~breaker[k].probe
    BY <1>1, <1>3 DEF Admits, ProbesAreKnown
  <2>4. \A s \in Requests : CapabilityOf[s] = k => call[s] # "probe"
    BY <2>3 DEF ProbesAreKnown
  <2>5. call'[r] = "probe" /\ \A s \in Requests : s # r => call'[s] = call[s]
    BY <1>3 DEF RestTyped
  <2>6. ASSUME NEW s \in Requests, call'[s] = "probe" PROVE breaker'[CapabilityOf[s]].probe
    <3>1. CASE CapabilityOf[s] = k
      BY <2>2, <3>1
    <3>2. CASE CapabilityOf[s] # k
      <4>1. s # r
        BY <3>2
      <4>2. call[s] = "probe"
        BY <2>5, <2>6, <4>1
      <4>3. QED
        BY <2>1, <3>2, <4>2, Capability DEF ProbesAreKnown
    <3>3. QED
      BY <3>1, <3>2
  <2>7. ASSUME NEW c \in Capabilities, breaker'[c].probe
        PROVE  breaker'[c].state = "half_open" /\ \E s \in Of(c) : call'[s] = "probe"
    <3>1. CASE c = k
      BY <1>1, <2>2, <2>5, <3>1
    <3>2. CASE c # k
      <4>1. breaker[c].state = "half_open" /\ \E s \in Of(c) : call[s] = "probe"
        BY <2>1, <2>7, <3>2 DEF ProbesAreKnown
      <4>2. \A s \in Of(c) : s \in Requests /\ s # r
        BY <3>2 DEF Of
      <4>3. QED
        BY <2>1, <2>5, <3>2, <4>1, <4>2
    <3>3. QED
      BY <3>1, <3>2
  <2>8. ASSUME NEW q \in Requests, NEW s \in Requests,
               call'[q] = "probe", call'[s] = "probe", CapabilityOf[q] = CapabilityOf[s]
        PROVE  q = s
    <3>1. CASE CapabilityOf[q] = k
      BY <2>4, <2>5, <2>8, <3>1
    <3>2. CASE CapabilityOf[q] # k
      <4>1. q # r /\ s # r
        BY <2>8, <3>2
      <4>2. QED
        BY <2>5, <2>8, <4>1 DEF ProbesAreKnown
    <3>3. QED
      BY <3>1, <3>2
  <2>9. QED
    BY <2>2, <2>6, <2>7, <2>8 DEF ProbesAreKnown
<1>4. QED
  BY <1>2, <1>3

\* A job enters the gate, as the model's job or by its priority.
LEMMA GateEntered ==
  ASSUME GateKept(model, gate, running), running \in [Capabilities -> Requests \union {None}],
         NEW r \in Requests, ~ \E c \in Capabilities : running[c] = r,
         NEW jobs, \A x \in Requests :
           (\E c \in Capabilities : jobs[c] = x)
           <=> x = r \/ \E c \in Capabilities : running[c] = x
  PROVE  /\ model = None => GateKept(r, gate, jobs)
         /\ model # None => GateKept(model, Entered(gate, r), jobs)
<1>1. r # model /\ ~Contains(gate, r) /\ None \notin Requests
  BY BoundsAssumption DEF GateKept, Gated
<1>2. CASE model = None
  BY <1>1, <1>2 DEF GateKept, Gated
<1>3. CASE model # None
  <2>1. \A q \in Seq(Requests) : \A x : x \in ToSet(q) <=> Contains(q, x)
    BY DEF ToSet, Contains
  <2>2. gate \in Seq(Requests) /\ IsInjective(gate) /\ r \notin ToSet(gate)
    BY <1>1, <2>1 DEF GateKept, Gated
  <2>3. /\ Entered(gate, r) \in Seq(Requests) /\ IsInjective(Entered(gate, r))
        /\ ToSet(Entered(gate, r)) = ToSet(gate) \union {r}
    BY <2>2, EnteredParts
  <2>4. \A x : Contains(Entered(gate, r), x) <=> Contains(gate, x) \/ x = r
    BY <2>1, <2>2, <2>3
  <2>5. QED
    BY <1>1, <1>3, <2>3, <2>4 DEF GateKept, Gated
<1>4. QED
  BY <1>2, <1>3

LEMMA ArrivalQueues ==
  ASSUME QueuesKept, NEW r \in Requests, ~Queued(r), Arrives(r)
  PROVE  /\ QueuesKept' /\ UNCHANGED detached
         /\ \A s \in Requests : s # r => (Queued(s)' <=> Queued(s))
         /\ \A c \in Capabilities : running[c] # None => running'[c] = running[c]
         /\ \/ UNCHANGED net /\ Queued(r)'
            \/ ~Queued(r)' /\ \E a \in Replies : net' = [net EXCEPT ![r] = a]
<1> DEFINE k == CapabilityOf[r]
<1>1. /\ k \in Capabilities /\ r \in Of(k) /\ r # None
      /\ \A s \in Requests : CapabilityOf[s] \in Capabilities
  BY Capability
<1>2. CASE /\ UNCHANGED queueVars
           /\ \E a \in Replies : net' = [net EXCEPT ![r] = a]
  <2>1. UNCHANGED <<running, waiting, detached, model, gate>>
    BY <1>2 DEF queueVars
  <2>2. QueuesKept'
    BY <2>1, QueuesRest
  <2>3. QED
    BY <1>2, <2>1, <2>2 DEF Queued
<1>3. CASE /\ running[k] # None /\ ~Full(k)
           /\ waiting' = [waiting EXCEPT ![k] = Append(@, r)]
           /\ UNCHANGED <<net, running, detached, model, gate>>
  <2>1. waiting[k] \in Seq(Of(k)) /\ Len(waiting[k]) < MaximumPending
        /\ IsInjective(waiting[k]) /\ ~Contains(waiting[k], running[k])
        /\ waiting \in [Capabilities -> Seq(Requests)]
    <3>1. waiting[k] \in Seq(Of(k)) /\ Len(waiting[k]) \in Nat /\ MaximumPending \in Nat
      BY <1>1, BoundsAssumption, LenProperties DEF QueuesKept, PlacedIn
    <3>2. QED
      BY <1>1, <1>3, <3>1 DEF QueuesKept, PlacedIn, Full
  <2>2. r # running[k] /\ ~Contains(waiting[k], r)
    BY DEF Queued
  <2>3. /\ Append(waiting[k], r) \in Seq(Of(k))
        /\ Len(Append(waiting[k], r)) = Len(waiting[k]) + 1
        /\ \A x : Contains(Append(waiting[k], r), x) <=> Contains(waiting[k], x) \/ x = r
        /\ IsInjective(Append(waiting[k], r))
    BY <1>1, <2>1, <2>2, Appended
  <2>4. Append(waiting[k], r) \in Seq(Requests)
    BY <1>1, <2>1
  <2>5. /\ waiting' \in [Capabilities -> Seq(Requests)]
        /\ waiting'[k] = Append(waiting[k], r)
        /\ \A c \in Capabilities : c # k => waiting'[c] = waiting[c]
    BY <1>1, <1>3, <2>1, <2>4
  <2>6. Len(waiting'[k]) <= MaximumPending
    <3>1. Len(waiting[k]) \in Nat /\ MaximumPending \in Nat
      BY <2>1, BoundsAssumption, LenProperties
    <3>2. QED
      BY <2>1, <2>3, <2>5, <3>1
  <2>7. PlacedIn(waiting', running')
    <3>1. SUFFICES ASSUME NEW c \in Capabilities
          PROVE  /\ waiting'[c] \in Seq(Of(c)) /\ Len(waiting'[c]) <= MaximumPending
                 /\ running'[c] \in Of(c) \union {None}
                 /\ IsInjective(waiting'[c]) /\ ~Contains(waiting'[c], running'[c])
                 /\ waiting'[c] # <<>> => running'[c] # None
      BY <2>5 DEF PlacedIn
    <3>2. CASE c = k
      BY <1>1, <1>3, <2>1, <2>2, <2>3, <2>5, <2>6, <3>2 DEF QueuesKept, PlacedIn
    <3>3. CASE c # k
      BY <1>3, <2>5, <3>3 DEF QueuesKept, PlacedIn
    <3>4. QED
      BY <3>2, <3>3
  <2>8. QueuesKept'
    BY <1>3, <2>7 DEF QueuesKept, GateKept, Gated
  <2>9. ASSUME NEW s \in Requests PROVE Queued(s)' <=> Queued(s) \/ s = r
    <3>1. CASE CapabilityOf[s] = k
      BY <1>3, <2>3, <2>5, <3>1 DEF Queued
    <3>2. CASE CapabilityOf[s] # k
      BY <1>1, <1>3, <2>5, <3>2 DEF Queued
    <3>3. QED
      BY <3>1, <3>2
  <2>10. QED
    BY <1>3, <2>8, <2>9
<1>4. CASE /\ running[k] = None
           /\ running' = [running EXCEPT ![k] = r]
           /\ IF model = None THEN model' = r /\ UNCHANGED gate
                              ELSE gate' = Entered(gate, r) /\ UNCHANGED model
           /\ UNCHANGED <<net, waiting, detached>>
  <2>1. /\ running' \in [Capabilities -> Requests \union {None}] /\ running'[k] = r
        /\ \A c \in Capabilities : c # k => running'[c] = running[c]
    BY <1>1, <1>4 DEF QueuesKept
  <2>2. waiting[k] = <<>> /\ ~Contains(<<>>, r) /\ Len(<<>>) = 0
    BY <1>1, <1>4 DEF QueuesKept, PlacedIn, Contains
  <2>3. PlacedIn(waiting', running')
    BY <1>1, <1>4, <2>1, <2>2 DEF QueuesKept, PlacedIn
  <2>4. ~ \E c \in Capabilities : running[c] = r
    <3>1. \A c \in Capabilities : running[c] = r => c = k
      BY <1>1 DEF QueuesKept, PlacedIn, Of
    <3>2. QED
      BY <1>1, <1>4, <3>1
  <2>5. \A x \in Requests :
          (\E c \in Capabilities : running'[c] = x)
          <=> x = r \/ \E c \in Capabilities : running[c] = x
    BY <1>1, <1>4, <2>1, BoundsAssumption
  <2>6. GateKept(model', gate', running')
    <3>1. GateKept(model, gate, running) /\ running \in [Capabilities -> Requests \union {None}]
      BY DEF QueuesKept
    <3>2. /\ model = None => GateKept(r, gate, running')
          /\ model # None => GateKept(model, Entered(gate, r), running')
      BY <2>4, <2>5, <3>1, GateEntered
    <3>3. QED
      BY <1>4, <3>2
  <2>7. QueuesKept'
    BY <2>1, <2>3, <2>6 DEF QueuesKept
  <2>8. ASSUME NEW s \in Requests PROVE Queued(s)' <=> Queued(s) \/ s = r
    <3>1. CASE CapabilityOf[s] = k
      BY <1>1, <1>4, <2>1, <2>2, <3>1, BoundsAssumption DEF Queued, Contains
    <3>2. CASE CapabilityOf[s] # k
      BY <1>1, <1>4, <2>1, <3>2 DEF Queued
    <3>3. QED
      BY <3>1, <3>2
  <2>9. QED
    BY <1>4, <2>1, <2>7, <2>8
<1>5. QED
  <2>1. "full" \in Replies /\ "unavailable" \in Replies
    BY DEF Replies
  <2>2. QED
    BY <1>2, <1>3, <1>4, <2>1 DEF Arrives

LEMMA RequestStep ==
  ASSUME PathInv, NEW r \in Requests, Request(r)
  PROVE  PathInv'
<1> DEFINE k == CapabilityOf[r]
<1>1. /\ RestTyped /\ QueuesKept /\ ProbesAreKnown /\ \A s \in Requests : Accounted(s)
  BY InvariantByPart
<1>2. /\ call[r] = "idle" /\ net[r] = "none" /\ r \notin gone /\ ~Queued(r)
      /\ Admits(breaker[k]) /\ Arrives(r) /\ UNCHANGED <<gone, ready, faults>>
      /\ call' = [call EXCEPT ![r] = IF breaker[k].state = "closed" THEN "normal" ELSE "probe"]
      /\ breaker' = IF breaker[k].state = "closed" THEN breaker
                    ELSE [breaker EXCEPT ![k].state = "half_open", ![k].probe = TRUE]
  BY Zenon DEF Request
<1>3. ProbesAreKnown' /\ breaker' \in [Capabilities -> Breakers]
  BY <1>1, <1>2, AdmittedProbes
<1>4. /\ QueuesKept' /\ UNCHANGED detached
      /\ \A s \in Requests : s # r => (Queued(s)' <=> Queued(s))
      /\ \A c \in Capabilities : running[c] # None => running'[c] = running[c]
      /\ \/ UNCHANGED net /\ Queued(r)'
         \/ ~Queued(r)' /\ \E a \in Replies : net' = [net EXCEPT ![r] = a]
  BY <1>1, <1>2, ArrivalQueues
<1>5. /\ call' \in [Requests -> {"idle", "normal", "probe", "stale"}]
      /\ call'[r] # "idle" /\ \A s \in Requests : s # r => call'[s] = call[s]
  BY <1>1, <1>2 DEF RestTyped
<1>6. /\ net' \in [Requests -> Replies \union {"none"}]
      /\ \A s \in Requests : s # r => net'[s] = net[s]
      /\ net'[r] = "none" <=> Queued(r)'
  BY <1>1, <1>2, <1>4 DEF RestTyped, Replies
<1>7. RestTyped'
  BY <1>1, <1>2, <1>3, <1>4, <1>5, <1>6 DEF RestTyped
<1>8. Accounted(r)'
  <2>1. r \notin detached
    BY <1>1, <1>2 DEF Accounted, Asleep, Served, Answered, Left, Forgotten, Queued
  <2>2. QED
    BY <1>2, <1>4, <1>5, <1>6, <2>1 DEF Accounted, Served, Answered
<1>9. ASSUME NEW s \in Requests, s # r PROVE Accounted(s)'
  <2>1. s \in detached => running'[CapabilityOf[s]] = running[CapabilityOf[s]]
    <3>1. s \in detached => running[CapabilityOf[s]] = s
      BY <1>1 DEF Accounted, Asleep, Served, Answered, Left, Forgotten
    <3>2. QED
      BY <1>4, <3>1, Capability
  <2>2. QED
    BY <1>1, <1>2, <1>4, <1>5, <1>6, <1>9, <2>1, StillAccounted
<1>10. QED
  BY <1>3, <1>4, <1>7, <1>8, <1>9, InvariantByPartNext

----------------------------------------------------------------------------
(* The service notices that a caller has left.                             *)

LEMMA DisconnectStep ==
  ASSUME PathInv, NEW r \in Requests, Disconnect(r)
  PROVE  PathInv'
<1> DEFINE k == CapabilityOf[r]
<1>1. /\ RestTyped /\ QueuesKept /\ ProbesAreKnown /\ \A s \in Requests : Accounted(s)
  BY InvariantByPart
<1>2. /\ r \in gone /\ gone' = gone \ {r}
      /\ waiting' = [waiting EXCEPT ![k] = RemoveFirst(@, r)]
      /\ detached' = IF running[k] = r THEN detached \union {r} ELSE detached
      /\ UNCHANGED <<breaker, call, net, running, model, gate, ready, faults>>
  BY DEF Disconnect, PlaceAfterLeave, serverVars
<1>3. k \in Capabilities /\ r \in Of(k) /\ \A s \in Requests : CapabilityOf[s] \in Capabilities
  BY Capability
<1>4. /\ waiting \in [Capabilities -> Seq(Requests)]
      /\ waiting[k] \in Seq(Of(k)) /\ IsInjective(waiting[k])
      /\ Len(waiting[k]) <= MaximumPending /\ ~Contains(waiting[k], running[k])
      /\ waiting[k] # <<>> => running[k] # None
  BY <1>1, <1>3 DEF QueuesKept, PlacedIn
<1>5. PICK w : w = RemoveFirst(waiting[k], r)
  OBVIOUS
<1>6. /\ w \in Seq(Of(k)) /\ Len(w) <= Len(waiting[k])
      /\ \A x : Contains(w, x) <=> Contains(waiting[k], x) /\ x # r
      /\ IsInjective(w)
  <2>1. /\ w \in Seq(Of(k)) /\ Len(w) <= Len(waiting[k])
        /\ \A x : Contains(w, x) => Contains(waiting[k], x)
        /\ \A x : Contains(waiting[k], x) /\ x # r => Contains(w, x)
        /\ IsInjective(w) /\ ~Contains(w, r)
    BY <1>4, <1>5, Removed
  <2>2. QED
    BY <2>1
<1>7. /\ waiting' \in [Capabilities -> Seq(Requests)] /\ waiting'[k] = w
      /\ \A c \in Capabilities : c # k => waiting'[c] = waiting[c]
  <2>1. w \in Seq(Requests)
    BY <1>6 DEF Of
  <2>2. QED
    BY <1>2, <1>3, <1>4, <1>5, <2>1
<1>8. Len(w) <= MaximumPending
  <2>1. Len(w) \in Nat /\ Len(waiting[k]) \in Nat /\ MaximumPending \in Nat
    BY <1>4, <1>6, BoundsAssumption, LenProperties
  <2>2. QED
    BY <1>4, <1>6, <2>1
<1>9. w # <<>> => running[k] # None
  <2>1. CASE waiting[k] = <<>>
    <3>1. Len(w) = 0
      <4>1. Len(w) \in Nat /\ Len(waiting[k]) = 0
        BY <1>6, <2>1, LenProperties
      <4>2. QED
        BY <1>6, <4>1
    <3>2. QED
      BY <1>6, <3>1, EmptySeq
  <2>2. QED
    BY <1>4, <2>1
<1>10. QueuesKept'
  <2>1. PlacedIn(waiting', running')
    <3>1. SUFFICES ASSUME NEW c \in Capabilities
          PROVE  /\ waiting'[c] \in Seq(Of(c)) /\ Len(waiting'[c]) <= MaximumPending
                 /\ running'[c] \in Of(c) \union {None}
                 /\ IsInjective(waiting'[c]) /\ ~Contains(waiting'[c], running'[c])
                 /\ waiting'[c] # <<>> => running'[c] # None
      BY <1>7 DEF PlacedIn
    <3>2. CASE c = k
      BY <1>1, <1>2, <1>3, <1>4, <1>6, <1>7, <1>8, <1>9, <3>2 DEF QueuesKept, PlacedIn
    <3>3. CASE c # k
      BY <1>1, <1>2, <1>7, <3>3 DEF QueuesKept, PlacedIn
    <3>4. QED
      BY <3>2, <3>3
  <2>2. QED
    BY <1>1, <1>2, <2>1 DEF QueuesKept, GateKept, Gated
<1>11. RestTyped' /\ ProbesAreKnown'
  <2>1. RestTyped'
    BY <1>1, <1>2 DEF RestTyped
  <2>2. ProbesAreKnown'
    BY <1>1, <1>2 DEF ProbesAreKnown
  <2>3. QED
    BY <2>1, <2>2
<1>12. Accounted(r)'
  <2>1. call[r] = "idle" /\ net[r] = "none" /\ r \notin detached
    BY <1>1, <1>2 DEF Accounted, Asleep, Served, Answered, Left, Forgotten
  <2>2. CASE running[k] = r
    BY <1>2, <2>1, <2>2 DEF Accounted, Forgotten
  <2>3. CASE running[k] # r
    BY <1>2, <1>6, <1>7, <2>1, <2>3 DEF Accounted, Asleep, Queued
  <2>4. QED
    BY <2>2, <2>3
<1>13. ASSUME NEW s \in Requests, s # r PROVE Accounted(s)'
  <2>1. Queued(s)' <=> Queued(s)
    <3>1. CASE CapabilityOf[s] = k
      BY <1>2, <1>6, <1>7, <1>13, <3>1 DEF Queued
    <3>2. CASE CapabilityOf[s] # k
      BY <1>2, <1>3, <1>7, <3>2 DEF Queued
    <3>3. QED
      BY <3>1, <3>2
  <2>2. QED
    BY <1>1, <1>2, <1>13, <2>1, StillAccounted
<1>14. QED
  BY <1>10, <1>11, <1>12, <1>13, InvariantByPartNext

----------------------------------------------------------------------------
(* A model call ends: the gate and the queue each start their next job.    *)

LEMMA GateAfterFinish ==
  ASSUME GateKept(model, gate, running), model # None,
         NEW next \in Requests \union {None},
         next # None => ~ \E c \in Capabilities : running[c] = next,
         NEW jobs, \A x \in Requests :
           (\E c \in Capabilities : jobs[c] = x)
           <=> x = next \/ (x # model /\ \E c \in Capabilities : running[c] = x)
  PROVE  GateKept(GateDrained(next).model, GateDrained(next).gate, jobs)
<1>1. None \notin Requests /\ gate \in Seq(Requests) /\ IsInjective(gate)
  BY BoundsAssumption DEF GateKept, Gated
<1>2. \A x \in Requests : Contains(gate, x) <=> x # model /\ \E c \in Capabilities : running[c] = x
  BY DEF GateKept, Gated
<1>3. CASE gate = <<>>
  <2>1. GateDrained(next).model = next /\ GateDrained(next).gate = <<>>
    BY <1>3 DEF GateDrained
  <2>2. /\ <<>> \in Seq(Requests) /\ IsInjective(<<>>) /\ \A x : ~Contains(<<>>, x)
    BY DEF IsInjective, Contains
  <2>3. QED
    BY <1>2, <1>3, <2>1, <2>2 DEF GateKept, Gated
<1>4. CASE gate # <<>>
  <2>1. PICK h, t : h = Head(gate) /\ t = Tail(gate)
    OBVIOUS
  <2>2. /\ h \in Requests /\ t \in Seq(Requests)
        /\ \A x : Contains(gate, x) <=> x = h \/ Contains(t, x)
        /\ IsInjective(t) /\ ~Contains(t, h)
    BY <1>1, <1>4, <2>1, Taken
  <2>3. GateDrained(next).model = h /\ GateDrained(next).gate = Refilled(t, next)
    BY <1>4, <2>1 DEF GateDrained
  <2>4. CASE next = None
    <3>1. Refilled(t, next) = t
      BY <2>4 DEF Refilled
    <3>2. QED
      BY <1>1, <1>2, <2>2, <2>3, <2>4, <3>1 DEF GateKept, Gated
  <2>5. CASE next # None
    <3>1. next # h /\ ~Contains(t, next) /\ next \in Requests
      BY <1>2, <2>2, <2>5
    <3>2. \A q \in Seq(Requests) : \A x : x \in ToSet(q) <=> Contains(q, x)
      BY DEF ToSet, Contains
    <3>3. PICK e : e = Entered(t, next)
      OBVIOUS
    <3>4. /\ e \in Seq(Requests) /\ IsInjective(e) /\ ToSet(e) = ToSet(t) \union {next}
      BY <2>2, <3>1, <3>2, <3>3, EnteredParts
    <3>5. \A x : Contains(e, x) <=> Contains(t, x) \/ x = next
      BY <2>2, <3>2, <3>4
    <3>6. Refilled(t, next) = e
      BY <2>5, <3>3 DEF Refilled
    <3>7. GateKept(h, e, jobs)
      BY <1>1, <1>2, <2>2, <3>1, <3>4, <3>5 DEF GateKept, Gated
    <3>8. QED
      BY <2>3, <3>6, <3>7
  <2>6. QED
    BY <2>4, <2>5
<1>5. QED
  BY <1>3, <1>4

LEMMA FinishStep ==
  ASSUME PathInv, NEW r \in Requests, Finish(r)
  PROVE  PathInv'
<1> DEFINE k == CapabilityOf[r]
           next == NextJob(k)
<1>1. /\ RestTyped /\ QueuesKept /\ ProbesAreKnown /\ \A s \in Requests : Accounted(s)
  BY InvariantByPart
<1>2. /\ r = model
      /\ running' = [running EXCEPT ![k] = next]
      /\ waiting' = [waiting EXCEPT ![k] = IF next = None THEN @ ELSE Tail(@)]
      /\ model' = GateDrained(next).model /\ gate' = GateDrained(next).gate
      /\ detached' = detached \ {r} /\ gone' = gone \ {r}
      /\ net' = [net EXCEPT ![r] = Sent(r, "answered")]
      /\ UNCHANGED <<breaker, call, ready, faults>>
  BY DEF Finish, serverVars
<1>3. /\ k \in Capabilities /\ r \in Of(k) /\ r # None /\ None \notin Requests
      /\ \A s \in Requests : CapabilityOf[s] \in Capabilities
  BY Capability, BoundsAssumption
<1>4. /\ waiting \in [Capabilities -> Seq(Requests)]
      /\ running \in [Capabilities -> Requests \union {None}]
      /\ waiting[k] \in Seq(Of(k)) /\ IsInjective(waiting[k])
      /\ Len(waiting[k]) <= MaximumPending /\ ~Contains(waiting[k], running[k])
  BY <1>1, <1>3 DEF QueuesKept, PlacedIn
<1>5. \A c \in Capabilities, x \in Requests : running[c] = x => c = CapabilityOf[x]
  BY <1>1, <1>3 DEF QueuesKept, PlacedIn, Of
<1>6. running[k] = r
  <2>1. \E c \in Capabilities : running[c] = r
    BY <1>1, <1>2 DEF QueuesKept, GateKept, Gated
  <2>2. QED
    BY <1>5, <2>1
<1>7. PICK w : w = IF next = None THEN waiting[k] ELSE Tail(waiting[k])
  OBVIOUS
<1>8. /\ w \in Seq(Of(k)) /\ Len(w) <= Len(waiting[k]) /\ IsInjective(w)
      /\ next \in Of(k) \union {None}
      /\ ~Contains(w, next) /\ (w # <<>> => next # None)
      /\ \A x \in Requests : Contains(waiting[k], x) <=> x = next \/ Contains(w, x)
  <2>1. CASE waiting[k] = <<>>
    <3>1. next = None /\ w = waiting[k]
      BY <1>7, <2>1 DEF NextJob
    <3>2. \A x : ~Contains(w, x)
      BY <2>1, <3>1 DEF Contains
    <3>3. Len(waiting[k]) \in Nat
      BY <1>4, LenProperties
    <3>4. QED
      BY <1>3, <1>4, <2>1, <3>1, <3>2, <3>3
  <2>2. CASE waiting[k] # <<>>
    <3>1. /\ Head(waiting[k]) \in Of(k) /\ Tail(waiting[k]) \in Seq(Of(k))
          /\ Len(Tail(waiting[k])) = Len(waiting[k]) - 1
          /\ \A x : Contains(waiting[k], x)
                    <=> x = Head(waiting[k]) \/ Contains(Tail(waiting[k]), x)
          /\ IsInjective(Tail(waiting[k])) /\ ~Contains(Tail(waiting[k]), Head(waiting[k]))
      BY <1>4, <2>2, Taken
    <3>2. next = Head(waiting[k])
      BY <2>2 DEF NextJob
    <3>3. next # None /\ w = Tail(waiting[k])
      BY <1>3, <1>7, <3>1, <3>2 DEF Of
    <3>4. Len(waiting[k]) \in Nat
      BY <1>4, LenProperties
    <3>5. QED
      BY <3>1, <3>2, <3>3, <3>4
  <2>3. QED
    BY <2>1, <2>2
<1>9. next # r /\ ~Contains(w, r) /\ next \in Requests \union {None}
  BY <1>3, <1>4, <1>6, <1>8 DEF Of
<1> HIDE DEF next
<1>10. /\ waiting' \in [Capabilities -> Seq(Requests)] /\ waiting'[k] = w
       /\ \A c \in Capabilities : c # k => waiting'[c] = waiting[c]
  <2>1. w \in Seq(Requests)
    BY <1>8 DEF Of
  <2>2. QED
    BY <1>2, <1>3, <1>4, <1>7, <2>1
<1>11. /\ running' \in [Capabilities -> Requests \union {None}] /\ running'[k] = next
       /\ \A c \in Capabilities : c # k => running'[c] = running[c]
  BY <1>2, <1>3, <1>4, <1>9
<1>12. next # None => ~ \E c \in Capabilities : running[c] = next
  <2>1. SUFFICES ASSUME next # None, NEW c \in Capabilities, running[c] = next PROVE FALSE
    OBVIOUS
  <2>2. c = k
    BY <1>5, <1>8, <1>9, <2>1 DEF Of
  <2>3. QED
    BY <1>6, <1>9, <2>1, <2>2
<1>13. QueuesKept'
  <2>1. Len(w) <= MaximumPending
    <3>1. Len(w) \in Nat /\ Len(waiting[k]) \in Nat /\ MaximumPending \in Nat
      BY <1>4, <1>8, BoundsAssumption, LenProperties
    <3>2. QED
      BY <1>4, <1>8, <3>1
  <2>2. PlacedIn(waiting', running')
    <3>1. SUFFICES ASSUME NEW c \in Capabilities
          PROVE  /\ waiting'[c] \in Seq(Of(c)) /\ Len(waiting'[c]) <= MaximumPending
                 /\ running'[c] \in Of(c) \union {None}
                 /\ IsInjective(waiting'[c]) /\ ~Contains(waiting'[c], running'[c])
                 /\ waiting'[c] # <<>> => running'[c] # None
      BY <1>10 DEF PlacedIn
    <3>2. CASE c = k
      BY <1>8, <1>10, <1>11, <2>1, <3>2
    <3>3. CASE c # k
      BY <1>1, <1>10, <1>11, <3>3 DEF QueuesKept, PlacedIn
    <3>4. QED
      BY <3>2, <3>3
  <2>3. \A x \in Requests :
          (\E c \in Capabilities : running'[c] = x)
          <=> x = next \/ (x # model /\ \E c \in Capabilities : running[c] = x)
    <3>1. TAKE x \in Requests
    <3>2. CASE x = next
      BY <1>3, <1>11, <3>2
    <3>3. CASE x # next
      <4>1. (\E c \in Capabilities : running'[c] = x)
            => x # model /\ \E c \in Capabilities : running[c] = x
        <5>1. ASSUME NEW c \in Capabilities, running'[c] = x
              PROVE  x # model /\ running[c] = x
          <6>1. c # k
            BY <1>11, <3>3, <5>1
          <6>2. running[c] = x
            BY <1>11, <5>1, <6>1
          <6>3. QED
            BY <1>2, <1>5, <6>1, <6>2
        <5>2. QED
          BY <5>1
      <4>2. ASSUME x # model, NEW c \in Capabilities, running[c] = x
            PROVE  \E d \in Capabilities : running'[d] = x
        BY <1>2, <1>6, <1>11, <4>2
      <4>3. QED
        BY <3>3, <4>1, <4>2
    <3>4. QED
      BY <3>2, <3>3
  <2>4. GateKept(model, gate, running) /\ model # None
    BY <1>1, <1>2, <1>3 DEF QueuesKept
  <2>5. GateKept(GateDrained(next).model, GateDrained(next).gate, running')
    BY <1>9, <1>12, <2>3, <2>4, GateAfterFinish
  <2>6. GateKept(model', gate', running')
    BY <1>2, <2>5
  <2>7. QED
    BY <1>11, <2>2, <2>6 DEF QueuesKept
<1>14. ~Queued(r)'
  BY <1>9, <1>10, <1>11 DEF Queued
<1>15. RestTyped' /\ ProbesAreKnown'
  <2>1. net' \in [Requests -> Replies \union {"none"}]
    BY <1>1, <1>2 DEF RestTyped, Sent, Replies
  <2>2. RestTyped'
    BY <1>1, <1>2, <2>1 DEF RestTyped
  <2>3. ProbesAreKnown'
    BY <1>1, <1>2 DEF ProbesAreKnown
  <2>4. QED
    BY <2>2, <2>3
<1>16. Accounted(r)'
  <2>1. Queued(r)
    BY <1>6 DEF Queued
  <2>2. Served(r) \/ Left(r) \/ Forgotten(r)
    BY <1>1, <2>1 DEF Accounted, Asleep, Answered
  <2>3. net'[r] = IF r \in gone \union detached THEN "none" ELSE "answered"
    BY <1>1, <1>2 DEF RestTyped, Sent
  <2>4. CASE Served(r)
    BY <1>2, <1>14, <2>3, <2>4 DEF Accounted, Served, Answered
  <2>5. CASE Left(r) \/ Forgotten(r)
    BY <1>2, <1>14, <2>3, <2>5 DEF Accounted, Left, Forgotten, Asleep
  <2>6. QED
    BY <2>2, <2>4, <2>5
<1>17. ASSUME NEW s \in Requests, s # r PROVE Accounted(s)'
  <2>1. Queued(s)' <=> Queued(s)
    <3>1. CASE CapabilityOf[s] = k
      BY <1>6, <1>8, <1>10, <1>11, <1>17, <3>1 DEF Queued
    <3>2. CASE CapabilityOf[s] # k
      BY <1>3, <1>10, <1>11, <3>2 DEF Queued
    <3>3. QED
      BY <3>1, <3>2
  <2>2. s \in detached => running'[CapabilityOf[s]] = running[CapabilityOf[s]]
    <3>1. s \in detached => running[CapabilityOf[s]] = s
      BY <1>1 DEF Accounted, Asleep, Served, Answered, Left, Forgotten
    <3>2. QED
      BY <1>3, <1>6, <1>11, <1>17, <3>1
  <2>3. net'[s] = net[s] /\ call'[s] = call[s]
    BY <1>1, <1>2, <1>17 DEF RestTyped
  <2>4. QED
    BY <1>1, <1>2, <1>17, <2>1, <2>2, <2>3, StillAccounted
<1>18. QED
  BY <1>13, <1>15, <1>16, <1>17, InvariantByPartNext

----------------------------------------------------------------------------
(* The theorems.                                                           *)

LEMMA InitiallyPathInv == PathInit => PathInv
<1>1. SUFFICES ASSUME PathInit PROVE PathInv
  OBVIOUS
<1>2. None \notin Requests /\ MaximumPending \in Nat /\ MaxFaults \in Nat
  BY BoundsAssumption
<1>3. Closed \in Breakers /\ Closed.probe = FALSE
  BY BoundsAssumption DEF Closed, Breakers
<1>4. RestTyped
  BY <1>1, <1>2, <1>3 DEF PathInit, RestTyped
<1>5. ProbesAreKnown
  BY <1>1, <1>3 DEF PathInit, ProbesAreKnown
<1>6. \A S : /\ <<>> \in Seq(S) /\ Len(<<>>) = 0 /\ IsInjective(<<>>)
             /\ \A x : ~Contains(<<>>, x)
  BY DEF IsInjective, Contains
<1>7. QueuesKept
  <2>1. PlacedIn(waiting, running)
    BY <1>1, <1>2, <1>6 DEF PathInit, PlacedIn
  <2>2. GateKept(model, gate, running)
    BY <1>1, <1>2, <1>6 DEF PathInit, GateKept, Gated
  <2>3. QED
    BY <1>1, <2>1, <2>2 DEF PathInit, QueuesKept
<1>8. \A r \in Requests : Accounted(r)
  BY <1>1, <1>6, Capability DEF PathInit, Accounted, Asleep, Queued
<1>9. QED
  BY <1>4, <1>5, <1>7, <1>8, InvariantByPart

LEMMA PathInvIsKept ==
  ASSUME PathInv, [PathNext]_pathVars
  PROVE  PathInv'
<1>1. CASE UNCHANGED pathVars
  <2>1. UNCHANGED <<breaker, call, net, gone, running, waiting, detached, model, gate,
                    ready, faults>>
    BY <1>1 DEF pathVars, queueVars
  <2>2. /\ RestTyped /\ QueuesKept /\ ProbesAreKnown /\ \A s \in Requests : Accounted(s)
    BY InvariantByPart
  <2>3. RestTyped' /\ ProbesAreKnown'
    BY <2>1, <2>2 DEF RestTyped, ProbesAreKnown
  <2>4. QueuesKept'
    BY <2>1, <2>2, QueuesRest
  <2>5. \A s \in Requests : Accounted(s)'
    BY <2>1, <2>2, StillAccounted DEF Queued
  <2>6. QED
    BY <2>3, <2>4, <2>5, InvariantByPartNext
<1>2. ASSUME NEW r \in Requests,
             Request(r) \/ Reply(r) \/ Timeout(r) \/ Abort(r) \/ Disconnect(r) \/ Finish(r)
      PROVE  PathInv'
  BY <1>2, RequestStep, ReplyStep, LeaveStep, DisconnectStep, FinishStep
<1>3. ASSUME NEW c \in Capabilities, CoolDown(c) PROVE PathInv'
  BY <1>3, CoolDownStep
<1>4. CASE Reconfigure
  BY <1>4, ReconfigureStep
<1>5. CASE Restart
  BY <1>5, RestartStep
<1>6. CASE ModelsLoaded
  BY <1>6, ModelsLoadedStep
<1>7. QED
  BY <1>1, <1>2, <1>3, <1>4, <1>5, <1>6 DEF PathNext

\* Every state of the inference path satisfies the inductive invariant: every
\* request is at one of its stages, every job in one place, every circuit knows
\* its probe (requestInferenceJson, createInferenceWorkQueue).
THEOREM PathInvariant == PathSpec => []PathInv
<1>1. PathInv /\ [PathNext]_pathVars => PathInv'
  BY PathInvIsKept
<1>2. QED
  BY <1>1, InitiallyPathInv, PTL DEF PathSpec

\* Circuits, callers, queues and the gate agree at all times, for any number of
\* capabilities, requests and pending jobs (inferenceCircuitBreaker.js,
\* inferenceWorkQueue.js).
THEOREM PathStaysConsistent == PathSpec => []PathConsistent
<1>1. ASSUME PathInv PROVE PathConsistent
  <2>1. OneProbePerCircuit
    <3>1. SUFFICES ASSUME NEW c \in Capabilities
          PROVE  /\ Cardinality({r \in Of(c) : call[r] = "probe"})
                      = IF breaker[c].probe THEN 1 ELSE 0
                 /\ breaker[c].probe => breaker[c].state = "half_open"
      BY DEF OneProbePerCircuit
    <3>2. ProbesAreKnown /\ \A r \in Of(c) : r \in Requests /\ CapabilityOf[r] = c
      BY <1>1 DEF PathInv, Of
    <3>3. CASE breaker[c].probe
      <4>1. PICK p \in Of(c) : call[p] = "probe"
        BY <3>2, <3>3 DEF ProbesAreKnown
      <4>2. {r \in Of(c) : call[r] = "probe"} = {p}
        BY <3>2, <4>1 DEF ProbesAreKnown
      <4>3. QED
        BY <3>2, <3>3, <4>2, FS_Singleton DEF ProbesAreKnown
    <3>4. CASE ~breaker[c].probe
      <4>1. {r \in Of(c) : call[r] = "probe"} = {}
        BY <3>2, <3>4 DEF ProbesAreKnown
      <4>2. QED
        BY <3>4, <4>1, FS_EmptySet
    <3>5. QED
      BY <3>3, <3>4
  <2>2. CallersAndJobsMatch
    BY <1>1 DEF PathInv, CallersAndJobsMatch, Accounted, Asleep, Served, Answered, Left, Forgotten
  <2>3. QED
    BY <1>1, <2>1, <2>2 DEF PathInv, PathConsistent
<1>2. QED
  BY <1>1, PathInvariant, PTL

\* A circuit that is not closed, and what closes it in a step.
ClosedByRight ==
  \A c \in Capabilities :
    breaker[c].state # "closed" /\ breaker'[c].state = "closed" =>
      \/ \E r \in Of(c) : call[r] = "probe" /\ call'[r] = "idle"
                        /\ net[r] \in {"answered", "full"}
      \/ faults' # faults

\* A failure, or a call that was taken back, closes no circuit.
LEMMA FailuresKeepOpen ==
  ASSUME RestTyped, NEW r \in Requests, EndCall(r, Failed) \/ EndCall(r, Ignored),
         NEW c \in Capabilities, breaker[c].state # "closed"
  PROVE  breaker'[c].state # "closed"
<1> DEFINE k == CapabilityOf[r]
<1>1. k \in Capabilities /\ breaker[k] \in Breakers
  BY Capability DEF RestTyped
<1>2. ASSUME breaker[k].state # "closed", NEW admission
      PROVE  /\ Failed(breaker[k], admission).state # "closed"
             /\ Ignored(breaker[k], admission).state # "closed"
  BY <1>1, <1>2 DEF Failed, Ignored, Opened, Breakers
<1>3. CASE EndCall(r, Failed)
  <2>1. breaker' = IF call[r] = "stale" THEN breaker
                   ELSE [breaker EXCEPT ![k] = Failed(breaker[k], call[r])]
    BY <1>3 DEF EndCall
  <2>2. QED
    BY <1>1, <1>2, <2>1 DEF RestTyped
<1>4. CASE EndCall(r, Ignored)
  <2>1. breaker' = IF call[r] = "stale" THEN breaker
                   ELSE [breaker EXCEPT ![k] = Ignored(breaker[k], call[r])]
    BY <1>4 DEF EndCall
  <2>2. QED
    BY <1>1, <1>2, <2>1 DEF RestTyped
<1>5. QED
  BY <1>3, <1>4

LEMMA CircuitsCloseByRight ==
  ASSUME PathInv, [PathNext]_pathVars
  PROVE  ClosedByRight
<1>1. /\ RestTyped /\ \A s \in Requests : Accounted(s)
      /\ \A r \in Requests : CapabilityOf[r] \in Capabilities /\ r \in Of(CapabilityOf[r])
  BY InvariantByPart, Capability
<1>2. CASE breaker' = breaker
  BY <1>2 DEF ClosedByRight
<1>3. ASSUME NEW r \in Requests, Reply(r) PROVE ClosedByRight
  <2>1. CASE net[r] = "unavailable"
    <3>1. EndCall(r, Failed)
      BY <1>3, <2>1 DEF Reply
    <3>2. QED
      BY <1>1, <3>1, FailuresKeepOpen DEF ClosedByRight
  <2>2. CASE net[r] # "unavailable"
    <3>1. EndCall(r, Succeeded) /\ net[r] \in {"answered", "full"}
      BY <1>3, <2>2 DEF Reply, Replies
    <3>2. call'[r] = "idle"
      BY <1>1, <3>1 DEF EndCall, RestTyped
    <3>3. breaker' = IF call[r] = "stale" THEN breaker
                     ELSE [breaker EXCEPT ![CapabilityOf[r]] =
                             Succeeded(breaker[CapabilityOf[r]], call[r])]
      BY <3>1 DEF EndCall
    <3>4. ASSUME NEW c \in Capabilities,
                 breaker[c].state # "closed", breaker'[c].state = "closed"
          PROVE  r \in Of(c) /\ call[r] = "probe"
      <4>1. c = CapabilityOf[r] /\ call[r] # "stale"
        BY <1>1, <3>3, <3>4 DEF RestTyped
      <4>2. Succeeded(breaker[c], call[r]) # breaker[c]
        BY <1>1, <3>3, <3>4, <4>1 DEF RestTyped
      <4>3. call[r] = "probe"
        BY <3>4, <4>2 DEF Succeeded
      <4>4. QED
        BY <1>1, <4>1, <4>3
    <3>5. QED
      BY <3>1, <3>2, <3>4 DEF ClosedByRight
  <2>3. QED
    BY <2>1, <2>2
<1>4. ASSUME NEW r \in Requests, Timeout(r) \/ Abort(r) PROVE ClosedByRight
  BY <1>1, <1>4, FailuresKeepOpen DEF Timeout, Abort, ClosedByRight
<1>5. ASSUME NEW r \in Requests, Request(r) PROVE ClosedByRight
  <2>1. breaker' = IF breaker[CapabilityOf[r]].state = "closed" THEN breaker
                   ELSE [breaker EXCEPT ![CapabilityOf[r]].state = "half_open",
                                        ![CapabilityOf[r]].probe = TRUE]
    BY <1>5, Zenon DEF Request
  <2>2. QED
    BY <1>1, <2>1 DEF RestTyped, Breakers, ClosedByRight
<1>6. ASSUME NEW c \in Capabilities, CoolDown(c) PROVE ClosedByRight
  BY <1>1, <1>6 DEF CoolDown, RestTyped, Breakers, ClosedByRight
<1>7. CASE Reconfigure
  BY <1>1, <1>7 DEF Reconfigure, RestTyped, ClosedByRight
<1>8. CASE UNCHANGED pathVars \/ Restart \/ ModelsLoaded
  BY <1>2, <1>8 DEF pathVars, Restart, ModelsLoaded, serverVars
<1>9. ASSUME NEW r \in Requests, Disconnect(r) \/ Finish(r) PROVE ClosedByRight
  BY <1>2, <1>9 DEF Disconnect, Finish, serverVars
<1>10. QED
  BY <1>3, <1>4, <1>5, <1>6, <1>7, <1>8, <1>9 DEF PathNext

\* A circuit that is not closed is closed only by its probe's success or a new
\* configuration (recordSuccess and beforeRequest of the circuit breaker).
THEOREM OnlyProbesCloseCircuits == PathSpec => OnlyProbesClose
<1>1. PathInv /\ [PathNext]_pathVars => ClosedByRight
  BY CircuitsCloseByRight
<1>2. QED
  BY <1>1, PathInvariant, PTL DEF PathSpec, OnlyProbesClose, ClosedByRight
=============================================================================
