-------------------------------- MODULE Outbox --------------------------------
(***************************************************************************)
(* What the two outboxes of the server promise whoever puts a message into *)
(* them, with no lease, worker, clock or crash: every attempt carries at   *)
(* most one copy to the receiver, a message is called sent only if the     *)
(* receiver took one, and what was said of it in the end stands.  An       *)
(* attempt that was given up may still arrive.                             *)
(* WebhookDelivery and EmailOutbox implement this specification.           *)
(***************************************************************************)
EXTENDS Naturals

CONSTANTS Messages, MaxAttempts

VARIABLES
  stage,    \* "none", "open", "sent", "failed" or "gone"
  copies,   \* the attempts that reached the receiver
  taken     \* those of which the receiver said that it took the message

vars == <<stage, copies, taken>>

Init ==
  /\ stage = [m \in Messages |-> "none"]
  /\ copies = [m \in Messages |-> {}]
  /\ taken = [m \in Messages |-> {}]

Put(m) ==
  /\ stage[m] = "none"
  /\ stage' = [stage EXCEPT ![m] = "open"]
  /\ UNCHANGED <<copies, taken>>

\* An attempt reaches the receiver, which takes the message or does not.
Carry(m, n) ==
  /\ stage[m] # "none" /\ n \notin copies[m]
  /\ copies' = [copies EXCEPT ![m] = @ \cup {n}]
  /\ taken' \in {taken, [taken EXCEPT ![m] = @ \cup {n}]}
  /\ UNCHANGED stage

Confirm(m) ==
  /\ stage[m] = "open" /\ taken[m] # {}
  /\ stage' = [stage EXCEPT ![m] = "sent"]
  /\ UNCHANGED <<copies, taken>>

\* One statement may end several messages.
GiveUp(some) ==
  /\ some # {} /\ \A m \in some : stage[m] = "open"
  /\ stage' = [m \in Messages |-> IF m \in some THEN "failed" ELSE stage[m]]
  /\ UNCHANGED <<copies, taken>>

Remove(m) ==
  /\ stage[m] \in {"open", "sent", "failed"}
  /\ stage' = [stage EXCEPT ![m] = "gone"]
  /\ UNCHANGED <<copies, taken>>

Next ==
  \/ \E m \in Messages : Put(m) \/ Confirm(m) \/ Remove(m)
  \/ \E m \in Messages, n \in 1 .. MaxAttempts : Carry(m, n)
  \/ \E some \in SUBSET Messages : GiveUp(some)

Spec == Init /\ [][Next]_vars
=============================================================================
