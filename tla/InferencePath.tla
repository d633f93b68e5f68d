--------------------------- MODULE InferencePath ---------------------------
(***************************************************************************)
(* The way of an inference request: the circuit breakers of a server        *)
(* process (server/services/inference/inferenceCircuitBreaker.js, used by   *)
(* requestInferenceJson of inferenceClient.js), the HTTP exchange with its  *)
(* timeout, and the work queues of the inference service                    *)
(* (inference/src/queue/inferenceWorkQueue.js).                             *)
(*                                                                         *)
(* Every capability with a local model (embedding, scoring, generation)     *)
(* has a work queue of its own with one running job.  The running job of    *)
(* each puts the model call into one shared queue, the gate, which runs one *)
(* call at a time by priority.  A caller that gives up takes its waiting    *)
(* job away, but a running one is only detached: it keeps its place until   *)
(* the model call ends.                                                     *)
(***************************************************************************)
EXTENDS Integers, Sequences, FiniteSets, SequencesExt

CONSTANTS Capabilities,  \* capabilities served by local models
          Requests,      \* requests that may be under way at once
          CapabilityOf,  \* [request -> its capability]
          Priority,      \* [capability -> LOCAL_INFERENCE_PRIORITIES]
          MaximumPending,\* maximumPending of a capability's queue
          Threshold,     \* failureThreshold of a breaker
          MaxFaults,     \* bound on restarts and reconfigurations
          None           \* no request

ASSUME BoundsAssumption ==
  /\ CapabilityOf \in [Requests -> Capabilities]
  /\ Priority \in [Capabilities -> Nat]
  /\ MaximumPending \in Nat /\ Threshold \in Nat \ {0} /\ MaxFaults \in Nat
  /\ None \notin Requests

VARIABLES
  breaker,  \* [capability -> the breaker of its circuit]
  call,     \* [request -> the admission its caller holds]
  net,      \* [request -> the answer to it on the network]
  gone,     \* requests whose caller has left, unnoticed by the service
  running,  \* [capability -> the running job of its queue]
  waiting,  \* [capability -> the pending jobs of its queue]
  detached, \* running jobs whose caller has left
  model,    \* the running job of the gate
  gate,     \* the pending jobs of the gate
  ready,    \* readiness of the inference service
  faults    \* faults so far
serverVars  == <<breaker, call>>
queueVars   == <<running, waiting, detached, model, gate>>
pathVars == <<breaker, call, net, gone, queueVars, ready, faults>>

Of(c) == {r \in Requests : CapabilityOf[r] = c}
PriorityOf(r) == Priority[CapabilityOf[r]]
Queued(r) == r = running[CapabilityOf[r]] \/ Contains(waiting[CapabilityOf[r]], r)
\* An answer of the model, or its error with a status that says nothing about
\* availability; a full queue; and 502 to 504, not_ready or a broken connection.
Replies == {"answered", "full", "unavailable"}

Closed == [state |-> "closed", failures |-> 0, probe |-> FALSE, cooled |-> FALSE]

PathInit ==
  /\ breaker = [c \in Capabilities |-> Closed]
  /\ call = [r \in Requests |-> "idle"]
  /\ net = [r \in Requests |-> "none"]
  /\ gone = {}
  /\ running = [c \in Capabilities |-> None]
  /\ waiting = [c \in Capabilities |-> <<>>]
  /\ detached = {}
  /\ model = None
  /\ gate = <<>>
  /\ ready = TRUE
  /\ faults = 0

-----------------------------------------------------------------------------
(* The circuit breaker. *)

\* beforeRequest: an open circuit that has cooled lets one probe pass.
Admits(b) == \/ b.state = "closed"
             \/ b.state = "open" /\ b.cooled
             \/ b.state = "half_open" /\ ~b.probe

\* failures is compared with the threshold only while the circuit is closed.
Opened == [state |-> "open", failures |-> Threshold, probe |-> FALSE, cooled |-> FALSE]

\* recordSuccess
SucceededAnyway(b, admission) == Closed
Succeeded(b, admission) ==
  IF admission = "probe" \/ (admission = "normal" /\ b.state = "closed") THEN Closed ELSE b

\* recordFailure of a failure that qualifies
Failed(b, admission) ==
  IF admission = "probe" THEN Opened
  ELSE IF admission = "stale" \/ b.state # "closed" THEN b
  ELSE IF b.failures + 1 >= Threshold THEN Opened
  ELSE [b EXCEPT !.failures = @ + 1]

\* recordFailure of a failure that does not
IgnoredProbe(b, admission) == b
Ignored(b, admission) == IF admission = "probe" THEN [b EXCEPT !.probe = FALSE] ELSE b

\* The call of r ends, and its breaker hears of it.  A breaker that a new
\* configuration replaced hears of stale calls instead of the present one.
EndCall(r, After(_, _)) ==
  /\ call' = [call EXCEPT ![r] = "idle"]
  /\ breaker' = IF call[r] = "stale" THEN breaker
                ELSE [breaker EXCEPT ![CapabilityOf[r]] = After(@, call[r])]

\* The cooldown, or the longer Retry-After, is over.
CoolDown(c) ==
  /\ breaker[c].state = "open" /\ ~breaker[c].cooled
  /\ breaker' = [breaker EXCEPT ![c].cooled = TRUE]
  /\ UNCHANGED <<call, net, gone, queueVars, ready, faults>>

\* A new inference configuration drops every breaker.
Reconfigure ==
  /\ faults < MaxFaults /\ faults' = faults + 1
  /\ breaker' = [c \in Capabilities |-> Closed]
  /\ call' = [r \in Requests |-> IF call[r] = "idle" THEN "idle" ELSE "stale"]
  /\ UNCHANGED <<net, gone, queueVars, ready>>

-----------------------------------------------------------------------------
(* The caller's side of a request. *)

\* An answer arrives.  Only failures of availability count against the circuit;
\* a full queue, or an error of the model, closes it like a success.
Reply(r) ==
  /\ net[r] \in Replies
  /\ net' = [net EXCEPT ![r] = "none"]
  /\ IF net[r] = "unavailable" THEN EndCall(r, Failed) ELSE EndCall(r, Succeeded)
  /\ UNCHANGED <<gone, queueVars, ready, faults>>

\* The caller stops waiting; the connection is closed, and an answer that is
\* already under way is lost.
Leave(r) ==
  /\ net' = [net EXCEPT ![r] = "none"]
  /\ gone' = IF net[r] \in Replies THEN gone ELSE gone \union {r}
  /\ UNCHANGED <<queueVars, ready, faults>>

Timeout(r) == call[r] # "idle" /\ EndCall(r, Failed) /\ Leave(r)

\* The caller's own signal aborts the request.
Abort(r) == call[r] # "idle" /\ EndCall(r, Ignored) /\ Leave(r)

-----------------------------------------------------------------------------
(* The inference service. *)

\* A job enters the gate: before the first of a lower priority, or last.
IsPlaceFor(q, r, i) ==
  /\ \A j \in 1..(i - 1) : PriorityOf(q[j]) >= PriorityOf(r)
  /\ i <= Len(q) => PriorityOf(q[i]) < PriorityOf(r)
Entered(q, r) == InsertAt(q, CHOOSE i \in 1..(Len(q) + 1) : IsPlaceFor(q, r, i), r)

\* An answer on its way; one for a caller that has left goes nowhere.
Sent(r, answer) == IF r \in gone \union detached THEN "none" ELSE answer

Full(c) == running[c] # None /\ Len(waiting[c]) >= MaximumPending

\* A request reaches the service: it is refused, or its job starts or waits.
Arrives(r) ==
  LET c == CapabilityOf[r] IN
  IF ~ready
  THEN net' = [net EXCEPT ![r] = "unavailable"] /\ UNCHANGED queueVars
  ELSE IF Full(c)
  THEN net' = [net EXCEPT ![r] = "full"] /\ UNCHANGED queueVars
  ELSE IF running[c] # None
  THEN /\ waiting' = [waiting EXCEPT ![c] = Append(@, r)]
       /\ UNCHANGED <<net, running, detached, model, gate>>
  ELSE /\ running' = [running EXCEPT ![c] = r]
       /\ IF model = None THEN model' = r /\ UNCHANGED gate
                          ELSE gate' = Entered(gate, r) /\ UNCHANGED model
       /\ UNCHANGED <<net, waiting, detached>>

\* A caller is admitted by the breaker, and its request reaches the service.
Request(r) ==
  LET c == CapabilityOf[r] IN
  /\ call[r] = "idle" /\ net[r] = "none" /\ r \notin gone /\ ~Queued(r)
  /\ Admits(breaker[c])
  /\ call' = [call EXCEPT ![r] = IF breaker[c].state = "closed" THEN "normal" ELSE "probe"]
  /\ breaker' = IF breaker[c].state = "closed" THEN breaker
                ELSE [breaker EXCEPT ![c].state = "half_open", ![c].probe = TRUE]
  /\ Arrives(r)
  /\ UNCHANGED <<gone, ready, faults>>

\* The service notices that the caller has left: a waiting job is removed, and a
\* running one is detached.
PlaceFreed(c, r) == IF running[c] = r THEN [running EXCEPT ![c] = None] ELSE running
PlaceAfterLeave(c, r) == running
Disconnect(r) ==
  LET c == CapabilityOf[r] IN
  /\ r \in gone
  /\ gone' = gone \ {r}
  /\ waiting' = [waiting EXCEPT ![c] = RemoveFirst(@, r)]
  /\ running' = PlaceAfterLeave(c, r)
  /\ detached' = IF running[c] = r THEN detached \union {r} ELSE detached
  /\ UNCHANGED <<serverVars, net, model, gate, ready, faults>>

\* The gate takes up its next job when a model call ends, before the queue of
\* the capability that ended hears of it and lets its own next job in.
Refilled(q, next) == IF next = None THEN q ELSE Entered(q, next)
GateDrainedLate(next) ==
  LET q == Refilled(gate, next) IN
  IF q = <<>> THEN [model |-> None, gate |-> <<>>] ELSE [model |-> Head(q), gate |-> Tail(q)]
GateDrained(next) ==
  IF gate = <<>> THEN [model |-> next, gate |-> <<>>]
  ELSE [model |-> Head(gate), gate |-> Refilled(Tail(gate), next)]

\* The model call ends, well or not: the caller hears of it unless it has left.
NextJob(c) == IF waiting[c] = <<>> THEN None ELSE Head(waiting[c])
Finish(r) ==
  LET c == CapabilityOf[r]
      next == NextJob(c)
      drained == GateDrained(next)
  IN  /\ r = model
      /\ running' = [running EXCEPT ![c] = next]
      /\ waiting' = [waiting EXCEPT ![c] = IF next = None THEN @ ELSE Tail(@)]
      /\ model' = drained.model
      /\ gate' = drained.gate
      /\ detached' = detached \ {r}
      /\ net' = [net EXCEPT ![r] = Sent(r, "answered")]
      /\ gone' = gone \ {r}
      /\ UNCHANGED <<serverVars, ready, faults>>

\* The service dies: its connections break, and it is not ready until its
\* models are loaded again.
Restart ==
  /\ faults < MaxFaults /\ faults' = faults + 1
  /\ net' = [r \in Requests |->
       IF net[r] \in Replies THEN net[r]
       ELSE IF call[r] # "idle" THEN "unavailable" ELSE "none"]
  /\ gone' = {}
  /\ running' = [c \in Capabilities |-> None]
  /\ waiting' = [c \in Capabilities |-> <<>>]
  /\ detached' = {}
  /\ model' = None
  /\ gate' = <<>>
  /\ ready' = FALSE
  /\ UNCHANGED serverVars

ModelsLoaded == ~ready /\ ready' = TRUE
                /\ UNCHANGED <<serverVars, net, gone, queueVars, faults>>

PathNext ==
  \/ \E r \in Requests : \/ Request(r) \/ Reply(r) \/ Timeout(r) \/ Abort(r)
                         \/ Disconnect(r) \/ Finish(r)
  \/ \E c \in Capabilities : CoolDown(c)
  \/ Reconfigure \/ Restart \/ ModelsLoaded

PathSpec == PathInit /\ [][PathNext]_pathVars

\* The timer of every call fires, and model calls end; nothing is asked of the
\* network or of the callers.
PathFairness == /\ \A r \in Requests : WF_pathVars(Timeout(r))
                /\ WF_pathVars(\E r \in Requests : Finish(r))
PathFairSpec == PathSpec /\ PathFairness

-----------------------------------------------------------------------------
(* Properties. *)

\* Every variable stays within its type; a queue never holds more pending jobs
\* than its maximum, however many detached jobs there are.
PathTypeOK ==
  /\ breaker \in [Capabilities -> [state : {"closed", "open", "half_open"},
                    failures : 0..Threshold, probe : BOOLEAN, cooled : BOOLEAN]]
  /\ call \in [Requests -> {"idle", "normal", "probe", "stale"}]
  /\ net \in [Requests -> Replies \union {"none"}]
  /\ gone \subseteq Requests /\ detached \subseteq Requests
  /\ running \in [Capabilities -> Requests \union {None}]
  /\ \A c \in Capabilities : /\ waiting[c] \in Seq(Of(c))
                             /\ Len(waiting[c]) <= MaximumPending
  /\ model \in Requests \union {None}
  /\ gate \in Seq(Requests)
  /\ ready \in BOOLEAN
  /\ faults \in 0..MaxFaults

\* A half-open circuit has at most one probe out, and its flag is set exactly
\* while that probe has still to report (inferenceCircuitBreaker.js:112-122),
\* across timeouts, aborts, restarts and a new configuration.
OneProbePerCircuit ==
  \A c \in Capabilities :
    LET probes == {r \in Of(c) : call[r] = "probe"} IN
    /\ Cardinality(probes) = IF breaker[c].probe THEN 1 ELSE 0
    /\ breaker[c].probe => breaker[c].state = "half_open"

\* No caller waits for nothing, and no place is waited for by nobody: as long as
\* a caller waits, its request, its answer or its job exists and is not
\* detached; a job that is not detached has a caller, or one just leaving.
CallersAndJobsMatch ==
  \A r \in Requests :
    /\ call[r] # "idle" => net[r] # "none" \/ (Queued(r) /\ r \notin detached)
    /\ Queued(r) /\ r \notin detached => call[r] # "idle" \/ r \in gone

\* The gate holds the running jobs of the capabilities, each once, and nothing
\* else, so it never comes near its own limit: detached jobs keep their place
\* in the queue of their capability (inferenceWorkQueue.js:186-195).
GateMirrorsQueues ==
  LET inGate == (IF model = None THEN <<>> ELSE <<model>>) \o gate IN
  /\ IsInjective(inGate)
  /\ ToSet(inGate) = {running[c] : c \in Capabilities} \ {None}

\* Work is never kept waiting by an idle place, in any queue: every way a job
\* ends starts the next one.
NoIdlePlace ==
  /\ \A c \in Capabilities : waiting[c] # <<>> => running[c] # None
  /\ gate # <<>> => model # None

\* Circuits, callers, queues and the gate agree with each other at all times:
\* types and the four promises above.
PathConsistent ==
  /\ PathTypeOK /\ OneProbePerCircuit /\ CallersAndJobsMatch
  /\ GateMirrorsQueues /\ NoIdlePlace

\* A circuit that is not closed is closed only by its own probe's success or by
\* a new configuration: a late answer to an earlier request changes nothing.
OnlyProbesClose ==
  [][\A c \in Capabilities :
       breaker[c].state # "closed" /\ breaker'[c].state = "closed" =>
         \/ \E r \in Of(c) : call[r] = "probe" /\ call'[r] = "idle"
                           /\ net[r] \in {"answered", "full"}
         \/ faults' # faults]_pathVars

\* Every probe reports: the circuit does not keep callers out for ever because
\* of a probe that was aborted, timed out or lost its service.
ProbesEnd == \A c \in Capabilities : breaker[c].probe ~> ~breaker[c].probe

\* A model call that at most one other capability may overtake is not starved,
\* whatever the load: the gate starts the waiting call before the capability
\* that ended can put in another (inferenceWorkQueue.js:107-126).
Overtakers(c) == {d \in Capabilities : Priority[d] > Priority[c]}
InGate(c) == \E r \in Of(c) : Contains(gate, r)
SecondInLineIsServed ==
  \A c \in Capabilities : Cardinality(Overtakers(c)) <= 1 => (InGate(c) ~> ~InGate(c))

\* Embeddings that wait go first: no call of lower priority starts while one
\* waits.  The gate sees only one embedding at a time, so the code does not
\* keep this.
WaitingEmbeddingsGoFirst ==
  [][\A r \in Requests : model # r /\ model' = r =>
       \A c \in Overtakers(CapabilityOf[r]) : waiting[c] = <<>> \/ faults' # faults]_pathVars
=============================================================================
