------------------------ MODULE ArticleEnrichmentProofs ------------------------
(***************************************************************************)
(* Safety of ArticleEnrichment for any number of contents, workers and     *)
(* attempts.  That a job's success settles its article needs more than the *)
(* promise itself: as long as no revision has changed the content since    *)
(* its job was opened, an execution that returned from its handler and     *)
(* still holds that job has left the article settled (ReturnedIsSettled).  *)
(***************************************************************************)
EXTENDS ArticleEnrichment, TLAPS

Phase == Active \cup {"none", "succeeded", "dead"}

\* Before the article exists there are neither jobs nor executions.
NothingBefore ==
  article.status = "absent" => /\ \A v \in Versions : phase[v] = "none"
                               /\ \A w \in Workers : at[w] = "idle"

\* An execution has the job of some content.
KnownTargets == \A w \in Workers : at[w] # "idle" => target[w] \in Versions

ReturnedIsSettled ==
  \A w \in Workers :
    kept /\ at[w] = "returned" /\ target[w] = article.version /\ HoldsLease(w)
      => article.status \notin Unfinished

Inv == TypeOK /\ NothingBefore /\ KnownTargets /\ ReturnedIsSettled /\ SuccessSettlesArticle

----------------------------------------------------------------------------
(* What the queue's operations do to its variables.                        *)

QueueTypeOK ==
  /\ phase \in [Versions -> Phase]
  /\ holder \in [Versions -> Workers \cup {NoWorker}]
  /\ tries \in [Versions -> 0 .. MaxAttempts]
  /\ working \in [Workers -> Versions \cup {NoVersion}]

LEMMA Numeric == MaxAttempts \in Nat /\ MaxAttempts >= 1 /\ NumVersions \in Nat /\ NumVersions >= 1
BY EnrichmentAssumption

LEMMA OpenEffect ==
  ASSUME QueueTypeOK, NEW v \in Versions, Queue!Open(v)
  PROVE  /\ QueueTypeOK'
         /\ phase[v] \notin Active
         /\ phase' = [phase EXCEPT ![v] = "pending"]
         /\ holder' = [holder EXCEPT ![v] = NoWorker]
BY Numeric DEF QueueTypeOK, Queue!Open, Queue!Become, Phase, Active

LEMMA ForgetEffect ==
  ASSUME QueueTypeOK, NEW v \in Versions, Queue!Forget(v)
  PROVE  /\ QueueTypeOK'
         /\ phase' = [phase EXCEPT ![v] = "none"]
         /\ holder' = [holder EXCEPT ![v] = NoWorker]
BY Numeric DEF QueueTypeOK, Queue!Forget, Queue!Become, Phase, Active

LEMMA GrantEffect ==
  ASSUME QueueTypeOK, NEW w \in Workers, NEW v \in Versions, Queue!Grant(w, v)
  PROVE  /\ QueueTypeOK'
         /\ phase[v] \in Active
         /\ phase' = [phase EXCEPT ![v] = "running"]
         /\ holder' = [holder EXCEPT ![v] = w]
BY Numeric DEF QueueTypeOK, Queue!Grant, Queue!Become, Phase, Active

LEMMA SettleEffect ==
  ASSUME QueueTypeOK, NEW w \in Workers, NEW v \in Versions,
         NEW p \in {"pending", "succeeded", "dead"}, Queue!SettleAs(w, v, p)
  PROVE  /\ QueueTypeOK'
         /\ phase[v] = "running"
         /\ phase' = [phase EXCEPT ![v] = p]
         /\ holder' = [holder EXCEPT ![v] = NoWorker]
BY Numeric DEF QueueTypeOK, Queue!SettleAs, Queue!Become, Phase, Active

LEMMA LeaveEffect ==
  ASSUME QueueTypeOK, NEW w \in Workers, Queue!Leave(w)
  PROVE  QueueTypeOK' /\ phase' = phase /\ holder' = holder
BY DEF QueueTypeOK, Queue!Leave

LEMMA RevokeEffect ==
  ASSUME QueueTypeOK, NEW v \in Versions, Queue!Revoke(v)
  PROVE  /\ QueueTypeOK'
         /\ phase[v] = "running"
         /\ \E p \in {"pending", "dead"} : phase' = [phase EXCEPT ![v] = p]
         /\ holder' = [holder EXCEPT ![v] = NoWorker]
BY Numeric DEF QueueTypeOK, Queue!Revoke, Queue!Become, Phase, Active

LEMMA Typing ==
  TypeOK <=> /\ QueueTypeOK
             /\ article \in [status : ArticleStatus, version : Versions, excluded : BOOLEAN]
             /\ at \in [Workers -> Point]
             /\ target \in [Workers -> Versions \cup {NoVersion}]
             /\ expired \subseteq Versions /\ kept \in BOOLEAN
BY DEF TypeOK, QueueTypeOK, Phase

LEMMA TypingNext ==
  TypeOK' <=> /\ QueueTypeOK'
              /\ article' \in [status : ArticleStatus, version : Versions, excluded : BOOLEAN]
              /\ at' \in [Workers -> Point]
              /\ target' \in [Workers -> Versions \cup {NoVersion}]
              /\ expired' \subseteq Versions /\ kept' \in BOOLEAN
BY DEF TypeOK, QueueTypeOK, Phase

----------------------------------------------------------------------------
(* The crawler and the settings.                                           *)

LEMMA InitInv == Init => Inv
<1>1. SUFFICES ASSUME Init PROVE Inv
  OBVIOUS
<1>2. TypeOK
  <2>1. QueueTypeOK
    BY <1>1, Numeric DEF Init, Queue!Init, QueueTypeOK, Phase, Active
  <2>2. article \in [status : ArticleStatus, version : Versions, excluded : BOOLEAN]
    BY <1>1, Numeric DEF Init, ArticleStatus, Unfinished, Versions
  <2>3. QED
    BY <1>1, <2>1, <2>2, Typing DEF Init, Point
<1>3. QED
  BY <1>1, <1>2, Numeric DEF Init, Queue!Init, Inv, NothingBefore, KnownTargets,
     ReturnedIsSettled, SuccessSettlesArticle, Versions, Unfinished

LEMMA CreateInv == ASSUME Inv, Create PROVE Inv'
<1>1. TypeOK'
  BY Typing, TypingNext, OpenEffect DEF Inv, Create, SetStatus, ArticleStatus, Unfinished,
     queueVars, workerVars, QueueTypeOK
<1>2. /\ article'.version = article.version /\ article'.status \in {"pending", "skipped"}
      /\ at' = at /\ target' = target /\ \A w \in Workers : at[w] = "idle"
  BY Typing DEF Inv, NothingBefore, Create, SetStatus, workerVars
<1>3. \/ phase' = [phase EXCEPT ![article.version] = "pending"]
      \/ phase' = phase /\ article'.status = "skipped"
  BY Typing, OpenEffect DEF Inv, Create, SetStatus, queueVars
<1>4. NothingBefore' /\ SuccessSettlesArticle'
  <2>1. article.version \in Versions /\ phase \in [Versions -> Phase]
    BY Typing DEF Inv, QueueTypeOK
  <2>2. phase'[article.version] # "succeeded" \/ article'.status = "skipped"
    BY <1>3, <2>1
  <2>3. QED
    BY <1>2, <2>2 DEF NothingBefore, SuccessSettlesArticle, Unfinished
<1>5. QED
  BY <1>1, <1>2, <1>4 DEF Inv, KnownTargets, ReturnedIsSettled

LEMMA ReviseInv ==
  ASSUME Inv, NEW version \in Versions, NEW excluded \in BOOLEAN, Revise(version, excluded)
  PROVE  Inv'
<1>1. /\ article'.version = version /\ article'.status = article.status
      /\ article' \in [status : ArticleStatus, version : Versions, excluded : BOOLEAN]
      /\ UNCHANGED <<phase, holder, tries, working, at, target, expired>>
      /\ Exists /\ kept' \in BOOLEAN
      /\ kept' => kept /\ version = article.version
  BY Typing DEF Inv, Revise, queueVars, workerVars
<1>2. TypeOK'
  BY <1>1, Typing, TypingNext DEF Inv, QueueTypeOK
<1>3. NothingBefore' /\ KnownTargets'
  BY <1>1 DEF Inv, NothingBefore, KnownTargets, Exists
<1>4. ReturnedIsSettled' /\ SuccessSettlesArticle'
  BY <1>1 DEF Inv, ReturnedIsSettled, SuccessSettlesArticle, HoldsLease
<1>5. QED
  BY <1>2, <1>3, <1>4 DEF Inv

\* A step that changes neither jobs nor executions, gives the article no work
\* and leaves its content alone.
LEMMA QuietInv ==
  ASSUME Inv, TypeOK', UNCHANGED <<phase, holder, at, target>>, kept' => kept,
         article'.version = article.version,
         article'.status = article.status \/ article'.status \notin Unfinished \cup {"absent"}
  PROVE  Inv'
BY DEF Inv, NothingBefore, KnownTargets, ReturnedIsSettled, SuccessSettlesArticle, HoldsLease

LEMMA DeleteInv == ASSUME Inv, Delete PROVE Inv'
<1>1. /\ UNCHANGED <<phase, holder, tries, working, at, target, expired>>
      /\ article' \in [status : ArticleStatus, version : Versions, excluded : BOOLEAN]
      /\ article'.version = article.version /\ article'.status = "deleted" /\ kept' = FALSE
  BY Typing DEF Inv, Delete, queueVars, workerVars, ArticleStatus
<1>2. TypeOK'
  BY <1>1, Typing, TypingNext DEF Inv, QueueTypeOK
<1>3. QED
  BY <1>1, <1>2, QuietInv DEF Unfinished

LEMMA SetAnalysisInv == ASSUME Inv, SetAnalysis PROVE Inv'
<1>1. /\ UNCHANGED <<phase, holder, tries, working, at, target, expired>>
      /\ article' \in [status : ArticleStatus, version : Versions, excluded : BOOLEAN]
      /\ article'.version = article.version /\ article'.status = article.status
      /\ kept' = kept
  BY Typing DEF Inv, SetAnalysis, queueVars, workerVars
<1>2. TypeOK'
  BY <1>1, Typing, TypingNext DEF Inv, QueueTypeOK
<1>3. QED
  BY <1>1, <1>2, QuietInv

----------------------------------------------------------------------------
(* The execution of a job.                                                 *)

LEMMA ClaimInv ==
  ASSUME Inv, NEW w \in Workers, NEW v \in Versions, Claim(w, v)
  PROVE  Inv'
<1>1. /\ QueueTypeOK' /\ phase[v] \in Active
      /\ phase' = [phase EXCEPT ![v] = "running"] /\ holder' = [holder EXCEPT ![v] = w]
      /\ at' = [at EXCEPT ![w] = "claimed"] /\ target' = [target EXCEPT ![w] = v]
      /\ article' = article /\ expired' = expired /\ kept' = kept
  BY Typing, GrantEffect DEF Inv, Claim, Goto
<1>2. TypeOK'
  BY <1>1, Typing, TypingNext DEF Inv, Point
<1>3. phase[v] # "none" /\ article.status # "absent"
  BY <1>1 DEF Inv, NothingBefore, Active
<1>4. NothingBefore'
  BY <1>1, <1>3, Typing DEF Inv, NothingBefore, QueueTypeOK
<1>5. KnownTargets'
  BY <1>1, <1>3, Typing DEF Inv, KnownTargets
<1>6. ReturnedIsSettled'
  <2>1. SUFFICES ASSUME NEW u \in Workers, kept', at'[u] = "returned",
                        target'[u] = article'.version, HoldsLease(u)'
                 PROVE  article.status \notin Unfinished
    BY <1>1 DEF ReturnedIsSettled
  <2>2. u # w /\ at[u] = "returned" /\ target[u] = article.version
    BY <1>1, <2>1, Typing DEF Inv
  <2>3. target[u] # v
    BY <1>1, <2>1, <2>2, Typing DEF Inv, HoldsLease, QueueTypeOK
  <2>4. HoldsLease(u)
    BY <1>1, <2>1, <2>2, <2>3, Typing DEF Inv, HoldsLease, QueueTypeOK
  <2>5. QED
    BY <1>1, <2>1, <2>2, <2>4 DEF Inv, ReturnedIsSettled
<1>7. SuccessSettlesArticle'
  BY <1>1, Typing DEF Inv, SuccessSettlesArticle, QueueTypeOK
<1>8. QED
  BY <1>2, <1>4, <1>5, <1>6, <1>7 DEF Inv

\* A worker moves on with its job; the article may be given work only if it
\* had some, and is settled, or none of the worker's business, if it returns.
LEMMA AdvanceInv ==
  ASSUME Inv, NEW w \in Workers, NEW point \in Point \ {"idle"}, NEW status \in ArticleStatus,
         at[w] # "idle", Goto(w, point), SetStatus(status) \/ UNCHANGED article,
         UNCHANGED <<queueVars, target, expired, kept>>,
         article'.status \in Unfinished => article.status \in Unfinished,
         article'.status = "absent" => article.status = "absent",
         point = "returned" /\ target[w] = article.version => article'.status \notin Unfinished
  PROVE  Inv'
<1>1. /\ article'.version = article.version /\ target' = target
      /\ UNCHANGED <<phase, holder, tries, working, expired, kept>>
      /\ at' = [at EXCEPT ![w] = point]
      /\ article' \in [status : ArticleStatus, version : Versions, excluded : BOOLEAN]
  BY Typing DEF Inv, SetStatus, Goto, queueVars
<1>2. TypeOK'
  BY <1>1, Typing, TypingNext DEF Inv, QueueTypeOK
<1>3. NothingBefore' /\ KnownTargets' /\ SuccessSettlesArticle'
  BY <1>1, Typing DEF Inv, NothingBefore, KnownTargets, SuccessSettlesArticle
<1>4. ReturnedIsSettled'
  BY <1>1, Typing DEF Inv, ReturnedIsSettled, HoldsLease
<1>5. QED
  BY <1>2, <1>3, <1>4 DEF Inv

LEMMA PrepareInv == ASSUME Inv, NEW w \in Workers, Prepare(w) PROVE Inv'
<1>1. article \in [status : ArticleStatus, version : Versions, excluded : BOOLEAN]
  BY Typing DEF Inv
<1>2. at[w] = "claimed" /\ article.status # "absent"
  BY DEF Inv, Prepare, NothingBefore
<1>3. CASE PrepareReady(w)
  BY <1>1, <1>2, <1>3, AdvanceInv
     DEF Prepare, PrepareReady, Point, ArticleStatus, Unfinished, SetStatus
<1>4. CASE PrepareObsolete(w)
  <2>1. CASE UNCHANGED article /\ ~Exists
    BY <1>1, <1>2, <1>4, <2>1, AdvanceInv
       DEF Prepare, PrepareObsolete, Point, ArticleStatus, Unfinished, Exists
  <2>2. CASE UNCHANGED article /\ article.version # target[w]
    BY <1>1, <1>2, <1>4, <2>2, AdvanceInv
       DEF Prepare, PrepareObsolete, Point, ArticleStatus, Unfinished
  <2>3. CASE UNCHANGED article /\ article.status \in {"complete", "skipped", "failed"}
    BY <1>1, <1>2, <1>4, <2>3, AdvanceInv
       DEF Prepare, PrepareObsolete, Point, ArticleStatus, Unfinished
  <2>4. CASE Skip
    BY <1>1, <1>2, <1>4, <2>4, AdvanceInv
       DEF Prepare, PrepareObsolete, Point, ArticleStatus, Unfinished, Skip, SetStatus
  <2>5. QED
    BY <1>4, <2>1, <2>2, <2>3, <2>4 DEF PrepareObsolete
<1>5. QED
  BY <1>3, <1>4 DEF Prepare

LEMMA AnalyzeInv == ASSUME Inv, NEW w \in Workers, Analyze(w) PROVE Inv'
BY Typing, AdvanceInv DEF Inv, Analyze, Point, queueVars

LEMMA PersistInv == ASSUME Inv, NEW w \in Workers, Persist(w) PROVE Inv'
<1>1. article \in [status : ArticleStatus, version : Versions, excluded : BOOLEAN]
  BY Typing DEF Inv
<1>2. CASE SetStatus("complete")
  BY <1>1, <1>2, AdvanceInv DEF Persist, PersistEffect, SetStatus, Point, ArticleStatus, Unfinished
<1>3. CASE Skip
  BY <1>1, <1>3, AdvanceInv DEF Persist, Skip, SetStatus, Point, ArticleStatus, Unfinished
<1>4. CASE UNCHANGED article /\ (~Exists \/ article.version # target[w])
  BY <1>1, <1>4, AdvanceInv DEF Persist, Exists, Point, ArticleStatus, Unfinished
<1>5. QED
  BY <1>2, <1>3, <1>4 DEF Persist, PersistEffect

\* A worker is done, or has only the failure left to mark; the article gets no
\* work, and its job, if it is the present content's, has not just succeeded
\* while the article waits.
LEMMA LeavingInv ==
  ASSUME Inv, NEW w \in Workers, NEW v \in Versions, at[w] # "idle",
         Finish(w) \/ (Goto(w, "marking") /\ target' = target),
         QueueTypeOK', UNCHANGED <<expired, kept>>,
         article' \in [status : ArticleStatus, version : Versions, excluded : BOOLEAN],
         article'.version = article.version,
         article'.status = article.status \/ article'.status \notin Unfinished \cup {"absent"},
         \/ UNCHANGED <<phase, holder>>
         \/ /\ \E p \in {"pending", "succeeded", "dead"} :
                  /\ phase' = [phase EXCEPT ![v] = p]
                  /\ kept /\ p = "succeeded" /\ v = article.version => article.status \notin Unfinished
            /\ phase[v] = "running" /\ holder' = [holder EXCEPT ![v] = NoWorker]
  PROVE  Inv'
<1>1. TypeOK'
  BY Typing, TypingNext DEF Inv, Finish, Goto, Point
<1>2. article.version \in Versions /\ phase \in [Versions -> Phase]
      /\ holder \in [Versions -> Workers \cup {NoWorker}]
      /\ at \in [Workers -> Point] /\ target \in [Workers -> Versions \cup {NoVersion}]
  BY Typing DEF Inv, QueueTypeOK
<1>3. \A u \in Workers : at'[u] \notin {"idle", "marking"} => at'[u] = at[u] /\ target'[u] = target[u]
  BY <1>2 DEF Finish, Goto
<1>4. KnownTargets'
  BY <1>2 DEF Inv, KnownTargets, Finish, Goto
<1>5. NothingBefore'
  BY <1>2 DEF Inv, NothingBefore, Finish, Goto
<1>6. SuccessSettlesArticle'
  BY <1>2 DEF Inv, SuccessSettlesArticle
<1>7. ReturnedIsSettled'
  <2>1. SUFFICES ASSUME NEW u \in Workers, kept', at'[u] = "returned",
                        target'[u] = article'.version, HoldsLease(u)'
                 PROVE  article'.status \notin Unfinished
    BY DEF ReturnedIsSettled
  <2>2. at[u] = "returned" /\ target[u] = article.version /\ target'[u] = target[u]
    BY <1>3, <2>1
  <2>3. HoldsLease(u)
    BY <1>2, <2>1, <2>2, EnrichmentAssumption DEF HoldsLease
  <2>4. QED
    BY <2>1, <2>2, <2>3 DEF Inv, ReturnedIsSettled
<1>8. QED
  BY <1>1, <1>4, <1>5, <1>6, <1>7 DEF Inv
LEMMA CompleteInv == ASSUME Inv, NEW w \in Workers, Complete(w) PROVE Inv'
<1>1. target[w] \in Versions /\ at[w] = "returned"
  BY DEF Inv, Complete, KnownTargets
<1>2. kept /\ target[w] = article.version => article.status \notin Unfinished
  BY <1>1 DEF Inv, Complete, ReturnedIsSettled
<1>3. article \in [status : ArticleStatus, version : Versions, excluded : BOOLEAN]
  BY Typing DEF Inv
<1>4. QED
  BY <1>1, <1>2, <1>3, Typing, SettleEffect, LeavingInv DEF Inv, Complete

LEMMA SettleInv == ASSUME Inv, NEW w \in Workers, Settle(w) PROVE Inv'
<1>1. target[w] \in Versions /\ at[w] # "idle"
  BY DEF Inv, Settle, Failing, KnownTargets
<1>2. article \in [status : ArticleStatus, version : Versions, excluded : BOOLEAN]
  BY Typing DEF Inv
<1>3. CASE Requeued(w)
  BY <1>1, <1>2, <1>3, Typing, SettleEffect, LeavingInv DEF Inv, Settle, Requeued
<1>4. CASE DeadLettered(w)
  BY <1>1, <1>2, <1>4, Typing, SettleEffect, LeavingInv DEF Inv, Settle, DeadLettered
<1>5. CASE LeaseLost(w)
  BY <1>1, <1>2, <1>5, Typing, LeaveEffect, LeavingInv DEF Inv, Settle, LeaseLost
<1>6. QED
  BY <1>3, <1>4, <1>5 DEF Settle

\* Marking keeps the content and gives the article no work.
LEMMA MarkFailedEffect ==
  ASSUME Inv, NEW v \in Versions, MarkFailed(v)
  PROVE  /\ article' \in [status : ArticleStatus, version : Versions, excluded : BOOLEAN]
         /\ article'.version = article.version
         /\ article'.status = article.status \/ article'.status \notin Unfinished \cup {"absent"}
BY Typing DEF Inv, MarkFailed, SetStatus, ArticleStatus, Unfinished

LEMMA MarkInv == ASSUME Inv, NEW w \in Workers, Mark(w) PROVE Inv'
<1>1. target[w] \in Versions /\ at[w] # "idle"
  BY DEF Inv, Mark, KnownTargets
<1>2. QueueTypeOK' /\ UNCHANGED <<phase, holder>>
  BY Typing DEF Inv, Mark, queueVars, QueueTypeOK
<1>3. QED
  BY <1>1, <1>2, MarkFailedEffect, LeavingInv DEF Mark

LEMMA CrashInv == ASSUME Inv, NEW w \in Workers, Crash(w) PROVE Inv'
<1>1. target[w] \in Versions /\ at[w] # "idle"
  BY DEF Inv, Crash, KnownTargets
<1>2. QueueTypeOK' /\ UNCHANGED <<phase, holder>>
  BY Typing, LeaveEffect DEF Inv, Crash, queueVars, QueueTypeOK
<1>3. article \in [status : ArticleStatus, version : Versions, excluded : BOOLEAN]
  BY Typing DEF Inv
<1>4. QED
  BY <1>1, <1>2, <1>3, LeavingInv DEF Crash

----------------------------------------------------------------------------
(* Recovery and the user.                                                  *)

\* A job leaves its holder; the article's content stays, and it is given work
\* only together with a pending job.
LEMMA JobInv ==
  ASSUME Inv, TypeOK', NEW v \in Versions, NEW p \in {"none", "pending", "dead"},
         phase' = [phase EXCEPT ![v] = p], holder' = [holder EXCEPT ![v] = NoWorker],
         article.status # "absent", kept' => kept \/ v = article.version,
         UNCHANGED <<at, target>>, article'.version = article.version,
         article'.status = article.status
           \/ (article'.status = "pending" /\ v = article.version)
  PROVE  Inv'
<1>1. article.version \in Nat /\ phase \in [Versions -> Phase]
      /\ holder \in [Versions -> Workers \cup {NoWorker}]
  BY Typing, Numeric DEF Inv, QueueTypeOK, Versions
<1>2. article.status # "absent" /\ article'.status # "absent"
  OBVIOUS
<1>3. NothingBefore' /\ KnownTargets'
  BY <1>2 DEF Inv, NothingBefore, KnownTargets
<1>4. SuccessSettlesArticle'
  BY <1>1 DEF Inv, SuccessSettlesArticle
<1>5. ReturnedIsSettled'
  <2>1. SUFFICES ASSUME NEW u \in Workers, kept', at'[u] = "returned",
                        target'[u] = article'.version, HoldsLease(u)'
                 PROVE  article'.status \notin Unfinished
    BY DEF ReturnedIsSettled
  <2>2. at[u] = "returned" /\ target[u] = article.version /\ target[u] \in Versions
    BY <2>1 DEF Inv, KnownTargets
  <2>3. target[u] # v /\ HoldsLease(u)
    BY <1>1, <2>1, <2>2 DEF HoldsLease
  <2>4. QED
    BY <2>1, <2>2, <2>3 DEF Inv, ReturnedIsSettled
<1>6. QED
  BY <1>3, <1>4, <1>5 DEF Inv

LEMMA ExpireInv == ASSUME Inv, NEW v \in Versions, Expire(v) PROVE Inv'
<1>1. /\ QueueTypeOK' /\ phase[v] = "running" /\ holder' = [holder EXCEPT ![v] = NoWorker]
      /\ \E p \in {"pending", "dead"} : phase' = [phase EXCEPT ![v] = p]
      /\ UNCHANGED <<article, at, target, kept>> /\ expired' \subseteq Versions
      /\ article.status # "absent"
  BY Typing, RevokeEffect DEF NothingBefore, Inv, Expire, workerVars
<1>2. TypeOK'
  BY <1>1, Typing, TypingNext DEF Inv
<1>3. QED
  BY <1>1, <1>2, JobInv

LEMMA MarkExpiredInv == ASSUME Inv, NEW v \in Versions, MarkExpired(v) PROVE Inv'
<1>1. /\ UNCHANGED <<phase, holder, tries, working, at, target, kept>> /\ expired' \subseteq Versions
  BY Typing DEF Inv, MarkExpired, queueVars, workerVars
<1>2. TypeOK'
  BY <1>1, Typing, TypingNext, MarkFailedEffect DEF Inv, MarkExpired, QueueTypeOK
<1>3. QED
  BY <1>1, <1>2, MarkFailedEffect, QuietInv DEF MarkExpired

LEMMA ForgetExpiredInv == ASSUME Inv, NEW v \in Versions, ForgetExpired(v) PROVE Inv'
<1>1. /\ UNCHANGED <<phase, holder, tries, working, article, at, target, kept>>
      /\ expired' \subseteq Versions
  BY Typing DEF Inv, ForgetExpired, queueVars, workerVars
<1>2. TypeOK'
  BY <1>1, Typing, TypingNext DEF Inv, QueueTypeOK
<1>3. QED
  BY <1>1, <1>2, QuietInv

LEMMA RequeueDeadInv == ASSUME Inv, NEW v \in Versions, RequeueDead(v) PROVE Inv'
<1>1. /\ QueueTypeOK' /\ phase[v] = "dead"
      /\ phase' = [phase EXCEPT ![v] = "pending"] /\ holder' = [holder EXCEPT ![v] = NoWorker]
      /\ UNCHANGED <<at, target, expired>> /\ article.status # "absent"
      /\ kept' \in BOOLEAN
      /\ kept' => kept \/ v = article.version
  BY Typing, OpenEffect DEF Inv, RequeueDead, workerVars, NothingBefore
<1>2. /\ article' \in [status : ArticleStatus, version : Versions, excluded : BOOLEAN]
      /\ article'.version = article.version
      /\ article'.status = article.status
           \/ (article'.status = "pending" /\ v = article.version)
  BY Typing DEF Inv, RequeueDead, ReopenArticle, SetStatus, ArticleStatus, Unfinished
<1>3. TypeOK'
  BY <1>1, <1>2, Typing, TypingNext DEF Inv
<1>4. QED
  BY <1>1, <1>2, <1>3, JobInv

LEMMA RecoverStrandedInv == ASSUME Inv, RecoverStranded PROVE Inv'
<1>1. article.version \in Versions /\ article.status # "absent"
  BY Typing DEF Inv, RecoverStranded, Stranded, Unfinished
<1>2. /\ QueueTypeOK' /\ phase' = [phase EXCEPT ![article.version] = "pending"]
      /\ holder' = [holder EXCEPT ![article.version] = NoWorker]
      /\ UNCHANGED <<at, target, expired>> /\ kept' = TRUE
  BY <1>1, Typing, OpenEffect DEF Inv, RecoverStranded, workerVars
<1>3. /\ article' \in [status : ArticleStatus, version : Versions, excluded : BOOLEAN]
      /\ article'.version = article.version /\ article'.status = "pending"
  BY Typing DEF Inv, RecoverStranded, SetStatus, ArticleStatus, Unfinished
<1>4. TypeOK'
  BY <1>2, <1>3, Typing, TypingNext DEF Inv
<1>5. QED
  BY <1>1, <1>2, <1>3, <1>4, JobInv

LEMMA ClearHistoryInv == ASSUME Inv, NEW v \in Versions, ClearHistory(v) PROVE Inv'
<1>1. /\ QueueTypeOK' /\ article.status # "absent"
      /\ phase' = [phase EXCEPT ![v] = "none"] /\ holder' = [holder EXCEPT ![v] = NoWorker]
      /\ UNCHANGED <<article, at, target, expired>>
      /\ kept' \in BOOLEAN
      /\ kept' => kept
  BY Typing, ForgetEffect DEF Inv, ClearHistory, workerVars, Queue!Forget, NothingBefore
<1>2. TypeOK'
  BY <1>1, Typing, TypingNext DEF Inv
<1>3. QED
  BY <1>1, <1>2, JobInv

----------------------------------------------------------------------------
(* The theorems.                                                           *)

LEMMA NextInv == ASSUME Inv, [Next]_vars PROVE Inv'
<1>1. CASE Environment
  BY <1>1, CreateInv, ReviseInv, DeleteInv, SetAnalysisInv DEF Environment
<1>2. CASE User
  BY <1>2, RequeueDeadInv, ClearHistoryInv, RecoverStrandedInv DEF User
<1>3. CASE Polling
  BY <1>3, ClaimInv DEF Polling
<1>4. ASSUME NEW w \in Workers, Advance(w) \/ Crash(w) PROVE Inv'
  BY <1>4, PrepareInv, AnalyzeInv, PersistInv, CompleteInv, SettleInv, MarkInv, CrashInv
     DEF Advance
<1>5. ASSUME NEW v \in Versions, Expire(v) \/ MarkExpired(v) \/ ForgetExpired(v) PROVE Inv'
  BY <1>5, ExpireInv, MarkExpiredInv, ForgetExpiredInv 
<1>6. CASE UNCHANGED vars
  BY <1>6 DEF vars, Inv, TypeOK, NothingBefore, KnownTargets, ReturnedIsSettled,
     SuccessSettlesArticle, HoldsLease
<1>7. QED
  BY <1>1, <1>2, <1>3, <1>4, <1>5, <1>6 DEF Next

\* Types hold, and the invariant with the executions' targets and returned
\* executions that success depends on (articleEnrichmentJobHandler.js).
THEOREM Invariance == Spec => []Inv
<1>1. Inv /\ [Next]_vars => Inv'
  BY NextInv
<1>2. QED
  BY <1>1, InitInv, PTL DEF Spec

\* The rows and executions keep their types, and a job that succeeded for the
\* present content has left its article settled, if no revision has changed the
\* content since the job was opened, whatever leases are lost and whatever came
\* before: former contents, late executions, retries and recoveries.
THEOREM SuccessAlwaysSettles == Spec => []EnrichmentConsistent
<1>1. Inv => EnrichmentConsistent
  BY DEF Inv, EnrichmentConsistent
<1>2. QED
  BY <1>1, Invariance, PTL

(* Who changes the status, and on whose behalf: an execution whose job is  *)
(* the present content's, a lease recovery of that job, a step that opens   *)
(* that job, or the deletion of the article.                               *)
ByExecution ==
  \E w \in Workers :
    /\ target[w] = article.version /\ \A u \in Workers \ {w} : at'[u] = at[u]
    /\ UNCHANGED <<phase, expired>>
    /\ article'.status = "complete" => at[w] = "analyzed" /\ at'[w] = "returned"

ByRecovery ==
  /\ UNCHANGED <<phase, at>> /\ expired \ expired' \subseteq {article.version}
  /\ article'.status \in {"failed", "deleted"}

ByOpening ==
  /\ UNCHANGED <<at, expired>> /\ article'.status \in {"pending", "skipped"}
  /\ \A v \in Versions \ {article.version} : phase'[v] = phase[v]

LEMMA StatusChange ==
  ASSUME Inv, Next, article'.status # article.status
  PROVE  /\ ByExecution \/ ByRecovery \/ ByOpening
         /\ article.status = "complete" => article'.status = "deleted"
<1>1. /\ article \in [status : ArticleStatus, version : Versions, excluded : BOOLEAN]
      /\ QueueTypeOK /\ at \in [Workers -> Point]
  BY Typing DEF Inv
<1>2. CASE Create
  BY <1>1, <1>2, OpenEffect DEF Create, SetStatus, ByOpening, queueVars, workerVars, QueueTypeOK
<1>3. CASE Delete
  BY <1>1, <1>3 DEF Delete, ByRecovery, queueVars, workerVars
<1>4. CASE SetAnalysis \/ \E v \in Versions, b \in BOOLEAN : Revise(v, b)
  BY <1>1, <1>4 DEF SetAnalysis, Revise
<1>5. ASSUME NEW v \in Versions, RequeueDead(v)
      PROVE  /\ ByOpening /\ article.status # "complete"
  BY <1>1, <1>5, OpenEffect
     DEF RequeueDead, ReopenArticle, SetStatus, ByOpening, workerVars, QueueTypeOK
<1>6. CASE RecoverStranded
  BY <1>1, <1>6, OpenEffect
     DEF RecoverStranded, Stranded, SetStatus, ByOpening, workerVars, QueueTypeOK, Unfinished
<1>7. ASSUME NEW w \in Workers, Prepare(w)
      PROVE  ByExecution /\ article.status # "complete"
  BY <1>1, <1>7 DEF Prepare, PrepareReady, PrepareObsolete, Skip, SetStatus, Goto,
     ByExecution, queueVars, Unfinished
<1>8. ASSUME NEW w \in Workers, Persist(w)
      PROVE  ByExecution /\ article.status # "complete"
  BY <1>1, <1>8 DEF Persist, PersistEffect, Skip, SetStatus, Goto, ByExecution, queueVars
<1>9. ASSUME NEW w \in Workers, Mark(w)
      PROVE  ByExecution /\ article.status # "complete"
  BY <1>1, <1>9 DEF Mark, MarkFailed, SetStatus, Finish, Goto, ByExecution, queueVars, Unfinished
<1>10. ASSUME NEW v \in Versions, MarkExpired(v)
       PROVE  ByRecovery /\ article.status # "complete"
  BY <1>1, <1>10 DEF MarkExpired, MarkFailed, SetStatus, ByRecovery, queueVars, workerVars, Unfinished
<1>11. CASE Environment
  BY <1>2, <1>3, <1>4, <1>11 DEF Environment, Create, Delete, SetStatus, Exists
<1>12. CASE User
  BY <1>5, <1>6, <1>12 DEF User, ClearHistory, RecoverStranded, Stranded, Unfinished
<1>13. CASE Polling
  BY <1>13 DEF Polling, Claim
<1>14. ASSUME NEW w \in Workers, Advance(w) \/ Crash(w)
       PROVE  ByExecution /\ article.status # "complete"
  BY <1>7, <1>8, <1>9, <1>14 DEF Advance, Analyze, Complete, Settle, Crash
<1>15. ASSUME NEW v \in Versions, Expire(v) \/ MarkExpired(v) \/ ForgetExpired(v)
       PROVE  ByRecovery /\ article.status # "complete"
  BY <1>10, <1>15 DEF Expire, ForgetExpired
<1>16. QED
  BY <1>11, <1>12, <1>13, <1>14, <1>15 DEF Next

\* A worker, a recovery or a requeue that acts for one content never changes
\* the status of an article that has another by then.
THEOREM StaleJobsNeverTouch == Spec => StaleJobsTouchNothing
<1>1. ASSUME Inv, [Next]_vars, article'.status # article.status
      PROVE  /\ \A w \in Workers : at'[w] # at[w] => target[w] = article.version
             /\ \A v \in Versions :
                  v \in expired \ expired' \/ (phase[v] = "dead" /\ phase'[v] = "pending")
                    => v = article.version
  <2>1. Next
    BY <1>1 DEF vars
  <2>2. ByExecution \/ ByRecovery \/ ByOpening
    BY <1>1, <2>1, StatusChange
  <2>3. QED
    BY <2>2 DEF ByExecution, ByRecovery, ByOpening
<1>2. QED
  BY <1>1, Invariance, PTL DEF Spec, StaleJobsTouchNothing

\* No late execution, failure mark, filter, disabled feed, retry or recovery
\* takes a finished analysis back.
THEOREM CompleteStaysFinal == Spec => CompleteIsFinal
<1>1. ASSUME Inv, [Next]_vars, article.status = "complete"
      PROVE  article'.status \in {"complete", "deleted"}
  BY <1>1, StatusChange DEF vars
<1>2. QED
  BY <1>1, Invariance, PTL DEF Spec, CompleteIsFinal

\* The analysis stored on an article is that of the content it has, by an
\* execution that prepared that very content.
THEOREM AnalysisIsAlwaysOfCurrentContent == Spec => AnalysisIsOfCurrentContent
<1>1. ASSUME Inv, [Next]_vars, article.status # "complete", article'.status = "complete"
      PROVE  \E w \in Workers : /\ at[w] = "analyzed" /\ at'[w] = "returned"
                                /\ target[w] = article.version
  <2>1. Next
    BY <1>1 DEF vars
  <2>2. ByExecution
    BY <1>1, <2>1, StatusChange DEF ByRecovery, ByOpening
  <2>3. QED
    BY <1>1, <2>2 DEF ByExecution
<1>2. QED
  BY <1>1, Invariance, PTL DEF Spec, AnalysisIsOfCurrentContent

=============================================================================
