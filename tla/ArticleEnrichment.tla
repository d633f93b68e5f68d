--------------------------- MODULE ArticleEnrichment ---------------------------
(***************************************************************************)
(* AI analysis of one article by the durable queue.  The article row and   *)
(* the job rows of its content versions are changed by different           *)
(* transactions of the crawler, the AI workers, lease recovery and the     *)
(* operator, and only some of them are in one transaction together.        *)
(* Sources: server/services/jobs/handlers/articleEnrichmentJobHandler.js,  *)
(* processingJobHandlers.js, processingJobOperator.js,                     *)
(* strandedArticleRecovery.js and services/crawl (new articles, revisions).*)
(*                                                                         *)
(* The queue is taken at the level of JobLifecycle, which                  *)
(* ProcessingJobQueue implements: a lease that expires is a Revoke that    *)
(* may come at any time.  There is one job per content version, as the     *)
(* dedupe key holds the article id and the hash of the analysis input.     *)
(***************************************************************************)
EXTENDS Naturals

CONSTANTS
  NumVersions,  \* bound: contents the article may have, which differ in the hash of
                \* their analysis input
  NoVersion,
  Workers,      \* execution slots of the AI workers
  NoWorker,
  MaxAttempts   \* processing_jobs.maxAttempts

ASSUME EnrichmentAssumption ==
  /\ NumVersions \in Nat \ {0} /\ NoVersion \notin Nat
  /\ NoWorker \notin Workers
  /\ MaxAttempts \in Nat \ {0}

VARIABLES
  phase, holder, tries, working,  \* the queue, see JobLifecycle
  article,   \* aiAnalysisStatus, content version, and whether filteredInd, the
             \* feed's applyAiAnalysis or the configuration excludes it
  at,        \* program point of each execution
  target,    \* the version whose job each slot claimed
  expired,   \* jobs that recovery found dead and has yet to mark failed
  kept       \* history: the content has a job, and no revision has changed it
             \* since that job was last opened

Versions == 1 .. NumVersions

Queue == INSTANCE JobLifecycle WITH Jobs <- Versions, NoJob <- NoVersion

queueVars == <<phase, holder, tries, working>>
workerVars == <<at, target>>
vars == <<phase, holder, tries, working, article, at, target, expired, kept>>

Unfinished == {"pending", "processing"}
ArticleStatus == Unfinished \cup {"absent", "complete", "failed", "skipped", "deleted"}
Point == {"idle", "claimed", "prepared", "analyzed", "returned", "marking"}
Active == {"pending", "running"}

TypeOK ==
  /\ phase \in [Versions -> Active \cup {"none", "succeeded", "dead"}]
  /\ holder \in [Versions -> Workers \cup {NoWorker}]
  /\ tries \in [Versions -> 0..MaxAttempts]
  /\ working \in [Workers -> Versions \cup {NoVersion}]
  /\ article \in [status: ArticleStatus, version: Versions, excluded: BOOLEAN]
  /\ at \in [Workers -> Point]
  /\ target \in [Workers -> Versions \cup {NoVersion}]
  /\ expired \subseteq Versions
  /\ kept \in BOOLEAN

Init ==
  /\ Queue!Init
  /\ article \in [status: {"absent"}, version: {1}, excluded: BOOLEAN]
  /\ at = [w \in Workers |-> "idle"]
  /\ target = [w \in Workers |-> NoVersion]
  /\ expired = {}
  /\ kept = FALSE

Exists == article.status \notin {"absent", "deleted"}
SetStatus(s) == article' = [article EXCEPT !.status = s]

-----------------------------------------------------------------------------
(* The crawler and the user's settings.                                    *)

(* saveArticle: the article and its job are committed together; an article *)
(* that is discarded or whose analysis is off gets no job.                 *)
Create ==
  /\ article.status = "absent"
  /\ \/ /\ ~article.excluded
        /\ SetStatus("pending")
        /\ Queue!Open(article.version)
        /\ kept' = TRUE
     \/ /\ article.excluded
        /\ SetStatus("skipped")
        /\ UNCHANGED <<queueVars, kept>>
  /\ UNCHANGED <<expired, workerVars>>

(* processArticleRevision: new content, which may be a former one again,   *)
(* and a new filter verdict; the analysis status stays and no job is       *)
(* enqueued.                                                               *)
Revise(version, excluded) ==
  /\ Exists
  /\ article' = [article EXCEPT !.version = version, !.excluded = excluded]
  /\ kept' = (kept /\ version = article.version)
  /\ UNCHANGED <<queueVars, expired, workerVars>>

Delete ==
  /\ Exists
  /\ article' = [article EXCEPT !.status = "deleted", !.excluded = FALSE]
  /\ kept' = FALSE
  /\ UNCHANGED <<queueVars, expired, workerVars>>

SetAnalysis ==
  /\ Exists
  /\ article' = [article EXCEPT !.excluded = ~@]
  /\ UNCHANGED <<queueVars, expired, kept, workerVars>>

-----------------------------------------------------------------------------
(* One execution. Its initial lease check only filters claims and is taken *)
(* with the claim.                                                         *)

Goto(w, point) == at' = [at EXCEPT ![w] = point]
HoldsLease(w) == phase[target[w]] = "running" /\ holder[target[w]] = w

Claim(w, v) ==
  /\ at[w] = "idle"
  /\ Queue!Grant(w, v)
  /\ Goto(w, "claimed")
  /\ target' = [target EXCEPT ![w] = v]
  /\ UNCHANGED <<article, expired, kept>>

(* Faulty variants stand before some definitions: the slip a change of the *)
(* code could make, which one of the properties must notice.               *)

(* skipArticle, for filtered articles and disabled feeds.                  *)
Skip == SetStatus(IF article.status = "complete" THEN "complete" ELSE "skipped")

(* Faulty variant: an article already in processing is taken for done. *)
PrepareObsoleteWhileProcessing(w) ==
  /\ \/ /\ Exists /\ article.version = target[w] /\ article.excluded
        /\ Skip
     \/ /\ \/ ~Exists
           \/ article.version # target[w]
           \/ ~article.excluded /\ article.status # "pending"
        /\ UNCHANGED article
  /\ Goto(w, "returned")

PrepareObsolete(w) ==
  /\ \/ /\ Exists /\ article.version = target[w] /\ article.excluded
        /\ Skip
     \/ /\ \/ ~Exists
           \/ article.version # target[w]
           \/ ~article.excluded /\ article.status \in {"complete", "skipped", "failed"}
        /\ UNCHANGED article
  /\ Goto(w, "returned")

PrepareReady(w) ==
  /\ article.version = target[w]
  /\ ~article.excluded
  /\ article.status \in Unfinished
  /\ SetStatus("processing")
  /\ Goto(w, "prepared")

(* prepareAnalysisInput, under the article's row lock.                     *)
Prepare(w) ==
  /\ at[w] = "claimed"
  /\ PrepareObsolete(w) \/ PrepareReady(w)
  /\ UNCHANGED <<queueVars, target, expired, kept>>

(* analyzeArticleContent between the two assertLease calls.                *)
Analyze(w) ==
  /\ at[w] = "prepared"
  /\ HoldsLease(w)
  /\ Goto(w, "analyzed")
  /\ UNCHANGED <<queueVars, article, target, expired, kept>>

(* persistAnalysis: not fenced by the lease, but by the version and by     *)
(* analysis being complete already.                                        *)
PersistEffect(v) ==
  \/ /\ Exists /\ article.version = v /\ article.excluded
     /\ Skip
  \/ /\ Exists /\ article.version = v /\ ~article.excluded
     /\ SetStatus("complete")
  \/ /\ ~Exists \/ article.version # v
     /\ UNCHANGED article

Persist(w) ==
  /\ at[w] = "analyzed"
  /\ PersistEffect(target[w])
  /\ Goto(w, "returned")
  /\ UNCHANGED <<queueVars, target, expired, kept>>

Finish(w) ==
  /\ Goto(w, "idle")
  /\ target' = [target EXCEPT ![w] = NoVersion]

Complete(w) ==
  /\ at[w] = "returned"
  /\ HoldsLease(w)
  /\ Queue!SettleAs(w, target[w], "succeeded")
  /\ Finish(w)
  /\ UNCHANGED <<article, expired, kept>>

(* An execution may fail wherever it is: a lost lease, an inference failure *)
(* or a database error.                                                    *)
Failing(w) == at[w] \in {"claimed", "prepared", "analyzed", "returned"}

Requeued(w) ==
  /\ tries[target[w]] < MaxAttempts
  /\ Queue!SettleAs(w, target[w], "pending")
  /\ Finish(w)

(* An answer that is not valid analysis is not tried again.  The article of *)
(* a job that is dead now is marked in a later transaction.                *)
DeadLettered(w) ==
  /\ at[w] = "prepared" \/ tries[target[w]] >= MaxAttempts
  /\ Queue!SettleAs(w, target[w], "dead")
  /\ Goto(w, "marking")
  /\ UNCHANGED target

LeaseLost(w) ==
  /\ ~HoldsLease(w)
  /\ Queue!Leave(w)
  /\ Finish(w)

(* Faulty variant: an execution that lost its lease never ends. *)
SettleOnlyAsHolder(w) ==
  /\ Failing(w)
  /\ HoldsLease(w) /\ (Requeued(w) \/ DeadLettered(w))
  /\ UNCHANGED <<article, expired, kept>>

(* The failure and the lifecycle statement that records it.                *)
Settle(w) ==
  /\ Failing(w)
  /\ \/ HoldsLease(w) /\ (Requeued(w) \/ DeadLettered(w))
     \/ LeaseLost(w)
  /\ UNCHANGED <<article, expired, kept>>

(* Faulty variant: the failure is marked on whatever content there is. *)
MarkFailedUnversioned(v) ==
  \/ /\ article.status \in Unfinished
     /\ SetStatus("failed")
  \/ /\ article.status \notin Unfinished
     /\ UNCHANGED article

(* markArticleEnrichmentFailed, under the article's row lock.              *)
MarkFailed(v) ==
  \/ /\ article.version = v /\ article.status \in Unfinished
     /\ SetStatus("failed")
  \/ /\ article.version # v \/ article.status \notin Unfinished
     /\ UNCHANGED article

Mark(w) ==
  /\ at[w] = "marking"
  /\ MarkFailed(target[w])
  /\ Finish(w)
  /\ UNCHANGED <<queueVars, expired, kept>>

(* The worker process dies, or the lifecycle statement fails or passes     *)
(* over a row that is locked: the job keeps its lease.                     *)
Crash(w) ==
  /\ at[w] # "idle"
  /\ \/ Queue!Leave(w)
     \/ working[w] = NoVersion /\ UNCHANGED queueVars
  /\ Finish(w)
  /\ UNCHANGED <<article, expired, kept>>

-----------------------------------------------------------------------------
(* recoverExpiredProcessingJobs, then recordRecoveredProcessingJobLease    *)
(* for the jobs it found dead; the recovering process may die in between.  *)
Expire(v) ==
  /\ Queue!Revoke(v)
  /\ expired' = IF tries[v] >= MaxAttempts THEN expired \cup {v} ELSE expired
  /\ UNCHANGED <<article, kept, workerVars>>

MarkExpired(v) ==
  /\ v \in expired
  /\ expired' = expired \ {v}
  /\ MarkFailed(v)
  /\ UNCHANGED <<queueVars, kept, workerVars>>

ForgetExpired(v) ==
  /\ v \in expired
  /\ expired' = expired \ {v}
  /\ UNCHANGED <<queueVars, article, kept, workerVars>>

-----------------------------------------------------------------------------
(* The user's Settings actions.                                            *)

(* resetArticleEnrichmentForRetry, in the transaction of the requeue.      *)
ReopenArticle(v) ==
  IF article.status = "failed" /\ article.version = v
    THEN SetStatus("pending")
    ELSE UNCHANGED article

RequeueDead(v) ==
  /\ phase[v] = "dead"
  /\ Queue!Open(v)
  /\ ReopenArticle(v)
  /\ kept' = (kept \/ v = article.version)
  /\ UNCHANGED <<expired, workerVars>>

HasActiveJob == \E v \in Versions : phase[v] \in Active
Stranded == article.status \in Unfinished /\ ~article.excluded /\ ~HasActiveJob

(* recoverStrandedArticleAnalyses, rechecked under the row locks.          *)
RecoverStranded ==
  /\ Stranded
  /\ SetStatus("pending")
  /\ Queue!Open(article.version)
  /\ kept' = TRUE
  /\ UNCHANGED <<expired, workerVars>>

ClearHistory(v) ==
  /\ Queue!Forget(v)
  /\ kept' = (kept /\ v # article.version)
  /\ UNCHANGED <<article, expired, workerVars>>

-----------------------------------------------------------------------------
Environment ==
  \/ Create
  \/ \E v \in Versions, b \in BOOLEAN : Revise(v, b)
  \/ Delete
  \/ SetAnalysis

User ==
  \/ \E v \in Versions : RequeueDead(v) \/ ClearHistory(v)
  \/ RecoverStranded

Advance(w) ==
  \/ Prepare(w) \/ Analyze(w) \/ Persist(w)
  \/ Complete(w) \/ Settle(w) \/ Mark(w)

Polling == \E w \in Workers, v \in Versions : Claim(w, v)

Next ==
  \/ Environment
  \/ User
  \/ Polling
  \/ \E w \in Workers : Advance(w) \/ Crash(w)
  \/ \E v \in Versions : Expire(v) \/ MarkExpired(v) \/ ForgetExpired(v)

Spec == Init /\ [][Next]_vars

(* Executions do not all stand still (inference calls time out), and the   *)
(* lease recovery of every worker loop gets to a lease that stays expired. *)
(* Nothing is assumed of claims: they prefer urgent and newer jobs, which  *)
(* may keep coming for other articles.                                     *)
FairSpec ==
  /\ Spec
  /\ WF_vars(\E w \in Workers : Advance(w))
  /\ WF_vars(\E v \in Versions : Expire(v))

-----------------------------------------------------------------------------
(* Finished analysis is never lost: no late execution, late failure mark,  *)
(* filter, disabled feed, retry or recovery takes a complete article back. *)
CompleteIsFinal ==
  [][article.status = "complete" => article'.status \in {"complete", "deleted"}]_vars

(* The analysis stored on an article was computed from the content the     *)
(* article has when it is stored, by an execution that prepared that very  *)
(* version, whatever revisions came in between.                            *)
AnalysisIsOfCurrentContent ==
  [][article.status # "complete" /\ article'.status = "complete" =>
       \E w \in Workers : /\ at[w] = "analyzed" /\ at'[w] = "returned"
                          /\ target[w] = article.version]_vars

(* Stale jobs cannot touch newer article state: a worker, a recovery or a  *)
(* requeue that acts for one content version never changes the status of   *)
(* an article that has another by then.                                    *)
StaleJobsTouchNothing ==
  [][article'.status # article.status =>
       /\ \A w \in Workers : at'[w] # at[w] => target[w] = article.version
       /\ \A v \in Versions :
            v \in expired \ expired' \/ (phase[v] = "dead" /\ phase'[v] = "pending")
              => v = article.version]_vars

(* While the content stays as it is, a job that reports success leaves its *)
(* article settled: no interleaving ends with the job succeeded and the    *)
(* article still waiting for it, also when the job was opened anew for a   *)
(* content that had come back.  (A content that comes back after its job   *)
(* succeeded, or while its execution passes it over, leaves the article    *)
(* waiting: revisions open no job.)                                        *)
SuccessSettlesArticle ==
  kept /\ phase[article.version] = "succeeded" => article.status \notin Unfinished

(* The run's invariant: types, and the promise just stated.                *)
EnrichmentConsistent == TypeOK /\ SuccessSettlesArticle

(* services/jobs/README.md:41-43 says that the user's retry requeues dead   *)
(* jobs and returns matching failed article versions to pending in the     *)
(* same transaction, so that the retried job analyses the article again: a *)
(* job that ends in success does not leave its article failed.             *)
RetryRevivesArticle ==
  phase[article.version] = "succeeded" => article.status # "failed"

(* A job of this article waits and a slot is free, but claims, which take  *)
(* the urgent and the newer job first, only serve other articles.          *)
PassedOver ==
  <>[](\E w \in Workers, v \in Versions : at[w] = "idle" /\ phase[v] = "pending")

(* A job of this article is opened again and again, as by a user's retries. *)
OpenedForever ==
  []<><<\E v \in Versions : phase[v] \notin Active /\ phase'[v] \in Active>>_vars

(* No article hangs: unfinished analysis ends or leaves the queue with no  *)
(* work for its content, so that Settings can show it as stranded and      *)
(* restart it, unless the queue is for ever busy with other articles or    *)
(* with retries.                                                           *)
AnalysisConcludes ==
  \/ PassedOver
  \/ OpenedForever
  \/ []<>(article.status \notin Unfinished \/ phase[article.version] \notin Active)
=============================================================================
