---------------------------- MODULE MCCrawlRuns ----------------------------
(* TLC instance of CrawlRuns: the crawl worker crawls two users at a time,  *)
(* one of them asks for a crawl of his own in the server's process.         *)
EXTENDS CrawlRuns

CONSTANTS u1, u2, u3, scheduled, manual, worker, server
MCBatches == (scheduled :> <<<<u1, u2>>, <<u3>>>>) @@ (manual :> <<<<u1>>>>)
MCHostOf == (scheduled :> worker) @@ (manual :> server)
MCWorkers == (worker :> 2) @@ (server :> 1)
=============================================================================
