------------------------- MODULE MCProcessingJobQueue -------------------------
(* TLC instance of ProcessingJobQueue.                                     *)
EXTENDS ProcessingJobQueue, TLC

CONSTANTS j1, s1, s2

MCRank == j1 :> 1
=============================================================================
