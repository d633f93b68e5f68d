-------------------------- MODULE MCArticleEnrichment --------------------------
(* TLC instance of ArticleEnrichment.                                      *)
EXTENDS ArticleEnrichment, TLC
=============================================================================
