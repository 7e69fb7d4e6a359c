-------------------------- MODULE MCSearchIndexing --------------------------
(* Small instances of SearchIndexing for TLC.                              *)
EXTENDS SearchIndexing, TLC

\* Every event is about the one page.
OnePage == [e \in Events |-> CHOOSE p \in Pages : TRUE]
=============================================================================
