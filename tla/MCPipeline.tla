----------------------------- MODULE MCPipeline -----------------------------
(* A log for Pipeline: two transactions that ran concurrently, each of a   *)
(* change and its commit, so that B's change lies before A's commit.       *)
EXTENDS Pipeline

MCChanges == {1, 3}

MCStart  == <<10, 22, 14, 32>>
MCLength == << 2,  1,  2,  1>>
MCCommit == <<20, 20, 30, 30>>
=============================================================================
