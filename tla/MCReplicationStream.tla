------------------------ MODULE MCReplicationStream ------------------------
(* Two transactions, each of a change and its commit, for                  *)
(* ReplicationStream; a commit message starts where the commit record      *)
(* ends.                                                                   *)
EXTENDS ReplicationStream

MCChanges == {1, 3}

\* The two commit records are adjacent, and a commit message is longer than
\* nothing: position 26 + 4 is beyond B's commit record at 26.
AdjacentStart  == <<10, 26, 14, 32>>
AdjacentLength == << 2,  4,  2,  4>>
AdjacentCommit == <<20, 20, 26, 26>>
=============================================================================
