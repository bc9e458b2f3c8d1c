-------------------------- MODULE MCOutboxConsumer --------------------------
(* Finite instances of OutboxConsumer: two topics, a goroutine for each.   *)
EXTENDS OutboxConsumer

CONSTANTS ta, tb, da, db

MCTopics == {ta, tb}

MCDrainers == {da, db}
=============================================================================
