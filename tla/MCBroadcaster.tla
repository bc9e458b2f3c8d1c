--------------------------- MODULE MCBroadcaster ---------------------------
(* A finite instance of Broadcaster: two subscriptions share an id, a      *)
(* third has its own; the buffers take one, two and one changes.           *)
EXTENDS Broadcaster

CONSTANTS s1, s2, s3, id1, id2

MCSubs == {s1, s2, s3}

MCIds == {id1, id2}

MCIdOf == [s \in MCSubs |-> IF s = s3 THEN id2 ELSE id1]

MCBufferSize == [s \in MCSubs |-> IF s = s2 THEN 2 ELSE 1]
=============================================================================
