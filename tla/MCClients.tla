------------------------------ MODULE MCClients ------------------------------
(* A finite instance of Clients: one registration and two requests from    *)
(* one address, to one Server or to a Server each.                         *)
EXTENDS Clients

CONSTANTS r1, h1, h2, v1, v2

MCRegistrations == {r1}

MCHandlers == {h1, h2}

MCOneServer == {v1}

MCTwoServers == {v1, v2}

MCServerOfOne == [h \in MCHandlers |-> v1]

MCServerOfTwo == [h \in MCHandlers |-> IF h = h1 THEN v1 ELSE v2]

\* Each Server counts for itself.
MCNumber ==
    [s \in {r1, h1, h2} |-> IF s = h2 /\ ServerOf[h2] = ServerOf[h1] THEN 2 ELSE 1]

MCRemoteAddr == [h \in MCHandlers |-> 1]

MCBufferSize == [s \in {r1, h1, h2} |-> 1]
=============================================================================
