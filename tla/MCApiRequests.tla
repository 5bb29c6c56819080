--------------------------- MODULE MCApiRequests ---------------------------
(***************************************************************************)
(* Instances of ApiRequests for TLC: recommendations go through the heavy  *)
(* lane, the other requests through the standard one.                      *)
(***************************************************************************)
EXTENDS ApiRequests

CONSTANTS a, b

MCEndpoints == {"recommend", "related"}
MCLaneOf == [e \in MCEndpoints |-> IF e \in Guarded THEN "heavy" ELSE "standard"]
MCPermits == [l \in Lanes |-> IF l = "heavy" THEN 2 ELSE 1]
MCQueues == [l \in Lanes |-> IF l = "heavy" THEN 0 ELSE 1]

\* Every request that is let into a lane ends, although the holder of the guard's
\* gate may wait for the publisher, for the lock of the generation and for a
\* connection (RecommendationPublicationGuard.cs:64-99). The requests are
\* interchangeable, so it is enough to watch one.
RequestsAnswered == Answered(a)
=============================================================================
