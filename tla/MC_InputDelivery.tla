-------------------------- MODULE MC_InputDelivery --------------------------
(* Model checking of InputDelivery on the instances of its configurations.  *)
EXTENDS InputDelivery

\* A stored input reaches the agent once a connection stays up, and in the end
\* no row is left to replay.
InputsArrive == StoredReachesAgent /\ RowsDrain
=============================================================================
