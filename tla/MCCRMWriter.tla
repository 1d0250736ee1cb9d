---------------------------- MODULE MCCRMWriter ----------------------------
(***************************************************************************)
(* Instances of CRMWriter for TLC: a pipeline that shares its writer with  *)
(* a booking notice; and two events, each with the writer the orchestrator *)
(* makes for it.                                                           *)
(***************************************************************************)
EXTENDS CRMWriter

CONSTANTS j1, j2, k1, k2

MCPipeline == [j \in Jobs |-> IF j = j1 THEN "pipeline" ELSE "booking"]
MCEvents == [j \in Jobs |-> "orchestrator"]
MCShared == [j \in Jobs |-> k1]
MCOwn == [j \in Jobs |-> IF j = j1 THEN k1 ELSE k2]
MCBackoff == [n \in 1..MaxRetries |-> n]

=============================================================================
