--------------------------- MODULE MCBookingAgent ---------------------------
(***************************************************************************)
(* Instance of BookingAgent for TLC: a booking, other people booking the   *)
(* same time, and an event of the orchestrator that shares the writer's    *)
(* window with the notice.                                                 *)
(***************************************************************************)
EXTENDS BookingAgent

CONSTANTS j1, j2, k1, s1

MCEvent == [j \in Jobs |-> IF j = j1 THEN "orchestrator" ELSE "booking"]
MCShared == [j \in Jobs |-> k1]
MCBackoff == [n \in 1..MaxRetries |-> n]

=============================================================================
