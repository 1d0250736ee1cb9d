--------------------------- MODULE MCToolExecutor --------------------------
(***************************************************************************)
(* Two coroutines share the client: one executes any tool, one upserts.    *)
(* Two executions, which may overlap or follow one another, and two        *)
(* processes: an upsert goes through both of them while the answer to the  *)
(* other one, given up, is still to come.  The second id reads as "409".   *)
(***************************************************************************)
EXTENDS ToolExecutor

CONSTANTS c1, c2

MCUses == [c \in Callers |-> IF c = c1 THEN Tools ELSE {"hubspot_upsert_contact"}]

MCLookAlike == {2}

=============================================================================
