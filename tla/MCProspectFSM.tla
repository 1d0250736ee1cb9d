--------------------------- MODULE MCProspectFSM ---------------------------
(***************************************************************************)
(* Instance of ProspectFSM for TLC.  Six attempts pass the limit of three  *)
(* also when two of them were made while cold; three replies pass the two  *)
(* that make a prospect warm.                                              *)
(***************************************************************************)
EXTENDS ProspectFSM

=============================================================================
