---------------------------- MODULE MCLeadStore ----------------------------
(***************************************************************************)
(* Instance of LeadStore for TLC: two leads, one of them without a brief   *)
(* and with a phone, and the calls that can meet on their rows.            *)
(***************************************************************************)
EXTENDS LeadStore, TLC

CONSTANTS l1, l2, r1, r2, uid1

MCBrief == [l \in Leads |-> IF l = l1 THEN "matched" ELSE "none"]
MCPreferred == [l \in Leads |-> IF l = l1 THEN "email" ELSE "sms"]
MCEmail == [l \in Leads |-> "prospect_email"]
MCPhone == [l \in Leads |-> IF l = l1 THEN "prospect_phone" ELSE "nobody"]

\* Nobody with a phone: a STOP comes by mail, and its answer is on the timeline.
MCNoPhone == [l \in Leads |-> "nobody"]

\* Requests are interchangeable: no property of the safety run names one.
MCSymmetry == Permutations(Requests)

=============================================================================
