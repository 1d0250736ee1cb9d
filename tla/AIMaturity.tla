---------------------------- MODULE AIMaturity -----------------------------
(***************************************************************************)
(* AIMaturityScorer: six weighted signals about a company, one score from  *)
(* 0 to 3 and how sure the scorer is of it.                                *)
(*                                                                         *)
(* Weights and raw scores are hundredths.  The source compares a ratio of  *)
(* floating-point numbers with the thresholds 0.70, 0.40 and 0.15 of a     *)
(* maximum of 12.                                                          *)
(***************************************************************************)
EXTENDS SignalSources

\* What a company of unknown signals looks like.
NoSignals ==
  [roles |-> None, leadership |-> None, github |-> None,
   commentary |-> None, stack |-> None, communications |-> None]

RolesScore(roles) ==
  CASE roles = None \/ roles = 0 -> 0
    [] roles \in 1..2            -> 30
    [] roles \in 3..4            -> 60
    [] OTHER                     -> 100

BoolScore(signal) == IF signal = TRUE THEN 100 ELSE 0

WeightedSum(signals) ==
  3 * RolesScore(signals.roles) + 3 * BoolScore(signals.leadership)
    + 2 * BoolScore(signals.github) + 2 * BoolScore(signals.commentary)
    + BoolScore(signals.stack) + BoolScore(signals.communications)

\* A sum of 4.8 is the threshold 0.40 on paper, but 0.6 * 3.0 is not 1.8 in floating
\* point and 4.8 / 12.0 comes out below 0.40: the sum must exceed it.  1.8 / 12.0 does
\* reach 0.15, and no sum hits 8.4.
RatioScore(sum) ==
  CASE sum >= 840             -> 3
    [] sum > 480 /\ sum < 840 -> 2
    [] sum \in 180..480       -> 1
    [] OTHER                  -> 0

\* Never high: two signals of the highest weight make it medium.
MaturityConfidence(signals) ==
  IF signals.roles # None /\ signals.roles > 0 /\ signals.leadership = TRUE
  THEN "medium" ELSE "low"

Maturity(signals) ==
  [score |-> RatioScore(WeightedSum(signals)), confidence |-> MaturityConfidence(signals)]
=============================================================================
