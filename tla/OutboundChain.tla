--------------------------- MODULE OutboundChain ---------------------------
(***************************************************************************)
(* mechanism/three_stage_chain.py: the researcher turns the briefs into    *)
(* facts, each with the phrasing its confidence allows, the closer writes  *)
(* a draft from the facts alone, and the tone guard scores the draft.      *)
(*                                                                         *)
(* A fact keeps the values its sentence names.  A draft is who wrote it,   *)
(* how many violations the tone guard finds in it and, for the template,   *)
(* whether it carries the caveat on capacity: a model may write anything.  *)
(***************************************************************************)
EXTENDS IcpClassifier

Omit == [included |-> FALSE, phrasing |-> "omit", fact |-> None]

Field(phrasing, fact) == [included |-> TRUE, phrasing |-> phrasing, fact |-> fact]

Sure == {"medium", "high"}

ByConfidence(level) == IF level \in Sure THEN "assertive" ELSE "interrogative"

\* Mutant: what is beyond the whole units is cut off.
RoundedDown(n, unit) == n \div unit

\* Formatting without decimals: the nearest whole number of units, the even one of two.
Rounded(n, unit) ==
  LET whole == n \div unit
      rest == n % unit
  IN IF 2 * rest > unit \/ (2 * rest = unit /\ whole % 2 = 1) THEN whole + 1 ELSE whole

\* The amount is named, in millions, only where the phrasing is assertive; 0 is no
\* amount either, and less than half a million reads "$0M".
ExtractFunding(brief) ==
  LET event == brief.funding
  IN IF event = None THEN Omit
     ELSE Field(ByConfidence(event.confidence),
                [type |-> event.type, age |-> event.age,
                 amount |-> IF event.confidence \in Sure /\ event.amount \notin {None, 0}
                            THEN Rounded(event.amount, Million) ELSE None])

\* Without a count there is still a sentence if the confidence is there.  A strong
\* velocity takes five roles and a rise of three.
ExtractHiring(brief) ==
  LET fact == [count |-> brief.posts,
               strong |-> /\ brief.posts # None /\ brief.posts >= 5
                          /\ brief.velocity # None /\ brief.velocity >= 3
                          /\ brief.postConfidence \in Sure]
  IN IF brief.posts = None /\ brief.postConfidence \notin Sure THEN Omit
     ELSE Field(ByConfidence(brief.postConfidence), fact)

ExtractAiMaturity(brief) ==
  IF brief.score = None \/ brief.maturityConfidence = None THEN Omit
  ELSE Field(ByConfidence(brief.maturityConfidence),
             [score |-> brief.score,
              framing |-> IF brief.score >= 2 THEN "scale" ELSE "stand up"])

\* The first gap of high confidence, or else the first of medium confidence.
ExtractGap(gap) ==
  LET eligible == {g \in gap.gaps : g.confidence \in Sure}
      high == {g \in eligible : g.confidence = "high"}
      First(gaps) == CHOOSE g \in gaps : \A h \in gaps : Precedes(g, h)
  IN IF gap = None \/ eligible = {} THEN Omit
     ELSE Field("assertive", First(IF high # {} THEN high ELSE eligible))

\* The head count if it is known, else the percentage.  The dataset's percentages are
\* fractions of one and are formatted without decimals: a cut of 6 percent reads "0%".
ExtractLayoff(brief) ==
  LET event == brief.layoff
      fact == CASE event.headcount # None -> [unit |-> "people", number |-> event.headcount]
                [] event.headcount = None /\ event.percentage # None ->
                     [unit |-> "percent", number |-> Rounded(event.percentage, 100)]
                [] OTHER -> [unit |-> "unknown", number |-> None]
  IN IF event = None THEN Omit ELSE Field(ByConfidence(event.confidence), fact)

Research(brief, gap) ==
  [funding |-> ExtractFunding(brief), hiring |-> ExtractHiring(brief),
   maturity |-> ExtractAiMaturity(brief), gap |-> ExtractGap(gap),
   layoff |-> ExtractLayoff(brief), mismatch |-> brief.mismatch = TRUE]

-----------------------------------------------------------------------------
(* CloserAgent and ToneGuard *)

NoDraft == [by |-> None, says |-> None, caveat |-> FALSE, violations |-> 0]

\* The deterministic template: every included fact in the form its phrasing calls for.
TemplateDraft(summary, violations) ==
  [by |-> "template", says |-> {f \in {"funding", "hiring", "maturity", "gap", "layoff"} :
                                  summary[f].included},
   caveat |-> summary.mismatch, violations |-> violations]

\* A model's draft may say anything of what it was shown, and need not say the caveat.
ModelDraft(says, violations) ==
  [by |-> "model", says |-> says, caveat |-> FALSE, violations |-> violations]

PointsPerViolation == 15
PassThreshold == 70

ToneTotal(draft) ==
  IF PointsPerViolation * draft.violations > 100 THEN 0
  ELSE 100 - PointsPerViolation * draft.violations

Passes(draft) == ToneTotal(draft) >= PassThreshold
=============================================================================
