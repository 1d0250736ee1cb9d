--------------------------- MODULE IcpClassifier ---------------------------
(***************************************************************************)
(* classify: the customer segment a brief qualifies for, or none.          *)
(*                                                                         *)
(* A confidence is a number of hundredths.  config holds what the runner   *)
(* knows of headcount and open roles, and whether dates are ignored, which *)
(* they are unless ICP_IGNORE_DATES says otherwise.                        *)
(***************************************************************************)
EXTENDS BriefAssembler

CONSTANT EarlyRounds  \* types of round whose name contains "series a" or "series b"

\* "pre-series a" is one, and of the names the rules write no other than these two.
ASSUME EarlyRoundsAssumption ==
  /\ EarlyRounds \subseteq Texts
  /\ EarlyRounds \cap Words = {"series a", "series b"}

AbstentionThreshold == 60

Million == 1000000

\* Highest first.
Priority == <<"segment_2", "segment_3", "segment_4", "segment_1">>

Lower(a, b) == IF a <= b THEN a ELSE b

\* _CONFIDENCE_MAP and _LEADERSHIP_CONFIDENCE_MAP.
EventConfidence(level) ==
  CASE level = "high" -> 90 [] level = "medium" -> 70 [] level = "low" -> 50 [] OTHER -> 40

LayoffConfidence(level) ==
  CASE level = "high" -> 85 [] level = "medium" -> 65 [] level = "low" -> 45 [] OTHER -> 40

HeadcountKnown(config) == config.empMin # None \/ config.empMax # None

\* Only a headcount that is clearly outside disqualifies.
HeadcountFits(config, from, to) ==
  /\ config.empMin = None \/ config.empMin <= to
  /\ config.empMax = None \/ config.empMax >= from

RolesFit(config, least) == config.roles = None \/ config.roles >= least

\* A date that does not parse is young for S2 and S3 and old for S1.
YoungerThan(age, days) == age = None \/ age <= days

\* The confidence of each segment, 0 where it is out.  Series A or B of 5 to 30
\* million; the role count decides only if dates do.
ScoreSegment1(brief, config) ==
  LET event == brief.funding
      out == \/ event = None
             \/ event.type \notin EarlyRounds
             \/ event.amount = None \/ event.amount \notin 5 * Million..30 * Million
             \/ ~config.ignoreDates /\ ~(event.age # None /\ event.age <= 180)
             \/ ~HeadcountFits(config, 15, 80)
             \/ ~config.ignoreDates /\ ~RolesFit(config, 5)
      capped == ~HeadcountKnown(config) \/ config.roles = None
  IN IF out THEN 0
     ELSE Lower(EventConfidence(event.confidence), IF capped THEN 70 ELSE 100)

\* A layoff at a company of 200 to 2000; here the role count always decides.
ScoreSegment2(brief, config) ==
  LET event == brief.layoff
      out == \/ event = None
             \/ ~config.ignoreDates /\ ~YoungerThan(event.age, 120)
             \/ ~HeadcountFits(config, 200, 2000)
             \/ ~RolesFit(config, 3)
      cap == Lower(IF HeadcountKnown(config) THEN 100 ELSE 60,
                   IF config.roles = None THEN 65 ELSE 100)
  IN IF out THEN 0 ELSE Lower(LayoffConfidence(event.confidence), cap)

\* Mutant: the gate on the headcount is dropped.
ScoreSegment3AnySize(brief, config) ==
  LET event == brief.leadership
      out == \/ event = None
             \/ ~config.ignoreDates /\ ~YoungerThan(event.age, 90)
  IN IF out THEN 0
     ELSE Lower(EventConfidence(event.confidence), IF HeadcountKnown(config) THEN 100 ELSE 70)

\* A new CTO or VP of engineering at a company of 50 to 500.
ScoreSegment3(brief, config) ==
  LET event == brief.leadership
      out == \/ event = None
             \/ ~config.ignoreDates /\ ~YoungerThan(event.age, 90)
             \/ ~HeadcountFits(config, 50, 500)
  IN IF out THEN 0
     ELSE Lower(EventConfidence(event.confidence), IF HeadcountKnown(config) THEN 100 ELSE 70)

\* An AI maturity of 2 or 3.
ScoreSegment4(brief) ==
  CASE brief.score = 3 -> 85 [] brief.score = 2 -> 65 [] OTHER -> 0

SegmentScore(segment, brief, config) ==
  CASE segment = "segment_1" -> ScoreSegment1(brief, config)
    [] segment = "segment_2" -> ScoreSegment2(brief, config)
    [] segment = "segment_3" -> ScoreSegment3(brief, config)
    [] segment = "segment_4" -> ScoreSegment4(brief)

\* Mutant: the most confident of the qualified segments wins over the official order.
ClassifyByConfidence(brief, config) ==
  LET Score(i) == SegmentScore(Priority[i], brief, config)
      qualified == {i \in DOMAIN Priority : Score(i) >= AbstentionThreshold}
  IN IF qualified = {} THEN [segment |-> "unqualified", confidence |-> 0]
     ELSE LET best == CHOOSE i \in qualified : \A j \in qualified :
                        Score(i) > Score(j) \/ (Score(i) = Score(j) /\ i <= j)
          IN [segment |-> Priority[best], confidence |-> Score(best)]

\* The first segment in the official order that reaches the threshold.
Classify(brief, config) ==
  LET Score(i) == SegmentScore(Priority[i], brief, config)
      qualified == {i \in DOMAIN Priority : Score(i) >= AbstentionThreshold}
  IN IF qualified = {} THEN [segment |-> "unqualified", confidence |-> 0]
     ELSE LET best == CHOOSE i \in qualified : \A j \in qualified : i <= j
          IN [segment |-> Priority[best], confidence |-> Score(best)]

\* What the runner passes: the velocity's count if there is one, else the plain count.
ConfigOf(brief, ignoreDates) ==
  [empMin |-> brief.empMin, empMax |-> brief.empMax, ignoreDates |-> ignoreDates,
   roles |-> IF brief.hiring # None THEN brief.hiring.today ELSE brief.posts]
=============================================================================
