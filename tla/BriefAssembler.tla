--------------------------- MODULE BriefAssembler --------------------------
(***************************************************************************)
(* HiringSignalBriefAssembler and BenchToBriefMatch: the brief made of     *)
(* what the sources returned, and whether the company's stack meets the    *)
(* bench of available engineers.                                           *)
(*                                                                         *)
(* The bench is a set of stacks, each with its name, its number of         *)
(* engineers, its skills, and whether its note says they are committed.    *)
(* The runtime file lists names and numbers only: no skills, no notes.     *)
(***************************************************************************)
EXTENDS CompetitorGap

Languages == {"python", "go", "golang", "rust", "java", "typescript",
              "javascript", "ruby", "php", "scala", "swift", "kotlin"}
MlTools == {"pytorch", "tensorflow", "keras", "scikit-learn", "mlflow", "kubeflow",
            "ray", "feast", "langchain", "openai", "huggingface"}
DataTools == {"spark", "kafka", "dbt", "airflow", "flink", "databricks", "snowflake",
              "bigquery", "redshift", "postgres", "mysql", "mongodb"}

\* What is in no list is dropped; the boards are always among the sources checked.
TechStack(firm, posts) ==
  LET raw == firm.tech \cup posts.tech
      known == raw \cap (Languages \cup MlTools \cup DataTools)
  IN [languages |-> raw \cap Languages, ml |-> raw \cap MlTools, data |-> raw \cap DataTools,
      confidence |-> CASE Cardinality(known) >= 3   -> "high"
                       [] Cardinality(known) \in 1..2 -> "medium"
                       [] known = {}                -> "low"]

\* today / before against 3.0, 1.8, 1.1 and 0.9.
VelocityLabel(today, before) ==
  CASE before = 0 /\ today = 0                                  -> "insufficient_signal"
    [] before = 0 /\ today > 0                                  -> "tripled_or_more"
    [] before > 0 /\ today >= 3 * before                        -> "tripled_or_more"
    [] before > 0 /\ 10 * today \in 18 * before..30 * before - 1 -> "doubled"
    [] before > 0 /\ 10 * today \in 11 * before..18 * before - 1 -> "increased_modestly"
    [] before > 0 /\ 10 * today \in 9 * before..11 * before - 1  -> "flat"
    [] OTHER                                                    -> "declined"

\* The scraper has no earlier snapshot: without one the label says so.
HiringVelocity(posts) ==
  CASE posts.count = None -> None
    [] posts.count # None /\ posts.velocity = None ->
         [today |-> posts.count, before |-> 0, label |-> "insufficient_signal"]
    [] OTHER -> [today |-> posts.count, before |-> posts.velocity,
                 label |-> VelocityLabel(posts.count, posts.velocity)]

\* What the brief has of a layoff and of open roles, if it has it.
LayoffEvents == [age : Int, headcount : Known(Nat), percentage : Known(Nat), confidence : Texts]
Velocities == [today : Nat, before : Nat, label : Texts]

ASSUME BriefAssumption == None \notin LayoffEvents \cup Velocities

\* An event without its type or its date is none.
FundingEvent(funding) ==
  IF funding = None \/ funding.type = None THEN None ELSE funding

LayoffEvent(layoff) ==
  IF layoff = None THEN None
  ELSE [age |-> layoff.age, headcount |-> layoff.headcount, percentage |-> layoff.percentage,
        confidence |->
          CASE layoff.headcount # None /\ layoff.percentage # None -> "high"
            [] layoff.headcount = None /\ layoff.percentage = None -> "low"
            [] OTHER                                               -> "medium"]

\* The assembler's own comparison: languages and ML tools only, committed engineers
\* included, None when there is nothing to compare.  BenchMismatch overwrites it.
BenchMismatchEarly(stack, bench) ==
  LET wanted == stack.languages \cup stack.ml
      there == UNION {{s.name} \cup s.skills : s \in {t \in bench : t.engineers > 0}}
  IN IF wanted = {} THEN None ELSE wanted \cap there = {}

\* BenchToBriefMatch: engineers whose note says "committed" are not available.
Available(bench) ==
  UNION {{s.name} \cup s.skills : s \in {t \in bench : t.engineers > 0 /\ ~t.committed}}

\* Mutant: engineers who are committed elsewhere count as available.
BenchMismatchCommitted(stack, bench) ==
  LET wanted == stack.languages \cup stack.ml \cup stack.data
      there == UNION {{s.name} \cup s.skills : s \in {t \in bench : t.engineers > 0}}
  IN wanted # {} /\ wanted \cap there = {}

\* A mismatch is a stack that is known and of which nothing is available.
BenchMismatch(stack, bench) ==
  LET wanted == stack.languages \cup stack.ml \cup stack.data
  IN wanted # {} /\ wanted \cap Available(bench) = {}

\* The brief before classification.
Assemble(firm, layoff, posts, leadership, funding, maturity, bench) ==
  LET stack == TechStack(firm, posts)
  IN [stack |-> stack, funding |-> FundingEvent(funding), layoff |-> LayoffEvent(layoff),
      leadership |-> leadership, hiring |-> HiringVelocity(posts),
      posts |-> posts.count, velocity |-> posts.velocity, postConfidence |-> posts.confidence,
      score |-> maturity.score, maturityConfidence |-> maturity.confidence,
      empMin |-> firm.empMin, empMax |-> firm.empMax,
      mismatch |-> BenchMismatchEarly(stack, bench), segment |-> None, confidence |-> None]
=============================================================================
