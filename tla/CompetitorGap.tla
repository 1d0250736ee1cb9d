--------------------------- MODULE CompetitorGap ---------------------------
(***************************************************************************)
(* CompetitorGapBuilder: the companies of the dataset in the prospect's    *)
(* sector and stage, how mature they are, and the practices the mature     *)
(* ones have that the prospect lacks.                                      *)
(*                                                                         *)
(* A row's prose is the set of keywords its text contains and the classes  *)
(* of phrases the patterns find in it.                                     *)
(***************************************************************************)
EXTENDS AIMaturity

CONSTANT ModernNames  \* technologies whose name contains that of a modern tool

MaxPeers == 10
MaxGaps == 3

StageBand(stage) ==
  CASE stage \in {"seed", "pre-seed", "angel", "seed round"}  -> "seed"
    [] stage \in {"series a", "series b"}                     -> "series_ab"
    [] stage \in {"series c", "series d", "series e", "series f", "series g",
                  "series h", "series i", "series j"}          -> "series_c_plus"
    [] stage \in {"post-ipo", "public", "ipo"}                -> "public"
    [] OTHER                                                  -> "unknown"

ModernTools == {"pytorch", "tensorflow", "spark", "kafka", "dbt", "airflow"}

\* "apache spark" is one; of a row's technologies the builder searches the text.
ASSUME ModernAssumption == ModernTools \subseteq ModernNames

\* The practices in the order in which the builder looks for them.
Practices ==
  <<"pytorch", "tensorflow", "spark", "kafka", "dbt",
    "airflow", "mlflow", "kubeflow", "ray", "feast">>

TechOf(row) == row.tech \cup row.siftery

\* A signal a row does not show is unknown, except the count of its keywords.
TrueOrNone(holds) == IF holds THEN TRUE ELSE None

RowSignals(row) ==
  [roles |-> IF Cardinality(row.keywords) < 5 THEN Cardinality(row.keywords) ELSE 5,
   leadership |-> TrueOrNone(\E i \in DOMAIN row.hires : "ai" \in row.hires[i].label),
   github |-> None,
   commentary |-> TrueOrNone("executive" \in row.phrases),
   stack |-> TrueOrNone(TechOf(row) \cap ModernNames # {}),
   communications |-> TrueOrNone("strategy" \in row.phrases)]

RowScore(row) == Maturity(RowSignals(row)).score

SharesSector(row, firm) == row.sectors \cap firm.sectors # {}

\* Mutant: the stage of a row is not asked about.
IsPeerOfAnyStage(row, firm, id, name) ==
  /\ row.id # id
  /\ row.name # name
  /\ SharesSector(row, firm)

\* Same sector, same stage, not the company itself.
IsPeer(row, firm, id, name) ==
  /\ row.id # id
  /\ row.name # name
  /\ SharesSector(row, firm)
  /\ StageBand(FundingStage(row)) = StageBand(firm.stage)

\* The positions of all of them, or of the most mature ten (a stable sort).
Peers(rows, firm, id, name) ==
  LET candidates == {i \in DOMAIN rows : IsPeer(rows[i], firm, id, name)}
      Before(i, j) == \/ RowScore(rows[i]) > RowScore(rows[j])
                      \/ RowScore(rows[i]) = RowScore(rows[j]) /\ i < j
  IN IF Cardinality(candidates) <= MaxPeers THEN candidates
     ELSE {j \in candidates : Cardinality({i \in candidates : Before(i, j)}) < MaxPeers}

\* In percent, rounded down; None without peers.
Percentile(rows, peers, score) ==
  IF peers = {} THEN None
  ELSE (100 * Cardinality({i \in peers : RowScore(rows[i]) < score})) \div Cardinality(peers)

UsersOf(practice, rows, peers) == {i \in peers : practice \in TechOf(rows[i])}

\* The first three practices in the list's order that a mature peer has and the
\* prospect lacks, each with its place in that order.
Gaps(rows, mature, tech) ==
  LET open == {p \in DOMAIN Practices :
                 UsersOf(Practices[p], rows, mature) # {} /\ Practices[p] \notin tech}
      GapAt(p) ==
        LET users == UsersOf(Practices[p], rows, mature)
        IN [practice |-> Practices[p], place |-> p, users |-> users,
            confidence |-> CASE Cardinality(users) >= 3 -> "high"
                             [] Cardinality(users) = 2  -> "medium"
                             [] Cardinality(users) = 1  -> "low"]
  IN {GapAt(p) : p \in {q \in open : Cardinality({r \in open : r < q}) < MaxGaps}}

\* The brief lists its gaps by how many peers close them, the earlier practice first.
Precedes(g, h) ==
  \/ Cardinality(g.users) > Cardinality(h.users)
  \/ Cardinality(g.users) = Cardinality(h.users) /\ g.place <= h.place

\* The brief on the gap.  Only the technologies of the dataset's row count as the
\* prospect's: what its own job pages name is not looked at.
GapBrief(rows, firm, id, name, score) ==
  LET peers == Peers(rows, firm, id, name)
      mature == {i \in peers : RowScore(rows[i]) >= 2}
  IN [score |-> score, percentile |-> Percentile(rows, peers, score),
      peerCount |-> Cardinality(peers), gaps |-> Gaps(rows, mature, firm.tech)]
=============================================================================
