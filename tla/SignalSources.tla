--------------------------- MODULE SignalSources ---------------------------
(***************************************************************************)
(* signal_pipeline/: what the enrichment components read about a company   *)
(* in the datasets and on the job boards.                                  *)
(*                                                                         *)
(* A date is an age in days: None when the field does not parse, negative  *)
(* for a date in the future.  Text is lower case; a title or a label is    *)
(* the parts the code splits it into, or the class its patterns give it.   *)
(* Every missing value is None, as in the source.                          *)
(***************************************************************************)
EXTENDS Integers, Sequences, FiniteSets, FiniteSetsExt

CONSTANT None  \* Python's None

Known(S) == S \cup {None}

\* The words that the rules write themselves; a text is one of them or one of the data's.
Words == {"low", "medium", "high", "CTO", "VP Engineering", "insufficient_signal", "template",
          "seed", "series a", "series b", "series c", "series d", "series e", "series f"}
Texts == STRING \cup Words

\* What the datasets and the pages hold, and the events made of it.  The percentage of a
\* layoff is a fraction of one, here in hundredths of it.
LayoffRows == [company : STRING, age : Known(Int), headcount : Known(Nat), percentage : Known(Nat)]
Rounds == [title : Seq(STRING), age : Known(Int), amount : Known(Nat)]  \* in dollars
Hires == [label : SUBSET STRING, age : Known(Int)]
Pages == [cards : Known(Nat), tech : SUBSET STRING]
FundingEvents == [type : Known(Texts), amount : Known(Nat), age : Int, confidence : Texts]
LeadershipEvents == [role : Texts, age : Int, confidence : Texts]

\* None is none of the values it stands beside.
ASSUME NoneAssumption ==
  /\ None \notin Int \cup BOOLEAN \cup Texts
  /\ None \notin LayoffRows \cup Rounds \cup Hires
  /\ None \notin FundingEvents \cup LeadershipEvents

\* sort(reverse=True) is stable: of the youngest of the chosen rows, the one that came
\* first; chosen is a set of positions.
Newest(rows, chosen) ==
  IF chosen = {} THEN None
  ELSE rows[CHOOSE i \in chosen : \A j \in chosen :
              \/ rows[i].age < rows[j].age
              \/ rows[i].age = rows[j].age /\ i <= j]

Dated(row) == row.age # None

-----------------------------------------------------------------------------
(* FirmographicEnricher *)

EmployeeBands ==
  [b \in {"1-10", "11-50", "51-100", "101-250", "251-500", "501-1000",
          "1001-5000", "5001-10000", "10001+"} |->
     CASE b = "1-10"      -> <<1, 10>>      [] b = "11-50"      -> <<11, 50>>
       [] b = "51-100"    -> <<51, 100>>    [] b = "101-250"    -> <<101, 250>>
       [] b = "251-500"   -> <<251, 500>>   [] b = "501-1000"   -> <<501, 1000>>
       [] b = "1001-5000" -> <<1001, 5000>> [] b = "5001-10000" -> <<5001, 10000>>
       [] b = "10001+"    -> <<10001, None>>]

Headcount(band) == IF band \in DOMAIN EmployeeBands THEN EmployeeBands[band] ELSE <<None, None>>

\* The stage column, or else the first part of the title of the latest round, as it
\* stands: "series a round" stays what it is, and the gap builder knows no such stage.
FundingStage(row) ==
  LET dated == {i \in DOMAIN row.rounds : Dated(row.rounds[i])}
      latest == IF dated # {} THEN Newest(row.rounds, dated) ELSE row.rounds[1]
  IN IF row.stage # None THEN row.stage
     ELSE IF row.rounds = <<>> \/ latest.title = <<>> THEN None
     ELSE latest.title[1]

NullFirm ==
  [id |-> None, name |-> None, sectors |-> {}, empMin |-> None, empMax |-> None,
   stage |-> None, website |-> FALSE, tech |-> {}, rounds |-> <<>>, hires |-> <<>>]

FirmOf(row) ==
  [id |-> row.id, name |-> row.name, sectors |-> row.sectors,
   empMin |-> Headcount(row.band)[1], empMax |-> Headcount(row.band)[2],
   stage |-> FundingStage(row), website |-> row.website, tech |-> row.tech,
   rounds |-> row.rounds, hires |-> row.hires]

\* next(...): the first of the chosen rows.
FirstOf(rows, chosen) == IF chosen = {} THEN NullFirm ELSE FirmOf(rows[Min(chosen)])

\* Either identifier first; then, if the prospect has a name besides it, the row
\* whose name difflib finds closest (prospect.closest, None below the cutoff).
LookUp(rows, prospect) ==
  LET byId == {i \in DOMAIN rows : prospect.company \in {rows[i].id, rows[i].uuid}}
      byName == {i \in DOMAIN rows : rows[i].name = prospect.closest}
      exact == FirstOf(rows, byId)
  IN IF exact.name = None /\ prospect.name # prospect.company
     THEN FirstOf(rows, byName)
     ELSE exact

-----------------------------------------------------------------------------
(* LayoffScanner *)

LayoffWindow == 120

\* similar: the names difflib takes for the company's.  A date in the future passes.
LayoffCounts(row, similar, ignoreDates) ==
  /\ row.company \in similar
  /\ Dated(row)
  /\ ignoreDates \/ row.age <= LayoffWindow

Layoff(rows, similar, ignoreDates) ==
  Newest(rows, {i \in DOMAIN rows : LayoffCounts(rows[i], similar, ignoreDates)})

-----------------------------------------------------------------------------
(* FundingEventFetcher *)

FundingWindow == 180

RoundNames ==
  [t \in {"seed round", "series a round", "series b round", "series c round",
          "series d round", "series e round", "series f round"} |->
     CASE t = "seed round"     -> "seed"     [] t = "series a round" -> "series a"
       [] t = "series b round" -> "series b" [] t = "series c round" -> "series c"
       [] t = "series d round" -> "series d" [] t = "series e round" -> "series e"
       [] t = "series f round" -> "series f"]

RoundType(title) ==
  IF title = <<>> THEN None
  ELSE IF title[1] \in DOMAIN RoundNames THEN RoundNames[title[1]] ELSE title[1]

Funding(rounds, ignoreDates) ==
  LET Counts(r) == Dated(r) /\ (ignoreDates \/ r.age \in 0..FundingWindow)
      newest == Newest(rounds, {i \in DOMAIN rounds : Counts(rounds[i])})
  IN IF newest = None THEN None
     ELSE [type |-> RoundType(newest.title), amount |-> newest.amount, age |-> newest.age,
           confidence |-> IF newest.amount # None THEN "high" ELSE "medium"]

-----------------------------------------------------------------------------
(* LeadershipChangeDetector *)

LeadershipWindow == 90

\* The classes of labels the patterns tell apart; a CTO wins over a VP of engineering.
Role(label) ==
  CASE "cto" \in label -> "CTO"
    [] "cto" \notin label /\ "vp engineering" \in label -> "VP Engineering"
    [] OTHER -> None

\* Mutant: the window is asked about nothing but events that lie ahead.
InWindowUnbounded(age) == age >= 0

InWindow(age) == age \in 0..LeadershipWindow

\* The window always holds here, whatever the switch for static datasets says.  A
\* detected change has a role and a date, so its confidence is always high.
Leadership(hires) ==
  LET Counts(h) == Role(h.label) # None /\ Dated(h) /\ InWindow(h.age)
      newest == Newest(hires, {i \in DOMAIN hires : Counts(hires[i])})
  IN IF newest = None THEN None
     ELSE [role |-> Role(newest.label), age |-> newest.age, confidence |-> "high"]

-----------------------------------------------------------------------------
(* JobPostScraper *)

\* A page is Refused (robots.txt, a login wall, a bad status or an exception), or
\* what is on it: its job cards and the technologies its text names.
Refused == [cards |-> None, tech |-> {}]

\* No cards is no number: an empty board says nothing about the company.
BoardResult(page) ==
  [count |-> IF page.cards = 0 THEN None ELSE page.cards, tech |-> page.tech]

\* The first careers path with job-like content; the others' technologies are lost.
CareersResult(pages) ==
  LET counted == {i \in DOMAIN pages : BoardResult(pages[i]).count # None}
  IN IF counted = {} THEN [count |-> None, tech |-> {}] ELSE BoardResult(pages[Min(counted)])

Sources == {"builtin", "wellfound", "careers"}

\* The sources that gave a number of roles, of those that were asked.
Answered(results) == {s \in DOMAIN results : results[s].count # None}

\* Mutant: confidence counts the sources that were asked.
ConfidenceAsked(results) ==
  LET asked == Cardinality(DOMAIN results)
  IN CASE asked = 1 -> "low" [] asked = 2 -> "medium" [] asked = 3 -> "high"

\* Confidence grows with the sources that answered, not with those that were asked.
PostConfidence(results) ==
  LET answered == Cardinality(Answered(results))
  IN CASE answered = 0 -> None [] answered = 1 -> "low"
       [] answered = 2 -> "medium" [] answered = 3 -> "high"

\* None if no source answered: never a sum of nothing.
TotalCount(results) ==
  LET Number(s) == IF s \in Answered(results) THEN results[s].count ELSE 0
  IN IF Answered(results) = {} THEN None
     ELSE Number("builtin") + Number("wellfound") + Number("careers")

\* The careers page is visited only if the company's website is known.
Scrape(site, website) ==
  LET asked == IF website THEN Sources ELSE Sources \ {"careers"}
      results == [s \in asked |-> IF s = "careers" THEN CareersResult(site.careers)
                                  ELSE BoardResult(site[s])]
  IN [count |-> TotalCount(results), velocity |-> None, confidence |-> PostConfidence(results),
      tech |-> UNION {results[s].tech : s \in asked}]
=============================================================================
