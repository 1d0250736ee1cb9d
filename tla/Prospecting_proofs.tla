------------------------- MODULE Prospecting_proofs -------------------------
(***************************************************************************)
(* Theorems about PipelineRunner.run, whatever the prospect's company, the *)
(* dataset and the bench are: the segment given to a prospect is the first *)
(* whose criteria the data meet, and what the message states is in them.   *)
(*                                                                         *)
(* The invariant says that the briefs are the rules applied to the data.   *)
(* What is left are facts about the rules: what each fetcher picks of its  *)
(* rows, what the assembler, the scorer and the classifier make of it.     *)
(***************************************************************************)
EXTENDS Prospecting, SetLemmas

USE DEF Known

-----------------------------------------------------------------------------
(* Rows *)

LEMMA NoneIsNone ==
  /\ None \notin Int /\ None \notin BOOLEAN
  /\ None \notin Texts /\ None \notin STRING /\ None \notin Words
  /\ None \notin LayoffRows /\ None \notin Rounds /\ None \notin Hires
  /\ None \notin FundingEvents /\ None \notin LeadershipEvents
  /\ None \notin LayoffEvents /\ None \notin Velocities
<1>1. /\ None \notin Int /\ None \notin BOOLEAN /\ None \notin Texts
      /\ None \notin LayoffRows /\ None \notin Rounds /\ None \notin Hires
      /\ None \notin FundingEvents /\ None \notin LeadershipEvents
  BY NoneAssumption DEF NoneAssumption
<1>2. None \notin LayoffEvents /\ None \notin Velocities
  BY BriefAssumption DEF BriefAssumption
<1>3. STRING \subseteq Texts /\ Words \subseteq Texts
  BY DEF Texts
<1> QED
  BY <1>1, <1>2, <1>3

LEMMA PositionsAreFinite ==
  ASSUME NEW X, NEW rows \in Seq(X), NEW chosen \in SUBSET DOMAIN rows
  PROVE  IsFiniteSet(chosen) /\ chosen \in SUBSET Int
<1>1. DOMAIN rows = 1..Len(rows) /\ Len(rows) \in Nat
  OBVIOUS
<1>2. chosen \in SUBSET Nat /\ \A i \in chosen : i <= Len(rows)
  BY <1>1
<1>3. IsFiniteSet(chosen)
  BY <1>1, <1>2, FS_BoundedSetOfNaturals
<1>4. chosen \in SUBSET Int
  BY <1>2
<1> QED
  BY <1>3, <1>4

\* The newest of the dated rows is the one the properties call the youngest.
LEMMA NewestIsYoungest ==
  ASSUME NEW X, NEW rows \in Seq(X), NEW chosen \in SUBSET DOMAIN rows,
         \A i \in chosen : rows[i].age \in Known(Int)
  PROVE  LET dated == {i \in chosen : rows[i].age # None}
         IN \/ /\ dated = {} /\ Newest(rows, dated) = None
               /\ Youngest(rows, chosen) = {}
            \/ \E i \in dated : /\ Newest(rows, dated) = rows[i]
                                /\ Youngest(rows, chosen) = {i}
<1> DEFINE dated == {i \in chosen : rows[i].age # None}
           Best(i) == \A j \in dated : \/ rows[i].age < rows[j].age
                                       \/ rows[i].age = rows[j].age /\ i <= j
           age == [i \in dated |-> rows[i].age]
           place == [i \in dated |-> i]
<1>1. CASE dated = {}
  BY <1>1 DEF Newest, Youngest
<1>2. CASE dated # {}
  <2>1. IsFiniteSet(dated) /\ dated \in SUBSET Int
    BY PositionsAreFinite
  <2>2. age \in [dated -> Int] /\ place \in [dated -> Int]
    BY <2>1
  <2>3. \E i \in dated : \A j \in dated :
          age[i] < age[j] \/ (age[i] = age[j] /\ place[i] <= place[j])
    <3> HIDE DEF age, place, dated
    <3> QED
      BY <1>2, <2>1, <2>2, FirstExists
  <2>4. \E i \in dated : Best(i)
    BY <2>3
  <2>5. PICK i \in dated : Best(i) /\ Newest(rows, dated) = rows[i]
    <3> DEFINE i == CHOOSE k \in dated : Best(k)
    <3>1. i \in dated /\ Best(i)
      <4> HIDE DEF Best, dated
      <4> QED
        BY <2>4
    <3>2. Newest(rows, dated) = rows[i]
      BY <1>2 DEF Newest
    <3> HIDE DEF i
    <3> QED
      BY <3>1, <3>2
  <2>6. Youngest(rows, chosen) = {i}
    <3>1. i \in Youngest(rows, chosen)
      BY <2>5 DEF Youngest
    <3>2. ASSUME NEW k \in Youngest(rows, chosen)
          PROVE  k = i
      <4>1. k \in dated /\ (rows[k].age < rows[i].age \/ (rows[k].age = rows[i].age /\ k <= i))
        BY <3>2, <2>5 DEF Youngest
      <4>2. rows[i].age < rows[k].age \/ (rows[i].age = rows[k].age /\ i <= k)
        BY <4>1, <2>5
      <4>3. rows[i].age \in Int /\ rows[k].age \in Int /\ i \in Int /\ k \in Int
        BY <4>1, <2>1, <2>5
      <4> QED
        BY <4>1, <4>2, <4>3
    <3> QED
      BY <3>1, <3>2
  <2> QED
    BY <2>5, <2>6
<1> QED
  BY <1>1, <1>2
-----------------------------------------------------------------------------
(* The prospect's row *)

LEMMA CompanyTypes ==
  ASSUME company \in Companies
  PROVE  /\ company.prospect.company \in STRING /\ company.prospect.name \in STRING
         /\ company.prospect.closest \in Known(STRING)
         /\ company.row \in DatasetRows
         /\ company.layoffs \in Seq(LayoffRows)
         /\ company.site.builtin \in Pages /\ company.site.wellfound \in Pages
         /\ company.site.careers \in Seq(Pages)
<1>1. company \in CompanyData
  BY ProspectingAssumption DEF ProspectingAssumption
<1> QED
  BY <1>1 DEF CompanyData

\* The dataset has the prospect's row last, and no other by its identifier or name.
LEMMA FirstOfDataset ==
  ASSUME company \in Companies, NEW P,
         P \in SUBSET DOMAIN Dataset(company), P \cap DOMAIN Rows = {}
  PROVE  FirstOf(Dataset(company), P) = IF P = {} THEN NullFirm ELSE FirmOf(company.row)
<1> DEFINE last == Len(Rows) + 1
<1>1. Rows \in Seq(DatasetRows) /\ company.row \in DatasetRows
  BY CompanyTypes, ProspectingAssumption DEF ProspectingAssumption
<1>2. DOMAIN Dataset(company) = DOMAIN Rows \cup {last} /\ Dataset(company)[last] = company.row
  BY <1>1 DEF Dataset
<1>3. last \in Int
  BY <1>1
<1>4. CASE P # {}
  <2>1. P = {last}
    BY <1>2, <1>4
  <2>2. Min(P) = last
    BY <1>3, <2>1 DEF Min
  <2> QED
    BY <1>2, <1>4, <2>2 DEF FirstOf
<1> QED
  BY <1>4 DEF FirstOf

\* What is known of the company is its row, if the look-up finds it, or nothing.
LEMMA FirmIs ==
  ASSUME company \in Companies
  PROVE  Firm(company) = IF Listed THEN FirmOf(company.row) ELSE NullFirm
<1> DEFINE rows == Dataset(company)
           p == company.prospect
           last == Len(Rows) + 1
           byId == {i \in DOMAIN rows : p.company \in {rows[i].id, rows[i].uuid}}
           byName == {i \in DOMAIN rows : rows[i].name = p.closest}
<1>1. /\ Rows \in Seq(DatasetRows) /\ company.row \in DatasetRows
      /\ p.company \in STRING /\ p.name \in STRING
  BY CompanyTypes, ProspectingAssumption DEF ProspectingAssumption
<1>2. /\ DOMAIN rows = DOMAIN Rows \cup {last} /\ rows[last] = company.row /\ last \notin DOMAIN Rows
      /\ \A i \in DOMAIN Rows : rows[i] = Rows[i]
  BY <1>1 DEF Dataset
<1>3. byId \cap DOMAIN Rows = {} /\ (byId = {} => byName \cap DOMAIN Rows = {})
  BY <1>2, ProspectingAssumption DEF ProspectingAssumption
<1>4. /\ byId = {} <=> p.company \notin {company.row.id, company.row.uuid}
      /\ byId = {} => (byName = {} <=> company.row.name # p.closest)
  BY <1>2, <1>3
<1>5. /\ FirstOf(rows, byId) = IF byId = {} THEN NullFirm ELSE FirmOf(company.row)
      /\ byId = {} => FirstOf(rows, byName) = IF byName = {} THEN NullFirm ELSE FirmOf(company.row)
  BY <1>3, FirstOfDataset
<1>6. FirmOf(company.row).name # None /\ NullFirm.name = None
  <2>1. company.row.name \in STRING
    BY <1>1 DEF DatasetRows
  <2> QED
    BY <2>1, NoneIsNone DEF FirmOf, NullFirm
<1>7. Firm(company) = IF FirstOf(rows, byId).name = None /\ p.name # p.company
                      THEN FirstOf(rows, byName) ELSE FirstOf(rows, byId)
  BY DEF Firm, LookUp
<1> HIDE DEF rows, byId, byName
<1> QED
  BY <1>4, <1>5, <1>6, <1>7 DEF Listed

\* What is read of a company that was found, and of one that was not.
LEMMA FirmFields ==
  ASSUME company \in Companies
  PROVE  LET firm == Firm(company) IN
         /\ firm.website <=> (Listed /\ company.row.website)
         /\ firm.hires = IF Listed THEN company.row.hires ELSE <<>>
         /\ firm.rounds = IF Listed THEN company.row.rounds ELSE <<>>
         /\ firm.tech = IF Listed THEN company.row.tech ELSE {}
         /\ firm.sectors = IF Listed THEN company.row.sectors ELSE {}
         /\ firm.empMin = Band[1] /\ firm.empMax = Band[2]
         /\ Listed => firm.id = company.row.id /\ firm.name = company.row.name
<1>1. company.row \in DatasetRows
  BY CompanyTypes
<1>2. company.row.website \in BOOLEAN /\ Listed \in BOOLEAN
  BY <1>1 DEF DatasetRows, Listed
<1>3. CASE Listed
  <2>1. Firm(company) = FirmOf(company.row)
    BY <1>3, FirmIs
  <2>2. Headcount(company.row.band) = Band
    BY <1>3 DEF Headcount, Band
  <2> QED
    BY <1>2, <1>3, <2>1, <2>2 DEF FirmOf
<1>4. CASE ~Listed
  <2>1. Firm(company) = NullFirm
    BY <1>4, FirmIs
  <2>2. Band = <<None, None>>
    BY <1>4 DEF Band
  <2>3. /\ ~NullFirm.website /\ NullFirm.hires = <<>> /\ NullFirm.rounds = <<>> /\ NullFirm.tech = {}
        /\ NullFirm.sectors = {} /\ NullFirm.empMin = None /\ NullFirm.empMax = None
    BY DEF NullFirm
  <2>4. Band[1] = None /\ Band[2] = None
    BY <2>2
  <2> HIDE DEF Listed, Band
  <2> QED
    BY <1>4, <2>1, <2>3, <2>4
<1> QED
  BY <1>3, <1>4

-----------------------------------------------------------------------------
(* The pages *)

\* A page gives a number if it shows a job.
LEMMA BoardGives ==
  ASSUME NEW page \in Pages
  PROVE  /\ BoardResult(page).count # None <=> page.cards # None /\ page.cards > 0
         /\ BoardResult(page).count # None =>
              BoardResult(page).count = page.cards /\ page.cards \in Nat \ {0}
<1>1. page.cards \in Nat \/ page.cards = None
  BY DEF Pages
<1>2. None \notin Int
  BY NoneIsNone
<1> QED
  BY <1>1, <1>2 DEF BoardResult

\* The careers pages give what the first that shows a job does.
LEMMA CareersGive ==
  ASSUME NEW pages \in Seq(Pages)
  PROVE  LET shown == Shown(pages) IN
         /\ CareersResult(pages).count # None <=> shown # {}
         /\ shown # {} => /\ Min(shown) \in DOMAIN pages
                          /\ CareersResult(pages).count = pages[Min(shown)].cards
                          /\ pages[Min(shown)].cards \in Nat \ {0}
<1> DEFINE counted == {i \in DOMAIN pages : BoardResult(pages[i]).count # None}
<1>1. \A i \in DOMAIN pages : pages[i] \in Pages
  OBVIOUS
<1>2. Shown(pages) = counted
  BY <1>1, BoardGives DEF Shown
<1>3. CASE counted = {}
  BY <1>2, <1>3 DEF CareersResult
<1>4. CASE counted # {}
  <2>1. IsFiniteSet(counted) /\ counted \in SUBSET Int
    BY PositionsAreFinite
  <2>2. Min(counted) \in counted
    <3> HIDE DEF counted
    <3> QED
      BY <1>4, <2>1, LeastIsMember
  <2>3. CareersResult(pages) = BoardResult(pages[Min(counted)])
    BY <1>4 DEF CareersResult
  <2>4. Min(counted) \in DOMAIN pages /\ BoardResult(pages[Min(counted)]).count # None
    BY <2>2
  <2>5. BoardResult(pages[Min(counted)]).count = pages[Min(counted)].cards
        /\ pages[Min(counted)].cards \in Nat \ {0}
    BY <1>1, <2>4, BoardGives
  <2> HIDE DEF counted
  <2> QED
    BY <1>2, <1>4, <2>3, <2>4, <2>5
<1> QED
  BY <1>3, <1>4

\* Whom the scraper asks, and what it is told.
Asked == IF Firm(company).website THEN Sources ELSE Sources \ {"careers"}

Results ==
  [s \in Asked |-> IF s = "careers" THEN CareersResult(company.site.careers)
                   ELSE BoardResult(company.site[s])]

\* The scraper's sources and numbers are those the pages show.
LEMMA ResultsAreAnswers ==
  ASSUME company \in Companies
  PROVE  /\ Answered(Results) = DOMAIN Answers
         /\ DOMAIN Answers \subseteq Sources
         /\ \A s \in DOMAIN Answers : /\ Results[s].count = Answers[s]
                                      /\ Answers[s] \in Nat \ {0}
<1> DEFINE site == company.site
           careers == Shown(site.careers)
           Cards(s) == CASE s # "careers"                   -> company.site[s].cards
                         [] s = "careers" /\ careers # {}   -> site.careers[Min(careers)].cards
                         [] s = "careers" /\ careers = {}   -> None
           Shows(s) == Cards(s) # None /\ Cards(s) > 0
<1>1. /\ site.builtin \in Pages /\ site.wellfound \in Pages /\ site.careers \in Seq(Pages)
  BY CompanyTypes
<1>2. Asked = IF Listed /\ company.row.website THEN Sources ELSE Sources \ {"careers"}
  BY FirmFields DEF Asked
<1>3. Asked \subseteq Sources
  BY <1>2
<1>4. Answers = [s \in {t \in Asked : Shows(t)} |-> Cards(s)]
  BY <1>2 DEF Answers
<1>5. /\ Cards("builtin") = site.builtin.cards /\ Cards("wellfound") = site.wellfound.cards
      /\ Cards("careers") = IF careers # {} THEN site.careers[Min(careers)].cards ELSE None
  BY DEF Sources
<1>6. ASSUME NEW s \in Asked
      PROVE  /\ Results[s].count # None <=> Shows(s)
             /\ Shows(s) => Results[s].count = Cards(s) /\ Cards(s) \in Nat \ {0}
  <2>1. CASE s = "builtin"
    BY <1>1, <1>5, <2>1, BoardGives DEF Results
  <2>2. CASE s = "wellfound"
    BY <1>1, <1>5, <2>2, BoardGives DEF Results
  <2>3. CASE s = "careers"
    <3>1. Results[s].count = CareersResult(site.careers).count
      BY <2>3 DEF Results
    <3>2. Cards(s) = IF careers # {} THEN site.careers[Min(careers)].cards ELSE None
      BY <1>5, <2>3
    <3> HIDE DEF Cards
    <3> QED
      BY <1>1, <3>1, <3>2, CareersGive
  <2> QED
    BY <1>3, <2>1, <2>2, <2>3 DEF Sources
<1>7. DOMAIN Results = Asked
  BY DEF Results
<1> HIDE DEF Cards
<1> QED
  BY <1>3, <1>4, <1>6, <1>7 DEF Answered

\* The number of open roles is the pages', and so is how far it can be trusted.
LEMMA PostsAre ==
  ASSUME company \in Companies
  PROVE  LET posts == Posts(company) IN
         /\ posts.count = IF DOMAIN Answers = {} THEN None ELSE OpenRoles
         /\ posts.velocity = None
         /\ OpenRoles \in Nat
         /\ OpenRoles = 0 <=> DOMAIN Answers = {}
         /\ DOMAIN Answers = {} => posts.confidence = None
         /\ posts.confidence \in Sure => Cardinality(DOMAIN Answers) >= 2
<1> DEFINE told == DOMAIN Answers
           Number(s) == IF s \in told THEN Answers[s] ELSE 0
<1>1. /\ Posts(company).count = TotalCount(Results) /\ Posts(company).velocity = None
      /\ Posts(company).confidence = PostConfidence(Results)
  BY DEF Posts, Scrape, Results, Asked
<1>2. Answered(Results) = told /\ told \subseteq Sources
  BY ResultsAreAnswers
<1>3. \A s \in told : Results[s].count = Answers[s] /\ Answers[s] \in Nat \ {0}
  BY ResultsAreAnswers
<1>4. /\ Number("builtin") \in Nat /\ Number("wellfound") \in Nat /\ Number("careers") \in Nat
      /\ told = {} <=> Number("builtin") = 0 /\ Number("wellfound") = 0 /\ Number("careers") = 0
  BY <1>2, <1>3 DEF Sources
<1>5. OpenRoles = Number("builtin") + Number("wellfound") + Number("careers")
  BY DEF OpenRoles
<1>6. OpenRoles \in Nat /\ (OpenRoles = 0 <=> told = {})
  <2> HIDE DEF Number, told
  <2> QED
    BY <1>4, <1>5
<1>7. TotalCount(Results) = IF told = {} THEN None ELSE OpenRoles
  BY <1>2, <1>3, <1>5 DEF TotalCount
<1>8. Cardinality(told) \in 0..3 /\ (told = {} => Cardinality(told) = 0)
  <2>1. IsFiniteSet(Sources) /\ Cardinality(Sources) <= 3
    <3>1. IsFiniteSet({"builtin"}) /\ Cardinality({"builtin"}) = 1
      BY FS_Singleton
    <3>2. /\ IsFiniteSet({"builtin"} \cup {"wellfound"})
          /\ Cardinality({"builtin"} \cup {"wellfound"}) = 2
      BY <3>1, FS_AddElement
    <3>3. /\ IsFiniteSet(({"builtin"} \cup {"wellfound"}) \cup {"careers"})
          /\ Cardinality(({"builtin"} \cup {"wellfound"}) \cup {"careers"}) = 3
      BY <3>2, FS_AddElement
    <3>4. Sources = ({"builtin"} \cup {"wellfound"}) \cup {"careers"}
      BY DEF Sources
    <3> QED
      BY <3>3, <3>4
  <2>2. Cardinality(told) <= Cardinality(Sources) /\ Cardinality(told) \in Nat
        /\ Cardinality(Sources) \in Nat
    BY <1>2, <2>1, FS_Subset, FS_CardinalityType
  <2>3. Cardinality({}) = 0
    BY FS_EmptySet
  <2> HIDE DEF told
  <2> QED
    BY <2>1, <2>2, <2>3
<1>9. /\ told = {} => PostConfidence(Results) = None
      /\ PostConfidence(Results) \in Sure => Cardinality(told) >= 2
  <2>1. PostConfidence(Results) =
          CASE Cardinality(told) = 0 -> None [] Cardinality(told) = 1 -> "low"
            [] Cardinality(told) = 2 -> "medium" [] Cardinality(told) = 3 -> "high"
    BY <1>2 DEF PostConfidence
  <2>2. None \notin Sure /\ "low" \notin Sure
    <3>1. "low" \notin Sure /\ Sure \subseteq Texts
      BY DEF Sure, Texts, Words
    <3> QED
      BY <3>1, NoneIsNone
  <2> HIDE DEF told
  <2>3. CASE Cardinality(told) = 0
    BY <2>1, <2>2, <2>3
  <2>4. CASE Cardinality(told) = 1
    BY <1>8, <2>1, <2>2, <2>4
  <2> QED
    BY <1>8, <2>3, <2>4
<1> QED
  BY <1>1, <1>6, <1>7, <1>9

-----------------------------------------------------------------------------
(* The events *)

\* The newest row that counts: what a fetcher makes its event of.
LEMMA NewestCounts ==
  ASSUME NEW X, NEW rows \in Seq(X), NEW chosen \in SUBSET DOMAIN rows,
         \A i \in chosen : rows[i].age \in Int
  PROVE  \/ chosen = {} /\ Newest(rows, chosen) = None /\ Youngest(rows, chosen) = {}
         \/ \E i \in chosen : Newest(rows, chosen) = rows[i] /\ Youngest(rows, chosen) = {i}
<1> DEFINE dated == {i \in chosen : rows[i].age # None}
<1>1. dated = chosen
  BY NoneIsNone
<1>2. \A i \in chosen : rows[i].age \in Known(Int)
  OBVIOUS
<1>3. \/ dated = {} /\ Newest(rows, dated) = None /\ Youngest(rows, chosen) = {}
      \/ \E i \in dated : Newest(rows, dated) = rows[i] /\ Youngest(rows, chosen) = {i}
  BY <1>2, NewestIsYoungest
<1> HIDE DEF dated
<1> QED
  BY <1>1, <1>3

\* A change of leadership is detected if and only if there is one, and is always sure.
LEMMA LeadersAre ==
  ASSUME company \in Companies
  PROVE  LET event == Leadership(Firm(company).hires) IN
         /\ event # None <=> NewLeaders # {}
         /\ event # None => event.age \in 0..90 /\ event.confidence = "high"
<1> DEFINE hires == Firm(company).hires
           Counts(h) == Role(h.label) # None /\ Dated(h) /\ InWindow(h.age)
           chosen == {i \in DOMAIN hires : Counts(hires[i])}
           newest == Newest(hires, chosen)
<1>1. hires = IF Listed THEN company.row.hires ELSE <<>>
  BY FirmFields
<1>2. hires \in Seq(Hires)
  <2>1. company.row.hires \in Seq(Hires)
    BY CompanyTypes DEF DatasetRows
  <2> QED
    BY <1>1, <2>1
<1>3. \A i \in DOMAIN hires : hires[i] \in Hires
  BY <1>2
<1>4. \A h \in Hires : Counts(h) <=> /\ h.label \cap {"cto", "vp engineering"} # {}
                                     /\ h.age # None /\ h.age \in 0..90
  <2>1. None # "CTO" /\ None # "VP Engineering"
    BY NoneIsNone DEF Words
  <2>2. \A h \in Hires : Role(h.label) # None <=> h.label \cap {"cto", "vp engineering"} # {}
    BY <2>1 DEF Role
  <2> QED
    BY <2>2 DEF Dated, InWindow, LeadershipWindow
<1>5. NewLeaders = chosen
  <2>1. CASE Listed
    <3>1. hires = company.row.hires
      BY <1>1, <2>1
    <3> QED
      BY <1>3, <1>4, <2>1, <3>1 DEF NewLeaders
  <2>2. CASE ~Listed
    <3>1. DOMAIN hires = {}
      BY <1>1, <2>2
    <3> QED
      BY <2>2, <3>1 DEF NewLeaders
  <2> QED
    BY <2>1, <2>2
<1>6. Leadership(hires) = IF newest = None THEN None
                          ELSE [role |-> Role(newest.label), age |-> newest.age, confidence |-> "high"]
  BY DEF Leadership
<1>7. CASE chosen = {}
  <2>1. newest = None
    BY <1>7 DEF Newest
  <2> QED
    BY <1>5, <1>6, <1>7, <2>1
<1>8. CASE chosen # {}
  <2>1. \A i \in chosen : hires[i].age \in Int /\ hires[i].age \in 0..90 /\ hires[i].label \in SUBSET STRING
    BY <1>3, <1>4 DEF Hires
  <2>2. PICK i \in chosen : newest = hires[i]
    <3> HIDE DEF chosen, hires
    <3>1. chosen \in SUBSET DOMAIN hires
      BY DEF chosen
    <3> QED
      BY <1>2, <1>8, <2>1, <3>1, NewestCounts
  <2>3. newest # None
    BY <1>3, <2>2, NoneIsNone
  <2>4. Role(newest.label) \in Texts
    BY <2>2 DEF Role, Texts, Words
  <2>5. [role |-> Role(newest.label), age |-> newest.age, confidence |-> "high"] \in LeadershipEvents
    BY <2>1, <2>2, <2>4 DEF LeadershipEvents, Texts, Words
  <2>6. Leadership(hires) # None
    BY <1>6, <2>3, <2>5, NoneIsNone
  <2> HIDE DEF newest, chosen
  <2> QED
    BY <1>5, <1>6, <1>8, <2>1, <2>2, <2>3, <2>6
<1> QED
  BY <1>7, <1>8

LEMMA RoundTypeIsText ==
  ASSUME NEW title \in Seq(STRING)
  PROVE  /\ RoundType(title) \in Known(Texts)
         /\ title = <<>> => RoundType(title) = None
<1>1. \A t \in DOMAIN RoundNames : RoundNames[t] \in Texts
  BY DEF RoundNames, Texts, Words
<1>2. title # <<>> => title[1] \in Texts
  BY DEF Texts
<1> QED
  BY <1>1, <1>2 DEF RoundType

\* The criteria as the setting has them asked.
RecentNow == RecentRounds(~ignoreDates)
RestructuringNow == Restructuring(~ignoreDates)
FundedNow == Funded(~ignoreDates, IF ignoreDates THEN 0 ELSE 5)

\* The round fetched is the latest that counts.
LEMMA RoundsAre ==
  ASSUME company \in Companies, ignoreDates \in BOOLEAN
  PROVE  LET event == Funding(Firm(company).rounds, ignoreDates) IN
         \/ event = None /\ (Listed => RecentNow = {})
         \/ /\ Listed
            /\ event # None
            /\ \E i \in RecentNow :
                 LET r == company.row.rounds[i] IN
                 /\ RecentNow = {i}
                 /\ r.title \in Seq(STRING) /\ r.amount \in Known(Nat)
                 /\ event.type = RoundType(r.title)
                 /\ event.amount = r.amount
                 /\ event.age = r.age /\ event.age \in Int
                 /\ ~ignoreDates => event.age \in 0..180
                 /\ event.confidence = IF r.amount # None THEN "high" ELSE "medium"
<1> DEFINE rounds == Firm(company).rounds
           Counts(r) == Dated(r) /\ (ignoreDates \/ r.age \in 0..FundingWindow)
           chosen == {i \in DOMAIN rounds : Counts(rounds[i])}
           newest == Newest(rounds, chosen)
           event == [type |-> RoundType(newest.title), amount |-> newest.amount, age |-> newest.age,
                     confidence |-> IF newest.amount # None THEN "high" ELSE "medium"]
<1>1. rounds = IF Listed THEN company.row.rounds ELSE <<>>
  BY FirmFields
<1>2. rounds \in Seq(Rounds)
  <2>1. company.row.rounds \in Seq(Rounds)
    BY CompanyTypes DEF DatasetRows
  <2> QED
    BY <1>1, <2>1
<1>3. \A i \in DOMAIN rounds : rounds[i] \in Rounds
  BY <1>2
<1>4. \A i \in chosen : rounds[i].age \in Int
  BY <1>3 DEF Dated, Rounds
<1>5. Funding(rounds, ignoreDates) = IF newest = None THEN None ELSE event
  BY DEF Funding
<1>6. \/ chosen = {} /\ newest = None /\ Youngest(rounds, chosen) = {}
      \/ \E i \in chosen : newest = rounds[i] /\ Youngest(rounds, chosen) = {i}
  <2>1. chosen \in SUBSET DOMAIN rounds
    OBVIOUS
  <2> HIDE DEF chosen, rounds
  <2> QED
    BY <1>2, <1>4, <2>1, NewestCounts
<1>7. Listed => RecentNow = Youngest(rounds, chosen)
  <2> SUFFICES ASSUME Listed PROVE RecentNow = Youngest(rounds, chosen)
    OBVIOUS
  <2>1. rounds = company.row.rounds
    BY <1>1
  <2> DEFINE recent == {i \in DOMAIN rounds :
                          ~ignoreDates => rounds[i].age # None /\ rounds[i].age \in 0..180}
  <2>2. RecentNow = Youngest(rounds, recent)
    BY <2>1 DEF RecentNow, RecentRounds
  <2>3. chosen = {i \in recent : rounds[i].age # None}
    BY DEF Dated, FundingWindow
  <2>4. Youngest(rounds, recent) = Youngest(rounds, {i \in recent : rounds[i].age # None})
    BY DEF Youngest
  <2> QED
    BY <2>2, <2>3, <2>4
<1>8. CASE chosen = {}
  <2>1. newest = None
    BY <1>8 DEF Newest
  <2>2. Listed => RecentNow = {}
    BY <1>6, <1>7, <1>8
  <2> HIDE DEF newest, rounds
  <2> QED
    BY <1>5, <2>1, <2>2 DEF rounds
<1>9. CASE chosen # {}
  <2>1. PICK i \in chosen : newest = rounds[i] /\ Youngest(rounds, chosen) = {i}
    BY <1>6, <1>9
  <2>2. Listed /\ rounds = company.row.rounds
    BY <1>1, <1>9
  <2>3. newest \in Rounds /\ newest # None
    BY <1>3, <2>1, NoneIsNone
  <2>4. newest.title \in Seq(STRING) /\ newest.amount \in Known(Nat) /\ newest.age \in Int
    BY <1>4, <2>1, <2>3 DEF Rounds
  <2>5. event \in FundingEvents
    BY <2>4, RoundTypeIsText DEF FundingEvents, Texts, Words
  <2>6. event # None
    BY <2>5, NoneIsNone
  <2>7. ~ignoreDates => newest.age \in 0..180
    BY <2>1 DEF FundingWindow
  <2>8. RecentNow = {i}
    BY <1>7, <2>1, <2>2
  <2>9. newest = company.row.rounds[i]
    BY <2>1, <2>2
  <2>10. Funding(rounds, ignoreDates) = event
    BY <1>5, <2>3
  <2> HIDE DEF newest, rounds, chosen
  <2> QED
    BY <2>2, <2>4, <2>6, <2>7, <2>8, <2>9, <2>10 DEF rounds
<1> QED
  BY <1>8, <1>9

\* The positions of the layoff rows taken for the company's.
OwnLayoffs == {i \in DOMAIN company.layoffs : company.layoffs[i].company \in Similar}

\* The layoff scanned is the youngest row taken for the company's, if it counts.
LEMMA LayoffsAre ==
  ASSUME company \in Companies, ignoreDates \in BOOLEAN
  PROVE  LET row == Layoff(company.layoffs, Similar, ignoreDates)
             Counts(i) == ignoreDates \/ company.layoffs[i].age <= 120
         IN \/ row = None /\ \A i \in Youngest(company.layoffs, OwnLayoffs) : ~Counts(i)
            \/ /\ row # None /\ row \in LayoffRows /\ row.age \in Int
               /\ \E i \in DOMAIN company.layoffs :
                    /\ Youngest(company.layoffs, OwnLayoffs) = {i}
                    /\ Counts(i)
                    /\ row = company.layoffs[i]
<1> DEFINE rows == company.layoffs
           chosen == {i \in DOMAIN rows : LayoffCounts(rows[i], Similar, ignoreDates)}
           row == Newest(rows, chosen)
<1>1. rows \in Seq(LayoffRows) /\ \A i \in DOMAIN rows : rows[i] \in LayoffRows
  BY CompanyTypes
<1>2. \A i \in DOMAIN rows : rows[i].age \in Known(Int)
  BY <1>1 DEF LayoffRows
<1>3. chosen = {i \in OwnLayoffs : rows[i].age # None /\ (ignoreDates \/ rows[i].age <= 120)}
  BY DEF LayoffCounts, OwnLayoffs, Dated, LayoffWindow
<1>4. \A i \in chosen : rows[i].age \in Int
  BY <1>2, <1>3
<1>5. \/ chosen = {} /\ row = None /\ Youngest(rows, chosen) = {}
      \/ \E i \in chosen : row = rows[i] /\ Youngest(rows, chosen) = {i}
  <2>1. chosen \in SUBSET DOMAIN rows
    OBVIOUS
  <2> HIDE DEF chosen, rows
  <2> QED
    BY <1>1, <1>4, <2>1, NewestCounts
<1>6. Layoff(rows, Similar, ignoreDates) = row
  BY DEF Layoff
<1>7. CASE chosen = {}
  <2>1. \A i \in Youngest(rows, OwnLayoffs) : ~(ignoreDates \/ rows[i].age <= 120)
    BY <1>3, <1>7 DEF Youngest
  <2> QED
    BY <1>5, <1>6, <1>7, <2>1
<1>8. CASE chosen # {}
  <2>1. PICK i \in chosen : row = rows[i] /\ Youngest(rows, chosen) = {i}
    BY <1>5, <1>8
  <2>2. i \in DOMAIN rows /\ i \in OwnLayoffs /\ rows[i].age \in Int
        /\ (ignoreDates \/ rows[i].age <= 120)
    BY <1>3, <1>4, <2>1
  <2>3. \A j \in OwnLayoffs : rows[j].age # None =>
          rows[i].age < rows[j].age \/ (rows[i].age = rows[j].age /\ i <= j)
    <3> SUFFICES ASSUME NEW j \in OwnLayoffs, rows[j].age # None
                 PROVE  rows[i].age < rows[j].age \/ (rows[i].age = rows[j].age /\ i <= j)
      OBVIOUS
    <3>1. rows[j].age \in Int
      BY <1>2 DEF OwnLayoffs
    <3>2. CASE j \in chosen
      <4>1. i \in Youngest(rows, chosen)
        BY <2>1
      <4> HIDE DEF chosen
      <4> QED
        BY <3>2, <4>1 DEF Youngest
    <3>3. CASE j \notin chosen
      <4>1. ~ignoreDates /\ ~(rows[j].age <= 120)
        BY <1>3, <3>3
      <4> QED
        BY <2>2, <3>1, <4>1
    <3> QED
      BY <3>2, <3>3
  <2>4. i \in Youngest(rows, OwnLayoffs)
    BY <2>2, <2>3, NoneIsNone DEF Youngest
  <2>5. ASSUME NEW k \in Youngest(rows, OwnLayoffs)
        PROVE  k = i
    <3>1. k \in DOMAIN rows /\ k \in OwnLayoffs /\ rows[k].age # None
      BY <2>5 DEF Youngest, OwnLayoffs
    <3>2. rows[k].age < rows[i].age \/ (rows[k].age = rows[i].age /\ k <= i)
      BY <2>2, <2>5, NoneIsNone DEF Youngest
    <3>3. rows[i].age < rows[k].age \/ (rows[i].age = rows[k].age /\ i <= k)
      BY <2>3, <3>1
    <3>4. rows[k].age \in Int /\ k \in Int /\ i \in Int
      BY <1>1, <1>2, <2>2, <3>1
    <3> QED
      BY <2>2, <3>2, <3>3, <3>4
  <2>6. Youngest(rows, OwnLayoffs) = {i}
    BY <2>4, <2>5
  <2>7. row \in LayoffRows /\ row # None
    BY <1>1, <2>1, <2>2, NoneIsNone
  <2> HIDE DEF row, chosen
  <2> QED
    BY <1>6, <2>1, <2>2, <2>6, <2>7
<1> QED
  BY <1>7, <1>8

-----------------------------------------------------------------------------
(* The brief *)

Leaders(c) == Leadership(Firm(c).hires)

ScoreOf(c) == Maturity(Signals(Firm(c), Posts(c), Leaders(c)))

\* The brief as it is assembled, and as it is once the company is assessed.
Raw(c, dates) ==
  Assemble(Firm(c), Layoff(c.layoffs, Similar, dates), Posts(c), Leaders(c),
           Funding(Firm(c).rounds, dates), ScoreOf(c), Bench)

Rating(c, dates) == Classify(Raw(c, dates), ConfigOf(Raw(c, dates), dates))

Rated(c, dates) ==
  [Raw(c, dates) EXCEPT !.segment = Rating(c, dates).segment,
                        !.confidence = Rating(c, dates).confidence,
                        !.mismatch = BenchMismatch(Raw(c, dates).stack, Bench)]

\* The assessment changes three fields.
LEMMA AssessedFields ==
  ASSUME NEW firm, NEW layoff, NEW posts, NEW leadership, NEW funding, NEW maturity,
         NEW segment, NEW confidence, NEW mismatch
  PROVE  LET raw == Assemble(firm, layoff, posts, leadership, funding, maturity, Bench)
             rated == [raw EXCEPT !.segment = segment, !.confidence = confidence,
                                  !.mismatch = mismatch]
         IN /\ raw.stack = TechStack(firm, posts) /\ raw.funding = FundingEvent(funding)
            /\ raw.layoff = LayoffEvent(layoff) /\ raw.leadership = leadership
            /\ raw.hiring = HiringVelocity(posts) /\ raw.posts = posts.count
            /\ raw.velocity = posts.velocity /\ raw.postConfidence = posts.confidence
            /\ raw.score = maturity.score /\ raw.maturityConfidence = maturity.confidence
            /\ raw.empMin = firm.empMin /\ raw.empMax = firm.empMax /\ raw.segment = None
            /\ rated.funding = raw.funding /\ rated.layoff = raw.layoff
            /\ rated.hiring = raw.hiring /\ rated.posts = raw.posts
            /\ rated.velocity = raw.velocity /\ rated.postConfidence = raw.postConfidence
            /\ rated.score = raw.score /\ rated.maturityConfidence = raw.maturityConfidence
            /\ rated.segment = segment /\ rated.mismatch = mismatch
BY DEF Assemble

LEMMA RawFields ==
  ASSUME NEW c, NEW dates
  PROVE  LET raw == Raw(c, dates)
             rated == Rated(c, dates)
         IN /\ raw.stack = TechStack(Firm(c), Posts(c))
            /\ raw.funding = FundingEvent(Funding(Firm(c).rounds, dates))
            /\ raw.layoff = LayoffEvent(Layoff(c.layoffs, Similar, dates))
            /\ raw.leadership = Leaders(c)
            /\ raw.hiring = HiringVelocity(Posts(c)) /\ raw.posts = Posts(c).count
            /\ raw.velocity = Posts(c).velocity /\ raw.postConfidence = Posts(c).confidence
            /\ raw.score = ScoreOf(c).score /\ raw.maturityConfidence = ScoreOf(c).confidence
            /\ raw.empMin = Firm(c).empMin /\ raw.empMax = Firm(c).empMax /\ raw.segment = None
            /\ rated.funding = raw.funding /\ rated.layoff = raw.layoff
            /\ rated.hiring = raw.hiring /\ rated.posts = raw.posts
            /\ rated.velocity = raw.velocity /\ rated.postConfidence = raw.postConfidence
            /\ rated.score = raw.score /\ rated.maturityConfidence = raw.maturityConfidence
            /\ rated.segment = Rating(c, dates).segment
            /\ rated.mismatch = BenchMismatch(raw.stack, Bench)
BY AssessedFields DEF Raw, Rated

-----------------------------------------------------------------------------
(* The segments *)

\* What the classifier is told of open roles and of the company's size.
LEMMA ConfigIs ==
  ASSUME company \in Companies
  PROVE  LET config == ConfigOf(Raw(company, ignoreDates), ignoreDates) IN
         /\ config.roles = IF DOMAIN Answers = {} THEN None ELSE OpenRoles
         /\ config.ignoreDates = ignoreDates
         /\ \A from, to : HeadcountFits(config, from, to) <=> SizeIn(from, to)
         /\ \A least \in Int : RolesFit(config, least) <=> DOMAIN Answers = {} \/ OpenRoles >= least
<1> DEFINE raw == Raw(company, ignoreDates)
           posts == Posts(company)
           config == ConfigOf(raw, ignoreDates)
<1>1. /\ raw.hiring = HiringVelocity(posts) /\ raw.posts = posts.count
      /\ raw.empMin = Band[1] /\ raw.empMax = Band[2]
  BY RawFields, FirmFields
<1>2. /\ posts.count = IF DOMAIN Answers = {} THEN None ELSE OpenRoles
      /\ posts.velocity = None /\ OpenRoles \in Nat
  BY PostsAre
<1>3. /\ config.empMin = Band[1] /\ config.empMax = Band[2] /\ config.ignoreDates = ignoreDates
      /\ config.roles = IF raw.hiring # None THEN raw.hiring.today ELSE raw.posts
  BY <1>1 DEF ConfigOf
<1>4. CASE DOMAIN Answers = {}
  <2>1. posts.count = None
    BY <1>2, <1>4
  <2>2. HiringVelocity(posts) = None
    BY <2>1 DEF HiringVelocity
  <2> QED
    BY <1>1, <1>3, <1>4, <2>1, <2>2 DEF HeadcountFits, RolesFit, SizeIn
<1>5. CASE DOMAIN Answers # {}
  <2>1. posts.count = OpenRoles /\ posts.count # None
    BY <1>2, <1>5, NoneIsNone
  <2>2. HiringVelocity(posts) = [today |-> OpenRoles, before |-> 0, label |-> "insufficient_signal"]
    BY <1>2, <2>1 DEF HiringVelocity
  <2>3. HiringVelocity(posts) \in Velocities
    BY <1>2, <2>2 DEF Velocities, Texts, Words
  <2>4. config.roles = OpenRoles /\ config.roles # None
    BY <1>1, <1>2, <1>3, <2>2, <2>3, NoneIsNone
  <2> QED
    BY <1>3, <1>5, <2>4 DEF HeadcountFits, RolesFit, SizeIn
<1> QED
  BY <1>4, <1>5

\* The layoff of the brief: its confidence tells how many of the two numbers are known.
LEMMA LayoffEventIs ==
  ASSUME NEW row \in LayoffRows, row.age \in Int
  PROVE  LET event == LayoffEvent(row) IN
         /\ event # None /\ event.age = row.age
         /\ event.headcount = row.headcount /\ event.percentage = row.percentage
         /\ event.confidence =
              CASE row.headcount # None /\ row.percentage # None -> "high"
                [] row.headcount = None /\ row.percentage = None -> "low"
                [] OTHER                                         -> "medium"
<1> DEFINE level == CASE row.headcount # None /\ row.percentage # None -> "high"
                      [] row.headcount = None /\ row.percentage = None -> "low"
                      [] OTHER                                         -> "medium"
           event == [age |-> row.age, headcount |-> row.headcount, percentage |-> row.percentage,
                     confidence |-> level]
<1>1. row # None
  BY NoneIsNone
<1>2. LayoffEvent(row) = event
  BY <1>1 DEF LayoffEvent
<1>3. level \in Texts
  BY DEF Texts, Words
<1>4. row.headcount \in Known(Nat) /\ row.percentage \in Known(Nat)
  BY DEF LayoffRows
<1>5. event \in LayoffEvents
  BY <1>3, <1>4 DEF LayoffEvents
<1>6. event # None
  BY <1>5, NoneIsNone
<1> HIDE DEF level
<1> QED
  BY <1>2, <1>6 DEF level

\* A restructuring is what earns segment 2.
LEMMA Segment2Is ==
  ASSUME company \in Companies, ignoreDates \in BOOLEAN
  PROVE  LET raw == Raw(company, ignoreDates) IN
         ScoreSegment2(raw, ConfigOf(raw, ignoreDates)) >= AbstentionThreshold <=> RestructuringNow
<1> DEFINE raw == Raw(company, ignoreDates)
           config == ConfigOf(raw, ignoreDates)
           row == Layoff(company.layoffs, Similar, ignoreDates)
           event == raw.layoff
           Counts(i) == ignoreDates \/ company.layoffs[i].age <= 120
           Numbered(i) == company.layoffs[i].headcount # None \/ company.layoffs[i].percentage # None
           young == Youngest(company.layoffs, OwnLayoffs)
           fits == SizeIn(200, 2000) /\ (DOMAIN Answers = {} \/ OpenRoles >= 3)
           cap == Lower(IF HeadcountKnown(config) THEN 100 ELSE 60,
                        IF config.roles = None THEN 65 ELSE 100)
<1>1. event = LayoffEvent(row)
  BY RawFields
<1>2. RestructuringNow <=> fits /\ \E i \in young : Counts(i) /\ Numbered(i)
  <2> DEFINE numbered == {i \in young : (~ignoreDates => company.layoffs[i].age <= 120) /\ Numbered(i)}
  <2>1. RestructuringNow <=> numbered # {} /\ SizeIn(200, 2000) /\ (DOMAIN Answers = {} \/ OpenRoles >= 3)
    BY Zenon DEF RestructuringNow, Restructuring, OwnLayoffs, RolesAtLeast
  <2>2. numbered = {i \in young : Counts(i) /\ Numbered(i)}
    <3> HIDE DEF young, Numbered
    <3> QED
      OBVIOUS
  <2> HIDE DEF young, Counts, Numbered
  <2> QED
    BY <2>1, <2>2
<1>3. /\ config.ignoreDates = ignoreDates
      /\ HeadcountFits(config, 200, 2000) <=> SizeIn(200, 2000)
      /\ RolesFit(config, 3) <=> DOMAIN Answers = {} \/ OpenRoles >= 3
  BY ConfigIs
<1>4. cap \in {60, 65, 100}
  BY DEF Lower
<1>5. CASE row = None
  <2>1. event = None
    BY <1>1, <1>5 DEF LayoffEvent
  <2>2. ScoreSegment2(raw, config) = 0
    BY <2>1 DEF ScoreSegment2
  <2>3. \A i \in young : ~Counts(i)
    BY <1>5, LayoffsAre
  <2> HIDE DEF raw, config, Counts, Numbered, young, fits
  <2>4. ~RestructuringNow /\ ~(ScoreSegment2(raw, config) >= AbstentionThreshold)
    BY <1>2, <2>2, <2>3 DEF AbstentionThreshold
  <2> QED
    BY <2>4 DEF raw, config
<1>6. CASE row # None
  <2>1. PICK i \in DOMAIN company.layoffs : young = {i} /\ Counts(i) /\ row = company.layoffs[i]
    BY <1>6, LayoffsAre
  <2>2. row \in LayoffRows /\ row.age \in Int
    BY <1>6, LayoffsAre
  <2>3. RestructuringNow <=> fits /\ Numbered(i)
    BY <1>2, <2>1
  <2>4. /\ event # None /\ event.age = row.age
        /\ event.confidence =
             CASE row.headcount # None /\ row.percentage # None -> "high"
               [] row.headcount = None /\ row.percentage = None -> "low"
               [] OTHER                                         -> "medium"
    BY <1>1, <2>2, LayoffEventIs
  <2>5. YoungerThan(event.age, 120) \/ ignoreDates
    BY <2>1, <2>4 DEF YoungerThan
  <2>6. ScoreSegment2(raw, config) =
          IF fits THEN Lower(LayoffConfidence(event.confidence), cap) ELSE 0
    BY <1>3, <2>4, <2>5 DEF ScoreSegment2
  <2>7. LayoffConfidence(event.confidence) = IF Numbered(i)
          THEN (IF row.headcount # None /\ row.percentage # None THEN 85 ELSE 65) ELSE 45
    BY <2>1, <2>4 DEF LayoffConfidence
  <2> HIDE DEF raw, config, event, Counts, Numbered, young, fits, cap, row
  <2>8. ScoreSegment2(raw, config) >= AbstentionThreshold <=> RestructuringNow
    BY <1>4, <2>3, <2>6, <2>7 DEF Lower, AbstentionThreshold
  <2> QED
    BY <2>8 DEF raw, config
<1> QED
  BY <1>5, <1>6

\* A new leader at a company of the size is what earns segment 3.
LEMMA Segment3Is ==
  ASSUME company \in Companies
  PROVE  LET raw == Raw(company, ignoreDates) IN
         ScoreSegment3(raw, ConfigOf(raw, ignoreDates)) >= AbstentionThreshold <=> NewLeadership
<1> DEFINE raw == Raw(company, ignoreDates)
           config == ConfigOf(raw, ignoreDates)
           event == raw.leadership
<1>1. /\ event # None <=> NewLeaders # {}
      /\ event # None => event.age \in 0..90 /\ event.confidence = "high"
  BY RawFields, LeadersAre DEF Leaders
<1>2. HeadcountFits(config, 50, 500) <=> SizeIn(50, 500)
  BY ConfigIs
<1>3. event # None => YoungerThan(event.age, 90) /\ EventConfidence(event.confidence) = 90
  BY <1>1 DEF YoungerThan, EventConfidence
<1>4. ScoreSegment3(raw, config) =
        IF event # None /\ SizeIn(50, 500)
        THEN Lower(90, IF HeadcountKnown(config) THEN 100 ELSE 70) ELSE 0
  BY <1>2, <1>3 DEF ScoreSegment3
<1> HIDE DEF raw, config, event
<1>5. ScoreSegment3(raw, config) >= AbstentionThreshold <=> NewLeadership
  BY <1>1, <1>4 DEF NewLeadership, Lower, AbstentionThreshold
<1> QED
  BY <1>5 DEF raw, config

\* The weighted sum and its thresholds: without a new leader the score stays below 2.
LEMMA ScoreIs ==
  ASSUME company \in Companies
  PROVE  /\ ScoreOf(company).score \in 0..3
         /\ ScoreOf(company).score >= 2 <=> Capability
         /\ ScoreOf(company).confidence \in {"low", "medium"}
         /\ ScoreOf(company).confidence = "medium" => DOMAIN Answers # {} /\ NewLeaders # {}
<1> DEFINE posts == Posts(company)
           modern == (posts.tech \cup Firm(company).tech) \cap ModernTools # {}
           signals == Signals(Firm(company), posts, Leaders(company))
           roles == RolesScore(signals.roles)
           sum == 3 * roles + (IF NewLeaders # {} THEN 300 ELSE 0) + (IF modern THEN 100 ELSE 0)
<1>1. /\ posts.count = IF DOMAIN Answers = {} THEN None ELSE OpenRoles
      /\ OpenRoles \in Nat /\ (OpenRoles = 0 <=> DOMAIN Answers = {})
  BY PostsAre
<1>2. Leaders(company) # None <=> NewLeaders # {}
  BY LeadersAre DEF Leaders
<1>3. modern <=> TechSeen \cap ModernTools # {}
  <2>1. TechSeen = posts.tech \cup Firm(company).tech
    BY FirmFields DEF TechSeen
  <2> QED
    BY <2>1
<1>4. /\ signals.roles = IF posts.count = None THEN None ELSE Lower(posts.count, 5)
      /\ signals.leadership = (Leaders(company) # None)
      /\ signals.stack = TrueOrNone(modern)
      /\ signals.github = None /\ signals.commentary = None /\ signals.communications = None
  BY DEF Signals, NoSignals
<1>5. /\ DOMAIN Answers = {} => signals.roles = None /\ roles = 0
      /\ DOMAIN Answers # {} => /\ signals.roles # None /\ signals.roles \in Int /\ signals.roles > 0
                                /\ roles = IF OpenRoles <= 2 THEN 30
                                           ELSE IF OpenRoles <= 4 THEN 60 ELSE 100
  <2>1. CASE DOMAIN Answers = {}
    BY <1>1, <1>4, <2>1, NoneIsNone DEF RolesScore
  <2>2. CASE DOMAIN Answers # {}
    <3>1. posts.count = OpenRoles /\ OpenRoles # None /\ OpenRoles > 0
      BY <1>1, <2>2, NoneIsNone
    <3>2. signals.roles = IF OpenRoles <= 5 THEN OpenRoles ELSE 5
      BY <1>4, <3>1 DEF Lower
    <3>3. signals.roles \in Int /\ signals.roles # None /\ signals.roles > 0
      BY <1>1, <3>1, <3>2, NoneIsNone
    <3> HIDE DEF signals, posts
    <3> QED
      BY <1>1, <2>2, <3>1, <3>2, <3>3 DEF RolesScore, roles
  <2> QED
    BY <2>1, <2>2
<1>6. /\ signals.leadership = TRUE <=> NewLeaders # {}
      /\ BoolScore(signals.leadership) = IF NewLeaders # {} THEN 100 ELSE 0
  <2>1. signals.leadership = TRUE <=> NewLeaders # {}
    BY <1>2, <1>4
  <2> QED
    BY <2>1 DEF BoolScore
<1>7. /\ BoolScore(signals.stack) = IF modern THEN 100 ELSE 0
      /\ BoolScore(signals.github) = 0 /\ BoolScore(signals.commentary) = 0
      /\ BoolScore(signals.communications) = 0
  <2>1. None # TRUE
    BY NoneIsNone
  <2>2. BoolScore(None) = 0 /\ BoolScore(TRUE) = 100
    BY <2>1 DEF BoolScore
  <2> HIDE DEF modern
  <2>3. signals.stack = IF modern THEN TRUE ELSE None
    BY <1>4 DEF TrueOrNone
  <2> HIDE DEF signals
  <2>4. BoolScore(signals.stack) = IF modern THEN 100 ELSE 0
    BY <2>2, <2>3
  <2> QED
    BY <1>4, <2>2, <2>4
<1>8. WeightedSum(signals) = sum
  <2> HIDE DEF modern, signals, posts
  <2> HIDE DEF roles
  <2>1. roles \in Int
    <3>1. CASE DOMAIN Answers = {}
      BY <1>5, <3>1
    <3>2. CASE DOMAIN Answers # {}
      BY <1>5, <3>2
    <3> QED
      BY <3>1, <3>2
  <2> QED
    BY <1>6, <1>7, <2>1 DEF WeightedSum, roles
<1>9. /\ ScoreOf(company).score = RatioScore(sum)
      /\ ScoreOf(company).confidence = MaturityConfidence(signals)
  BY <1>8 DEF ScoreOf, Maturity
<1>10. /\ RatioScore(sum) \in 0..3
       /\ RatioScore(sum) >= 2 <=> Capability
  <2> DEFINE leader == NewLeaders # {}
  <2>1. Capability <=> leader /\ (OpenRoles >= 5 \/ (OpenRoles >= 1 /\ modern))
    BY <1>3 DEF Capability
  <2>2. roles = IF OpenRoles = 0 THEN 0 ELSE IF OpenRoles <= 2 THEN 30
                ELSE IF OpenRoles <= 4 THEN 60 ELSE 100
    BY <1>1, <1>5
  <2>3. sum \in Int /\ RatioScore(sum) \in 0..3 /\ (RatioScore(sum) >= 2 <=> sum > 480)
    <3>1. sum \in Int
      BY <1>1, <2>2
    <3> HIDE DEF sum
    <3> QED
      BY <3>1 DEF RatioScore
  <2>4. sum > 480 <=> leader /\ (OpenRoles >= 5 \/ (OpenRoles >= 1 /\ modern))
    <3> HIDE DEF roles, modern, leader
    <3> QED
      BY <1>1, <2>2 DEF leader
  <2> HIDE DEF sum, leader, modern
  <2> QED
    BY <2>1, <2>3, <2>4
<1>11. /\ MaturityConfidence(signals) \in {"low", "medium"}
       /\ MaturityConfidence(signals) = "medium" => DOMAIN Answers # {} /\ NewLeaders # {}
  <2> HIDE DEF signals
  <2> QED
    BY <1>5, <1>6 DEF MaturityConfidence
<1> QED
  BY <1>9, <1>10, <1>11

LEMMA Segment4Is ==
  ASSUME company \in Companies
  PROVE  ScoreSegment4(Raw(company, ignoreDates)) >= AbstentionThreshold <=> Capability
<1>1. Raw(company, ignoreDates).score = ScoreOf(company).score
  BY RawFields
<1>2. ScoreOf(company).score \in {0, 1, 2, 3}
  BY ScoreIs
<1> QED
  BY <1>1, <1>2, ScoreIs DEF ScoreSegment4, AbstentionThreshold

\* A recent round of the right kind and amount is what earns segment 1.
LEMMA Segment1Is ==
  ASSUME company \in Companies, ignoreDates \in BOOLEAN
  PROVE  LET raw == Raw(company, ignoreDates) IN
         ScoreSegment1(raw, ConfigOf(raw, ignoreDates)) >= AbstentionThreshold <=> FundedNow
<1> DEFINE raw == Raw(company, ignoreDates)
           config == ConfigOf(raw, ignoreDates)
           fetched == Funding(Firm(company).rounds, ignoreDates)
           event == raw.funding
           Right(r) == /\ r.title # <<>> /\ RoundType(r.title) \in EarlyRounds
                       /\ r.amount # None /\ r.amount \in 5 * Million..30 * Million
           fits == SizeIn(15, 80) /\ (ignoreDates \/ DOMAIN Answers = {} \/ OpenRoles >= 5)
           rounds == company.row.rounds
           capped == ~HeadcountKnown(config) \/ config.roles = None
<1>1. event = FundingEvent(fetched)
  BY RawFields
<1>2. FundedNow <=> Listed /\ fits /\ \E i \in RecentNow : Right(rounds[i])
  BY PostsAre DEF FundedNow, Funded, RecentNow, RolesAtLeast
<1>3. /\ config.ignoreDates = ignoreDates
      /\ HeadcountFits(config, 15, 80) <=> SizeIn(15, 80)
      /\ RolesFit(config, 5) <=> DOMAIN Answers = {} \/ OpenRoles >= 5
  BY ConfigIs
<1>4. CASE ~(Listed /\ fetched # None)
  <2>1. fetched = None /\ (Listed => RecentNow = {})
    BY <1>4, RoundsAre
  <2>2. event = None
    BY <1>1, <2>1 DEF FundingEvent
  <2>3. ScoreSegment1(raw, config) = 0
    BY <2>2 DEF ScoreSegment1
  <2>4. ~FundedNow
    BY <1>2, <2>1
  <2> HIDE DEF raw, config
  <2> QED
    BY <2>3, <2>4 DEF AbstentionThreshold, raw, config
<1>5. CASE Listed /\ fetched # None
  <2>1. PICK i \in RecentNow :
          /\ RecentNow = {i}
          /\ rounds[i].title \in Seq(STRING) /\ rounds[i].amount \in Known(Nat)
          /\ fetched.type = RoundType(rounds[i].title)
          /\ fetched.amount = rounds[i].amount
          /\ fetched.age = rounds[i].age /\ fetched.age \in Int
          /\ ~ignoreDates => fetched.age \in 0..180
          /\ fetched.confidence = IF rounds[i].amount # None THEN "high" ELSE "medium"
    BY <1>5, RoundsAre
  <2>2. FundedNow <=> fits /\ Right(rounds[i])
    BY <1>2, <1>5, <2>1
  <2>3. Right(rounds[i]) <=> /\ fetched.type \in EarlyRounds
                             /\ fetched.amount # None /\ fetched.amount \in 5 * Million..30 * Million
    <3>1. rounds[i].title = <<>> => RoundType(rounds[i].title) = None
      BY <2>1, RoundTypeIsText
    <3>2. None \notin EarlyRounds
      BY NoneIsNone, EarlyRoundsAssumption DEF EarlyRoundsAssumption
    <3> QED
      BY <2>1, <3>1, <3>2
  <2>4. CASE fetched.type = None
    <3>1. event = None
      BY <1>1, <2>4 DEF FundingEvent
    <3>2. ScoreSegment1(raw, config) = 0
      BY <3>1 DEF ScoreSegment1
    <3>3. ~Right(rounds[i])
      <4>1. None \notin EarlyRounds
        BY NoneIsNone, EarlyRoundsAssumption DEF EarlyRoundsAssumption
      <4> HIDE DEF Right, fetched, rounds
      <4> QED
        BY <2>3, <2>4, <4>1
    <3> HIDE DEF raw, config, Right
    <3> QED
      BY <2>2, <3>2, <3>3 DEF AbstentionThreshold, raw, config
  <2>5. CASE fetched.type # None
    <3>1. event = fetched
      BY <1>1, <1>5, <2>5 DEF FundingEvent
    <3>2. event.age # None
      BY <2>1, <3>1, NoneIsNone
    <3>3. ~ignoreDates => event.age <= 180
      <4>1. ~ignoreDates => fetched.age \in 0..180
        BY <2>1
      <4> HIDE DEF event, fetched, rounds
      <4> QED
        BY <3>1, <4>1
    <3>4. ScoreSegment1(raw, config) =
            IF Right(rounds[i]) /\ fits
            THEN Lower(EventConfidence(event.confidence), IF capped THEN 70 ELSE 100) ELSE 0
      <4> DEFINE out == \/ event = None
                        \/ event.type \notin EarlyRounds
                        \/ event.amount = None \/ event.amount \notin 5 * Million..30 * Million
                        \/ ~config.ignoreDates /\ ~(event.age # None /\ event.age <= 180)
                        \/ ~HeadcountFits(config, 15, 80)
                        \/ ~config.ignoreDates /\ ~RolesFit(config, 5)
      <4>1. ScoreSegment1(raw, config) =
              IF out THEN 0 ELSE Lower(EventConfidence(event.confidence), IF capped THEN 70 ELSE 100)
        BY DEF ScoreSegment1
      <4>2. out <=> ~(Right(rounds[i]) /\ fits)
        <5> HIDE DEF raw, config, event, fetched, rounds, Right
        <5> QED
          BY <1>3, <1>5, <2>3, <3>1, <3>2, <3>3
      <4> HIDE DEF out
      <4> QED
        BY <4>1, <4>2
    <3>5. Right(rounds[i]) => EventConfidence(event.confidence) = 90
      BY <2>1, <3>1 DEF EventConfidence
    <3> HIDE DEF raw, config, event, fetched, rounds, Right, fits, capped
    <3>6. ScoreSegment1(raw, config) >= AbstentionThreshold <=> FundedNow
      BY <2>2, <3>4, <3>5 DEF Lower, AbstentionThreshold
    <3> QED
      BY <3>6 DEF raw, config
  <2> QED
    BY <2>4, <2>5
<1> QED
  BY <1>4, <1>5

\* The classifier takes the first qualified segment of the official order.
LEMMA ClassifyIs ==
  ASSUME NEW b, NEW config
  PROVE  Classify(b, config).segment =
           IF ScoreSegment2(b, config) >= AbstentionThreshold THEN "segment_2"
           ELSE IF ScoreSegment3(b, config) >= AbstentionThreshold THEN "segment_3"
           ELSE IF ScoreSegment4(b) >= AbstentionThreshold THEN "segment_4"
           ELSE IF ScoreSegment1(b, config) >= AbstentionThreshold THEN "segment_1"
           ELSE "unqualified"
<1> DEFINE Reached(i) == SegmentScore(Priority[i], b, config) >= AbstentionThreshold
           qualified == {i \in DOMAIN Priority : Reached(i)}
           best == CHOOSE i \in qualified : \A j \in qualified : i <= j
<1>1. /\ DOMAIN Priority = {1, 2, 3, 4}
      /\ Priority[1] = "segment_2" /\ Priority[2] = "segment_3"
      /\ Priority[3] = "segment_4" /\ Priority[4] = "segment_1"
  BY DEF Priority
<1>2. /\ Reached(1) <=> ScoreSegment2(b, config) >= AbstentionThreshold
      /\ Reached(2) <=> ScoreSegment3(b, config) >= AbstentionThreshold
      /\ Reached(3) <=> ScoreSegment4(b) >= AbstentionThreshold
      /\ Reached(4) <=> ScoreSegment1(b, config) >= AbstentionThreshold
  BY <1>1 DEF SegmentScore
<1>3. Classify(b, config).segment = IF qualified = {} THEN "unqualified" ELSE Priority[best]
  BY DEF Classify
<1>4. qualified = {i \in {1, 2, 3, 4} : Reached(i)}
  BY <1>1
<1>5. CASE qualified = {}
  <2>1. ~Reached(1) /\ ~Reached(2) /\ ~Reached(3) /\ ~Reached(4)
    BY <1>4, <1>5
  <2> HIDE DEF qualified, Reached
  <2> QED
    BY <1>2, <1>3, <1>5, <2>1
<1>6. CASE qualified # {}
  <2>1. qualified \subseteq {1, 2, 3, 4}
    BY <1>4
  <2>2. \E i \in qualified : \A j \in qualified : i <= j
    <3>1. qualified \in SUBSET Nat /\ \A j \in qualified : j <= 4
      BY <2>1
    <3> HIDE DEF qualified
    <3>2. IsFiniteSet(qualified) /\ qualified \in SUBSET Int
      BY <3>1, FS_BoundedSetOfNaturals
    <3> QED
      BY <1>6, <3>2, LeastIsMember
  <2>3. best \in qualified /\ \A j \in qualified : best <= j
    <3> HIDE DEF qualified
    <3> QED
      BY <2>2
  <2>4. /\ best \in {1, 2, 3, 4} /\ Reached(best)
        /\ \A j \in {1, 2, 3, 4} : Reached(j) => best <= j
    <3> HIDE DEF best
    <3> QED
      BY <1>4, <2>3
  <2> HIDE DEF best, qualified, Reached
  <2>5. /\ Reached(1) => best = 1
        /\ ~Reached(1) /\ Reached(2) => best = 2
        /\ ~Reached(1) /\ ~Reached(2) /\ Reached(3) => best = 3
        /\ ~Reached(1) /\ ~Reached(2) /\ ~Reached(3) => best = 4 /\ Reached(4)
    BY <2>4
  <2> QED
    BY <1>1, <1>2, <1>3, <1>6, <2>5
<1> QED
  BY <1>5, <1>6

-----------------------------------------------------------------------------
(* The run *)

GapFor(c) == GapOf(c, Firm(c), ScoreOf(c))

\* The briefs are the rules applied to the data, before and after the assessment; what
\* the template wrote carries the caveat of the brief.
BriefInv ==
  /\ company \in Companies /\ ignoreDates \in IgnoreDates
  /\ pc \in {"enrich", "failed"} => brief = None
  /\ pc = "assess" => brief = Raw(company, ignoreDates)
  /\ pc \notin {"enrich", "failed", "assess"} => brief = Rated(company, ignoreDates)
  /\ pc \notin {"enrich", "failed"} => gap = GapFor(company)
  /\ draft # NoDraft => pc \in {"draft", "log", "done"}
  /\ draft.by = "template" => draft.caveat <=> brief.mismatch = TRUE

LEMMA InitEstablishesBriefInv == Init => BriefInv
<1> SUFFICES ASSUME Init PROVE BriefInv
  OBVIOUS
<1>1. None # "template"
  BY NoneIsNone DEF Words
<1> QED
  BY <1>1 DEF Init, BriefInv, NoDraft

LEMMA StepKeepsBriefInv ==
  ASSUME BriefInv, [Next]_vars
  PROVE  BriefInv'
<1> USE DEF BriefInv
<1>0. NoDraft.by = None /\ None # "template"
  BY NoneIsNone DEF Words, NoDraft
<1>1. CASE Enrich
  <2>1. brief' = Raw(company, ignoreDates) /\ gap' = GapFor(company)
    BY <1>1 DEF Enrich, Raw, Leaders, ScoreOf, GapFor
  <2> QED
    BY <1>0, <1>1, <2>1 DEF Enrich, world
<1>2. CASE EnrichmentFails
  BY <1>0, <1>2 DEF EnrichmentFails, world
<1>3. CASE Assess
  <2>1. brief' = Rated(company, ignoreDates)
    BY <1>3 DEF Assess, Rated, Rating
  <2> QED
    BY <1>0, <1>3, <2>1 DEF Assess, world
<1>4. CASE UpsertContact
  BY <1>0, <1>4 DEF UpsertContact, world
<1>5. CASE WriteBrief
  BY <1>0, <1>5 DEF WriteBrief, world
<1>6. CASE WriteGap
  BY <1>0, <1>6 DEF WriteGap, world
<1>7. CASE StartSequence
  BY <1>0, <1>7 DEF StartSequence, world
<1>8. CASE WriteDraft
  <2>1. draft' \in Drafts /\ pc = "draft" /\ pc' \in {"log", "draft"}
    BY <1>8 DEF WriteDraft
  <2>2. UNCHANGED <<company, ignoreDates, brief, gap>>
    BY <1>8 DEF WriteDraft, world
  <2>3. draft'.by = "template" => draft'.caveat <=> brief.mismatch = TRUE
    <3>1. CASE draft' = TemplateDraft(Summary, 0)
      BY <3>1 DEF TemplateDraft, Summary, Research
    <3>2. CASE draft' # TemplateDraft(Summary, 0)
      <4>1. PICK n \in ModelViolations : draft' = ModelDraft(None, n)
        BY <2>1, <3>2 DEF Drafts
      <4> QED
        BY <4>1 DEF ModelDraft
    <3> QED
      BY <3>1, <3>2
  <2> QED
    BY <2>1, <2>2, <2>3
<1>9. CASE LogActivity
  BY <1>0, <1>9 DEF LogActivity, world
<1>10. CASE UNCHANGED vars
  BY <1>10 DEF vars
<1> QED
  BY <1>1, <1>2, <1>3, <1>4, <1>5, <1>6, <1>7, <1>8, <1>9, <1>10 DEF Next

LEMMA BriefsAreTheRules == Spec => []BriefInv
<1> QED
  BY InitEstablishesBriefInv, StepKeepsBriefInv, PTL DEF Spec

\* An assessed brief is the rated one.
LEMMA AssessedIsRated ==
  ASSUME BriefInv, Assessed
  PROVE  /\ company \in Companies /\ ignoreDates \in BOOLEAN
         /\ brief = Rated(company, ignoreDates) /\ gap = GapFor(company)
<1>1. company \in Companies /\ ignoreDates \in BOOLEAN
  BY ProspectingAssumption DEF BriefInv, ProspectingAssumption
<1>2. Raw(company, ignoreDates).segment = None
  BY RawFields
<1>3. pc \notin {"enrich", "failed", "assess"}
  BY <1>2 DEF BriefInv, Assessed
<1> QED
  BY <1>1, <1>3 DEF BriefInv

\* For any company, dataset and setting of ICP_IGNORE_DATES: the segment stored with the
\* prospect is the first of the official order whose criteria the rows and pages meet.
\* The classifier's confidences, caps and abstention threshold decide exactly that.
THEOREM SegmentsAreEarned == Spec => []SegmentEarned
<1>1. BriefInv => SegmentEarned
  <2> SUFFICES ASSUME BriefInv, Assessed
               PROVE  /\ ~ignoreDates => brief.segment = Earned(TRUE, 5)
                      /\ ignoreDates => brief.segment = Earned(FALSE, 0)
    BY Zenon DEF SegmentEarned
  <2> DEFINE raw == Raw(company, ignoreDates)
             config == ConfigOf(raw, ignoreDates)
  <2>1. company \in Companies /\ ignoreDates \in BOOLEAN /\ brief = Rated(company, ignoreDates)
    BY AssessedIsRated
  <2>2. brief.segment = Classify(raw, config).segment
    BY <2>1, RawFields DEF Rating
  <2>3. /\ ScoreSegment2(raw, config) >= AbstentionThreshold <=> RestructuringNow
        /\ ScoreSegment3(raw, config) >= AbstentionThreshold <=> NewLeadership
        /\ ScoreSegment4(raw) >= AbstentionThreshold <=> Capability
        /\ ScoreSegment1(raw, config) >= AbstentionThreshold <=> FundedNow
    BY <2>1, Segment1Is, Segment2Is, Segment3Is, Segment4Is
  <2> HIDE DEF raw, config
  <2>4. brief.segment =
          IF RestructuringNow THEN "segment_2"
          ELSE IF NewLeadership THEN "segment_3"
          ELSE IF Capability THEN "segment_4"
          ELSE IF FundedNow THEN "segment_1" ELSE "unqualified"
    BY <2>2, <2>3, ClassifyIs
  <2>5. CASE ~ignoreDates
    <3>1. ignoreDates = FALSE
      BY <2>1, <2>5
    <3>2. (RestructuringNow <=> Restructuring(TRUE)) /\ (FundedNow <=> Funded(TRUE, 5))
      BY <3>1 DEF RestructuringNow, FundedNow, Restructuring, Funded, RecentRounds
    <3> QED
      BY <2>4, <2>5, <3>2 DEF Earned
  <2>6. CASE ignoreDates
    <3>1. ignoreDates = TRUE
      BY <2>1, <2>6
    <3>2. (RestructuringNow <=> Restructuring(FALSE)) /\ (FundedNow <=> Funded(FALSE, 0))
      BY <3>1 DEF RestructuringNow, FundedNow, Restructuring, Funded, RecentRounds
    <3> QED
      BY <2>4, <2>6, <3>2 DEF Earned
  <2> QED
    BY <2>5, <2>6
<1> QED
  BY <1>1, BriefsAreTheRules, PTL

-----------------------------------------------------------------------------
(* What the message states *)

\* A number of roles: the sum of what the sources show, flat if two of them do.
LEMMA HiringIsGrounded ==
  ASSUME BriefInv, Assessed
  PROVE  HiringGrounded
<1> DEFINE posts == Posts(company)
           told == DOMAIN Answers
<1>1. /\ company \in Companies
      /\ brief.posts = posts.count /\ brief.velocity = posts.velocity
      /\ brief.postConfidence = posts.confidence /\ brief.hiring = HiringVelocity(posts)
  BY AssessedIsRated, RawFields
<1>2. /\ posts.count = IF told = {} THEN None ELSE OpenRoles
      /\ posts.velocity = None /\ OpenRoles \in Nat
      /\ told = {} => posts.confidence = None
      /\ posts.confidence \in Sure => Cardinality(told) >= 2
  BY <1>1, PostsAre
<1>3. OpenRoles # None /\ None \notin Sure
  <2>1. Sure \subseteq Texts
    BY DEF Sure, Texts, Words
  <2>2. OpenRoles # None
    BY <1>2, NoneIsNone
  <2> QED
    BY <2>1, <2>2, NoneIsNone
<1>4. Summary.hiring = ExtractHiring(brief)
  BY DEF Summary, Research
<1> DEFINE fact == [count |-> brief.posts,
                    strong |-> /\ brief.posts # None /\ brief.posts >= 5
                               /\ brief.velocity # None /\ brief.velocity >= 3
                               /\ brief.postConfidence \in Sure]
<1>5. ExtractHiring(brief) =
        IF brief.posts = None /\ brief.postConfidence \notin Sure THEN Omit
        ELSE Field(ByConfidence(brief.postConfidence), fact)
  BY DEF ExtractHiring
<1>6. fact = [count |-> brief.posts, strong |-> FALSE]
  BY <1>1, <1>2
<1> HIDE DEF fact, posts
<1>7. CASE told = {}
  <2>1. brief.posts = None /\ brief.postConfidence \notin Sure
    BY <1>1, <1>2, <1>3, <1>7
  <2>2. Summary.hiring = Omit
    BY <1>4, <1>5, <2>1
  <2>3. brief.hiring = None
    BY <1>1, <1>2, <1>7 DEF HiringVelocity
  <2> QED
    BY <1>7, <2>2, <2>3 DEF HiringGrounded, Omit
<1>8. CASE told # {}
  <2>1. brief.posts = OpenRoles /\ brief.posts # None
    BY <1>1, <1>2, <1>3, <1>8
  <2>2. Summary.hiring = Field(ByConfidence(brief.postConfidence), [count |-> OpenRoles, strong |-> FALSE])
    BY <1>4, <1>5, <1>6, <2>1
  <2>3. brief.hiring.label = "insufficient_signal"
    BY <1>1, <1>2, <1>3, <1>8 DEF HiringVelocity
  <2>4. ByConfidence(brief.postConfidence) = "assertive" => Cardinality(told) >= 2
    BY <1>1, <1>2 DEF ByConfidence
  <2> QED
    BY <1>8, <2>2, <2>3, <2>4 DEF HiringGrounded, Field
<1> QED
  BY <1>7, <1>8

\* A number formatted without decimals is the nearest.
LEMMA RoundedIsNearest ==
  ASSUME NEW n \in Nat, NEW unit \in {100, Million}
  PROVE  Nearest(Rounded(n, unit), unit, n)
<1> DEFINE whole == n \div unit
           rest == n % unit
<1>1. /\ whole \in Nat /\ rest \in Nat /\ rest < unit
      /\ n = unit * whole + rest
  BY SMT DEF Million
<1>2. \/ Rounded(n, unit) = whole + 1 /\ 2 * rest >= unit
      \/ Rounded(n, unit) = whole /\ 2 * rest <= unit
  <2>1. Rounded(n, unit) = IF 2 * rest > unit \/ (2 * rest = unit /\ whole % 2 = 1)
                           THEN whole + 1 ELSE whole
    BY DEF Rounded
  <2> HIDE DEF whole, rest
  <2> QED
    BY <1>1, <2>1
<1> DEFINE number == Rounded(n, unit)
           below == unit * whole
           named == unit * number
<1>3. unit \in Nat /\ number \in Nat
  <2> HIDE DEF whole, rest
  <2> QED
    BY <1>1, <1>2, SMT DEF Million
<1> HIDE DEF whole, rest, number
<1>4. unit * (whole + 1) = unit * whole + unit /\ unit * whole \in Nat
  BY <1>1, <1>3, SMT
<1>5. /\ below \in Nat /\ n = below + rest
      /\ \/ named = below + unit /\ 2 * rest >= unit
         \/ named = below /\ 2 * rest <= unit
  BY <1>1, <1>2, <1>4 DEF number
<1> HIDE DEF below, named
<1>6. 2 * (named - n) \in (-unit)..unit
  BY <1>1, <1>3, <1>5, SMT
<1> QED
  BY <1>3, <1>6, Zenon DEF Nearest, named, number

\* A round: the company's latest that counts, with its amount.
LEMMA FundingIsGrounded ==
  ASSUME BriefInv, Assessed
  PROVE  FundingGrounded
<1> DEFINE fetched == Funding(Firm(company).rounds, ignoreDates)
           event == brief.funding
<1>1. /\ company \in Companies /\ ignoreDates \in BOOLEAN
      /\ event = FundingEvent(fetched)
  BY AssessedIsRated, RawFields
<1>2. Summary.funding = ExtractFunding(brief)
  BY DEF Summary, Research
<1>3. CASE event = None
  <2>1. Summary.funding = Omit
    BY <1>2, <1>3 DEF ExtractFunding
  <2> QED
    BY <2>1 DEF FundingGrounded, Omit
<1>4. CASE event # None
  <2>1. event = fetched /\ fetched # None /\ fetched.type # None
    BY <1>1, <1>4 DEF FundingEvent
  <2>2. Listed
    BY <1>1, <2>1, RoundsAre
  <2>3. PICK i \in RecentNow :
          LET r == company.row.rounds[i] IN
          /\ r.title \in Seq(STRING) /\ r.amount \in Known(Nat)
          /\ fetched.type = RoundType(r.title) /\ fetched.amount = r.amount
          /\ fetched.age = r.age
          /\ fetched.confidence = IF r.amount # None THEN "high" ELSE "medium"
    BY <1>1, <2>1, RoundsAre
  <2> DEFINE r == company.row.rounds[i]
  <2>4. r.title # <<>>
    BY <2>1, <2>3, RoundTypeIsText
  <2>5. event.confidence \in Sure
    BY <2>1, <2>3 DEF Sure
  <2>6. Summary.funding.fact = [type |-> event.type, age |-> event.age,
                                amount |-> IF event.amount \notin {None, 0}
                                           THEN Rounded(event.amount, Million) ELSE None]
    BY <1>2, <1>4, <2>5 DEF ExtractFunding, Field
  <2>7. /\ Summary.funding.fact.age = r.age
        /\ Summary.funding.fact.amount =
             (IF r.amount \notin {None, 0} THEN Rounded(r.amount, Million) ELSE None)
    BY <2>1, <2>3, <2>6
  <2>8. r.amount \notin {None, 0} =>
          /\ Nearest(Rounded(r.amount, Million), Million, r.amount)
          /\ Rounded(r.amount, Million) # None
    <3>1. r.amount \notin {None, 0} => r.amount \in Nat
      BY <2>3
    <3> QED
      BY <3>1, RoundedIsNearest, NoneIsNone DEF Nearest
  <2> HIDE DEF event, r
  <2>9. /\ Summary.funding.fact.amount = None <=> r.amount \in {None, 0}
        /\ Summary.funding.fact.amount # None =>
             Nearest(Summary.funding.fact.amount, Million, r.amount)
    BY <2>7, <2>8
  <2> QED
    BY <2>2, <2>3, <2>4, <2>7, <2>9 DEF FundingGrounded, RecentNow, r
<1> QED
  BY <1>3, <1>4

\* A layoff: the youngest row taken for the company's, flat if it has a number.
LEMMA LayoffIsGrounded ==
  ASSUME BriefInv, Assessed
  PROVE  LayoffGrounded
<1> DEFINE row == Layoff(company.layoffs, Similar, ignoreDates)
           event == brief.layoff
           fact == Summary.layoff.fact
<1>1. /\ company \in Companies /\ ignoreDates \in BOOLEAN
      /\ event = LayoffEvent(row)
  BY AssessedIsRated, RawFields
<1>2. Summary.layoff = ExtractLayoff(brief)
  BY DEF Summary, Research
<1>3. CASE row = None
  <2>1. event = None
    BY <1>1, <1>3 DEF LayoffEvent
  <2>2. Summary.layoff = Omit
    BY <1>2, <2>1 DEF ExtractLayoff
  <2> QED
    BY <2>2 DEF LayoffGrounded, Omit
<1>4. CASE row # None
  <2>1. row \in LayoffRows /\ row.age \in Int
    BY <1>1, <1>4, LayoffsAre
  <2>2. PICK i \in DOMAIN company.layoffs :
          /\ Youngest(company.layoffs, OwnLayoffs) = {i}
          /\ ignoreDates \/ company.layoffs[i].age <= 120
          /\ row = company.layoffs[i]
    BY <1>1, <1>4, LayoffsAre
  <2>3. /\ event # None /\ event.headcount = row.headcount /\ event.percentage = row.percentage
        /\ event.confidence =
             CASE row.headcount # None /\ row.percentage # None -> "high"
               [] row.headcount = None /\ row.percentage = None -> "low"
               [] OTHER                                         -> "medium"
    BY <1>1, <2>1, LayoffEventIs
  <2>4. /\ Summary.layoff.phrasing = ByConfidence(event.confidence)
        /\ fact = CASE event.headcount # None -> [unit |-> "people", number |-> event.headcount]
                    [] event.headcount = None /\ event.percentage # None ->
                         [unit |-> "percent", number |-> Rounded(event.percentage, 100)]
                    [] OTHER -> [unit |-> "unknown", number |-> None]
    BY <1>2, <2>3 DEF ExtractLayoff, Field
  <2> HIDE DEF event, row, fact
  <2>5. Summary.layoff.phrasing = "assertive" => row.headcount # None \/ row.percentage # None
    BY <2>3, <2>4 DEF ByConfidence, Sure
  <2>6. /\ fact.unit = "people" <=> row.headcount # None
        /\ row.headcount # None => fact.number = row.headcount
        /\ fact.unit = "percent" <=> row.headcount = None /\ row.percentage # None
        /\ fact.unit = "percent" => fact.number = Rounded(row.percentage, 100)
    BY <2>3, <2>4
  <2>8. row.percentage # None => Nearest(Rounded(row.percentage, 100), 100, row.percentage)
    <3>1. row.percentage # None => row.percentage \in Nat
      BY <2>1 DEF LayoffRows
    <3> QED
      BY <3>1, RoundedIsNearest
  <2>7. i \in Youngest(company.layoffs, {j \in DOMAIN company.layoffs : company.layoffs[j].company \in Similar})
    BY <2>2 DEF OwnLayoffs
  <2> QED
    BY <2>2, <2>5, <2>6, <2>7, <2>8 DEF LayoffGrounded, fact
<1> QED
  BY <1>3, <1>4

\* AI maturity: asserted and called "scale" as the roles, the leaders and the tools allow.
LEMMA MaturityIsGrounded ==
  ASSUME BriefInv, Assessed
  PROVE  MaturityGrounded
<1>1. /\ company \in Companies
      /\ brief.score = ScoreOf(company).score
      /\ brief.maturityConfidence = ScoreOf(company).confidence
  BY AssessedIsRated, RawFields
<1>2. /\ brief.score >= 2 <=> Capability
      /\ brief.maturityConfidence \in Sure => DOMAIN Answers # {} /\ NewLeaders # {}
  BY <1>1, ScoreIs DEF Sure
<1>3. Summary.maturity = ExtractAiMaturity(brief)
  BY DEF Summary, Research
<1>4. SUFFICES ASSUME Summary.maturity.phrasing = "assertive"
               PROVE  /\ DOMAIN Answers # {} /\ NewLeaders # {}
                      /\ Summary.maturity.fact.framing = "scale" => Capability
  BY DEF MaturityGrounded, Capability
<1>5. Summary.maturity # Omit
  BY <1>4 DEF Omit
<1> DEFINE framing == IF brief.score >= 2 THEN "scale" ELSE "stand up"
           fact == [score |-> brief.score, framing |-> framing]
<1>6. Summary.maturity = Field(ByConfidence(brief.maturityConfidence), fact)
  BY <1>3, <1>5 DEF ExtractAiMaturity
<1>7. brief.maturityConfidence \in Sure
  <2> HIDE DEF fact
  <2>1. Summary.maturity.phrasing = ByConfidence(brief.maturityConfidence)
    BY <1>6 DEF Field
  <2> QED
    BY <1>4, <2>1 DEF ByConfidence
<1>8. Summary.maturity.fact.framing = "scale" => brief.score >= 2
  <2>1. Summary.maturity.fact.framing = framing
    <3> HIDE DEF framing
    <3> QED
      BY <1>6 DEF Field
  <2> HIDE DEF Summary
  <2> QED
    BY <2>1
<1> QED
  BY <1>2, <1>7, <1>8

\* The peers are other companies of the dataset: the prospect's own row is none.
LEMMA PeersAreOthers ==
  ASSUME company \in Companies
  PROVE  LET firm == Firm(company)
             peers == Peers(Dataset(company), firm,
                            IF firm.id # None THEN firm.id ELSE company.prospect.company,
                            IF firm.name # None THEN firm.name ELSE company.prospect.name)
         IN /\ peers \subseteq DOMAIN Rows
            /\ \A i \in peers :
                 /\ Dataset(company)[i] = Rows[i]
                 /\ Rows[i].sectors \cap firm.sectors # {}
                 /\ StageBand(FundingStage(Rows[i])) = StageBand(firm.stage)
<1> DEFINE firm == Firm(company)
           rows == Dataset(company)
           last == Len(Rows) + 1
           id == IF firm.id # None THEN firm.id ELSE company.prospect.company
           name == IF firm.name # None THEN firm.name ELSE company.prospect.name
           peers == Peers(rows, firm, id, name)
<1>1. Rows \in Seq(DatasetRows) /\ company.row \in DatasetRows
  BY CompanyTypes, ProspectingAssumption DEF ProspectingAssumption
<1>2. /\ DOMAIN rows = DOMAIN Rows \cup {last} /\ rows[last] = company.row
      /\ \A i \in DOMAIN Rows : rows[i] = Rows[i]
  BY <1>1 DEF Dataset
<1>3. \A i \in peers : i \in DOMAIN rows /\ IsPeer(rows[i], firm, id, name)
  BY DEF Peers
<1>4. last \notin peers
  <2>1. CASE Listed
    <3>1. firm.id = company.row.id
      BY <2>1, FirmFields
    <3>2. company.row.id \in STRING
      BY <1>1 DEF DatasetRows
    <3>3. id = company.row.id
      BY <3>1, <3>2, NoneIsNone
    <3> HIDE DEF rows, firm, id, name, peers
    <3> QED
      BY <1>2, <1>3, <3>3 DEF IsPeer
  <2>2. CASE ~Listed
    <3>1. firm.sectors = {}
      BY <2>2, FirmFields
    <3> HIDE DEF rows, firm, id, name, peers
    <3> QED
      BY <1>3, <3>1 DEF IsPeer, SharesSector
  <2> QED
    BY <2>1, <2>2
<1> HIDE DEF rows, firm, id, name, peers
<1>5. peers \subseteq DOMAIN Rows
  BY <1>2, <1>3, <1>4
<1>6. \A i \in peers : /\ rows[i] = Rows[i]
                       /\ Rows[i].sectors \cap firm.sectors # {}
                       /\ StageBand(FundingStage(Rows[i])) = StageBand(firm.stage)
  BY <1>2, <1>3, <1>5 DEF IsPeer, SharesSector
<1> QED
  BY <1>5, <1>6 DEF rows, firm, id, name, peers

\* The gaps of a set of mature peers, each at its place of the list of practices.
LEMMA GapsAre ==
  ASSUME NEW rows, NEW mature \in SUBSET Nat, IsFiniteSet(mature), NEW tech
  PROVE  LET gaps == Gaps(rows, mature, tech) IN
         /\ IsFiniteSet(gaps)
         /\ \A g \in gaps :
              /\ g.place \in Int /\ Cardinality(g.users) \in Nat
              /\ g.practice \notin tech
              /\ g.users = UsersOf(g.practice, rows, mature)
              /\ g.confidence \in Sure => Cardinality(g.users) >= 2
<1> DEFINE users(p) == UsersOf(Practices[p], rows, mature)
           Level(n) == CASE n >= 3 -> "high" [] n = 2 -> "medium" [] n = 1 -> "low"
           GapAt(p) == [practice |-> Practices[p], place |-> p, users |-> users(p),
                        confidence |-> Level(Cardinality(users(p)))]
           open == {p \in DOMAIN Practices : users(p) # {} /\ Practices[p] \notin tech}
           first == {q \in open : Cardinality({r \in open : r < q}) < MaxGaps}
<1>1. Gaps(rows, mature, tech) = {GapAt(p) : p \in first}
  BY Zenon DEF Gaps
<1>2. first \in SUBSET (1..10)
  <2>1. DOMAIN Practices = 1..10
    BY DEF Practices
  <2> QED
    BY <2>1
<1>3. IsFiniteSet(first)
  <2>1. first \in SUBSET Nat /\ \A p \in first : p <= 10
    BY <1>2
  <2> HIDE DEF first
  <2> QED
    BY <2>1, FS_BoundedSetOfNaturals
<1>4. IsFiniteSet({GapAt(p) : p \in first})
  <2> DEFINE at == [p \in first |-> GapAt(p)]
             T == {GapAt(p) : p \in first}
  <2> HIDE DEF GapAt, first
  <2>1. at \in Surjection(first, T)
    BY DEF Surjection
  <2> HIDE DEF at, T
  <2>2. IsFiniteSet(T)
    BY <1>3, <2>1, FS_Surjection
  <2> QED
    BY <2>2 DEF T
<1>5. ASSUME NEW p \in first
      PROVE  LET g == GapAt(p) IN
             /\ g.place \in Int /\ Cardinality(g.users) \in Nat
             /\ g.practice \notin tech
             /\ g.users = UsersOf(g.practice, rows, mature)
             /\ g.confidence \in Sure => Cardinality(g.users) >= 2
  <2>1. p \in Int /\ Practices[p] \notin tech /\ users(p) # {}
    BY <1>2
  <2>2. users(p) \subseteq mature
    BY DEF UsersOf
  <2>3. IsFiniteSet(users(p)) /\ Cardinality(users(p)) \in Nat /\ Cardinality(users(p)) # 0
    <3> HIDE DEF users
    <3>1. IsFiniteSet(users(p))
      BY <2>2, FS_Subset
    <3> QED
      BY <2>1, <3>1, FS_CardinalityType, FS_EmptySet
  <2>4. Level(Cardinality(users(p))) \in Sure => Cardinality(users(p)) >= 2
    <3> DEFINE n == Cardinality(users(p))
    <3>1. n \in Nat /\ n # 0
      BY <2>3
    <3> HIDE DEF n
    <3>2. Level(n) \in Sure => n >= 2
      BY <3>1 DEF Sure
    <3> QED
      BY <3>2 DEF n
  <2>5. /\ GapAt(p).place = p /\ GapAt(p).practice = Practices[p] /\ GapAt(p).users = users(p)
        /\ GapAt(p).confidence = Level(Cardinality(users(p)))
    OBVIOUS
  <2> HIDE DEF GapAt, Level
  <2> QED
    BY <2>1, <2>3, <2>4, <2>5
<1> HIDE DEF GapAt, first
<1> QED
  BY <1>1, <1>4, <1>5

\* Of finitely many gaps, one precedes all.
LEMMA FirstGapExists ==
  ASSUME NEW gaps, IsFiniteSet(gaps), gaps # {},
         \A g \in gaps : g.place \in Int /\ Cardinality(g.users) \in Nat
  PROVE  \E g \in gaps : \A h \in gaps : Precedes(g, h)
<1> DEFINE few == [g \in gaps |-> -Cardinality(g.users)]
           place == [g \in gaps |-> g.place]
<1>1. few \in [gaps -> Int] /\ place \in [gaps -> Int]
  OBVIOUS
<1>2. PICK g \in gaps : \A h \in gaps :
        few[g] < few[h] \/ (few[g] = few[h] /\ place[g] <= place[h])
  <2> HIDE DEF few, place
  <2> QED
    BY <1>1, FirstExists
<1>3. \A h \in gaps : Precedes(g, h)
  <2> SUFFICES ASSUME NEW h \in gaps PROVE Precedes(g, h)
    OBVIOUS
  <2>1. \/ -Cardinality(g.users) < -Cardinality(h.users)
        \/ -Cardinality(g.users) = -Cardinality(h.users) /\ g.place <= h.place
    BY <1>2
  <2> QED
    BY <2>1 DEF Precedes
<1> QED
  BY <1>3

\* A gap: two mature peers have the practice, and the company's row does not show it.
LEMMA GapIsGrounded ==
  ASSUME BriefInv, Assessed
  PROVE  GapGrounded
<1> DEFINE firm == Firm(company)
           rows == Dataset(company)
           peers == Peers(rows, firm,
                          IF firm.id # None THEN firm.id ELSE company.prospect.company,
                          IF firm.name # None THEN firm.name ELSE company.prospect.name)
           mature == {i \in peers : RowScore(rows[i]) >= 2}
           gaps == Gaps(rows, mature, firm.tech)
           eligible == {g \in gaps : g.confidence \in Sure}
           high == {g \in eligible : g.confidence = "high"}
           First(S) == CHOOSE g \in S : \A h \in S : Precedes(g, h)
           chosen == First(IF high # {} THEN high ELSE eligible)
<1>1. company \in Companies /\ gap.gaps = gaps
  BY AssessedIsRated DEF GapFor, GapOf, GapBrief
<1>2. /\ peers \subseteq DOMAIN Rows
      /\ \A i \in peers :
           /\ rows[i] = Rows[i]
           /\ Rows[i].sectors \cap firm.sectors # {}
           /\ StageBand(FundingStage(Rows[i])) = StageBand(firm.stage)
  BY <1>1, PeersAreOthers
<1>3. IsFiniteSet(DOMAIN Rows) /\ DOMAIN Rows \subseteq Nat
  <2>1. DOMAIN Rows = 1..Len(Rows) /\ Len(Rows) \in Nat
    BY ProspectingAssumption DEF ProspectingAssumption
  <2>2. DOMAIN Rows \in SUBSET Nat /\ \A i \in DOMAIN Rows : i <= Len(Rows)
    BY <2>1
  <2> QED
    BY <2>1, <2>2, FS_BoundedSetOfNaturals
<1>4. IsFiniteSet(mature) /\ mature \in SUBSET Nat
  <2>1. mature \subseteq DOMAIN Rows
    BY <1>2
  <2> HIDE DEF mature
  <2> QED
    BY <1>3, <2>1, FS_Subset
<1>5. /\ IsFiniteSet(gaps)
      /\ \A g \in gaps :
           /\ g.place \in Int /\ Cardinality(g.users) \in Nat
           /\ g.practice \notin firm.tech
           /\ g.users = UsersOf(g.practice, rows, mature)
           /\ g.confidence \in Sure => Cardinality(g.users) >= 2
  <2> HIDE DEF rows, mature, firm
  <2> QED
    BY <1>4, GapsAre
<1>6. Summary.gap = ExtractGap(gap)
  BY DEF Summary, Research
<1>7. CASE gap = None \/ eligible = {}
  <2>1. Summary.gap = Omit
    BY <1>1, <1>6, <1>7 DEF ExtractGap
  <2> QED
    BY <2>1 DEF GapGrounded, Omit
<1>8. CASE ~(gap = None \/ eligible = {})
  <2>1. Summary.gap.fact = chosen
    <3> DEFINE told == {g \in gap.gaps : g.confidence \in Sure}
               best == {g \in told : g.confidence = "high"}
    <3>1. ExtractGap(gap) = IF gap = None \/ told = {} THEN Omit
                            ELSE Field("assertive", First(IF best # {} THEN best ELSE told))
      BY Zenon DEF ExtractGap
    <3>2. told = eligible /\ best = high
      BY <1>1
    <3> HIDE DEF told, best, eligible, high, First
    <3>3. Summary.gap = Field("assertive", chosen)
      BY <1>6, <1>8, <3>1, <3>2
    <3> HIDE DEF chosen
    <3> QED
      BY <3>3 DEF Field
  <2>2. \A S \in SUBSET gaps : S # {} => First(S) \in S
    <3> SUFFICES ASSUME NEW S \in SUBSET gaps, S # {} PROVE First(S) \in S
      OBVIOUS
    <3> HIDE DEF gaps
    <3>1. IsFiniteSet(S)
      BY <1>5, FS_Subset
    <3>2. \E g \in S : \A h \in S : Precedes(g, h)
      BY <1>5, <3>1, FirstGapExists
    <3> QED
      BY <3>2
  <2>3. chosen \in eligible
    <3> HIDE DEF First, gaps
    <3> QED
      BY <1>8, <2>2
  <2> DEFINE having == {i \in DOMAIN Rows :
                          /\ Rows[i].sectors \cap firm.sectors # {}
                          /\ StageBand(FundingStage(Rows[i])) = StageBand(firm.stage)
                          /\ RowScore(Rows[i]) >= 2
                          /\ chosen.practice \in TechOf(Rows[i])}
  <2>4. chosen.users \subseteq having
    <3>1. chosen.users = {i \in mature : chosen.practice \in TechOf(rows[i])}
      <4> HIDE DEF chosen, gaps, mature, rows
      <4> QED
        BY <1>5, <2>3 DEF UsersOf
    <3> HIDE DEF chosen, peers, rows, firm
    <3> QED
      BY <1>2, <3>1
  <2>5. /\ chosen.practice \notin firm.tech
        /\ Cardinality(chosen.users) \in Nat /\ Cardinality(chosen.users) >= 2
    <3> HIDE DEF chosen, gaps, firm
    <3> QED
      BY <1>5, <2>3
  <2>6. Cardinality(having) >= 2
    <3>1. having \subseteq DOMAIN Rows
      OBVIOUS
    <3> HIDE DEF having, chosen
    <3>2. IsFiniteSet(having)
      BY <1>3, <3>1, FS_Subset
    <3>3. Cardinality(chosen.users) <= Cardinality(having) /\ Cardinality(having) \in Nat
      BY <2>4, <3>2, FS_Subset, FS_CardinalityType
    <3> QED
      BY <2>5, <3>3
  <2> HIDE DEF chosen
  <2> QED
    BY Zenon, <2>1, <2>5, <2>6 DEF GapGrounded
<1> QED
  BY <1>7, <1>8

\* The caveat: without it the stack is unknown or somebody available works with it.
LEMMA CapacityIsGrounded ==
  ASSUME BriefInv, Assessed
  PROVE  CapacityGrounded
<1> DEFINE stack == TechStack(Firm(company), Posts(company))
           wanted == TechSeen \cap (Languages \cup MlTools \cup DataTools)
<1> SUFFICES ASSUME draft.by = "template", ~draft.caveat
             PROVE  \/ wanted = {}
                    \/ \E s \in Bench : /\ s.engineers > 0 /\ ~s.committed
                                        /\ wanted \cap ({s.name} \cup s.skills) # {}
  BY DEF CapacityGrounded
<1>1. company \in Companies /\ brief.mismatch = BenchMismatch(stack, Bench)
  BY AssessedIsRated, RawFields
<1>2. ~BenchMismatch(stack, Bench)
  <2>1. brief.mismatch # TRUE
    BY DEF BriefInv
  <2>2. BenchMismatch(stack, Bench) \in BOOLEAN
    BY DEF BenchMismatch
  <2> QED
    BY <1>1, <2>1, <2>2
<1>3. stack.languages \cup stack.ml \cup stack.data = wanted
  <2>1. TechSeen = Firm(company).tech \cup Posts(company).tech
    BY <1>1, FirmFields DEF TechSeen
  <2>2. /\ stack.languages = TechSeen \cap Languages /\ stack.ml = TechSeen \cap MlTools
        /\ stack.data = TechSeen \cap DataTools
    BY <2>1 DEF TechStack
  <2> HIDE DEF stack
  <2> QED
    BY <2>2
<1>4. wanted = {} \/ wanted \cap Available(Bench) # {}
  BY <1>2, <1>3 DEF BenchMismatch
<1> HIDE DEF wanted
<1> QED
  BY <1>4 DEF Available

\* For any company, dataset, bench and setting: whatever the closer is given to say stems
\* from the rows and pages, with the certainty they allow.
THEOREM MessagesAreGrounded == Spec => []Grounded
<1>1. BriefInv => Grounded
  BY HiringIsGrounded, FundingIsGrounded, LayoffIsGrounded, MaturityIsGrounded, GapIsGrounded,
     CapacityIsGrounded DEF Grounded
<1> QED
  BY <1>1, BriefsAreTheRules, PTL

=============================================================================
