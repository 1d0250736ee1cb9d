---------------------------- MODULE Prospecting ----------------------------
(***************************************************************************)
(* PipelineRunner.run: one prospect is enriched, classified, compared with *)
(* the bench, written to the CRM and given its first message.              *)
(*                                                                         *)
(* company is what the world holds about it, chosen once: its row of the   *)
(* dataset, the layoff rows, what the job boards answer, and whether the   *)
(* browser starts.  Every await of run is a step that may fail; so is each *)
(* draft, which a model writes if it answers.                              *)
(***************************************************************************)
EXTENDS OutboundChain

CONSTANTS Companies,        \* what the world may hold about the prospect's company
          Rows,             \* the dataset's other companies
          Similar,          \* names difflib takes for the prospect's in the layoff data
          Bench,            \* the stacks of the bench summary
          IgnoreDates,      \* ICP_IGNORE_DATES, one setting or both
          Live,             \* the kill switch: FALSE routes to the staff sink
          ModelViolations,  \* how many tone violations a model's draft may have
          MaxRetries        \* drafts after the first

DatasetRows ==
  [id : STRING, uuid : Known(STRING), name : STRING, band : Known(STRING),
   stage : Known(STRING), website : BOOLEAN, sectors : SUBSET STRING, rounds : Seq(Rounds),
   hires : Seq(Hires), tech : SUBSET STRING, siftery : SUBSET STRING, keywords : SUBSET STRING,
   phrases : SUBSET STRING]

\* closest is the name of the dataset that difflib finds closest, or none.  row is what
\* the look-up can find: the row with the prospect's identifier, or the one named closest.
CompanyData ==
  [prospect : [company : STRING, name : STRING, closest : Known(STRING)],
   row : DatasetRows, layoffs : Seq(LayoffRows),
   site : [browser : BOOLEAN, builtin : Pages, wellfound : Pages, careers : Seq(Pages)]]

\* Every row has an identifier and a name, and the other rows are not the prospect's.
ASSUME ProspectingAssumption ==
  /\ Companies \subseteq CompanyData
  /\ Rows \in Seq(DatasetRows)
  /\ \A c \in Companies, i \in DOMAIN Rows :
       /\ c.prospect.company \notin {Rows[i].id, Rows[i].uuid}
       /\ Rows[i].id # c.row.id /\ Rows[i].name # c.row.name
       /\ c.prospect.company \notin {c.row.id, c.row.uuid} => Rows[i].name # c.prospect.closest
  /\ IgnoreDates \subseteq BOOLEAN
  /\ \A s \in Bench : s.committed \in BOOLEAN

VARIABLES
  company,      \* the world's data, never changed
  ignoreDates,  \* the setting the process runs with
  pc,           \* the next step of run
  brief,        \* the hiring signal brief, None before enrichment
  gap,          \* the competitor gap brief
  prospect,     \* the state and the attempts of the prospect
  crm,          \* what the CRM was given: contact, briefs, the logged activity
  draft,        \* the latest draft
  attempts      \* drafts the tone guard has refused

vars == <<company, ignoreDates, pc, brief, gap, prospect, crm, draft, attempts>>
world == <<company, ignoreDates>>

Dataset(c) == Append(Rows, c.row)

Firm(c) == LookUp(Dataset(c), c.prospect)

Posts(c) == Scrape(c.site, Firm(c).website)

\* Every open role counts as one for AI, up to five; any detected change of leadership
\* counts as one with AI; a stack without ML tools is unknown, not absent.
Signals(firm, posts, leadership) ==
  [NoSignals EXCEPT
     !.roles = IF posts.count = None THEN None ELSE Lower(posts.count, 5),
     !.leadership = leadership # None,
     !.stack = TrueOrNone((posts.tech \cup firm.tech) \cap ModernTools # {})]

GapOf(c, firm, maturity) ==
  GapBrief(Dataset(c), firm,
           IF firm.id # None THEN firm.id ELSE c.prospect.company,
           IF firm.name # None THEN firm.name ELSE c.prospect.name,
           maturity.score)

Init ==
  /\ company \in Companies
  /\ ignoreDates \in IgnoreDates
  /\ pc = "enrich"
  /\ brief = None /\ gap = None
  /\ prospect = [state |-> "cold", attempts |-> 0, segment |-> None]
  /\ crm = [contact |-> FALSE, briefs |-> <<>>, activity |-> None]
  /\ draft = NoDraft /\ attempts = 0

\* _enrich: the datasets, the boards, the scores, the two briefs.
Enrich ==
  LET firm == Firm(company)
      posts == Posts(company)
      leadership == Leadership(firm.hires)
      maturity == Maturity(Signals(firm, posts, leadership))
  IN /\ pc = "enrich"
     /\ company.site.browser
     /\ brief' = Assemble(firm, Layoff(company.layoffs, Similar, ignoreDates), posts,
                          leadership, Funding(firm.rounds, ignoreDates), maturity, Bench)
     /\ gap' = GapOf(company, firm, maturity)
     /\ pc' = "assess"
     /\ UNCHANGED <<world, prospect, crm, draft, attempts>>

\* A browser that does not start raises: run returns with an error, nothing written.
EnrichmentFails ==
  /\ pc = "enrich"
  /\ ~company.site.browser
  /\ pc' = "failed"
  /\ UNCHANGED <<world, brief, gap, prospect, crm, draft, attempts>>

\* Steps 2 and 3 of run: the segment goes to the prospect and into the brief, and the
\* bench comparison replaces the assembler's.
Assess ==
  LET result == Classify(brief, ConfigOf(brief, ignoreDates))
  IN /\ pc = "assess"
     /\ brief' = [brief EXCEPT !.segment = result.segment, !.confidence = result.confidence,
                               !.mismatch = BenchMismatch(brief.stack, Bench)]
     /\ prospect' = [prospect EXCEPT !.segment = result.segment]
     /\ pc' = "upsert"
     /\ UNCHANGED <<world, gap, crm, draft, attempts>>

\* A CRM call that fails is logged and run goes on.
UpsertContact ==
  /\ pc = "upsert"
  /\ \E ok \in BOOLEAN : crm' = [crm EXCEPT !.contact = ok]
  /\ pc' = "write brief"
  /\ UNCHANGED <<world, brief, gap, prospect, draft, attempts>>

\* Both briefs are written under one handler: if the first write fails the second is
\* not tried.
WriteBrief ==
  /\ pc = "write brief"
  /\ \/ /\ crm' = [crm EXCEPT !.briefs = <<"hiring">>]
        /\ pc' = "write gap"
     \/ /\ pc' = "start"
        /\ UNCHANGED crm
  /\ UNCHANGED <<world, brief, gap, prospect, draft, attempts>>

WriteGap ==
  /\ pc = "write gap"
  /\ \E ok \in BOOLEAN :
       crm' = IF ok THEN [crm EXCEPT !.briefs = Append(@, "gap")] ELSE crm
  /\ pc' = "start"
  /\ UNCHANGED <<world, brief, gap, prospect, draft, attempts>>

\* start_sequence takes a cold prospect only, and counts the attempt before composing.
StartSequence ==
  /\ pc = "start"
  /\ prospect.state = "cold"
  /\ prospect' = [prospect EXCEPT !.state = "contacted", !.attempts = @ + 1]
  /\ pc' = "draft"
  /\ UNCHANGED <<world, brief, gap, crm, draft, attempts>>

Summary == Research(brief, gap)

\* The model writes a draft, or raises or has no key and the template takes its place.
Drafts == {TemplateDraft(Summary, 0)} \cup {ModelDraft(None, n) : n \in ModelViolations}

\* One turn of the loop.  The last draft is returned even if the tone guard refuses it.
WriteDraft ==
  /\ pc = "draft"
  /\ \E d \in Drafts :
       /\ draft' = d
       /\ attempts' = IF Passes(d) THEN attempts ELSE attempts + 1
       /\ pc' = IF Passes(d) \/ attempts + 1 > MaxRetries THEN "log" ELSE "draft"
  /\ UNCHANGED <<world, brief, gap, prospect, crm>>

\* The message is routed and logged as a draft; run returns whether or not that fails.
LogActivity ==
  /\ pc = "log"
  /\ \E ok \in BOOLEAN :
       crm' = IF ok THEN [crm EXCEPT !.activity = IF Live THEN "prospect" ELSE "staff_sink"]
              ELSE crm
  /\ pc' = "done"
  /\ UNCHANGED <<world, brief, gap, prospect, draft, attempts>>

Next ==
  \/ Enrich \/ EnrichmentFails \/ Assess
  \/ UpsertContact \/ WriteBrief \/ WriteGap
  \/ StartSequence \/ WriteDraft \/ LogActivity

Spec == Init /\ [][Next]_vars
-----------------------------------------------------------------------------
(* Properties: what the message says against what the world holds *)

Assessed == brief # None /\ brief.segment # None

Listed == \/ company.prospect.company \in {company.row.id, company.row.uuid}
          \/ /\ company.prospect.name # company.prospect.company
             /\ company.prospect.closest = company.row.name

\* The sources whose pages show jobs, with their numbers; of the careers pages the
\* first that does.
Shown(pages) == {i \in DOMAIN pages : pages[i].cards # None /\ pages[i].cards > 0}
Answers ==
  LET careers == Shown(company.site.careers)
      Cards(s) == CASE s # "careers"                   -> company.site[s].cards
                    [] s = "careers" /\ careers # {}   -> company.site.careers[Min(careers)].cards
                    [] s = "careers" /\ careers = {}   -> None
      asked == IF Listed /\ company.row.website THEN Sources ELSE Sources \ {"careers"}
  IN [s \in {t \in asked : Cards(t) # None /\ Cards(t) > 0} |-> Cards(s)]
OpenRoles ==
  LET Number(s) == IF s \in DOMAIN Answers THEN Answers[s] ELSE 0
  IN Number("builtin") + Number("wellfound") + Number("careers")

\* Hires of a CTO or a VP of engineering in the last 90 days.
NewLeaders ==
  {i \in DOMAIN company.row.hires :
     /\ Listed
     /\ company.row.hires[i].label \cap {"cto", "vp engineering"} # {}
     /\ company.row.hires[i].age # None /\ company.row.hires[i].age \in 0..90}

\* The youngest dated row among those of a set of positions, the first of equals.
Youngest(rows, chosen) ==
  {i \in chosen : rows[i].age # None
     /\ \A j \in chosen : rows[j].age # None =>
          rows[i].age < rows[j].age \/ (rows[i].age = rows[j].age /\ i <= j)}

\* The latest dated round, one of the last 180 days if dates count.
RecentRounds(dated) ==
  Youngest(company.row.rounds,
           {i \in DOMAIN company.row.rounds :
              dated => company.row.rounds[i].age # None /\ company.row.rounds[i].age \in 0..180})

TechSeen == (IF Listed THEN company.row.tech ELSE {}) \cup Posts(company).tech

\* A number of open roles is stated flatly only if two sources counted jobs, and it is
\* then the sum of all that did; nobody's silence becomes a number or a sentence, and a
\* rise is never claimed, for there is no earlier number.
HiringGrounded ==
  LET hiring == Summary.hiring
  IN /\ hiring.included <=> DOMAIN Answers # {}
     /\ hiring.phrasing = "assertive" => Cardinality(DOMAIN Answers) >= 2
     /\ hiring.included => hiring.fact = [count |-> OpenRoles, strong |-> FALSE]
     /\ brief.hiring # None => brief.hiring.label = "insufficient_signal"

\* n units are the exact number, give or take half a unit.
Nearest(n, unit, exact) == n \in Nat /\ 2 * (unit * n - exact) \in (-unit)..unit

\* The round named is the company's latest dated one, and one of the last 180 days if
\* dates count.  The amount named is its own to the nearest million, and none is named if
\* it has none; so a seed round of $400,000 is called one of "$0M".
FundingGrounded ==
  Summary.funding.included =>
    /\ Listed
    /\ \E i \in RecentRounds(~ignoreDates) :
         LET r == company.row.rounds[i]
             amount == Summary.funding.fact.amount
         IN /\ r.title # <<>>
            /\ Summary.funding.fact.age = r.age
            /\ amount = None <=> r.amount \in {None, 0}
            /\ amount # None => Nearest(amount, Million, r.amount)

\* A layoff is one of the rows taken for the company's, its youngest, and is stated
\* flatly only if that row has a number.  A head count named is that row's.  A percentage
\* named is that row's fraction of one to the nearest whole, which is 0% or 1% and never
\* the share that was laid off (three_stage_chain.py:189): 6 in a hundred reads "0%".
LayoffGrounded ==
  LET layoff == Summary.layoff
      own == {i \in DOMAIN company.layoffs : company.layoffs[i].company \in Similar}
  IN layoff.included =>
       \E i \in Youngest(company.layoffs, own) :
         LET row == company.layoffs[i]
         IN /\ ignoreDates \/ row.age <= 120
            /\ layoff.phrasing = "assertive" => row.headcount # None \/ row.percentage # None
            /\ layoff.fact.unit = "people" <=> row.headcount # None
            /\ row.headcount # None => layoff.fact.number = row.headcount
            /\ layoff.fact.unit = "percent" <=> row.headcount = None /\ row.percentage # None
            /\ layoff.fact.unit = "percent" => Nearest(layoff.fact.number, 100, row.percentage)

\* AI maturity is asserted only of a company with open roles and a new head of
\* technology, and "scale" is offered only if it has five roles, or a modern tool too.
MaturityGrounded ==
  Summary.maturity.phrasing = "assertive" =>
    /\ DOMAIN Answers # {} /\ NewLeaders # {}
    /\ Summary.maturity.fact.framing = "scale" =>
         OpenRoles >= 5 \/ TechSeen \cap ModernTools # {}

\* A practice is held up to the company only if two other companies of its sector and
\* stage, mature in AI themselves, have it, and its own row does not show it.
GapGrounded ==
  LET firm == Firm(company)
  IN Summary.gap.included =>
       /\ Summary.gap.fact.practice \notin firm.tech
       /\ Cardinality({i \in DOMAIN Rows :
            /\ Rows[i].sectors \cap firm.sectors # {}
            /\ StageBand(FundingStage(Rows[i])) = StageBand(firm.stage)
            /\ RowScore(Rows[i]) >= 2
            /\ Summary.gap.fact.practice \in TechOf(Rows[i])}) >= 2

\* The template leaves the caveat on capacity out only if the stack is unknown or
\* somebody on the bench who is not committed elsewhere can work with part of it.
CapacityGrounded ==
  draft.by = "template" /\ ~draft.caveat =>
    LET stack == TechSeen \cap (Languages \cup MlTools \cup DataTools)
    IN \/ stack = {}
       \/ \E s \in Bench : /\ s.engineers > 0 /\ ~s.committed
                           /\ stack \cap ({s.name} \cup s.skills) # {}

\* Whatever the closer is given to say stems from the data, with the certainty the data
\* allow; amounts and percentages only as far as FundingGrounded and LayoffGrounded say.
\* The chain: pages and rows, fetchers, assembler, scorer, bench, researcher.
Grounded ==
  Assessed =>
    /\ HiringGrounded /\ FundingGrounded /\ LayoffGrounded
    /\ MaturityGrounded /\ GapGrounded /\ CapacityGrounded

\* The official criteria as the scoring functions list them (classifier.py:117-308), of
\* the data themselves.  Three readings are the code's: what is unknown of size or roles
\* counts as met; segment 2 asks no "Series C+", but a number in the layoff's row; and
\* segment 4 asks nothing besides the score.  A headcount is the row's band.
Band == IF Listed /\ company.row.band \in DOMAIN EmployeeBands THEN EmployeeBands[company.row.band] ELSE <<None, None>>
SizeIn(from, to) ==
  /\ Band[1] # None => Band[1] <= to
  /\ Band[2] # None => Band[2] >= from
RolesAtLeast(n) == DOMAIN Answers = {} \/ OpenRoles >= n

\* A layoff in 120 days, 200 to 2000 people, three open roles.
Restructuring(dated) ==
  LET own == {i \in DOMAIN company.layoffs : company.layoffs[i].company \in Similar}
      numbered == {i \in Youngest(company.layoffs, own) :
                     /\ dated => company.layoffs[i].age <= 120
                     /\ \/ company.layoffs[i].headcount # None
                        \/ company.layoffs[i].percentage # None}
  IN numbered # {} /\ SizeIn(200, 2000) /\ RolesAtLeast(3)

\* A new CTO or VP of engineering in 90 days, 50 to 500 people.
NewLeadership == NewLeaders # {} /\ SizeIn(50, 500)

\* A maturity of 2, which takes a new leader and five roles, or a role and a modern tool.
Capability == NewLeaders # {} /\ (OpenRoles >= 5 \/ (OpenRoles >= 1 /\ TechSeen \cap ModernTools # {}))

\* Series A or B by its name, 5 to 30 million, closed in 180 days, 15 to 80 people, five
\* open roles.
Funded(dated, roles) ==
  /\ Listed /\ SizeIn(15, 80)
  /\ \E i \in RecentRounds(dated) :
       LET r == company.row.rounds[i]
       IN /\ r.title # <<>> /\ RoundType(r.title) \in EarlyRounds
          /\ r.amount # None /\ r.amount \in 5 * Million..30 * Million
  /\ RolesAtLeast(roles)

\* The first segment, in the official order, whose criteria are met.
Earned(dated, roles) ==
  CASE Restructuring(dated)                                -> "segment_2"
    [] ~Restructuring(dated) /\ NewLeadership              -> "segment_3"
    [] ~Restructuring(dated) /\ ~NewLeadership /\ Capability -> "segment_4"
    [] ~Restructuring(dated) /\ ~NewLeadership /\ ~Capability /\ Funded(dated, roles) -> "segment_1"
    [] OTHER                                               -> "unqualified"

\* Where dates count, the segment is the first whose official criteria the data meet, and
\* none if they meet none's: the confidences and caps decide exactly that.  Where dates are
\* ignored, the default, the ages of layoffs and rounds are waived as the setting's name
\* says.  Then the code also waives segment 1's five roles, which its docstring and
\* README.md:62 ask for: a funded company with two open roles is given segment 1.
SegmentEarned ==
  Assessed =>
    /\ ~ignoreDates => brief.segment = Earned(TRUE, 5)
    /\ ignoreDates => brief.segment = Earned(FALSE, 0)
=============================================================================
