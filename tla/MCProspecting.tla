--------------------------- MODULE MCProspecting ---------------------------
(* Prospecting on companies combined from small sets of rows, pages and settings. *)
EXTENDS Prospecting

Event(age, label) == [age |-> age, label |-> label]
Round(title, age, amount) == [title |-> title, age |-> age, amount |-> amount]
Cut(name, age, headcount, percentage) ==
  [company |-> name, age |-> age, headcount |-> headcount, percentage |-> percentage]
Page(cards, tech) == [cards |-> cards, tech |-> tech]
Site(builtin, wellfound, careers) ==
  [browser |-> TRUE, builtin |-> builtin, wellfound |-> wellfound, careers |-> careers]

Row(id, band, rounds, hires, tech) ==
  [id |-> id, uuid |-> None, name |-> id, band |-> band, stage |-> None, website |-> TRUE,
   sectors |-> {"software"}, rounds |-> rounds, hires |-> hires, tech |-> tech,
   siftery |-> {}, keywords |-> {}, phrases |-> {}]

\* Peers: two mature in the seed stage and two in series a, one of each with kafka.
Peer(id, title, tech) ==
  [Row(id, "51-100", <<Round(<<title, id>>, 400, 3000000)>>, <<Event(50, {"ai"})>>, tech)
     EXCEPT !.keywords = {"ai", "ml", "llm"}, !.phrases = {"executive"}]

MCRows == <<Peer("r1", "series a", {"kafka", "dbt"}), Peer("r2", "series a", {"dbt"}),
            Peer("r3", "seed round", {"kafka", "apache spark"}), Peer("r4", "seed round", {"kafka"})>>

MCRounds == {<<>>,
             <<Round(<<"series a", "us">>, 30, 12600000), Round(<<"seed round">>, 400, 2000000)>>,
             <<Round(<<"pre-series a", "us">>, 200, 5000000), Round(<<>>, None, 20000000)>>,
             <<Round(<<"seed round">>, 60, 400000)>>,
             <<Round(<<"seed round">>, -3, None), Round(<<"series b round">>, 180, 30000000)>>}

MCHires == {<<>>, <<Event(30, {"cto"})>>,
            <<Event(120, {"cto"}), Event(-5, {"vp engineering"}), Event(20, {"other"})>>}

MCBands == {None, "11-50", "251-500", "1001-5000"}

MCLayoffs == {<<>>,
              <<Cut("us", 300, 40, None), Cut("them", 5, 90, 50)>>,
              <<Cut("us too", 60, None, 6), Cut("us", 200, None, None)>>,
              <<Cut("us", 60, None, None)>>}

MCSites ==
  {Site(Refused, Page(0, {}), <<Refused, Refused, Refused>>),
   Site(Page(2, {"python"}), Page(0, {}), <<Refused, Page(0, {"go"}), Refused>>),
   Site(Page(1, {}), Page(1, {"pytorch"}), <<Refused, Refused, Refused>>),
   Site(Page(4, {}), Refused, <<Page(0, {}), Page(3, {"kafka"}), Page(9, {})>>)}

MCModernNames == ModernTools \cup {"apache spark"}
MCEarlyRounds == {"series a", "series b", "pre-series a"}

Us == [company |-> "us", name |-> "us", closest |-> None]

MCCompanies ==
  {[prospect |-> Us, row |-> Row("us", band, rounds, hires, tech), layoffs |-> layoffs, site |-> site] :
     band \in MCBands, rounds \in MCRounds, hires \in MCHires,
     tech \in {{}, {"ruby", "react"}}, layoffs \in MCLayoffs, site \in MCSites}
  \cup
  {[prospect |-> p, row |-> [Row("other", "251-500", <<>>, <<Event(30, {"cto"})>>, {"ruby"}) EXCEPT !.uuid = "other's uuid"],
    layoffs |-> layoffs, site |-> [site EXCEPT !.browser = up]] :
     p \in {[company |-> "us", name |-> "otter", closest |-> "other"],
            [company |-> "other's uuid", name |-> "other", closest |-> None],
            [company |-> "us", name |-> "us", closest |-> None]},
     layoffs \in MCLayoffs, site \in MCSites, up \in BOOLEAN}

MCSimilar == {"us", "us too"}

MCBench == {[name |-> "python", engineers |-> 4, committed |-> FALSE, skills |-> {"pytorch"}],
            [name |-> "ruby", engineers |-> 3, committed |-> TRUE, skills |-> {}],
            [name |-> "go", engineers |-> 0, committed |-> FALSE, skills |-> {"kafka"}]}
=============================================================================
