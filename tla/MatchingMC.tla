----------------------------- MODULE MatchingMC -----------------------------
(***************************************************************************)
(* Small instances of Matching.  "ny" is a fragment that "sunny" holds,    *)
(* "county" and "inc" are generic, "smithson" holds "smith", and "fdic"    *)
(* abbreviates "federal deposit insurance".                                *)
(***************************************************************************)
EXTENDS Matching, SequencesExt

Stop_ == {"the"}
Short_ == {"ny"}
Generic_ == {"county", "inc", "state"}
Government_ == {"state"}
Vocabulary == {"the", "ny", "county", "cnty", "inc", "state", "smith", "smithson", "jones", "doe",
               "fdic", "federal", "deposit", "insurance", "sunny"}
Acronym_ == [w \in Vocabulary |-> IF w = "fdic" THEN <<"f", "d", "i", "c">> ELSE <<>>]
Initial_ == [w \in Vocabulary |->
                CASE w \in {"federal", "fdic"} -> "f" [] w \in {"deposit", "doe"} -> "d"
                  [] w \in {"insurance", "inc"} -> "i" [] w = "the" -> "" [] OTHER -> "s"]
Within_ == {<<"smith", "smithson">>, <<"ny", "sunny">>}
Base_ == [w \in Vocabulary |-> IF w = "county" THEN "cnty" ELSE w]

Parties == {<<"smith">>, <<"county">>, <<"doe">>, <<"fdic">>, <<"ny", "county">>, <<"state">>,
            <<"county", "jones">>}
CitedNames_ ==
    {[name |-> p \o d, plaintiff |-> p, defendant |-> d] :
        p \in Parties, d \in Parties}
    \cup {[name |-> n, plaintiff |-> <<>>, defendant |-> <<>>] :
            n \in {<<>>, <<"smith">>, <<"county">>, <<"the", "jones">>}}

Sides == {<<"smithson">>, <<"county">>, <<"state">>, <<"federal", "deposit", "insurance">>,
          <<"jones", "inc">>, <<"sunny">>}
Two(a, b) == [left |-> a, right |-> b]
Some == {Two(a, b) : a \in Sides, b \in Sides \cup {<<>>}} \cup {Two(<<>>, <<>>)}
Few == {Two(<<"smith">>, <<"doe">>), Two(<<"county">>, <<"jones">>), Two(<<"the", "cnty">>, <<"inc">>)}
CaptionSets_ ==
    {[cluster |-> k, full |-> f, docket |-> d, head |-> h] :
        k \in Some, f \in Few, d \in Few, h \in Few}

----------------------------------------------------------------------------
Cited_ == [kind |-> "reporter", family |-> "fsupp", vol |-> <<2, 1>>, page |-> <<3, 4>>]
Plain(n) == [form |-> "plain", year |-> 15, type |-> "cv", serial |-> n]
Case_ == [court |-> [form |-> "abbreviation", name |-> "sdny"], date |-> <<2015, 3, 9>>,
          docket |-> Plain(1), cite |-> Cited_]

CitedCases_ ==
    {[Case_ EXCEPT !.court = k, !.date = d, !.docket = n] :
        k \in {Case_.court, [form |-> "none", name |-> ""], [form |-> "bankr", name |-> "sdny"]},
        d \in {<<2015, 3, 9>>, <<2015, 0, 0>>, <<0, 0, 0>>},
        n \in {Plain(1), [form |-> "none", year |-> 0, type |-> "", serial |-> 0]}}
    \cup {[Case_ EXCEPT !.cite = [kind |-> "none", family |-> "", vol |-> <<>>, page |-> <<>>]]}

Records_ ==
    [sim: {0, 60, 100}, overlap: BOOLEAN, shares: {TRUE}, court: {<<>>, <<"district", "sdny">>},
     date: {<<2015, 3, 9>>, <<2014, 3, 9>>, <<0, 0, 0>>}, filed: {2014},
     docket: {[Plain(1) EXCEPT !.form = "prefix"], Plain(2),
              [form |-> "none", year |-> 0, type |-> "", serial |-> 0]},
     cites: {{}, {Cited_}, {[Cited_ EXCEPT !.page = <<5>>]}}]

\* One record for the scores, one for the gates of RECAP.
DocumentRecords_ ==
    LET r == [sim |-> 100, overlap |-> TRUE, shares |-> TRUE, court |-> <<"district", "sdny">>,
              date |-> <<2015, 3, 9>>, filed |-> 2014, docket |-> Plain(1), cites |-> {}]
    IN  {r, [r EXCEPT !.filed = 2030]}

CitedDates_ ==
    {[Case_ EXCEPT !.date = d] : d \in {<<2015, 3, 9>>, <<2015, 3, 0>>, <<1985, 3, 9>>}}

Desc(lead, kinds) == [lead |-> lead, kinds |-> kinds]
Ruled == Desc("none", {"opinion"})
Filed == Desc("motion", {"order"})
Documents ==
    {[own |-> Ruled, entry |-> Ruled, date |-> <<2015, 3, 9>>, free |-> FALSE, pages |-> 1],
     [own |-> Filed, entry |-> Filed, date |-> <<2015, 3, 9>>, free |-> TRUE, pages |-> 9],
     [own |-> Filed, entry |-> Filed, date |-> <<2015, 3, 9>>, free |-> FALSE, pages |-> 40],
     [own |-> Filed, entry |-> Filed, date |-> <<2015, 3, 20>>, free |-> FALSE, pages |-> 9],
     [own |-> Desc("none", {"order"}), entry |-> Ruled, date |-> <<2015, 3, 10>>, free |-> TRUE,
      pages |-> 20],
     [own |-> Ruled, entry |-> Ruled, date |-> <<2015, 9, 9>>, free |-> TRUE, pages |-> 30],
     [own |-> Ruled, entry |-> Ruled, date |-> <<2014, 3, 9>>, free |-> TRUE, pages |-> 30]}
Dockets_ == SUBSET Documents
Brought_ == {s \in SUBSET Documents : Cardinality(s) <= 2}

----------------------------------------------------------------------------
Opinion_(html, plain, pdf) == [html |-> html, plain |-> plain, xml |-> "nothing", pdf |-> pdf]
SomeOpinions ==
    {Opinion_("nothing", "nothing", "none"), Opinion_("markup", "nothing", "stored"),
     Opinion_("text", "text", "linked")}
Doc(text, file) == [text |-> text, file |-> file]
SomeDocs == {Doc(FALSE, FALSE), Doc(TRUE, FALSE), Doc(FALSE, TRUE)}

Page(kind, opinions, scan, entry, recent) ==
    [kind |-> kind, opinions |-> opinions, scan |-> scan, harvard |-> scan, entry |-> entry,
     recent |-> recent]
Pages_ ==
    {Page("opinion", o, s, <<>>, <<>>) :
        o \in BoundedSeq(SomeOpinions, 2), s \in BOOLEAN}
    \cup {Page(k, <<>>, FALSE, e, n) :
            k \in {"entry"}, e \in BoundedSeq(SomeDocs, 2), n \in BoundedSeq(SomeDocs, 1)}
    \cup {Page("docket", <<>>, FALSE, <<>>, n) : n \in BoundedSeq(SomeDocs, 2)}
    \cup {Page("other", <<>>, FALSE, <<>>, <<>>)}

CallsOf(page) ==
    CASE page.kind = "opinion" ->
             {<<"cluster", 0>>, <<"scan", 0>>} \cup {<<"opinion", i>> : i \in 1..Len(page.opinions)}
      [] page.kind \in {"entry", "docket"} ->
             {<<"entry", 0>>, <<"recent", 0>>, <<"docket", 0>>}
             \cup {<<"entry", i>> : i \in 1..Len(page.entry)}
             \cup {<<"recent", i>> : i \in 1..Len(page.recent)}
      [] OTHER -> {<<"cluster", 0>>}
Outcomes_ == [page \in Pages_ |-> [CallsOf(page) -> {"ok", "busy", "error"}]]

----------------------------------------------------------------------------
\* "within 8 b", a footnote's 8, repeated words and either kind of gap; "bca"
\* begins with "b", holds "c" and ends in "a".
EndOf_ == {<<"a", "bca">>}
StartOf_ == {<<"b", "bca">>}
PartOf_ == EndOf_ \cup StartOf_ \cup {<<"c", "bca">>}

Quotes_ ==
    {q \in BoundedSeq({"a", "b", "...", "[]"}, 4) :
        /\ Len(SelectSeq(q, LAMBDA t : t = "b")) <= 1
        /\ Len(SelectSeq(q, LAMBDA t : t \in {"...", "[]"})) <= 2
        /\ Len(SelectSeq(q, LAMBDA t : t = "a")) <= 2}
Opinions_ ==
    {o \in BoundedSeq({"a", "b", "c", "8", "*9"}, 4) :
        \A t \in {"b", "c", "8", "*9"} : Len(SelectSeq(o, LAMBDA u : u = t)) <= 1}
    \cup {<<"a", "c", "c", "b">>, <<"a", "within", "8", "b">>, <<"a", "[]", "b">>,
          <<"a", "c", "c", "c", "b">>}
    \cup {o \in BoundedSeq({"a", "b", "bca"}, 3) : "bca" \in Range(o)}

\* "shall be [held] liable" of "shall not be found liable".
BracketQuotes == {<<"shall", "be", "[]", "liable">>, <<"shall", "[]", "liable">>}
BracketOpinions ==
    {<<"shall", "not", "be", "found", "liable">>, <<"shall", "be", "found", "liable">>}
=============================================================================
