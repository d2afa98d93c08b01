------------------------------ MODULE Retrieval ------------------------------
(***************************************************************************)
(* client.py on texts: what the two clients give for the page of a match.  *)
(* A page is that of an opinion cluster, of a docket, or of one entry of a *)
(* docket; it takes several calls, and each of them may fail.              *)
(*                                                                         *)
(* A page is a record:                                                     *)
(*   kind      "opinion", "entry", "docket" or "other"                     *)
(*   opinions  the sub_opinions of the cluster, in order                   *)
(*   scan      the cluster has filepath_pdf_with_extracted_text            *)
(*   harvard   the cluster has filepath_pdf_harvard                        *)
(*   entry     the documents of the entry, in order                        *)
(*   recent    the documents of the docket's first entries                 *)
(***************************************************************************)
EXTENDS Naturals, Sequences, FiniteSets, SequencesExt, FiniteSetsExt

None == [from |-> <<"none">>, format |-> "none"]

\* How a call ends: "busy" is a 429 that is over before the last attempt.
\* _request_with_retry hides it, a bare request raises.
Succeeds(outcome) == outcome \in {"ok", "busy"}
Bare(outcome) == outcome = "ok"

----------------------------------------------------------------------------
(* _extract_opinion_text: a field holds nothing, mere markup, or a text *)

FormatOf(opinion, preferHtml) ==
    IF preferHtml /\ opinion.html # "nothing" THEN "html"
    ELSE IF \E f \in {"plain", "html", "xml"} : opinion[f] = "text" THEN "text"
    ELSE "none"

\* The documents of a list that have a text, by their places.
WithText(list) == {i \in DOMAIN list : list[i].text}

\* Mutant: an item whose call fails is passed over.
WalkedOver(list, good, call, out) ==
    LET there == {i \in good : Succeeds(out[<<call, i>>])}
    IN  IF there = {} THEN [found |-> "no", at |-> 0] ELSE [found |-> "yes", at |-> Min(there)]

\* A list whose items are asked for one by one up to the first that will do:
\* one that cannot be had ends the search.
Walked(list, good, call, out) ==
    LET first == Min(good \cup {Len(list) + 1})
    IN  IF \E i \in 1..Min({first, Len(list)}) : ~Succeeds(out[<<call, i>>])
        THEN [found |-> "failed", at |-> 0]
        ELSE IF good = {} THEN [found |-> "no", at |-> 0] ELSE [found |-> "yes", at |-> first]

----------------------------------------------------------------------------
(* The text of an opinion.  Court and docket number are asked for last, and *)
(* a failure there is passed over.                                         *)

OpinionText(page, preferHtml, out, scanned) ==
    LET good == {i \in DOMAIN page.opinions : FormatOf(page.opinions[i], preferHtml) # "none"}
        walk == Walked(page.opinions, good, "opinion", out)
    IN  IF ~Succeeds(out[<<"cluster", 0>>]) THEN None
        ELSE CASE walk.found = "failed" -> None
               [] walk.found = "yes" ->
                      [from |-> <<"opinion", walk.at>>,
                       format |-> FormatOf(page.opinions[walk.at], preferHtml)]
               [] OTHER -> IF preferHtml /\ page.scan /\ scanned
                           THEN [from |-> <<"scan">>, format |-> "pdf"] ELSE None

\* The synchronous client downloads the scan like everything else, the other
\* by a request of its own.
SyncOpinionText(page, preferHtml, out) ==
    OpinionText(page, preferHtml, out, Succeeds(out[<<"scan", 0>>]))
AsyncOpinionText(page, preferHtml, out) ==
    OpinionText(page, preferHtml, out, Bare(out[<<"scan", 0>>]))

----------------------------------------------------------------------------
(* The text of a docket's page *)

InEntry(page, out) ==
    IF page.kind # "entry" THEN [found |-> "no", at |-> 0]
    ELSE IF ~Succeeds(out[<<"entry", 0>>]) THEN [found |-> "failed", at |-> 0]
    ELSE Walked(page.entry, WithText(page.entry), "entry", out)

\* The first documents of the docket, if the entry has no text.
InRecent(page, out) ==
    IF ~Succeeds(out[<<"recent", 0>>]) THEN [found |-> "failed", at |-> 0]
    ELSE Walked(page.recent, WithText(page.recent), "recent", out)

\* The docket is asked for last, and a failure there loses the text.
DocketText(page, out) ==
    LET first == InEntry(page, out)
        found == IF first.found = "no" THEN InRecent(page, out) ELSE first
    IN  IF found.found = "yes" /\ Succeeds(out[<<"docket", 0>>])
        THEN [from |-> <<IF first.found = "yes" THEN "entry" ELSE "recent", found.at>>,
              format |-> "text"]
        ELSE None

SyncText(page, preferHtml, out) ==
    CASE page.kind = "opinion" -> SyncOpinionText(page, preferHtml, out)
      [] page.kind \in {"entry", "docket"} -> DocketText(page, out)
      [] OTHER -> None

AsyncText(page, preferHtml, out) ==
    CASE page.kind = "opinion" -> AsyncOpinionText(page, preferHtml, out)
      [] page.kind \in {"entry", "docket"} -> DocketText(page, out)
      [] OTHER -> None

----------------------------------------------------------------------------
(* The address of a PDF *)

\* A file in storage, or an address that is no web page's.
HasPdf(opinion) == opinion.pdf \in {"stored", "linked"}

OpinionPdf(page, out) ==
    LET good == {i \in DOMAIN page.opinions : HasPdf(page.opinions[i])}
        walk == Walked(page.opinions, good, "opinion", out)
    IN  IF ~Succeeds(out[<<"cluster", 0>>]) THEN <<"none">>
        ELSE CASE walk.found = "failed" -> <<"none">>
               [] walk.found = "yes" -> <<"opinion", walk.at>>
               [] OTHER -> IF page.harvard THEN <<"harvard">> ELSE <<"none">>

\* No call for each document: the entry lists the files.
Files(list) == {i \in DOMAIN list : list[i].file}

DocketPdf(page, out) ==
    IF page.kind = "entry" /\ ~Succeeds(out[<<"entry", 0>>]) THEN <<"none">>
    ELSE IF page.kind = "entry" /\ Files(page.entry) # {} THEN <<"entry", Min(Files(page.entry))>>
    ELSE IF Succeeds(out[<<"recent", 0>>]) /\ Files(page.recent) # {}
         THEN <<"recent", Min(Files(page.recent))>>
    ELSE <<"none">>

PdfUrl(page, out) ==
    CASE page.kind = "opinion" -> OpinionPdf(page, out)
      [] page.kind \in {"entry", "docket"} -> DocketPdf(page, out)
      [] OTHER -> <<"none">>

----------------------------------------------------------------------------
(* Properties *)

AllOk(out) == [call \in DOMAIN out |-> "ok"]

\* A call that fails costs the text or the file, it never puts another one in
\* its place (one `try` around each search).
FailureNeverSubstitutes(page, preferHtml, out) ==
    /\ SyncText(page, preferHtml, out) \in {None, SyncText(page, preferHtml, AllOk(out))}
    /\ AsyncText(page, preferHtml, out) \in {None, AsyncText(page, preferHtml, AllOk(out))}
    /\ PdfUrl(page, out) \in {<<"none">>, PdfUrl(page, AllOk(out))}

\* The two clients give the same text, a scan behind a busy server apart
\* ("Mirrors AsyncCourtListenerClient.get_opinion_text()").
ClientsAgree(page, preferHtml, out) ==
    (page.kind = "opinion" => out[<<"scan", 0>>] # "busy") =>
        SyncText(page, preferHtml, out) = AsyncText(page, preferHtml, out)

\* The page of an entry with a text gives that entry's.
EntryKeepsItsText(page, preferHtml, out) ==
    (page.kind = "entry" /\ \E i \in 1..Len(page.entry) : page.entry[i].text) =>
        AsyncText(page, preferHtml, out).from[1] \in {"entry", "none"}
=============================================================================
