# TLA+ models of citation-verifier

These modules model the part of citation-verifier whose behaviour depends on
order, failure and concurrency, and the decisions that everything else rests
on: the client all requests share, the pipeline that turns the answers of
CourtListener into a status, the batch that runs many pipelines over one client,
the proposition pipeline, whose verbs fill a work directory together with agents
that answer in their own time, the transports that reach those agents, the cache
file three programs share, the review table of the web application, and the
functions that compare names, dates, documents and quotations. TLC checks them
on small instances; TLAPS proves the invariants that matter most for every value
of the constants.

Paths of sources are those of the repository; a name without a directory is in
`src/citation_verifier/`, and `app.py` is `web/app.py`.

## 1. The system

A brief is read, its citations are extracted and parsed, each citation is
looked up in CourtListener, the opinions found are downloaded, and the claims
the brief makes about them are checked and reported.

| component | state it keeps | operations | talks to | model |
|---|---|---|---|---|
| async client (`client.py`) | an `asyncio.Semaphore`, an `asyncio.Lock`, the time of the last request | one retry loop for every API call, one PDF download outside it | CourtListener; used by every coroutine of a batch | `AsyncClient`, `Retrieval` |
| sync client (`client.py`) | the time of the last request | the same calls, one at a time | CourtListener | `Retrieval` |
| resolution pipeline (`verifier.py`, `resolution_path.py`, `models.py`) | per citation: the path of stage entries, the pooled candidates | `verify`, `verify_async` | a client | `Verifier` |
| batch (`verifier.py`) | hits, results, the progress count | chunked lookup, hit loop, concurrent fallback | the pipeline, the async client | `VerifyBatch` |
| names, scores, dockets (`verifier.py`, `court_map.py`) | none | is this the case, how well does it match, which document is the ruling | the pipeline | `Captions`, `MatchScore` |
| quote matcher (`quote_matcher.py`) | none | are these the words of the opinion | the proposition pipeline | `QuoteMatcher` |
| proposition pipeline (`proposition_pipeline.py`, `scoring.py`) | a work directory: `claims.csv`, result files, opinion files, jobs | extract, verify, merge, check-quotes, crosscheck, triage, assess, apply-assessments, report | the batch, the cache, an executor | `Scoring`, `Workdir`, `PropositionPipeline` |
| executors (`executor.py`) | the calls of one run, its failures | send jobs through one of four transports and yield verdicts | model services | `Transports` |
| shadow step (`jev_shadow.py`) | a file of rows | asks a second model about every claim | a model service | `ShadowLog` |
| cache (`cache.py`) | one JSON file, and a copy in each process | read once, rewrite as a whole | three programs | `CitationCache` |
| command line (`__main__.py`) | none | verify with the cache, exit codes, the verbs | all of the above | parts of `CitationCache`, `PropositionPipeline`, `Transports` |
| MCP server (`mcp_server.py`) | none | the verbs, `full`, jobs | the proposition pipeline | parts of `PropositionPipeline` |
| web application (`app.py`) | a CSV table, its copy in memory, two lists, sidecar files | save a decision, run a batch, show a run, verify | the batch, the cache | `QcTable`, `CitationCache` |
| parser, text cleaner, tables of courts and reporters | none | strings to fields | the pipeline | constants |

What is hard in it, and where:

* **Interleaving.** The coroutines of a batch share the client's lock and
  semaphore and take them in two different orders. Three programs rewrite one
  cache file. A batch of the review page reads the table, awaits CourtListener
  and writes what it read. Agents answer while verbs run.
* **Failure.** Every call may raise. Some failures end a stage, some are
  swallowed inside one, some must end a run, and each must leave a trace.
* **Retries and limits.** 429 answers with a server's wait; attempts per chunk
  and then per citation; a response that is cut without a word; verbs that are
  rerun until every claim has its verdict.
* **Two copies of one algorithm.** `verify`, `verify_async` and `verify_batch`
  each spell out the stages; the two clients each look for a text.
* **Crashes.** Files are rewritten in place or appended to, by processes that
  are meant to be killed and run again.
* **Evidence.** Names are compared on what is left after stop words; weights
  are added, redistributed and capped; brackets licence words by position.

`PROJECT.json` lists each hazard at its line with the properties that cover it.

## 2. Modules

| module | what it is |
|---|---|
| `RequestGate` | abstract: a gate with a bounded number of places and a token bucket |
| `AsyncClient` | the async client: coroutines, lock, semaphore, backoff, time |
| `Verifier` | the pipeline of one citation, with each call free to raise |
| `VerifyBatch` | the batch: EXTENDS `Verifier` and refines its specification |
| `Scoring` | pure: colours, floors and lanes |
| `Workdir` | the files of a work directory and the verbs extract, verify and merge |
| `PropositionPipeline` | EXTENDS `Workdir`: the other verbs, `full`, agents, the report |
| `ShadowLog`, `Transports` | the shadow step; EXTENDS it: one run of assess after another over four transports |
| `CitationCache` | three programs over one cache file |
| `QcTable` | the review table of the web application |
| `Captions`, `MatchScore`, `Retrieval`, `QuoteMatcher` | pure: names, scores and dockets, texts, quotations |
| `Matching` | INSTANCEs of these four, put to every question of a small instance |
| `AsyncClient_proofs`, `Verifier_proofs`, `VerifyBatch_proofs`, `PropositionPipeline_proofs`, `Transports_proofs`, `CitationCache_proofs`, `QcTable_proofs`, `Matching_proofs` | theorems and proofs |
| `*MC` | definitions that give the constants small values for TLC |

Each module names, before a definition that is not in the code, what it stands
for; a definition marked as a seeded fault or a mutant is used by no other one.

### AsyncClient

State: where each coroutine is suspended (`pc`), which kind of call it makes,
its attempt, the FIFO queues of the rate lock and of the semaphore, the free
permits, the time since the last pass of the limiter, and the sleep timers.
`embargo` (how long the server told a caller to wait), `unheard` (that this was
said in a form the loop does not read) and `tokens` are history variables:
nothing reads them but the properties.

A step is what a coroutine does between two awaits that can suspend it.
`StartApi` and `StartPdf` begin a call, `PassLimiter` is the end of
`_rate_limit` together with the attempt to enter the semaphore, `Granted` is
the wake-up of the first waiter, `EndCall` is every way out of a request, and
`Throttled`/`Retry` are the two ends of a backoff. `Tick` is the clock.

A 429 names a wait (`NamedWait`), and the loop takes it if it reads it
(`WaitSeconds`): `wait_until` of a JSON body, or a Retry-After in seconds where
the body cannot be read. A header beside a readable body, and a date in it, are
not read, and the wait is the default of 60 seconds (`DefaultWait`). The sleep is
inside `async with self._semaphore`, so the permit is kept (client.py:652).

The order of the two primitives is the code's: an API call passes the limiter
and then asks for a permit (`_request_with_retry`), the PDF download asks for a
permit and then passes the limiter (`get_opinion_text_with_metadata`).

Abstractions: time is discrete and `elapsed` saturates at `Interval`, since the
code asks only whether the interval is over; contents of requests are gone; a
request ends or is throttled whenever it likes.

### Verifier and VerifyBatch

State per citation: the stage it is at, its path, its pooled candidates, its
result. `parsed` and `world` are chosen at the start: what the parser found and
what CourtListener holds. An API call either returns what the world says or
raises, independently each time; `failed` is the history of those that raised.

The actions are the stage blocks of `verify` and `_search_fallback`, in one
atomic step each, because within one citation nothing else touches its state
between two awaits. `CitationLookup` covers the hit, the miss and the error;
`InvestigateCaption` covers every subset of its three calls failing, each of
which the code swallows; `CaptionUnclassified` is the outer handler;
`RecapSearch` has the docket-entries query inside it, which fails on its own;
`Conclude` is `_build_fallback_result` with the refinement fetch inside it.
`Finalized` is `_finalize_result` with its two promotions.

Scores are hundredths and keep the two thresholds (0.40 and 0.50), the factor
of a bare docket (0.6) and the stable sort. A stage keeps only its best
candidate: the code reads nothing of the others, and the stable sort of the
pool then picks the same winner. Names, dates and citations are abstracted to
the outcome of the comparison the code makes; `Matching` is about how that
outcome comes about.

`VerifyBatch` uses the operators of `Verifier` for everything that concerns one
citation and adds the coroutine of `_run_batch`: chunks, attempts, the
citation-by-citation lookup after the last attempt, the loop over the hits, and
the tasks that `asyncio.gather` interleaves. `ImplementsVerify` says that the
batch refines `Verifier`: with a citation that waits for the batch seen as one
whose lookup has not been made, every step of the batch is a step of `verify`
for one citation or none, but for one: a lookup that raised becomes a lookup
without a match (`Swallowed`; verifier.py:3413, :3623 against :109).

### Scoring, Workdir and PropositionPipeline

State: the files that decide anything (`exists`, `claims`, `toa`, `body`, `vr`,
`opinions`, `opinions`, `extracted`, `jobs`, `verdicts`, `report`) and the process that runs
a verb (`pc`, `chain`, `force` and what it holds in memory: `answer`,
`citations`, `results`, `todo`). One process runs at a time. `chain` says that
the verb is a link of `full`, whose order is `Chain`; a verb that raises, or
leaves something pending, ends the call (`Stop`), any other goes on to the next
(`Return`).

Each write of a file is a step of its own, so a kill (`Kill`) falls between any
two of them: `ExtractWrites`, `ExtractToa` and `ExtractBody`; `Wave1`, one
`Download` after the other, `WriteResults`, `Wave2`, `AppendResults`. A verb
that rewrites `claims.csv` and nothing else is one step (`Merge`, `CheckQuotes`,
`RunCrosscheck`, `RunTriage`, `ApplyAssessments`). `ExtractDone` and
`VerifyDone` are the no-ops of a verb whose output exists and that was not run
with `--force`.

A citation is a number, and a name is its set of tokens, which is all that
`_link_opinion_file` looks at; the opinion file of a case is named by its
caption, so two cases with one caption would share a file, as in the code.
`vr` is `verification_results.csv`: one function from citations to outcomes for
each wave that was written, in their order. `Download` stores nothing without a
matched case, may swap in the longer text of a sibling, and may fail to write
after the swap, which then stays. `VerifyStarts` takes the citations of the
table and of both lists, or a list that its caller gives (`Explicit`, with the
history `given`), as the MCP tool and `--citations-file` do.
`Closest` is the Jaccard score with the threshold of one quarter, `Linked` the
three sources in their order, `LookedUp` the dictionary in which the last row of
a key counts. The outcome of each wave is chosen from the constants `Quick` and
`Full`: `Verifier` and `VerifyBatch` say how it comes about. What the quote
matcher says is the constant `QuoteCheck`.

Agents answer outside the process. `AgentReads` takes a job of
`jobs/assess.json` and reads the opinion file it names, `AgentSubmits` appends
what the agent says; between the two the process may run any verb. With
`InProcess` the executor answers inside the verb, with a list of entries in
which a claim may occur twice or not at all (`Entries`,
`_fan_out_verdicts`). `about` is a history field of a verdict: which text the
agent read. One prompt version is in use at a time.

Left out: prompts and texts, `run.json`, the manifests, file extensions (one
file per caption), a write that is torn in the middle.

### ShadowLog and Transports

One run of `assess` after another, each through a transport of its own choice:
the agents of the SDK one by one, a pool of threads, one message batch that is
polled, or a recording. State: the claims with a line in the results file and
the job each line came from, how far each call is, what came back, the verdicts
not yet appended, the failures, and how the last run ended. A call may raise,
fail to authenticate, return a text without an object, an object for the whole
job, or a list of entries for its claims and for one in no job (`Stranger`), in
which a claim may occur twice or not at all: an answer, the verdicts made of it
(`FanOut`) and the lines of the file are counts per claim.
Opinion files may be unreadable, which fails one job on the pool and the whole
run on the batch, and two jobs may share a name cut to sixty letters, which the
batch refuses. A kill leaves what was appended. In `full` the shadow step comes
first; a kill inside its append leaves the head of a line, behind which the next
row is lost (`tail`).

### CitationCache

State: the entries of the file, whether it is valid JSON, and for each process
its copy, its call and what it has still to put. The command line, the web
application and the verify verb differ in what they take (`Taken`) and in what
they keep (`Kept`): the first takes and stores answers of every status, but
stores none into an empty copy (`if cache` asks for `len`), the second takes
nothing, the third takes and stores resolved answers only, in two waves. A NOT_FOUND is of one of two classes: the
miss of a quick call, which ends before the searches (`"unsearched"`), or the
miss of a full one (`"miss"`; `Outcomes`). `put`
is two steps, since `write_text` truncates first: another process may read the
torn file, which then counts as empty, or write into it at the same time.
`knew` is the history of what each process found in the file, `alone` says
whose rewrite no other one has met.

### QcTable

State: the rows of the table and whether it has the columns of the review, its
`.bak` file, the memory copy of `MasterCSV` (`view`), the batches, the sidecar
files and the two lists of follow-ups. `qc_save` does not await once its body is
there and is one step; `qc_run_batch` is two, `StartBatch` and one of
`WriteBack`, `WriteBackFails`, `EndEarly`. A save may be refused with the
decision already in memory (`SaveRefused`), or raise in the writer with the
file already cut, when the table has no column for it (`SaveRaises`). A list
that cannot be written is logged and the save acknowledged all the same. A kill
of a save (`KillSaving`) falls inside the rewrite of the table, between it and
the list, inside the list's `write_text`, which leaves any head of it
(`Interrupted`), or before the acknowledgement; one of a batch
(`KillWritingBack`) inside the rewrite of the table or with the sidecar opened
and empty (`Opened`). A citation text that occurs in another's entry of a
list is taken for listed (`Mentions`), as in the code's substring test.
`before`, `refused`, `acked` (decisions acknowledged), `filed` (decisions the
table was rewritten with) and `marred` (lists whose writing failed or was
killed) are history.

### Captions, MatchScore, Retrieval, QuoteMatcher and Matching

`Captions` compares a cited name with the captions of a record: the name check
of a lookup hit, the investigation over up to four captions of which any may
fail to arrive, the party overlap. A caption is a sequence of words for each
side; stop words, generic words, placeholders, governments and acronyms are
constants. `MatchScore` is `_score_match` in ten-thousandths, with weights that
are redistributed over what the citation lacks, the penalty and the cap, the
gates of RECAP, the ranges of dates a docket is asked for and the choice among
its documents. `Retrieval` is the search for a text or a PDF behind an address
in both clients, over calls that succeed, meet a busy server or fail.
`QuoteMatcher` is `verify_quote` over tokens: the exact path, which looks for a
string in a string, so that the first word sought may be the end of a word of
the opinion and the last one the head of one (`StringIn`, over the constants
`EndOf`, `StartOf` and `PartOf`), the alignment of `SequenceMatcher` (longest
common stretch, first of several, and likewise on both sides) and the licences
of brackets, ellipses and footnote numbers. Its two recursions, over the tokens
of a text and over the regions of the alignment, are recursive functions, so
that they can be proved about.

`Matching` asks one question after another; its state is the question. Each
property holds the answer against a statement of what it claims, which is not
how the code computes it: a reading of the quotation in the opinion, a
telling word that both names have, an order among records, a ruling of the very
day.

Fuzzy ratios are abstracted: the similarity of names is a field of a record,
the place a quotation is sought in is any stretch of the opinion, and whether
its ratio is poor is a choice.

## 3. What the runs check

| run | result | instance | what it shows |
|---|---|---|---|
| `AsyncClient` | passes | 3 coroutines, 2 calls each, 2 permits, 2 attempts, waits of 1 and 2 ticks, 1 by default | `IInv`, `PermitsConserved`, `ImplementsGate`, `ServerWaitHonoured`, and `EveryCallEnds` under fairness |
| `Verifier` | passes | 1 citation, every parsed shape, every world of `VerifierMC` | `IInv`, `FailureFreeAnswer`, `ErrorsSurface`, `ClaimsAreBacked`, `IdsFitStatus`, `LossIsConfined` |
| `VerifyBatch` | passes | 3 citations, chunks of 2, 2 attempts | `NoHitTruncated`, `EveryPlaceFilled`, `ImplementsVerify`, and `BatchReturns` under fairness |
| `PropositionPipeline` | passes | 2 claims, 2 citations, 3 cases of which 2 have similar names, 1 kill | `GreenIsSupported`, `MissesResolved`, `FullIsIdempotent`, `OnlyFinishedReports`, `OwnFileIfStored` |
| `PipelineForced` | passes | 1 claim, an executor in the verb, 1 forced verb, a sibling swap, assess-v1 colours | `FloorHolds` |
| `PipelineLive` | passes | two different answers of an extraction with lists, and one that fails validation, 1 explicit list of citations, 1 kill | `ListsVerified`, and `ReportedUnlessNothingToJudge` under fairness |
| `QcTable` | passes | 3 rows, 2 of one text, 2 batches, 2 saves, 1 fault | `ShownIsSaved`, `TornIsBackedUp`, `ListsBacked`, `Reviewable`, `OnlyStaleWritesUndo` |
| `CitationCache` | passes | a process of each kind, 2 citations, 2 starts, 1 kill | `MissesAreSearched`, `OnlyStaleWritesLose` |
| `Transports` | passes | 3 jobs, 4 claims, 2 threads, 1 fault, an answer of 2 entries | `EveryJobAccounted`, `OneAnswerEach`, `NeverAskedAgain`, and `EveryClaimDone` under fairness |
| `Matching` | passes | names, records, dockets, pages and quotations of every kind | `NameOnEvidence`, `AgreementHelps`, `ExactDateWins`, `TextIsOfDocument`, `VerbatimReads` |
| `PipelineKilled` | violated | 2 claims, 1 kill | `VerifyResumes`: a verify killed between its waves is never resumed (proposition_pipeline.py:1054 against mcp_server.py:276) |
| `QuoteBracket` | violated | 2 quotations, 2 opinions | `OneWordPerBracket`: a bracket stands for two words, one of them "not" (quote_matcher.py:329 against :265) |

A violated run is a disagreement between the code and what its documentation
says; `PROJECT.json` quotes the line under `findings`. In `QuoteBracket`,
"shall be [held] liable" is called verbatim against "shall not be found
liable": `_covered` holds each run of added words against the bracket by itself,
up to one place away, so one bracket covers two runs.

### What the passing runs do not claim

Each of these is a restriction of a property or of an instance, and what the
code does beyond it.

* `VerifyBatch` gives each citation one entry in a response. With parallel
  citations a string gives several, and 150 strings can exceed the 200 entries
  of a response (verifier.py:3373; the docstring at :3332 counts strings).
* `LossIsConfined` names the places where a failed call may cost a citation its
  case. All three are real: a failed docket-entries query is swallowed and
  leaves a clean NOT_FOUND (verifier.py:1355), a resolved stage whose candidate
  the court gate rejects silences the error of the search that had the case
  (verifier.py:549), and a failed call of the caption investigation gives
  WRONG_CASE (verifier.py:2162). Only answers that became NOT_FOUND or WRONG_CASE
  are limited: what else a failure may do, such as lead to another source or to
  VERIFICATION_INCOMPLETE, is not.
* `ImplementsGate` takes a bucket as deep as there are coroutines: the limiter
  is passed before the semaphore, so requests held up by it leave together
  (client.py:627; the comment at :571 promises a minimum interval between any
  two).
* `PermitsConserved` counts a coroutine that sleeps in a backoff among the
  holders. The code keeps the permit (client.py:652), although its docstring says
  "the semaphore is released during backoff so other requests can proceed"
  (:619) and a comment says so again (:650): while all holders sleep, nobody
  else sends.
* `ServerWaitHonoured` excepts waits longer than the default that were named in a
  form the loop does not read (`unheard`; client.py:630).
* `GreenIsSupported` is checked and proved without `--force`: a forced verify
  changes the text of a claim, and its verdict stays
  (proposition_pipeline.py:1125 against README.md:205). `MissesResolved` is
  checked without it and proved with it, and speaks of calls that reached wave 2
  (otherwise: `PipelineKilled`).
* `OnlyFinishedReports` is checked with agents that answer by themselves. An
  executor's answer that names one claim twice and another not at all is counted
  by its entries, and `full` goes on (proposition_pipeline.py:1180).
* `ListsVerified` is asked of runs without a kill: `claims.csv` is written
  before the two lists, and extract is a no-op once it exists
  (proposition_pipeline.py:1030, :961), so that a killed extract leaves a
  directory in which no rerun ever writes them, although "resume = rerun the
  verb" (:863). It speaks of the answer that the table was written from, which
  need not be the agent's last; a forced verb may write the table again, and is
  left out with the kills. If verify was given a list of its own, only that list
  is verified: its results file makes the verify of `full` do nothing (:1054),
  and the other citations stay as they are.
* `FloorHolds` is checked with agents whose verdicts are valid. A verdict that
  is not leaves the colour that an earlier one gave, and `apply-assessments`
  holds that colour against no floor (proposition_pipeline.py:1240, :1267).
* `OwnFileIfStored` speaks of claims whose own file exists. If it could not be
  downloaded the claim is linked to the file of a case with a similar name
  (proposition_pipeline.py:170), which is also what happens to a citation below
  the threshold that still carries its candidate's address (:1820).
* `ReportedUnlessNothingToJudge` excepts documents none of whose claims can be
  judged: no results file is written for them, and `apply-assessments` raises
  (proposition_pipeline.py:1217), so `full` never reports.
* `OnlyStaleWritesUndo` lists the four ways a decision leaves the table: a save
  on its citation writes another; a refused one that memory kept is written with
  the next save; it asked for a rerun and the rerun is there; a batch that had
  read the table before it writes back what it read (app.py:1490). A verification
  leaves it for one that was asked for, or in such a write-back. Rows that a torn
  rewrite drops are in the backup of that rewrite; kills and failed writes are no
  exception. `OnlyStaleWritesLose` allows `--clear-cache` and the rewrite of a
  process that had not found the entry in the file (cache.py:226).
* `ShownIsSaved` excepts decisions whose save was refused: they stay in memory
  until the table is read again (app.py:124). `Reviewable` takes batches of
  different days or seeds; the sidecar of an equal pair is overwritten
  (app.py:1506).
* `ListsBacked` promises the entries of acknowledged decisions in lists whose
  writing never failed or was killed (`marred`): a list has no backup, and a kill
  inside its rewrite may take any of its entries (app.py:1072). It takes a
  citation whose text occurs in another's entry for listed: it never gets an
  entry of its own (app.py:1054).
* `MissesAreSearched` is about the misses of quick calls only. Otherwise the
  command line serves and stores answers of every status: a rerun takes
  VERIFICATION_INCOMPLETE from the cache and asks nobody (__main__.py:228), while
  the comment on the exit codes says "rerun" (:271). Into an empty cache it stores
  nothing, since `if cache:` asks for its length (__main__.py:247, cache.py:255),
  so alone it never fills one (against cache.py:209). `Taken` and `Usable` model
  both.
* `EveryJobAccounted` speaks of runs that return. A file that cannot be read
  makes a message batch raise as a whole, on every rerun (executor.py:446);
  a pool that met an authentication error still sends what is queued
  (executor.py:590). `OneAnswerEach` lets a claim have as many lines as its answer
  has entries for it: an entry that is repeated gives a repeated line
  (executor.py:280).
* `NameOnEvidence` names the three reasons for which a record is accepted. Two
  say little of the names: a name of which nothing is left to compare, and the
  first word of a government's opponent, which may be generic and may stand
  inside another word of the caption (verifier.py:2458), although the generic
  words are ones "that must never, on their own, establish that two captions name
  the same case" (:2380): "State v. County" is accepted on "county", and
  "United States v. Ng" on "Collings".
* `AgreementHelps` compares records and vouches for none. One without a name
  counts as overlapping (verifier.py:2637), and with the court and the date it
  reaches the threshold; a citation counts as found when the volume ends in the
  one cited and the page begins with it, as in the code's substring test (:2673).
* `ExactDateWins` says that the document shown is of the day, and a ruling or
  free: a free filing of that day may be shown in the ruling's place. It is asked
  of searches that brought the ruling, or nothing of the cited month that may be
  one: any ruling or free document of the month keeps the fetch from being made
  (verifier.py:811). Documents describe themselves, since the lead of an entry's
  description is not seen behind an empty one (:1481).
* `TextIsOfDocument` does not say that every text is found: a failed metadata
  call loses one that was, and the page of an entry without a text yields the
  text of another document of the docket (client.py:379). A scan behind a busy
  server is retried by one client and not by the other.
* `VerbatimReads` lets the first and the last word of a quotation lie inside words
  of the opinion, since the exact path looks for a string (quote_matcher.py:202):
  "legal conduct" is verbatim in "illegal conduct", although "any altered word is
  CLOSE" (:476). It leaves out opinions that alter their own sources: the gaps of
  the opinion license words of the quotation that it does not have.

Three disagreements with the documentation are visible without a run: a verified
claim without a text is yellow in the report (scoring.py:96) and gray in
README.md:203; `assessment` takes every colour of `derive_color`
(proposition_pipeline.py:1279) and three in docs/claims-csv-schema.md:121; a
command line that met only WRONG_CASE and CITE_UNCONFIRMED ends in exit code 0
(__main__.py:286), which says "all citations verified or skipped" (:269).

### Bounds

Three coroutines over two permits are the smallest instance in which one runs,
one sleeps in backoff and one waits; two calls each let a permit that was lost
or given back twice meet a later call; waits of one tick and of two, against a
default of one, make an unread wait too short or long enough. One citation suffices for `Verifier`,
whose citations share nothing. The worlds take scores on each side of each
threshold, a docket on each branch of `_process_recap_results`, and every subset
of sources that confirm a caption. Three citations in chunks of two give a full
chunk, a chunk that is not full, and two misses whose fallbacks interleave;
`FewPlainInit` starts `VerifyBatch` where one citation at most has court and
year, since the stages of a full fallback are those of `Verifier`.

`MaxKills`, `MaxForced`, `MaxAnswers` and `MaxVerdicts` bound the work
directory's history: one kill reaches every point between two writes, and a
rerun after it starts from every state the kill can leave; the last of
`MaxAnswers` answers of the extraction is valid, since an agent that never
answers properly never ends. Two claims let one be judged while the other waits;
two cases with a common token, and a third without, put names on both sides of
the threshold. The calls of verbs are unbounded, alone and in the chain. One
explicit list (`Explicit`) leaves out a citation that the work directory lists.

`MaxFaults` bounds kills, failed writes and authentication errors: one reaches
every point of a run, and the reruns after it are unbounded in `Transports`.
Three jobs on two threads let answers come back out of order while a job waits;
two of them share a shortened name. An answer on the first job, the one with two
claims, has up to two entries (`MaxEntries`), which is one for each claim or a
repeated one. Two starts (`MaxOpens`) let one process read
what another is rewriting, with the web application's calls unbounded; a third
adds no way of losing an entry that two do not have. Three rows, two of one
citation, two batches and two saves (`MaxSaves`) let a save fall into a batch
and a batch into another; `MaxSample` 2 leaves a row out. `rows` of `ShadowLog`
counts to two, which is one too many.

In `Matching` each constant set takes a word, record, document, page or token of
every kind the code distinguishes, quotations and opinions of up to four tokens,
and lists of up to two items. Each docket is below `MAX_DOCKET_ENTRIES`.

The thresholds, weights and factors of the code are kept; `MAX_CONCURRENT` 5,
`MAX_RETRIES`, `MAX_ATTEMPTS` and `MAX_CITATIONS_PER_CHUNK` 150 are constants
and are made small. Deadlock is not looked for in the work directory, the cache
and the table: at rest they need nothing to happen.

### Fairness

The event loop resumes whatever can run and the session's total timeout ends
every request: `AsyncClient` assumes weak fairness of the clock, of each
coroutine's passes and wake-ups and of the end of each request, and none of the
start of a call. FIFO queues make weak fairness enough. `VerifyBatch` assumes
that some step of the batch is taken while one can be, which holds because each
call of its client ends. `PipelineLive` assumes that a running verb goes on,
that the user who wants a report runs `full` again after it stopped (strong
fairness, since other calls may keep the directory busy), and that an agent that
is asked reads and answers, validly in the end for the extraction. `Transports`
assumes that a run goes on, that calls end, that the verb is run again through
the SDK and through the pool, with the shadow step, and that no call fails for
ever (strong fairness of its good answer); this is the user and the services,
and no line of the code. Nothing is assumed of kills, of faults, of `--force`
and of single verbs.

## 4. What is proved

Everything below is for every value of the constants that the named assumptions
of the modules admit. Where a theorem has a hypothesis of its own it is named,
with the reason for it. 35 of the 39 properties of the passing runs are stated
by a theorem; the other four are the liveness properties (last paragraph).

`AsyncClient_proofs`, for any number of coroutines, permits, attempts and calls:

* `TypeCorrect` and `PermitsAlwaysConserved`, from the inductive invariant
  `TypeOK /\ PermitsConserved /\ AttemptLeft`. Conservation alone is not
  inductive: the count of holders must change exactly when a coroutine enters
  or leaves, which needs the types, and `Retry` needs to know that only the API
  path sleeps.
* `WaitsAlwaysHonoured`: a coroutine that a 429 told to wait sends nothing
  before the wait is over, if the wait is no longer than the default or was named
  in a form the loop reads. The backoff of such a wait is never shorter than it
  (`EmbargoCovered`), and only its end leads back to a request.
* `ClientInvariant` and `GateImplemented`: if `Burst > |Task|`, the client keeps
  `IInv` and implements `RequestGate`. The bucket is never overdrawn because
  `PassesPaid` holds: every pass of the limiter that has not yet become a request
  is paid for. The hypothesis is what the code costs: it bounds the burst by the
  number of coroutines, not by one.

`PowerAssumption` (powers of two of an attempt are positive numbers) is stated
as an assumption because the provers have no theory of exponentiation; TLC
evaluates it.

`Verifier_proofs`, for any set of citations, inputs and worlds:

* `VerifierTypeCorrect`, `ErrorsAlwaysSurface`, `ClaimsAlwaysBacked`,
  `IdsAlwaysFit` and `VerifierInvariant`. The invariant adds three parts: each
  search adds one candidate at most (`PoolFitsStage`), a candidate over the
  threshold has resolved its stage (`FindingsRecorded`), a call that failed has
  left an errored entry (`FailuresRecorded`). `IInv` in `Verifier.tla` is their
  conjunction and is what the run checks; the proof goes through its form for
  one citation, `CInv`, because a step touches one citation only.
* `FailureFreeAlwaysAnswered` and `LossAlwaysConfined`, from `TInv`, which says
  of a citation at each stage what its pool holds if no call failed, and which
  failures account for the difference if one did (`OnTrack`). The second limits
  the answers that become NOT_FOUND or WRONG_CASE, and no others (section 3).

`VerifyBatch_proofs`, for any citations, worlds, chunks, attempts and failing
calls:

* `EveryPlaceAlwaysFilled`, `HitsNeverTruncated` and `BatchRefinesVerify`. The
  module instantiates `Verifier_proofs` under the refinement mapping, so that
  the invariant of one citation's pipeline holds of each citation as the batch
  sees it (`Seen`); `BatchInv` adds the counts and that the hits of the chunks
  answered so far are complete. The last two of them assume `RoomForAll`: the
  entries of a citation's chunk fit one response; without it a hit is cut off
  (section 3).
* `OneEntryEachFits` derives it from one entry per citation and a chunk no larger
  than the response, which is what the code counts on. The entries before a
  citation are a sum, a recursive function over sets; that there is such a
  function, and what it adds up to, is shown for the sets of one size after the
  other (`SumsAre`, `SumCounts`).

`PropositionPipeline_proofs`, for any claims, citations, cases, quotations,
agents, answers, kills and forced verbs:

* `RerunsKeepRows` (`FullIsIdempotent`), without a hypothesis. `FullInv` says of
  each verb of `full` what it leaves in a row (`Stable`), and that no later verb
  undoes it: merge keeps what check-quotes and crosscheck wrote, check-quotes
  recomputes the same floor, triage the same track.
* `ReportsOnlyFinished` (`OnlyFinishedReports`), if agents answer outside the
  process (`~InProcess`; section 3 has the reason). `AskedInv` adds that verdicts only grow and that
  past assess each claim that can be judged has one.
* `FloorAlwaysHolds`, if no recorded answer is invalid. The hypothesis is
  needed: with an invalid verdict after a valid one TLC finds a claim that keeps
  its green colour over a fabricated quotation. Kills and `--force` are allowed.
* `GreenAlwaysSupported`, without `--force` (`MaxForced = 0`). `SupportInv`
  follows a text from the row to the job, from the job to the agent that reads
  it and from there to the verdict: each is about the text its claim is linked
  to, because links are settled once the results are written (`Settled`). With
  one forced verb TLC finds a green claim whose verdict is about another text.
* `ListsAlwaysVerified` (`ListsVerified`), without a hypothesis, for any explicit
  lists. `AnswerInv` ties the table and the lists to one answer of the extraction,
  from the moment it is written; `CoverInv` says that verify looks up what it was
  given, or else whatever the work directory cites, and that its results cover it
  from the moment they are written.
* `OwnFileWhenStored`, without `--force` and for addresses that tell the cases
  apart (`SlugsTell`: the name in an address is close enough to its own case's
  caption and closer to it than to another's). `SlugsThatTell` proves this of
  addresses that spell the caption out.
* `MissesAlwaysResolved`, for citations with keys of their own (`KeysTell`;
  section 5), with `--force` too. `MemoryInv` ties what the running verify holds
  in memory to the rows of each wave in the file.

`Transports_proofs`, for any jobs, claims, recordings, threads and faults:

* `EveryJobAlwaysAccounted`, `AlwaysOneAnswerEach` and `NeverAskedTwice`, from
  `TransInductive`. `TransInv` says how far each job is: one that is queued has
  no claim with a verdict, one that is done is among the failures or its
  verdicts are appended or about to be, and a run that returned left nothing
  behind. The lines of a claim come from one answer, given to the job of its own
  opinion file, and are no more than that answer has entries for it. That a claim
  is in one job only, which keeps answers that come back
  out of order apart, is an assumption of `Transports`.

`CitationCache_proofs`, for any processes of the three kinds, keys, starts and
kills:

* `CacheTypeCorrect`, `MissesAlwaysSearched` and `OnlyStaleWritesAlwaysLose`,
  from `CacheInductive`. `CacheInv` says of each process that it is `Sound`: its
  record is typed, its copy still holds all it found in the file (`knew`), what it
  has still to put has an answer that is not a quick miss, and a call that is not
  quick has no quick miss; and of file and copies that they hold no quick miss
  (`Searched`). The second part is the reason why a rewrite loses an entry only if
  the process had not read it; the third is needed for it, since a put must not
  take an entry away.

`QcTable_proofs`, for any table, decisions, texts that contain one another,
batches, saves and faults:

* `QcTypeCorrect`, `AlwaysShownAsSaved`, `TornAlwaysBackedUp`,
  `ListsAlwaysBacked` and `OnlyStaleWritesAlwaysUndo`, from `QcInductive`.
  `QcInv` adds to the properties that no copy of the table is longer than the
  table (`CopiesOK`: a torn file is a prefix, and every index of it is a row),
  that memory and file agree on verifications even where a refused decision
  divides them (`SeenVerified`: a save writes memory back), and that a batch
  took only rows it could act on (`TakenActionable`), without which a
  verification could be replaced by one that nobody asked for. That a list whose
  writing was cut at any place still holds only what was filed is
  `InterruptedEntries`. `LeastOf` proves
  from well-foundedness that `Min` of a set of numbers is one of them: the row a
  decision goes to and the cell the writer stops at are such minima.
* `AlwaysReviewable`, if no two batches share a day and a seed (`OwnSidecars`;
  section 3). `ReviewInv` adds that the rows with which an open batch will
  replace the table are backed by sidecars too, and not only the table's.

`Matching_proofs`, for any vocabulary, tables, names, records, dockets, pages
and texts. The state is the question, so the work is in lemmas about the
functions:

* `NamesAlwaysOnEvidence`, if the parties' words are words of the name
  (`PartiesOfName`). No name is left out.
* `AgreementAlwaysHelps`, for cases and records that are typed as such
  (`CasesAreScored`, `RecordsAreScored`). The terms of the
  sum grow one by one with what agrees (`ScoreGrows`), whichever of the three
  redistributions of the weights applies, and a record that agrees in more is
  capped only if the other is.
* `ExactDateAlwaysWins`, if documents and citations with a year have a month
  (`DocketsAreDated`): CourtListener's dates are whole or missing, and without
  it a document of a year alone would end the search. The ruling of the day is
  among the documents considered, brought or fetched (`DayIsConsidered`); the
  score of a document of the day is not below another's, and its proximity is
  above (`DayRanksFirst`).
* `TextAlwaysOfDocument`, if the outcomes of a page tell how each of its calls
  ended (`PagesAreCalled`). A walk over a list ends where it ends without
  failures, or nowhere (`WalkIsSafe`).
* `VerbatimAlwaysReads`, if quotations and opinions are texts (`TextsAreLists`)
  and only words are parts of words (`PartsAreWords`). A string that the exact
  path finds is a first word, a middle that is the opinion's token for token, and
  a last word (`FramedText`), and taking edits and page marks out keeps it so
  (`WithoutFramed`).
  The words of a stretch of the opinion stand in the opinion as they do in the
  stretch (`WordsOfStretch`), and a text loses its edits first or together with
  its page marks (`WordsOfNeedle`). The blocks of the alignment follow each other
  in both texts (`BlocksTidy`); where no licence lets the quotation have words of
  its own, they place each of its words (`EveryWordPlaced`), and two words in a
  row stand next to each other or have an opcode between them that is licensed
  (`NextWord`), which is what the reading has to disclose.
* `OwnWordsAreVerbatim` is the converse for the plainest case: a quotation whose
  words are those of the place found is verbatim, whatever it marks as edited.

The library's induction theorems take an operator, which the provers cannot
instantiate. The inductions over data above go through sets instead: `AllNumbers`
and `AllTexts` (`AllSizes` in `VerifyBatch_proofs`) say that a set with the least
element that is closed under the next is the whole, which follows from the order
of the numbers being well-founded; each use names its set.

The hypotheses of `Matching_proofs` hold of the instance TLC checks, and so do
`RoomForAll`, `OwnSidecars`, `SlugsTell` and `KeysTell` of theirs.

Only model-checked, of what the passing runs check, is liveness
(`EveryCallEnds`, `BatchReturns`, `ReportedUnlessNothingToJudge`,
`EveryClaimDone`), which needs fairness and `ENABLED`. The two violated runs are
counterexamples of TLC.

## 5. Not modelled

* Parsing, cleaning and tokenizing of strings (`parser.py`, `text_cleaner.py`,
  `name_matcher.py`), the tables of courts and reporters, HTML and the report's
  layout: string functions without state. Their outcomes are constants.
* The torn write of `claims.csv` (proposition_pipeline.py:1291). The rewrite is
  one step; the reader of a torn list sees a shorter list or an error, which
  the models of the verbs do not tell apart. Neither is a torn line of the
  results file, which makes its loader raise (executor.py:81).
* Two citations that differ only in their pinpoint and share a key
  (proposition_pipeline.py:1762): `Key` is a parameter, the instances give each
  citation its own.
* Two prompt versions in one work directory; `run.json` and the manifests.
* The sync client's pauses and retries: it has one caller, and nothing
  interleaves with them.
* `verify-batch` of the command line and the audit of misses, uploads and pages
  of the web application, path checks of the MCP server: input and output around
  what is modelled.
* Scripts, tools and offline evaluations around the package.
