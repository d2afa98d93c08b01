----------------------------- MODULE VerifyBatch -----------------------------
(***************************************************************************)
(* verify_batch() of src/citation_verifier/verifier.py: one lookup request *)
(* per chunk of citations, tried three times and then replaced by a lookup *)
(* per citation; the hits processed one after the other, with the caption  *)
(* investigation of Verifier; the misses sent together through the search  *)
(* fallback of Verifier, interleaved at their awaits by asyncio.gather.    *)
(*                                                                         *)
(* Citations are numbered in the order they are given.  Chunks are bounded *)
(* by a number of citations; the second bound, 50000 characters, cuts the  *)
(* text in the same way and is left out.  The response to a chunk lists    *)
(* one entry per citation string the API recognizes, in the order of the   *)
(* text, and stops at ResponseCap entries without saying so.               *)
(***************************************************************************)
EXTENDS Verifier, FiniteSets, FiniteSetsExt, Functions

CONSTANTS
  MAX_CITATIONS_PER_CHUNK,
  MAX_ATTEMPTS,
  ResponseCap,    \* entries of one lookup response
  Entries         \* entries the API recognizes in each citation string

ASSUME BatchAssumption ==
  /\ IsFiniteSet(Cite) /\ Cite # {} /\ Cite \subseteq Nat \ {0}
  /\ MAX_CITATIONS_PER_CHUNK \in Nat \ {0}
  /\ MAX_ATTEMPTS \in Nat \ {0}
  /\ ResponseCap \in Nat
  /\ Entries \in [Cite -> Nat \ {0}]

VARIABLES
  phase,      \* what the coroutine of verify_batch is doing
  chunk,      \* the number of the chunk being looked up
  attempt,    \* its failed attempts
  singles,    \* citations of the chunk still to be looked up one by one
  hits,       \* batch_hits: the citations a lookup found
  completed   \* what progress_callback was last called with

lookupVars == <<phase, chunk, attempt, singles, hits>>
batchVars == <<vars, lookupVars, completed>>

BatchInit ==
  /\ parsed \in [Cite -> Input]
  /\ world \in [Cite -> World]
  /\ quickOnly \in BOOLEAN
  /\ pc = [c \in Cite |-> "waiting"]
  /\ path = [c \in Cite |-> << >>]
  /\ pool = [c \in Cite |-> << >>]
  /\ result = [c \in Cite |-> NoResult]
  /\ failed = [c \in Cite |-> {}]
  /\ phase = "lookup" /\ chunk = 0 /\ attempt = 0
  /\ singles = {} /\ hits = {}
  /\ completed = 0

-----------------------------------------------------------------------------
(* _batch_citation_lookup *)

(* Seeded fault: the chunks are not bounded by their number of citations. *)
OneChunk(c) == 0

(* The number of the chunk a citation is sent in. *)
ChunkOf(c) == (c - 1) \div MAX_CITATIONS_PER_CHUNK

InChunk(k) == {c \in Cite : ChunkOf(c) = k}

Known == {c \in Cite : world[c].lookup # "miss"}

(* CourtListener answers a chunk in the order of its text, up to the cap. *)
Listed(c) == SumFunctionOnSet(Entries, {b \in InChunk(ChunkOf(c)) : b < c}) < ResponseCap

(* The chunk is over: the next one, or the processing of the hits. *)
NextChunk ==
  /\ attempt' = 0
  /\ singles' = {}
  /\ \/ chunk < ChunkOf(Max(Cite)) /\ chunk' = chunk + 1 /\ phase' = "lookup"
     \/ chunk = ChunkOf(Max(Cite)) /\ UNCHANGED chunk /\ phase' = "hits"

ChunkAnswered ==
  /\ phase = "lookup"
  /\ hits' = hits \cup {c \in InChunk(chunk) \cap Known : Listed(c)}
  /\ NextChunk
  /\ UNCHANGED <<vars, completed>>

(* Seeded fault: the attempts start over instead of giving up on the chunk. *)
ChunkRaisesForever ==
  /\ phase = "lookup"
  /\ attempt' = (attempt + 1) % MAX_ATTEMPTS
  /\ UNCHANGED <<vars, phase, chunk, singles, hits, completed>>

(* The request raised: again after a sleep, then one citation at a time. *)
ChunkRaises ==
  /\ phase = "lookup"
  /\ \/ /\ attempt < MAX_ATTEMPTS - 1
        /\ attempt' = attempt + 1
        /\ UNCHANGED <<phase, singles>>
     \/ /\ attempt = MAX_ATTEMPTS - 1
        /\ phase' = "singles"
        /\ singles' = InChunk(chunk)
        /\ UNCHANGED attempt
  /\ UNCHANGED <<vars, chunk, hits, completed>>

LookupSingle(c) ==
  /\ phase = "singles" /\ c \in singles /\ \A d \in singles : c <= d
  /\ \/ hits' = hits \cup ({c} \cap Known) /\ Failed(c, {})
     \/ Failed(c, {"lookup"}) /\ UNCHANGED hits
  /\ \/ /\ singles # {c}
        /\ singles' = singles \ {c}
        /\ UNCHANGED <<phase, chunk, attempt>>
     \/ singles = {c} /\ NextChunk
  /\ UNCHANGED <<parsed, world, quickOnly, pc, path, pool, result, completed>>

-----------------------------------------------------------------------------
(* _run_batch *)

(* A step of one citation; when it answers, the callback hears of one more. *)
Counted(c) ==
  /\ completed' = IF pc'[c] = "done" THEN completed + 1 ELSE completed
  /\ UNCHANGED lookupVars

(* Seeded fault: a hit under another name is not investigated. *)
ProcessHitUnchecked(c) ==
  /\ phase = "hits" /\ c \in hits /\ pc[c] = "waiting"
  /\ Finish(c, << Entry("citation_lookup", "resolved") >>, OfCluster("VERIFIED", "none"))
  /\ UNCHANGED <<parsed, world, quickOnly, pool, failed>>
  /\ Counted(c)

(* The hits in their order, each to its end before the next. *)
ProcessHit(c) ==
  /\ phase = "hits" /\ c \in hits
  /\ \A d \in hits : d < c => pc[d] = "done"
  /\ \/ /\ pc[c] = "waiting"
        /\ LookupHit(c)
        /\ UNCHANGED <<parsed, world, quickOnly, failed>>
     \/ InvestigateCaption(c)
     \/ CaptionUnclassified(c)
  /\ Counted(c)

HitsProcessed ==
  /\ phase = "hits" /\ \A c \in hits : pc[c] = "done"
  /\ phase' = "misses"
  /\ UNCHANGED <<vars, chunk, attempt, singles, hits, completed>>

(* A miss is recorded as a lookup without a match, whatever became of the *)
(* request; quick_only ends it there.                                     *)
StartMiss(c) ==
  /\ phase = "misses" /\ c \notin hits /\ pc[c] = "waiting"
  /\ LookupWithoutHit(c, "no_match")
  /\ UNCHANGED <<parsed, world, quickOnly, failed>>
  /\ Counted(c)

(* A step of the _fallback task of one citation. *)
SearchMiss(c) ==
  /\ phase = "misses"
  /\ Fallback(c)
  /\ Counted(c)

(* Seeded fault: the fallback tasks are not awaited. *)
ReturnUnawaited ==
  /\ phase = "misses"
  /\ phase' = "returned"
  /\ UNCHANGED <<vars, chunk, attempt, singles, hits, completed>>

Return ==
  /\ phase = "misses" /\ \A c \in Cite : pc[c] = "done"
  /\ phase' = "returned"
  /\ UNCHANGED <<vars, chunk, attempt, singles, hits, completed>>

Returned == phase = "returned" /\ UNCHANGED batchVars

BatchNext ==
  \/ ChunkAnswered
  \/ ChunkRaises
  \/ HitsProcessed
  \/ Return
  \/ Returned
  \/ \E c \in Cite : LookupSingle(c) \/ ProcessHit(c) \/ StartMiss(c) \/ SearchMiss(c)

BatchSpec == BatchInit /\ [][BatchNext]_batchVars

(* Every await of the batch ends: the retries of the client are bounded. *)
BatchFairSpec == BatchSpec /\ WF_batchVars(BatchNext)

-----------------------------------------------------------------------------
(* Properties *)

(* A citation waiting for the batch is one whose lookup verify() has not made; *)
(* that a lookup of its own raised is known to nobody.                         *)
OneByOne ==
  INSTANCE Verifier WITH
    pc <- [c \in Cite |-> IF pc[c] = "waiting" THEN "citation_lookup" ELSE pc[c]],
    failed <- [c \in Cite |-> failed[c] \ {"lookup"}]

(* A lookup that raised counts as one without a match. *)
Swallowed(c) == "lookup" \in failed[c] /\ StartMiss(c)

(* verify_batch answers each citation as verify() would: the chunked lookup,   *)
(* the hit loop and the concurrent fallback are steps of verify() or stutter.  *)
(* There is one other step, a miss that is none.                               *)
ImplementsVerify ==
  /\ OneByOne!Init
  /\ [][OneByOne!Next \/ \E c \in Cite : Swallowed(c)]_(OneByOne!vars)

(* No hit is lost between the response to a chunk and batch_hits: what the     *)
(* citation-count bound of _batch_citation_lookup is there for.                *)
NoHitTruncated ==
  phase \in {"hits", "misses", "returned"} =>
    \A c \in Known : "lookup" \notin failed[c] => c \in hits

(* The list that is returned has a result in each place, and the callback has  *)
(* counted every one of them exactly once (progress_callback of _run_batch).   *)
EveryPlaceFilled ==
  /\ completed = Cardinality({c \in Cite : pc[c] = "done"})
  /\ phase = "returned" => \A c \in Cite : result[c] # NoResult

(* The batch returns, however often its requests raise. *)
BatchReturns == <>(phase = "returned")
=============================================================================
