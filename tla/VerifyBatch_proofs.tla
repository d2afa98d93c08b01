------------------------- MODULE VerifyBatch_proofs -------------------------
(***************************************************************************)
(* Proofs about VerifyBatch, for any citations, inputs, worlds, chunk size *)
(* and number of attempts.  The batch is seen as verify() of one citation  *)
(* at a time, as in VerifyBatch!OneByOne: the invariant of Verifier_proofs *)
(* holds of it as it is seen.                                              *)
(***************************************************************************)
EXTENDS VerifyBatch, FiniteSetTheorems, WellFoundedInduction, TLAPS

(* The substitution of OneByOne. *)
Seen ==
  INSTANCE Verifier_proofs WITH
    pc <- [c \in Cite |-> IF pc[c] = "waiting" THEN "citation_lookup" ELSE pc[c]],
    failed <- [c \in Cite |-> failed[c] \ {"lookup"}]

SeenPc == [c \in Cite |-> IF pc[c] = "waiting" THEN "citation_lookup" ELSE pc[c]]
SeenFailed == [c \in Cite |-> failed[c] \ {"lookup"}]
seenVars == <<parsed, world, quickOnly, SeenPc, path, pool, result, SeenFailed>>

Answers == {c \in Cite : pc[c] = "done"}

BatchTypeOK ==
  /\ pc \in [Cite -> Pc] /\ failed \in [Cite -> SUBSET Call]
  /\ phase \in {"lookup", "singles", "hits", "misses", "returned"}
  /\ chunk \in Nat
  /\ singles \in SUBSET Cite

Counts ==
  /\ completed = Cardinality(Answers)
  /\ phase = "returned" => Answers = Cite

(* No response is cut short: the entries of a chunk fit one response. *)
RoomForAll == \A c \in Cite : Listed(c)

(* The response that lists a citation, or its own lookup, has come back. *)
LookedUp(c) ==
  \/ phase \notin {"lookup", "singles"}
  \/ ChunkOf(c) < chunk
  \/ phase = "singles" /\ ChunkOf(c) = chunk /\ c \notin singles

Complete == \A c \in Known : LookedUp(c) /\ "lookup" \notin failed[c] => c \in hits

BatchInv ==
  /\ BatchTypeOK
  /\ hits \in SUBSET Known
  /\ Seen!SInv
  /\ Counts
  /\ RoomForAll => Complete

-----------------------------------------------------------------------------
(* The batch as it is seen *)

(* A place that is moved, and a call that failed, are seen moved and failed. *)
LEMMA SeenPcMoves ==
  ASSUME BatchTypeOK, NEW c \in Cite, NEW v, v # "waiting", pc' = [pc EXCEPT ![c] = v]
  PROVE  SeenPc' = [SeenPc EXCEPT ![c] = v]
BY DEF BatchTypeOK, SeenPc

LEMMA SeenFailedMoves ==
  ASSUME BatchTypeOK, NEW c \in Cite, NEW calls, "lookup" \notin calls, Failed(c, calls)
  PROVE  SeenFailed' = [SeenFailed EXCEPT ![c] = SeenFailed[c] \cup calls]
BY DEF BatchTypeOK, SeenFailed, Failed

(* The operators of the instance of Verifier are its own. *)
LEMMA SeenPure ==
  /\ \A p, entries, r : Seen!Finalized(p, entries, r) = Finalized(p, entries, r)
  /\ \A candidates : Seen!Best(candidates) = Best(candidates)
  /\ \A p, best : Seen!WrongCourt(p, best) = WrongCourt(p, best)
  /\ \A p, candidates, fetched :
          Seen!Judged(p, candidates, fetched) = Judged(p, candidates, fetched)
  /\ \A p : Seen!AfterMiss(p) = AfterMiss(p)
  /\ \A p, candidates : Seen!AfterOpinion(p, candidates) = AfterOpinion(p, candidates)
  /\ \A p, candidates :
          Seen!AfterRecapDocument(p, candidates) = AfterRecapDocument(p, candidates)
  /\ \A w : Seen!OpinionsFound(w) = OpinionsFound(w)
  /\ \A p, d, fetched : Seen!DocketsFound(p, d, fetched) = DocketsFound(p, d, fetched)
  /\ \A c : Seen!LookupKind(c) = LookupKind(c)
  /\ \A kind : Seen!HitResult(kind) = HitResult(kind)
<1>1. \A p, entries, r : Seen!Finalized(p, entries, r) = Finalized(p, entries, r)
  BY DEF Seen!Finalized, Seen!PromotedToIncomplete, Seen!PromotedToInsufficient, Seen!Has,
         Finalized, PromotedToIncomplete, PromotedToInsufficient, Has
<1>2. /\ \A candidates : Seen!Best(candidates) = Best(candidates)
      /\ \A p, best : Seen!WrongCourt(p, best) = WrongCourt(p, best)
  BY DEF Seen!Best, Seen!WrongCourt, Best, WrongCourt
<1>3. \A p, candidates, fetched :
           Seen!Judged(p, candidates, fetched) = Judged(p, candidates, fetched)
  BY DEF Seen!Judged, Seen!Best, Seen!WrongCourt, Seen!CiteChecked, Seen!Worth,
         Seen!OfCluster,
         Seen!Nothing, Seen!VerifiedScore, Judged, Best, WrongCourt, CiteChecked,
         Worth, OfCluster, Nothing, VerifiedScore
<1>4. /\ \A p : Seen!AfterMiss(p) = AfterMiss(p)
      /\ \A p, candidates : Seen!AfterOpinion(p, candidates) = AfterOpinion(p, candidates)
      /\ \A p, candidates :
              Seen!AfterRecapDocument(p, candidates) = AfterRecapDocument(p, candidates)
  BY DEF Seen!AfterMiss, Seen!AfterOpinion, Seen!AfterRecapDocument, Seen!RecapAllowed,
         Seen!CredibleScore, AfterMiss, AfterOpinion, AfterRecapDocument,
         RecapAllowed, CredibleScore
<1>5. /\ \A w : Seen!OpinionsFound(w) = OpinionsFound(w)
      /\ \A p, d, fetched : Seen!DocketsFound(p, d, fetched) = DocketsFound(p, d, fetched)
  BY DEF Seen!OpinionsFound, Seen!DocketsFound, Seen!OfOpinion, Seen!OfDocket,
         Seen!RecapCandidate, Seen!NoMatch, OpinionsFound, DocketsFound, OfOpinion,
         OfDocket, RecapCandidate, NoMatch
<1>6. /\ \A c : Seen!LookupKind(c) = LookupKind(c)
      /\ \A kind : Seen!HitResult(kind) = HitResult(kind)
  BY DEF Seen!LookupKind, LookupKind, Seen!HitResult, HitResult, Seen!OfCluster, OfCluster
<1> QED
  BY <1>1, <1>2, <1>3, <1>4, <1>5, <1>6

(* Each step of the batch is, seen so, a step of verify(). *)
LEMMA SeenMoves ==
  ASSUME BatchTypeOK, NEW c \in Cite
  PROVE  /\ \A calls : Failed(c, calls) /\ "lookup" \notin calls => Seen!Failed(c, calls)
         /\ \A entries, r : Finish(c, entries, r) => Seen!Finish(c, entries, r)
         /\ \A next : GoOn(c, next) /\ next # "waiting" => Seen!GoOn(c, next)
<1>1. \A calls : Failed(c, calls) /\ "lookup" \notin calls => Seen!Failed(c, calls)
  BY SeenFailedMoves DEF Seen!Failed, SeenFailed
<1>2. \A entries, r : Finish(c, entries, r) => Seen!Finish(c, entries, r)
  BY SeenPcMoves, SeenPure DEF Finish, Seen!Finish, SeenPc
<1>3. \A next : GoOn(c, next) /\ next # "waiting" => Seen!GoOn(c, next)
  BY SeenPcMoves DEF GoOn, Seen!GoOn, SeenPc
<1> QED
  BY <1>1, <1>2, <1>3

LEMMA SeenSearch ==
  ASSUME BatchTypeOK, NEW c \in Cite, NEW stage
  PROVE  /\ \A found, lost : SearchReturns(c, stage, found, lost) /\ "lookup" \notin lost
                               => Seen!SearchReturns(c, stage, found, lost)
         /\ \A call : SearchRaises(c, stage, call) /\ call # "lookup"
                               => Seen!SearchRaises(c, stage, call)
<1>1. \A found, lost : SearchReturns(c, stage, found, lost) /\ "lookup" \notin lost
                               => Seen!SearchReturns(c, stage, found, lost)
  BY SeenMoves DEF SearchReturns, Seen!SearchReturns, Entry, Seen!Entry, VerifiedScore,
                   Seen!VerifiedScore
<1>2. \A call :
           SearchRaises(c, stage, call) /\ call # "lookup" => Seen!SearchRaises(c, stage, call)
  <2> SUFFICES ASSUME NEW call, SearchRaises(c, stage, call), call # "lookup"
               PROVE  Seen!SearchRaises(c, stage, call)
    OBVIOUS
  <2>1. Failed(c, {call}) /\ "lookup" \notin {call}
    BY DEF SearchRaises
  <2>2. Seen!Failed(c, {call})
    BY <2>1, SeenMoves
  <2> QED
    BY <2>2 DEF SearchRaises, Seen!SearchRaises, Entry, Seen!Entry
<1> QED
  BY <1>1, <1>2

LEMMA SeenOpinionSearch ==
  ASSUME BatchTypeOK, NEW c \in Cite, OpinionSearch(c)
  PROVE  Seen!OpinionSearch(c)
<1>1. SeenPc[c] = "opinion_search"
  BY DEF OpinionSearch, SeenPc
<1>2. \/ Seen!SearchReturns(c, "opinion_search", Seen!OpinionsFound(world[c]), {})
      \/ Seen!SearchRaises(c, "opinion_search", "opinions")
  BY SeenSearch, SeenPure DEF OpinionSearch
<1>3. Seen!GoOn(c, Seen!AfterOpinion(parsed[c], pool'[c]))
  <2> DEFINE next == AfterOpinion(parsed[c], pool'[c])
  <2>1. GoOn(c, next) /\ next # "waiting" /\ Seen!AfterOpinion(parsed[c], pool'[c]) = next
    BY SeenPure DEF OpinionSearch, AfterOpinion, AfterRecapDocument
  <2> HIDE DEF next
  <2>2. SeenPc' = [SeenPc EXCEPT ![c] = next]
    BY <2>1, SeenPcMoves DEF GoOn
  <2> QED
    BY <2>1, <2>2 DEF GoOn, Seen!GoOn, SeenPc
<1> QED
  BY <1>1, <1>2, <1>3 DEF Seen!OpinionSearch, SeenPc

LEMMA SeenRecapSearch ==
  ASSUME BatchTypeOK, NEW c \in Cite, NEW stage, NEW call, call # "lookup", NEW d,
         RecapSearch(c, stage, call, d)
  PROVE  Seen!RecapSearch(c, stage, call, d)
<1>1. CASE SearchReturns(c, stage, DocketsFound(parsed[c], d, TRUE), {})
  BY <1>1, SeenSearch, SeenPure DEF Seen!RecapSearch
<1>2. CASE /\ d # NoMatch /\ d.docs # "listed" /\ parsed[c].year
           /\ SearchReturns(c, stage, DocketsFound(parsed[c], d, FALSE), {"entries"})
  <2>1. Seen!SearchReturns(c, stage, Seen!DocketsFound(parsed[c], d, FALSE), {"entries"})
    BY <1>2, SeenSearch, SeenPure
  <2> QED
    BY <1>2, <2>1 DEF Seen!RecapSearch, Seen!NoMatch, NoMatch
<1>3. CASE SearchRaises(c, stage, call)
  BY <1>3, SeenSearch DEF Seen!RecapSearch
<1> QED
  BY <1>1, <1>2, <1>3 DEF RecapSearch

LEMMA SeenRecapDocumentSearch ==
  ASSUME BatchTypeOK, NEW c \in Cite, RecapDocumentSearch(c)
  PROVE  Seen!RecapDocumentSearch(c)
<1>1. SeenPc[c] = "recap_document_search"
  BY DEF RecapDocumentSearch, SeenPc
<1>2. Seen!RecapSearch(c, "recap_document_search", "recap_documents", world[c].recapDoc)
  BY SeenRecapSearch DEF RecapDocumentSearch
<1>3. Seen!GoOn(c, Seen!AfterRecapDocument(parsed[c], pool'[c]))
  <2> DEFINE next == AfterRecapDocument(parsed[c], pool'[c])
  <2>1. GoOn(c, next) /\ next # "waiting" /\ Seen!AfterRecapDocument(parsed[c], pool'[c]) = next
    BY SeenPure DEF RecapDocumentSearch, AfterRecapDocument
  <2> HIDE DEF next
  <2>2. SeenPc' = [SeenPc EXCEPT ![c] = next]
    BY <2>1, SeenPcMoves DEF GoOn
  <2> QED
    BY <2>1, <2>2 DEF GoOn, Seen!GoOn, SeenPc
<1> QED
  BY <1>1, <1>2, <1>3 DEF Seen!RecapDocumentSearch, SeenPc

LEMMA SeenRecapDocketSearch ==
  ASSUME BatchTypeOK, NEW c \in Cite, RecapDocketSearch(c)
  PROVE  Seen!RecapDocketSearch(c)
<1>1. SeenPc[c] = "recap_docket_search"
  BY DEF RecapDocketSearch, SeenPc
<1>2. Seen!RecapSearch(c, "recap_docket_search", "recap_dockets", world[c].recapDocket)
  BY SeenRecapSearch DEF RecapDocketSearch
<1>3. Seen!GoOn(c, "conclude")
  BY SeenMoves DEF RecapDocketSearch
<1> QED
  BY <1>1, <1>2, <1>3 DEF Seen!RecapDocketSearch, SeenPc

LEMMA SeenConclude ==
  ASSUME BatchTypeOK, NEW c \in Cite, Conclude(c)
  PROVE  Seen!Conclude(c)
<1>1. SeenPc[c] = "conclude" /\ UNCHANGED <<parsed, world, quickOnly, pool>>
  BY DEF Conclude, SeenPc
<1>2. PICK docFetched \in BOOLEAN :
        /\ Failed(c, IF docFetched THEN {} ELSE {"document"})
        /\ ~docFetched => /\ pool[c] # << >> /\ ~WrongCourt(parsed[c], Best(pool[c]))
                          /\ Best(pool[c]).doc = "refinable"
                          /\ Best(pool[c]).score >= VerifiedScore
        /\ Finish(c, << >>, Judged(parsed[c], pool[c], docFetched))
  BY DEF Conclude
<1>3. Seen!Failed(c, IF docFetched THEN {} ELSE {"document"})
  <2>1. "lookup" \notin (IF docFetched THEN {} ELSE {"document"})
    OBVIOUS
  <2> QED
    BY <1>2, <2>1, SeenMoves
<1>4. Seen!Finish(c, << >>, Seen!Judged(parsed[c], pool[c], docFetched))
  <2> DEFINE r == Judged(parsed[c], pool[c], docFetched)
  <2>1. Finish(c, << >>, r) /\ Seen!Judged(parsed[c], pool[c], docFetched) = r
    BY <1>2, SeenPure
  <2> HIDE DEF r
  <2>2. SeenPc' = [SeenPc EXCEPT ![c] = "done"]
    BY <2>1, SeenPcMoves DEF Finish
  <2> QED
    BY <2>1, <2>2, SeenPure DEF Finish, Seen!Finish, SeenPc
<1>5. ~docFetched => /\ pool[c] # << >> /\ ~Seen!WrongCourt(parsed[c], Seen!Best(pool[c]))
                     /\ Seen!Best(pool[c]).doc = "refinable"
                     /\ Seen!Best(pool[c]).score >= Seen!VerifiedScore
  BY <1>2, SeenPure DEF VerifiedScore, Seen!VerifiedScore
<1> QED
  BY <1>1, <1>3, <1>4, <1>5 DEF Seen!Conclude, SeenPc

LEMMA SeenInvestigation ==
  ASSUME BatchTypeOK, NEW c \in Cite, InvestigateCaption(c) \/ CaptionUnclassified(c)
  PROVE  Seen!InvestigateCaption(c) \/ Seen!CaptionUnclassified(c)
<1>1. SeenPc[c] = "caption_investigation" /\ UNCHANGED <<parsed, world, quickOnly, pool>>
  BY DEF InvestigateCaption, CaptionUnclassified, SeenPc
<1>2. CASE InvestigateCaption(c)
  <2> DEFINE unheard(lost) == (lost \cap {"docket", "text"})
                        \cup (IF "cluster" \in lost THEN {"full", "docket"} ELSE {})
             heard(lost) == world[c].captions \ unheard(lost)
             entry == << [stage |-> "caption_investigation", verdict |-> "resolved"] >>
             answer(lost) ==
               IF heard(lost) # {}
               THEN [status |-> "VERIFIED", ids |-> {"cluster"}, text |-> "opinion",
                     warning |-> "name_divergence"]
               ELSE [status |-> "WRONG_CASE", ids |-> {"cluster"}, text |-> "opinion",
                     warning |-> "none"]
  <2>1. PICK lost \in SUBSET {"cluster", "docket", "text"} :
          /\ "cluster" \in lost => "docket" \notin lost
          /\ Failed(c, lost)
          /\ Finish(c, entry, answer(lost))
    BY <1>2 DEF InvestigateCaption, Entry, OfCluster
  <2>2. Seen!Failed(c, lost)
    BY <2>1, SeenMoves
  <2>3. Seen!Finish(c, entry, answer(lost))
    <3> DEFINE r == answer(lost)
    <3>1. Finish(c, entry, r)
      BY <2>1
    <3> HIDE DEF entry, r
    <3>2. SeenPc' = [SeenPc EXCEPT ![c] = "done"]
      BY <3>1, SeenPcMoves DEF Finish
    <3>3. Seen!Finish(c, entry, r)
      BY <3>1, <3>2, SeenPure DEF Finish, Seen!Finish, SeenPc
    <3> QED
      BY <3>3 DEF r
  <2> QED
    BY <1>1, <2>1, <2>2, <2>3 DEF Seen!InvestigateCaption, Seen!Entry, Seen!OfCluster,
                                  SeenPc
<1>3. CASE CaptionUnclassified(c)
  <2> DEFINE entry == << [stage |-> "caption_investigation", verdict |-> "errored"] >>
             answer == [status |-> "VERIFIED", ids |-> {"cluster"}, text |-> "opinion",
                        warning |-> "name_divergence"]
  <2>1. Finish(c, entry, answer) /\ Failed(c, {"investigation"})
    BY <1>3 DEF CaptionUnclassified, Entry, OfCluster
  <2>2. Seen!Failed(c, {"investigation"})
    BY <2>1, SeenMoves
  <2>3. Seen!Finish(c, entry, answer)
    <3> HIDE DEF entry, answer
    <3> QED
      BY <2>1, SeenMoves
  <2> QED
    BY <1>1, <2>2, <2>3 DEF Seen!CaptionUnclassified, Seen!Entry, Seen!OfCluster, SeenPc
<1> QED
  BY <1>2, <1>3

LEMMA SeenHit ==
  ASSUME BatchTypeOK, NEW c \in Cite, LookupHit(c)
  PROVE  Seen!LookupHit(c)
<1> DEFINE entry == [stage |-> "citation_lookup", verdict |-> "resolved"]
<1>1. CASE /\ LookupKind(c) = "mismatch"
           /\ pc' = [pc EXCEPT ![c] = "caption_investigation"]
           /\ path' = [path EXCEPT ![c] = Append(@, entry)]
           /\ UNCHANGED result
  <2>1. SeenPc' = [SeenPc EXCEPT ![c] = "caption_investigation"]
    BY <1>1, SeenPcMoves
  <2>2. Seen!LookupKind(c) = "mismatch" /\ UNCHANGED pool
    BY <1>1, SeenPure DEF LookupHit
  <2> QED
    BY <1>1, <2>1, <2>2 DEF Seen!LookupHit, Seen!Entry, SeenPc
<1>2. CASE /\ LookupKind(c) \in {"match", "nameless", "no_primary"}
           /\ Finish(c, << entry >>, HitResult(LookupKind(c)))
  <2> DEFINE r == HitResult(LookupKind(c))
             entries == << entry >>
  <2>0. Finish(c, entries, r) /\ Seen!HitResult(Seen!LookupKind(c)) = r
    BY <1>2, SeenPure
  <2> HIDE DEF r, entries
  <2>3. SeenPc' = [SeenPc EXCEPT ![c] = "done"]
    BY <2>0, SeenPcMoves DEF Finish
  <2>4. Seen!Finish(c, entries, Seen!HitResult(Seen!LookupKind(c)))
    BY <2>0, <2>3, SeenPure DEF Finish, Seen!Finish, SeenPc
  <2>1. Seen!Finish(c, << entry >>, Seen!HitResult(Seen!LookupKind(c)))
    BY <2>4 DEF entries
  <2>2. Seen!LookupKind(c) \in {"match", "nameless", "no_primary"} /\ UNCHANGED pool
    BY <1>2, SeenPure DEF LookupHit
  <2> QED
    BY <2>1, <2>2 DEF Seen!LookupHit, Seen!Entry
<1> QED
  BY <1>1, <1>2 DEF LookupHit, Entry

LEMMA SeenWithoutHit ==
  ASSUME BatchTypeOK, NEW c \in Cite, NEW verdict, LookupWithoutHit(c, verdict)
  PROVE  Seen!LookupWithoutHit(c, verdict)
<1> DEFINE entry == [stage |-> "citation_lookup", verdict |-> verdict]
           none == [stage |-> "opinion_search", verdict |-> "no_match"]
           nothing == [status |-> "NOT_FOUND", ids |-> {}, text |-> "none", warning |-> "none"]
<1>1. CASE quickOnly /\ Finish(c, << entry >>, nothing)
  <2>1. Seen!Finish(c, << entry >>, nothing)
    <3> HIDE DEF entry, nothing
    <3> QED
      BY <1>1, SeenMoves
  <2> QED
    BY <1>1, <2>1 DEF LookupWithoutHit, Seen!LookupWithoutHit, Seen!Entry, Seen!Nothing
<1>2. CASE ~quickOnly /\ ~parsed[c].court /\ ~parsed[c].year /\ Finish(c, << entry, none >>, nothing)
  <2>1. Seen!Finish(c, << entry, none >>, nothing)
    <3> HIDE DEF entry, none, nothing
    <3> QED
      BY <1>2, SeenMoves
  <2> QED
    BY <1>2, <2>1 DEF LookupWithoutHit, Seen!LookupWithoutHit, Seen!Entry, Seen!Nothing
<1>3. CASE /\ ~quickOnly /\ (parsed[c].court \/ parsed[c].year)
           /\ pc' = [pc EXCEPT ![c] = AfterMiss(parsed[c])]
           /\ path' = [path EXCEPT ![c] = Append(@, entry)]
           /\ UNCHANGED result
  <2> DEFINE next == AfterMiss(parsed[c])
  <2>1. next # "waiting" /\ next = Seen!AfterMiss(parsed[c])
    BY SeenPure DEF AfterMiss, AfterOpinion, AfterRecapDocument
  <2>2. SeenPc' = [SeenPc EXCEPT ![c] = next]
    <3> HIDE DEF next
    <3>1. pc' = [pc EXCEPT ![c] = next]
      BY <1>3 DEF next
    <3> QED
      BY <2>1, <3>1, SeenPcMoves
  <2>3. SeenPc' = [SeenPc EXCEPT ![c] = Seen!AfterMiss(parsed[c])]
    BY <2>1, <2>2
  <2> HIDE DEF next
  <2> QED
    BY <1>3, <2>3 DEF LookupWithoutHit, Seen!LookupWithoutHit, Seen!Entry, SeenPc
<1> QED
  BY <1>1, <1>2, <1>3 DEF LookupWithoutHit, Entry, Nothing

LEMMA HitSeen ==
  ASSUME BatchTypeOK, hits \in SUBSET Known, NEW c \in Cite, ProcessHit(c)
  PROVE  Seen!Verify(c)
<1>1. CASE pc[c] = "waiting" /\ LookupHit(c) /\ UNCHANGED <<parsed, world, quickOnly, failed>>
  <2>1. SeenPc[c] = "citation_lookup" /\ world[c].lookup # "miss" /\ c \in hits
    BY <1>1 DEF ProcessHit, SeenPc, Known
  <2>2. Seen!LookupHit(c)
    BY <1>1, SeenHit
  <2>3. SeenFailed' = [SeenFailed EXCEPT ![c] = SeenFailed[c] \cup {}]
    BY <1>1 DEF SeenFailed
  <2>4. Seen!CitationLookup(c)
    BY <1>1, <2>1, <2>2, <2>3 DEF Seen!CitationLookup, Seen!Failed, SeenPc, SeenFailed
  <2> QED
    BY <2>4 DEF Seen!Verify
<1>2. CASE InvestigateCaption(c) \/ CaptionUnclassified(c)
  BY <1>2, SeenInvestigation DEF Seen!Verify
<1> QED
  BY <1>1, <1>2 DEF ProcessHit

LEMMA FallbackSeen ==
  ASSUME BatchTypeOK, NEW c \in Cite, SearchMiss(c)
  PROVE  Seen!Verify(c)
BY SeenOpinionSearch, SeenRecapDocumentSearch, SeenRecapDocketSearch, SeenConclude
   DEF SearchMiss, Fallback, Seen!Verify, Seen!Fallback

LEMMA MissSeen ==
  ASSUME BatchTypeOK, NEW c \in Cite, StartMiss(c)
  PROVE  /\ SeenPc[c] = "citation_lookup" /\ UNCHANGED <<parsed, world, quickOnly>>
         /\ Seen!LookupWithoutHit(c, "no_match") /\ Seen!Failed(c, {})
<1>1. SeenPc[c] = "citation_lookup" /\ UNCHANGED <<parsed, world, quickOnly>>
  BY DEF StartMiss, SeenPc
<1>2. Seen!LookupWithoutHit(c, "no_match")
  BY SeenWithoutHit DEF StartMiss
<1>3. SeenFailed' = [SeenFailed EXCEPT ![c] = SeenFailed[c] \cup {}]
  BY DEF StartMiss, SeenFailed
<1> QED
  BY <1>1, <1>2, <1>3 DEF Seen!Failed, SeenFailed

(* The lookups of the batch and its bookkeeping are not seen. *)
Unseen ==
  \/ ChunkAnswered \/ ChunkRaises \/ HitsProcessed \/ Return \/ UNCHANGED batchVars
  \/ \E c \in Cite : LookupSingle(c)

LEMMA UnseenStutters ==
  ASSUME BatchTypeOK, Unseen
  PROVE  UNCHANGED seenVars
<1>1. ASSUME NEW c \in Cite, LookupSingle(c)
      PROVE  UNCHANGED seenVars
  <2>1. UNCHANGED <<parsed, world, quickOnly, pc, path, pool, result>>
        /\ (Failed(c, {}) \/ Failed(c, {"lookup"}))
    BY <1>1 DEF LookupSingle
  <2>2. SeenFailed' = SeenFailed
    BY <2>1 DEF Failed, SeenFailed, BatchTypeOK
  <2> QED
    BY <2>1, <2>2 DEF seenVars, SeenPc
<1>2. ASSUME UNCHANGED vars
      PROVE  UNCHANGED seenVars
  BY <1>2 DEF vars, seenVars, SeenPc, SeenFailed
<1> QED
  BY <1>1, <1>2 DEF Unseen, ChunkAnswered, ChunkRaises, HitsProcessed, Return, batchVars

LEMMA NextIsSeen ==
  ASSUME [BatchNext]_batchVars
  PROVE  Unseen \/ \E c \in Cite : ProcessHit(c) \/ StartMiss(c) \/ SearchMiss(c)
BY DEF BatchNext, Returned, Unseen

-----------------------------------------------------------------------------
(* What is seen keeps the invariant of verify() *)

(* What the lemmas of Verifier_proofs assume of the constants. *)
LEMMA SeenAssumption == Seen!VerifierAssumption
BY VerifierAssumption
   DEF Seen!VerifierAssumption, Seen!ParsedCitation, Seen!WorldType, Seen!Docket,
       Seen!Opinion,
       Seen!Score, Seen!Source, Seen!Lookup, Seen!NoMatch, ParsedCitation, WorldType,
       Docket,
       Opinion, Score, Source, Lookup, NoMatch

LEMMA SeenKeeps ==
  ASSUME BatchTypeOK, hits \in SUBSET Known, Seen!SInv, [BatchNext]_batchVars
  PROVE  Seen!SInv'
<1>1. CASE Unseen
  <2>1. UNCHANGED seenVars
    BY <1>1, UnseenStutters
  <2>2. UNCHANGED Seen!vars
    BY <2>1 DEF seenVars, Seen!vars, SeenPc, SeenFailed
  <2> QED
    BY <2>2, SeenAssumption, Seen!NextKeeps
<1>2. ASSUME NEW c \in Cite, ProcessHit(c) \/ SearchMiss(c)
      PROVE  Seen!SInv'
  <2>1. Seen!Verify(c)
    BY <1>2, HitSeen, FallbackSeen
  <2> QED
    BY <2>1, SeenAssumption, Seen!NextKeeps DEF Seen!Next
<1>3. ASSUME NEW c \in Cite, StartMiss(c)
      PROVE  Seen!SInv'
  <2>1. /\ SeenPc[c] = "citation_lookup" /\ UNCHANGED <<parsed, world, quickOnly>>
        /\ Seen!LookupWithoutHit(c, "no_match") /\ Seen!Failed(c, {})
    BY <1>3, MissSeen
  <2>2. Seen!TypeOK /\ Seen!CInv(c) /\ \A d \in Cite : Seen!CInv(d)
    BY DEF Seen!SInv
  <2>3. pool[c] = << >>
    BY <2>1, <2>2 DEF Seen!CInv, Seen!PoolFits, SeenPc
  <2>4. Seen!Keeps(c)
    BY <2>1, <2>2, <2>3, SeenAssumption, Seen!WithoutHitKeeps DEF SeenPc
  <2> QED
    BY <2>2, <2>4, SeenAssumption, Seen!KeepsAll DEF Seen!SInv, Seen!Keeps
<1> QED
  BY <1>1, <1>2, <1>3, NextIsSeen

-----------------------------------------------------------------------------
(* The counter of the callback *)

(* What a step of one citation does with its place. *)
LEMMA OneMoves ==
  ASSUME BatchTypeOK, NEW c \in Cite, ProcessHit(c) \/ StartMiss(c) \/ SearchMiss(c)
  PROVE  /\ pc[c] # "done" /\ \E v \in Pc : pc' = [pc EXCEPT ![c] = v]
         /\ \E calls \in SUBSET Call : failed' = [failed EXCEPT ![c] = @ \cup calls]
         /\ UNCHANGED <<world, lookupVars>>
         /\ completed' = IF pc'[c] = "done" THEN completed + 1 ELSE completed
         /\ phase \in {"hits", "misses"}
<1>1. ASSUME LookupHit(c)
      PROVE  \E v \in Pc : pc' = [pc EXCEPT ![c] = v]
  BY <1>1 DEF LookupHit, Finish, Pc, Stage
<1>2. ASSUME LookupWithoutHit(c, "no_match")
      PROVE  \E v \in Pc : pc' = [pc EXCEPT ![c] = v]
  <2>1. AfterMiss(parsed[c]) \in Pc
    BY DEF AfterMiss, AfterOpinion, AfterRecapDocument, Pc, Stage
  <2> QED
    BY <1>2, <2>1 DEF LookupWithoutHit, Finish, Pc
<1>3. ASSUME InvestigateCaption(c) \/ CaptionUnclassified(c)
      PROVE  /\ pc[c] = "caption_investigation" /\ UNCHANGED world
             /\ \E v \in Pc : pc' = [pc EXCEPT ![c] = v]
             /\ \E calls \in SUBSET Call : failed' = [failed EXCEPT ![c] = @ \cup calls]
  BY <1>3 DEF InvestigateCaption, CaptionUnclassified, Finish, Failed, Pc, Call
<1>4. ASSUME Fallback(c)
      PROVE  /\ pc[c] \notin {"done", "waiting"} /\ UNCHANGED world
             /\ \E v \in Pc : pc' = [pc EXCEPT ![c] = v]
             /\ \E calls \in SUBSET Call : failed' = [failed EXCEPT ![c] = @ \cup calls]
  <2>1. /\ AfterOpinion(parsed[c], pool'[c]) \in Pc
        /\ AfterRecapDocument(parsed[c], pool'[c]) \in Pc /\ "conclude" \in Pc /\ "done" \in Pc
    BY DEF AfterOpinion, AfterRecapDocument, Pc, Stage
  <2>2. \E v \in Pc : pc' = [pc EXCEPT ![c] = v]
    BY <1>4, <2>1 DEF Fallback, OpinionSearch, RecapDocumentSearch, RecapDocketSearch,
                      Conclude, GoOn, Finish
  <2>3. pc[c] \notin {"done", "waiting"} /\ UNCHANGED world
    BY <1>4 DEF Fallback, OpinionSearch, RecapDocumentSearch, RecapDocketSearch,
                Conclude, GoOn
  <2>4. \E calls \in SUBSET Call : failed' = [failed EXCEPT ![c] = @ \cup calls]
    BY <1>4 DEF Fallback, OpinionSearch, RecapDocumentSearch, RecapDocketSearch, Conclude,
                RecapSearch, SearchReturns, SearchRaises, Failed, Call
  <2> QED
    BY <2>2, <2>3, <2>4
<1>5. UNCHANGED failed => \E calls \in SUBSET Call : failed' = [failed EXCEPT ![c] = @ \cup calls]
  BY DEF BatchTypeOK
<1>6. /\ UNCHANGED lookupVars /\ phase \in {"hits", "misses"}
      /\ completed' = IF pc'[c] = "done" THEN completed + 1 ELSE completed
  BY DEF ProcessHit, StartMiss, SearchMiss, Counted
<1>7. CASE ProcessHit(c)
  BY <1>1, <1>3, <1>5, <1>6, <1>7 DEF ProcessHit
<1>8. CASE StartMiss(c)
  BY <1>2, <1>5, <1>6, <1>8 DEF StartMiss
<1>9. CASE SearchMiss(c)
  BY <1>4, <1>6, <1>9 DEF SearchMiss
<1> QED
  BY <1>7, <1>8, <1>9

LEMMA CountsKept ==
  ASSUME BatchTypeOK, Counts, [BatchNext]_batchVars
  PROVE  Counts'
<1>1. IsFiniteSet(Answers) /\ Cardinality(Answers) \in Nat
  <2>1. Answers \in SUBSET Cite /\ IsFiniteSet(Cite)
    BY BatchAssumption DEF Answers
  <2> QED
    BY <2>1, FS_Subset, FS_CardinalityType
<1>2. CASE Unseen
  <2>1. UNCHANGED <<pc, completed>>
    BY <1>2 DEF Unseen, ChunkAnswered, ChunkRaises, HitsProcessed, Return, LookupSingle,
                batchVars, vars
  <2>2. Answers' = Answers
    BY <2>1 DEF Answers
  <2>3. phase' = "returned" => phase = "returned" \/ Answers = Cite
    BY <1>2 DEF Unseen, ChunkAnswered, ChunkRaises, HitsProcessed, Return, LookupSingle,
                NextChunk, Answers, batchVars, lookupVars
  <2> QED
    BY <2>1, <2>2, <2>3 DEF Counts
<1>3. ASSUME NEW c \in Cite, ProcessHit(c) \/ StartMiss(c) \/ SearchMiss(c)
      PROVE  Counts'
  <2>1. PICK v \in Pc : pc' = [pc EXCEPT ![c] = v]
    BY <1>3, OneMoves
  <2>2. /\ pc[c] # "done" /\ phase' # "returned"
        /\ completed' = IF pc'[c] = "done" THEN completed + 1 ELSE completed
    BY <1>3, OneMoves DEF lookupVars
  <2>3. pc'[c] = v /\ c \notin Answers
    BY <2>1, <2>2 DEF BatchTypeOK, Answers
  <2>4. CASE v = "done"
    <3>1. Answers' = Answers \cup {c}
      BY <2>1, <2>4 DEF BatchTypeOK, Answers
    <3> QED
      BY <1>1, <2>2, <2>3, <2>4, <3>1, FS_AddElement DEF Counts
  <2>5. CASE v # "done"
    <3>1. Answers' = Answers
      BY <2>1, <2>2, <2>5 DEF BatchTypeOK, Answers
    <3> QED
      BY <2>2, <2>3, <2>5, <3>1 DEF Counts
  <2> QED
    BY <2>4, <2>5
<1> QED
  BY <1>2, <1>3, NextIsSeen

-----------------------------------------------------------------------------
(* The chunks *)

LEMMA QuotientMonotone ==
  ASSUME NEW a \in Int, NEW b \in Int, a <= b, NEW m \in Nat \ {0}
  PROVE  a \div m <= b \div m
OBVIOUS

LEMMA ChunkType ==
  ASSUME NEW c \in Cite
  PROVE  ChunkOf(c) \in Nat
<1>1. c - 1 \in Nat /\ MAX_CITATIONS_PER_CHUNK \in Nat \ {0}
  BY BatchAssumption
<1>2. \A n \in Nat, m \in Nat \ {0} : n \div m \in Nat
  OBVIOUS
<1> QED
  BY <1>1, <1>2 DEF ChunkOf

(* A finite set of numbers that is not empty has a greatest element: the one *)
(* with the fewest above it.                                                 *)
LEMMA Greatest ==
  ASSUME NEW S, IsFiniteSet(S), S # {}, S \subseteq Nat
  PROVE  Max(S) \in S /\ \A y \in S : y <= Max(S)
<1> DEFINE Above(x) == {y \in S : y > x}
           Sizes == {Cardinality(Above(x)) : x \in S}
<1>1. \A x \in S : IsFiniteSet(Above(x)) /\ Cardinality(Above(x)) \in Nat
  <2> SUFFICES ASSUME NEW x \in S
               PROVE  IsFiniteSet(Above(x)) /\ Cardinality(Above(x)) \in Nat
    OBVIOUS
  <2>1. IsFiniteSet(Above(x))
    BY FS_Subset
  <2> QED
    BY <2>1, FS_CardinalityType
<1>2. PICK n \in Sizes : \A m \in Sizes : ~(<<m, n>> \in OpToRel(<, Nat))
  <2>1. Sizes \in SUBSET Nat /\ Sizes # {}
    BY <1>1
  <2> HIDE DEF Sizes
  <2> QED
    BY <2>1, NatLessThanWellFounded, WFMin
<1>3. PICK x \in S : n = Cardinality(Above(x))
  BY <1>2
<1>4. ASSUME NEW y \in S, y > x
      PROVE  FALSE
  <2>0. \A a, b, d \in Nat : (a > b /\ b > d => a > d) /\ ~(a > a)
    OBVIOUS
  <2>5. x \in Nat /\ y \in Nat
    OBVIOUS
  <2>6. ASSUME NEW z \in Above(y)
        PROVE  z \in Above(x)
    BY <1>4, <2>0, <2>5, <2>6
  <2>1. Above(y) \in SUBSET Above(x) /\ y \in Above(x) /\ y \notin Above(y)
    BY <1>4, <2>0, <2>5, <2>6
  <2>2. Cardinality(Above(y)) <= Cardinality(Above(x)) /\ Cardinality(Above(y)) # Cardinality(Above(x))
    <3>1. IsFiniteSet(Above(x))
      BY <1>1
    <3> DEFINE A == Above(x)
               B == Above(y)
    <3>2. IsFiniteSet(A) /\ B \in SUBSET A /\ B # A
      BY <2>1, <3>1
    <3> HIDE DEF A, B
    <3>3. Cardinality(B) <= Cardinality(A) /\ Cardinality(B) # Cardinality(A)
      BY <3>2, FS_Subset
    <3> QED
      BY <3>3 DEF A, B
  <2>3. Cardinality(Above(y)) \in Sizes /\ Cardinality(Above(y)) < n /\ n \in Nat
    <3>1. Cardinality(Above(y)) \in Sizes
      OBVIOUS
    <3>2. Cardinality(Above(y)) \in Nat /\ Cardinality(Above(x)) \in Nat
      BY <1>1
    <3> HIDE DEF Above, Sizes
    <3> QED
      BY <1>3, <2>2, <3>1, <3>2
  <2>4. Cardinality(Above(y)) \in Nat
    BY <1>1
  <2> HIDE DEF Above, Sizes
  <2> QED
    BY <1>2, <2>3, <2>4 DEF OpToRel
<1>5. \A y \in S : x >= y
  BY <1>4
<1>6. \E z \in S : \A y \in S : z >= y
  BY <1>5
<1>7. Max(S) \in S /\ \A y \in S : Max(S) >= y
  BY <1>6 DEF Max
<1> QED
  BY <1>7

LEMMA LastChunk ==
  /\ ChunkOf(Max(Cite)) \in Nat
  /\ \A c \in Cite : ChunkOf(c) <= ChunkOf(Max(Cite))
<1>1. Max(Cite) \in Cite /\ \A c \in Cite : c <= Max(Cite)
  BY BatchAssumption, Greatest
<1>2. ASSUME NEW c \in Cite
      PROVE  ChunkOf(c) <= ChunkOf(Max(Cite))
  <2>0. /\ c \in Nat /\ Max(Cite) \in Nat /\ c <= Max(Cite)
        /\ MAX_CITATIONS_PER_CHUNK \in Nat \ {0}
    BY <1>1, BatchAssumption
  <2> DEFINE m == Max(Cite)
  <2> HIDE DEF m
  <2>1. c - 1 \in Int /\ m - 1 \in Int /\ c - 1 <= m - 1
    BY <2>0 DEF m
  <2> QED
    BY <2>0, <2>1, QuotientMonotone DEF ChunkOf, m
<1> QED
  BY <1>1, <1>2, ChunkType

(* A chunk ends once each of its citations is accounted for. *)
LEMMA ChunkEnds ==
  ASSUME BatchTypeOK, NextChunk, phase \in {"lookup", "singles"}, NEW c \in Cite, LookedUp(c)'
  PROVE  ChunkOf(c) < chunk \/ ChunkOf(c) = chunk
<1>1. ChunkOf(c) \in Nat /\ chunk \in Nat /\ ChunkOf(c) <= ChunkOf(Max(Cite)) /\ ChunkOf(Max(Cite)) \in Nat
  BY ChunkType, LastChunk DEF BatchTypeOK
<1>2. CASE chunk' = chunk + 1 /\ phase' = "lookup"
  BY <1>1, <1>2 DEF LookedUp, ChunkOf
<1>3. CASE chunk = ChunkOf(Max(Cite))
  BY <1>1, <1>3
<1> QED
  BY <1>2, <1>3 DEF NextChunk

LEMMA CompleteKept ==
  ASSUME BatchTypeOK, RoomForAll, Complete, [BatchNext]_batchVars
  PROVE  Complete'
<1> SUFFICES ASSUME NEW c \in Known', LookedUp(c)', "lookup" \notin failed'[c]
             PROVE  c \in hits'
  BY DEF Complete
<1>1. CASE ChunkAnswered
  <2>1. /\ phase = "lookup" /\ hits' = hits \cup {d \in InChunk(chunk) \cap Known : Listed(d)}
        /\ NextChunk /\ UNCHANGED vars
    BY <1>1 DEF ChunkAnswered
  <2>2. c \in Known /\ c \in Cite /\ "lookup" \notin failed[c]
    BY <2>1 DEF Known, vars
  <2>3. ChunkOf(c) < chunk \/ ChunkOf(c) = chunk
    BY <2>1, <2>2, ChunkEnds
  <2>4. CASE ChunkOf(c) < chunk
    BY <2>1, <2>2, <2>4 DEF Complete, LookedUp
  <2>5. CASE ChunkOf(c) = chunk
    BY <2>1, <2>2, <2>5 DEF InChunk, RoomForAll
  <2> QED
    BY <2>3, <2>4, <2>5
<1>2. CASE ChunkRaises
  <2>1. /\ phase = "lookup" /\ UNCHANGED <<vars, chunk, hits>>
        /\ phase' = "lookup" \/ (phase' = "singles" /\ singles' = InChunk(chunk))
    BY <1>2 DEF ChunkRaises
  <2>2. c \in Known /\ c \in Cite /\ "lookup" \notin failed[c]
    BY <2>1 DEF Known, vars
  <2>3. ChunkOf(c) < chunk
    BY <2>1, <2>2 DEF LookedUp, InChunk, ChunkOf
  <2> QED
    BY <2>1, <2>2, <2>3 DEF Complete, LookedUp
<1>3. ASSUME NEW d \in Cite, LookupSingle(d)
      PROVE  c \in hits'
  <2>1. /\ phase = "singles" /\ d \in singles /\ UNCHANGED world
        /\ \/ hits' = hits \cup ({d} \cap Known) /\ Failed(d, {})
           \/ Failed(d, {"lookup"}) /\ UNCHANGED hits
        /\ \/ singles # {d} /\ singles' = singles \ {d} /\ UNCHANGED <<phase, chunk>>
           \/ singles = {d} /\ NextChunk
    BY <1>3 DEF LookupSingle
  <2>2. c \in Known /\ c \in Cite
    BY <2>1 DEF Known
  <2>3. failed[c] \subseteq failed'[c] /\ (Failed(d, {"lookup"}) => "lookup" \in failed'[d])
    BY <2>1, <2>2 DEF Failed, BatchTypeOK
  <2>4. CASE c = d
    BY <2>1, <2>2, <2>3, <2>4
  <2>5. CASE c # d
    <3>1. LookedUp(c)
      <4>1. CASE singles' = singles \ {d} /\ UNCHANGED <<phase, chunk>>
        BY <2>1, <2>5, <4>1 DEF LookedUp, ChunkOf
      <4>2. CASE singles = {d} /\ NextChunk
        <5>1. ChunkOf(c) < chunk \/ ChunkOf(c) = chunk
          BY <2>1, <2>2, <4>2, ChunkEnds
        <5> QED
          BY <2>1, <2>5, <4>2, <5>1 DEF LookedUp
      <4> QED
        BY <2>1, <4>1, <4>2
    <3>2. c \in hits
      BY <2>2, <2>3, <3>1 DEF Complete
    <3> QED
      BY <2>1, <3>2
  <2> QED
    BY <2>4, <2>5
<1>4. CASE HitsProcessed \/ Return \/ UNCHANGED batchVars
  <2>1. UNCHANGED <<vars, chunk, singles, hits>> /\ (LookedUp(c)' => LookedUp(c))
    BY <1>4 DEF HitsProcessed, Return, batchVars, lookupVars, LookedUp, ChunkOf
  <2> QED
    BY <2>1 DEF Complete, Known, vars
<1>5. ASSUME NEW d \in Cite, ProcessHit(d) \/ StartMiss(d) \/ SearchMiss(d)
      PROVE  c \in hits'
  <2>1. UNCHANGED <<world, lookupVars>>
    BY <1>5, OneMoves
  <2>2. PICK calls \in SUBSET Call : failed' = [failed EXCEPT ![d] = @ \cup calls]
    BY <1>5, OneMoves
  <2>3. c \in Known /\ c \in Cite /\ LookedUp(c)
    BY <2>1 DEF Known, lookupVars, LookedUp, ChunkOf
  <2>4. "lookup" \notin failed[c]
    BY <2>2, <2>3 DEF BatchTypeOK
  <2> QED
    BY <2>1, <2>3, <2>4 DEF Complete, lookupVars
<1> QED
  BY <1>1, <1>2, <1>3, <1>4, <1>5, NextIsSeen DEF Unseen

-----------------------------------------------------------------------------
(* The invariant *)

LEMMA TypeKept ==
  ASSUME BatchTypeOK, hits \in SUBSET Known, [BatchNext]_batchVars
  PROVE  BatchTypeOK' /\ hits' \in SUBSET (Known')
<1>1. CASE Unseen
  <2>1. ASSUME NextChunk
        PROVE  /\ phase' \in {"lookup", "hits"} /\ chunk' \in Nat /\ singles' \in SUBSET Cite
    BY <2>1 DEF NextChunk, BatchTypeOK
  <2>2. CASE ChunkAnswered
    BY <2>1, <2>2 DEF ChunkAnswered, BatchTypeOK, Known, vars
  <2>3. CASE ChunkRaises
    BY <2>3 DEF ChunkRaises, BatchTypeOK, Known, InChunk, vars
  <2>4. ASSUME NEW c \in Cite, LookupSingle(c)
        PROVE  BatchTypeOK' /\ hits' \in SUBSET (Known')
    <3>1. /\ UNCHANGED <<pc, world>> /\ failed' \in [Cite -> SUBSET Call]
      BY <2>4 DEF LookupSingle, Failed, BatchTypeOK, Call
    <3>2. hits' \in SUBSET (Known')
      BY <2>4, <3>1 DEF LookupSingle, Known
    <3>3. phase' \in {"lookup", "singles", "hits"} /\ chunk' \in Nat /\ singles' \in SUBSET Cite
      BY <2>1, <2>4 DEF LookupSingle, BatchTypeOK
    <3> QED
      BY <3>1, <3>2, <3>3 DEF BatchTypeOK
  <2>5. CASE HitsProcessed \/ Return \/ UNCHANGED batchVars
    BY <2>5 DEF HitsProcessed, Return, batchVars, lookupVars, BatchTypeOK, Known, vars
  <2> QED
    BY <1>1, <2>2, <2>3, <2>4, <2>5 DEF Unseen
<1>2. ASSUME NEW c \in Cite, ProcessHit(c) \/ StartMiss(c) \/ SearchMiss(c)
      PROVE  BatchTypeOK' /\ hits' \in SUBSET (Known')
  <2>1. UNCHANGED <<world, lookupVars>>
    BY <1>2, OneMoves
  <2>2. pc' \in [Cite -> Pc]
    BY <1>2, OneMoves DEF BatchTypeOK
  <2>3. failed' \in [Cite -> SUBSET Call]
    BY <1>2, OneMoves DEF BatchTypeOK
  <2> QED
    BY <2>1, <2>2, <2>3 DEF BatchTypeOK, Known, lookupVars
<1> QED
  BY <1>1, <1>2, NextIsSeen

LEMMA BatchInitHolds == BatchInit => BatchInv
<1> SUFFICES ASSUME BatchInit
             PROVE  BatchInv
  OBVIOUS
<1>1. BatchTypeOK /\ hits \in SUBSET Known
  BY DEF BatchInit, BatchTypeOK, Pc, Known
<1>2. Seen!Init
  BY DEF BatchInit, Seen!Init, Seen!NoResult, NoResult
<1>3. Seen!SInv
  BY <1>2, SeenAssumption, Seen!InitHolds
<1>4. Counts
  <2>1. Answers = {}
    BY DEF BatchInit, Answers
  <2> QED
    BY <2>1, FS_EmptySet DEF BatchInit, Counts
<1>5. Complete
  <2>1. \A c \in Cite : ~LookedUp(c)
    <3>1. phase = "lookup" /\ chunk = 0
      BY DEF BatchInit
    <3>2. \A n \in Nat : ~(n < 0)
      OBVIOUS
    <3> QED
      BY <3>1, <3>2, ChunkType DEF LookedUp
  <2> QED
    BY <2>1 DEF Complete, Known
<1> QED
  BY <1>1, <1>3, <1>4, <1>5 DEF BatchInv

LEMMA BatchNextKeeps == BatchInv /\ [BatchNext]_batchVars => BatchInv'
<1> SUFFICES ASSUME BatchInv, [BatchNext]_batchVars
             PROVE  BatchInv'
  OBVIOUS
<1>1. BatchTypeOK /\ hits \in SUBSET Known /\ Seen!SInv /\ Counts /\ (RoomForAll => Complete)
  BY DEF BatchInv
<1>2. BatchTypeOK' /\ hits' \in SUBSET (Known')
  BY <1>1, TypeKept
<1>3. Seen!SInv'
  BY <1>1, SeenKeeps
<1>4. Counts'
  BY <1>1, CountsKept
<1>5. RoomForAll => Complete'
  BY <1>1, CompleteKept
<1> QED
  BY <1>2, <1>3, <1>4, <1>5 DEF BatchInv, RoomForAll, Listed, InChunk, ChunkOf

LEMMA BatchInvariance == BatchSpec => []BatchInv
BY BatchInitHolds, BatchNextKeeps, PTL DEF BatchSpec

(* Whatever raises and in whatever order the fallback tasks answer, the list  *)
(* that verify_batch returns has a result in each place, and the callback has *)
(* counted each citation once, when it was answered (verifier.py, _run_batch). *)
THEOREM EveryPlaceAlwaysFilled == BatchSpec => []EveryPlaceFilled
<1>1. BatchInv => EveryPlaceFilled
  <2> SUFFICES ASSUME BatchInv
               PROVE  EveryPlaceFilled
    OBVIOUS
  <2>1. completed = Cardinality({c \in Cite : pc[c] = "done"})
    BY DEF BatchInv, Counts, Answers
  <2>2. ASSUME phase = "returned", NEW c \in Cite
        PROVE  result[c] # NoResult
    <3>1. pc[c] = "done"
      BY <2>2 DEF BatchInv, Counts, Answers
    <3>2. result[c] \in Seen!Result
      BY <3>1 DEF BatchInv, Seen!SInv, Seen!CInv, Seen!AnswerSound
    <3>3. result[c].status \in Seen!Status
      BY <3>2 DEF Seen!Result
    <3> QED
      BY <3>3 DEF Seen!Status, NoResult
  <2> QED
    BY <2>1, <2>2 DEF EveryPlaceFilled
<1> QED
  BY BatchInvariance, <1>1, PTL

(* No hit is lost between the lookups and batch_hits: as long as the entries  *)
(* of a chunk fit one response, a citation CourtListener knows is a hit       *)
(* unless the lookup of its own raised, whatever chunks were given up         *)
(* (verifier.py, _batch_citation_lookup).                                     *)
THEOREM HitsNeverTruncated ==
  ASSUME RoomForAll
  PROVE  BatchSpec => []NoHitTruncated
<1>1. BatchInv => NoHitTruncated
  BY DEF BatchInv, Complete, LookedUp, NoHitTruncated
<1> QED
  BY BatchInvariance, <1>1, PTL

-----------------------------------------------------------------------------
(* What fits one response.  The sum of Listed is a recursive function; what *)
(* holds of it is shown for sets of one size after the other.               *)

(* A set of numbers with 0 and the successor of each is all of them. *)
LEMMA AllSizes ==
  ASSUME NEW T, 0 \in T, \A n \in Nat : n \in T => n + 1 \in T
  PROVE  Nat \subseteq T
<1> SUFFICES ASSUME Nat \ T # {} PROVE FALSE
  OBVIOUS
<1> DEFINE below == {x \in Nat \X Nat : x[1] < x[2]}
           rest == Nat \ T
<1>0. IsWellFoundedOn(below, Nat)
  <2>1. below = OpToRel(<, Nat)
    BY DEF OpToRel
  <2> QED
    BY <2>1, NatLessThanWellFounded
<1>1. PICK n \in rest : \A y \in rest : <<y, n>> \notin below
  <2>1. rest \in SUBSET Nat /\ rest # {}
    OBVIOUS
  <2> HIDE DEF below, rest
  <2> QED
    BY <1>0, <2>1, WFMin
<1>2. n # 0 /\ n - 1 \in Nat /\ n - 1 + 1 = n
  BY <1>1
<1>3. <<n - 1, n>> \in below
  BY <1>1, <1>2
<1>4. n - 1 \in T
  BY <1>1, <1>2, <1>3
<1> QED
  BY <1>1, <1>2, <1>4

SumStep(f, s) ==
  IF s = {} THEN 0
  ELSE Entries[CHOOSE c \in s : TRUE] + f[s \ {CHOOSE c \in s : TRUE}]

SumsOf(S) == CHOOSE sums : sums = [s \in SUBSET S |-> SumStep(sums, s)]

(* A smaller set by one. *)
LEMMA OneLess ==
  ASSUME NEW S, IsFiniteSet(S), NEW s \in SUBSET S, s # {}
  PROVE  /\ (CHOOSE c \in s : TRUE) \in s
         /\ s \ {CHOOSE c \in s : TRUE} \in SUBSET S
         /\ Cardinality(s) \in Nat
         /\ Cardinality(s \ {CHOOSE c \in s : TRUE}) = Cardinality(s) - 1
<1> DEFINE c == CHOOSE x \in s : TRUE
<1>1. c \in s
  OBVIOUS
<1> HIDE DEF c
<1>2. IsFiniteSet(s) /\ Cardinality(s) \in Nat
  BY FS_Subset, FS_CardinalityType
<1>3. Cardinality(s \ {c}) = Cardinality(s) - 1
  BY <1>1, <1>2, FS_RemoveElement
<1>4. s \ {c} \in SUBSET S
  OBVIOUS
<1> QED
  BY <1>1, <1>2, <1>3, <1>4 DEF c

LEMMA SumsAre ==
  ASSUME NEW S, IsFiniteSet(S)
  PROVE  /\ \A s \in SUBSET S : SumsOf(S)[s] = SumStep(SumsOf(S), s)
         /\ SumFunctionOnSet(Entries, S) = SumsOf(S)[S]
<1> DEFINE T == {n \in Nat : \E f : \A s \in SUBSET S : Cardinality(s) <= n => f[s] = SumStep(f, s)}
<1>0. \A s \in SUBSET S : Cardinality(s) \in Nat /\ (Cardinality(s) = 0 <=> s = {})
  BY FS_Subset, FS_CardinalityType, FS_EmptySet
<1>1. 0 \in T
  <2> DEFINE f == [s \in SUBSET S |-> 0]
  <2>1. ASSUME NEW s \in SUBSET S, Cardinality(s) <= 0
        PROVE  f[s] = SumStep(f, s)
    <3>1. s = {}
      BY <1>0, <2>1
    <3> QED
      BY <3>1 DEF SumStep
  <2> HIDE DEF f
  <2> QED
    BY <2>1
<1>2. ASSUME NEW n \in Nat, n \in T
      PROVE  n + 1 \in T
  <2>1. PICK f : \A s \in SUBSET S : Cardinality(s) <= n => f[s] = SumStep(f, s)
    BY <1>2
  <2> DEFINE g == [s \in SUBSET S |-> IF Cardinality(s) <= n THEN f[s] ELSE SumStep(f, s)]
  <2>2. ASSUME NEW s \in SUBSET S
        PROVE  g[s] = SumStep(f, s)
    <3> HIDE DEF SumStep
    <3> QED
      BY <2>1
  <2>3. ASSUME NEW s \in SUBSET S, Cardinality(s) <= n + 1
        PROVE  SumStep(g, s) = SumStep(f, s)
    <3>1. CASE s = {}
      BY <3>1 DEF SumStep
    <3>2. CASE s # {}
      <4> DEFINE t == s \ {CHOOSE c \in s : TRUE}
      <4>1. t \in SUBSET S /\ Cardinality(t) <= n
        BY <2>3, <3>2, OneLess
      <4> HIDE DEF t
      <4>2. g[t] = f[t]
        BY <4>1
      <4> HIDE DEF g
      <4> QED
        BY <3>2, <4>2 DEF SumStep, t
    <3> QED
      BY <3>1, <3>2
  <2> HIDE DEF g
  <2>4. \A s \in SUBSET S : Cardinality(s) <= n + 1 => g[s] = SumStep(g, s)
    BY <2>2, <2>3
  <2> QED
    BY <2>4
<1>3. Cardinality(S) \in T
  <2>1. Nat \subseteq T
    <3> HIDE DEF T
    <3> QED
      BY <1>1, <1>2, AllSizes
  <2> HIDE DEF T
  <2> QED
    BY <1>0, <2>1
<1>4. PICK f : \A s \in SUBSET S : f[s] = SumStep(f, s)
  <2>1. \A s \in SUBSET S : Cardinality(s) <= Cardinality(S)
    BY FS_Subset
  <2> QED
    BY <1>3, <2>1
<1> DEFINE g == [s \in SUBSET S |-> f[s]]
<1>5. ASSUME NEW s \in SUBSET S
      PROVE  SumStep(g, s) = f[s]
  <2>1. s # {} => g[s \ {CHOOSE c \in s : TRUE}] = f[s \ {CHOOSE c \in s : TRUE}]
    OBVIOUS
  <2>2. f[s] = SumStep(f, s)
    BY <1>4
  <2> HIDE DEF g
  <2> QED
    BY <2>1, <2>2 DEF SumStep
<1>6. g = [s \in SUBSET S |-> SumStep(g, s)]
  <2> HIDE DEF SumStep
  <2> QED
    BY <1>5
<1> HIDE DEF g
<1>7. SumsOf(S) = [s \in SUBSET S |-> SumStep(SumsOf(S), s)]
  <2> HIDE DEF SumStep
  <2> QED
    BY <1>6 DEF SumsOf
<1>8. SumFunctionOnSet(Entries, S) = SumsOf(S)[S]
  BY DEF SumFunctionOnSet, FoldFunctionOnSet, MapThenFoldSet, SumsOf, SumStep
<1> HIDE DEF SumsOf
<1> QED
  BY <1>7, <1>8

(* The sum over a set counts it if every citation has one entry. *)
LEMMA SumCounts ==
  ASSUME \A c \in Cite : Entries[c] = 1, NEW S \in SUBSET Cite
  PROVE  SumFunctionOnSet(Entries, S) = Cardinality(S)
<1> DEFINE T == {n \in Nat : \A s \in SUBSET S : Cardinality(s) = n => SumsOf(S)[s] = n}
<1>0. IsFiniteSet(S)
  BY FS_Subset, BatchAssumption
<1>1. /\ \A s \in SUBSET S : SumsOf(S)[s] = SumStep(SumsOf(S), s)
      /\ SumFunctionOnSet(Entries, S) = SumsOf(S)[S]
  BY <1>0, SumsAre
<1>2. \A s \in SUBSET S : Cardinality(s) \in Nat /\ (Cardinality(s) = 0 <=> s = {})
  BY <1>0, FS_Subset, FS_CardinalityType, FS_EmptySet
<1>3. 0 \in T
  BY <1>1, <1>2 DEF SumStep
<1>4. ASSUME NEW n \in Nat, n \in T
      PROVE  n + 1 \in T
  <2> SUFFICES ASSUME NEW s \in SUBSET S, Cardinality(s) = n + 1
               PROVE  SumsOf(S)[s] = n + 1
    OBVIOUS
  <2> DEFINE c == CHOOSE x \in s : TRUE
             t == s \ {c}
  <2>1. s # {}
    BY <1>2
  <2>2. c \in s /\ t \in SUBSET S /\ Cardinality(t) = n
    BY <1>0, <2>1, OneLess
  <2>3. SumsOf(S)[s] = Entries[c] + SumsOf(S)[t]
    BY <1>1, <2>1 DEF SumStep
  <2> HIDE DEF c, t
  <2>4. Entries[c] = 1 /\ SumsOf(S)[t] = n
    BY <1>4, <2>2
  <2> QED
    BY <2>3, <2>4
<1>5. Cardinality(S) \in T
  <2> HIDE DEF T
  <2> QED
    BY <1>2, <1>3, <1>4, AllSizes
<1> QED
  BY <1>1, <1>5

LEMMA QuotientBounds ==
  ASSUME NEW d \in Nat, NEW m \in Nat \ {0}, NEW k \in Nat, d \div m = k
  PROVE  m * k <= d /\ d < m * k + m
OBVIOUS

(* The citations of one chunk are that many at most. *)
LEMMA ChunkSize ==
  ASSUME NEW c \in Cite
  PROVE  /\ IsFiniteSet(InChunk(ChunkOf(c)))
         /\ Cardinality(InChunk(ChunkOf(c))) <= MAX_CITATIONS_PER_CHUNK
<1> DEFINE m == MAX_CITATIONS_PER_CHUNK
           k == ChunkOf(c)
<1>0. k \in Nat
  BY ChunkType
<1>1. m \in Nat \ {0} /\ Cite \subseteq Nat \ {0} /\ IsFiniteSet(Cite)
  BY BatchAssumption
<1>2. ASSUME NEW b \in InChunk(k)
      PROVE  b \in m * k + 1..m * k + m
  <2>1. b \in Nat \ {0} /\ (b - 1) \div m = k
    BY <1>1 DEF InChunk, ChunkOf
  <2> HIDE DEF m, k
  <2> DEFINE d == b - 1
  <2>2. d \in Nat /\ d \div m = k
    BY <2>1
  <2>3. m * k <= d /\ d < m * k + m
    BY <1>0, <1>1, <2>2, QuotientBounds
  <2>4. m * k \in Int
    BY <1>0, <1>1
  <2> QED
    BY <1>1, <2>1, <2>3, <2>4
<1> HIDE DEF m, k
<1>3. m * k \in Int
  BY <1>0, <1>1
<1> DEFINE p == m * k
<1>4. p + 1 \in Int /\ p + m \in Int /\ (p + m) - (p + 1) + 1 = m /\ ~(p + 1 > p + m)
  <2> HIDE DEF p
  <2> QED
    BY <1>1, <1>3 DEF p
<1>5. IsFiniteSet(p + 1..p + m) /\ Cardinality(p + 1..p + m) = m
  <2> HIDE DEF p
  <2> QED
    BY <1>4, FS_Interval
<1>6. InChunk(k) \in SUBSET (p + 1..p + m)
  BY <1>2
<1>7. IsFiniteSet(InChunk(k)) /\ Cardinality(InChunk(k)) <= m
  <2> HIDE DEF p
  <2> QED
    BY <1>5, <1>6, FS_Subset
<1> QED
  BY <1>7 DEF m, k

(* One entry per citation, and chunks no larger than a response: the code's   *)
(* bound of 150 strings, chosen for the 200 entries of a response             *)
(* (verifier.py, MAX_CITATIONS_PER_CHUNK), leaves room for all of them.       *)
THEOREM OneEntryEachFits ==
  ASSUME \A c \in Cite : Entries[c] = 1,
         MAX_CITATIONS_PER_CHUNK <= ResponseCap
  PROVE  RoomForAll
<1> SUFFICES ASSUME NEW c \in Cite
             PROVE  Listed(c)
  BY DEF RoomForAll
<1> DEFINE chunkOfC == InChunk(ChunkOf(c))
           before == {b \in chunkOfC : b < c}
<1>1. IsFiniteSet(chunkOfC) /\ Cardinality(chunkOfC) <= MAX_CITATIONS_PER_CHUNK
  BY ChunkSize
<1>2. /\ c \in chunkOfC /\ chunkOfC \subseteq Cite
      /\ c \in Nat /\ ~(c < c)
  BY BatchAssumption DEF InChunk
<1>3. before \in SUBSET Cite /\ before \in SUBSET (chunkOfC \ {c})
  BY <1>2
<1>4. SumFunctionOnSet(Entries, before) = Cardinality(before)
  <2> HIDE DEF before
  <2> QED
    BY <1>3, SumCounts
<1>5. IsFiniteSet(chunkOfC \ {c}) /\ Cardinality(chunkOfC \ {c}) = Cardinality(chunkOfC) - 1
  <2> HIDE DEF chunkOfC
  <2> QED
    BY <1>1, <1>2, FS_RemoveElement
<1>6. Cardinality(before) <= Cardinality(chunkOfC \ {c}) /\ Cardinality(before) \in Nat
  <2> DEFINE rest == chunkOfC \ {c}
  <2>1. IsFiniteSet(rest) /\ before \in SUBSET rest
    BY <1>3, <1>5
  <2> HIDE DEF rest, before
  <2>2. IsFiniteSet(before) /\ Cardinality(before) <= Cardinality(rest)
    BY <2>1, FS_Subset
  <2>3. Cardinality(before) \in Nat
    BY <2>2, FS_CardinalityType
  <2> QED
    BY <2>2, <2>3 DEF rest
<1>7. Cardinality(chunkOfC) \in Nat
  BY <1>1, FS_CardinalityType
<1>8. MAX_CITATIONS_PER_CHUNK \in Nat /\ ResponseCap \in Nat
  BY BatchAssumption
<1> HIDE DEF chunkOfC, before
<1>9. Cardinality(before) < ResponseCap
  BY <1>1, <1>5, <1>6, <1>7, <1>8
<1> USE DEF chunkOfC, before
<1> QED
  BY <1>4, <1>9 DEF Listed

-----------------------------------------------------------------------------
(* The batch answers each citation as verify() would *)

(* The operators of the two instances of Verifier are the same. *)
LEMMA OnePure ==
  /\ \A p, entries, r : OneByOne!Finalized(p, entries, r) = Finalized(p, entries, r)
  /\ \A candidates : OneByOne!Best(candidates) = Best(candidates)
  /\ \A p, best : OneByOne!WrongCourt(p, best) = WrongCourt(p, best)
  /\ \A p, candidates, fetched :
          OneByOne!Judged(p, candidates, fetched) = Judged(p, candidates, fetched)
  /\ \A p : OneByOne!AfterMiss(p) = AfterMiss(p)
  /\ \A p, candidates : OneByOne!AfterOpinion(p, candidates) = AfterOpinion(p, candidates)
  /\ \A p, candidates :
          OneByOne!AfterRecapDocument(p, candidates) = AfterRecapDocument(p, candidates)
  /\ \A w : OneByOne!OpinionsFound(w) = OpinionsFound(w)
  /\ \A p, d, fetched : OneByOne!DocketsFound(p, d, fetched) = DocketsFound(p, d, fetched)
  /\ \A c : OneByOne!LookupKind(c) = LookupKind(c)
  /\ \A kind : OneByOne!HitResult(kind) = HitResult(kind)
<1>1. \A p, entries, r : OneByOne!Finalized(p, entries, r) = Finalized(p, entries, r)
  BY DEF OneByOne!Finalized, OneByOne!PromotedToIncomplete,
         OneByOne!PromotedToInsufficient, OneByOne!Has,
         Finalized, PromotedToIncomplete, PromotedToInsufficient, Has
<1>2. /\ \A candidates : OneByOne!Best(candidates) = Best(candidates)
      /\ \A p, best : OneByOne!WrongCourt(p, best) = WrongCourt(p, best)
  BY DEF OneByOne!Best, OneByOne!WrongCourt, Best, WrongCourt
<1>3. \A p, candidates, fetched :
           OneByOne!Judged(p, candidates, fetched) = Judged(p, candidates, fetched)
  BY DEF OneByOne!Judged, OneByOne!Best, OneByOne!WrongCourt, OneByOne!CiteChecked,
         OneByOne!Worth, OneByOne!OfCluster,
         OneByOne!Nothing, OneByOne!VerifiedScore, Judged, Best, WrongCourt, CiteChecked,
         Worth, OfCluster, Nothing, VerifiedScore
<1>4. /\ \A p : OneByOne!AfterMiss(p) = AfterMiss(p)
      /\ \A p, candidates :
              OneByOne!AfterOpinion(p, candidates) = AfterOpinion(p, candidates)
      /\ \A p, candidates :
              OneByOne!AfterRecapDocument(p, candidates) = AfterRecapDocument(p, candidates)
  BY DEF OneByOne!AfterMiss, OneByOne!AfterOpinion, OneByOne!AfterRecapDocument,
         OneByOne!RecapAllowed,
         OneByOne!CredibleScore, AfterMiss, AfterOpinion, AfterRecapDocument,
         RecapAllowed, CredibleScore
<1>5. /\ \A w : OneByOne!OpinionsFound(w) = OpinionsFound(w)
      /\ \A p, d, fetched :
              OneByOne!DocketsFound(p, d, fetched) = DocketsFound(p, d, fetched)
  BY DEF OneByOne!OpinionsFound, OneByOne!DocketsFound, OneByOne!OfOpinion,
         OneByOne!OfDocket,
         OneByOne!RecapCandidate, OneByOne!NoMatch, OpinionsFound, DocketsFound, OfOpinion,
         OfDocket, RecapCandidate, NoMatch
<1>6. /\ \A c : OneByOne!LookupKind(c) = LookupKind(c)
      /\ \A kind : OneByOne!HitResult(kind) = HitResult(kind)
  BY DEF OneByOne!LookupKind, LookupKind, OneByOne!HitResult, HitResult,
         OneByOne!OfCluster, OfCluster
<1> QED
  BY <1>1, <1>2, <1>3, <1>4, <1>5, <1>6


LEMMA SameOpinionSearch ==
  ASSUME NEW c \in Cite, Seen!OpinionSearch(c)
  PROVE  OneByOne!OpinionSearch(c)
BY SeenPure, OnePure
   DEF Seen!OpinionSearch, OneByOne!OpinionSearch, Seen!SearchReturns,
       OneByOne!SearchReturns,
       Seen!SearchRaises, OneByOne!SearchRaises, Seen!Failed, OneByOne!Failed,
       Seen!GoOn, OneByOne!GoOn, Seen!Entry, OneByOne!Entry, Seen!VerifiedScore,
       OneByOne!VerifiedScore

LEMMA SameRecapDocumentSearch ==
  ASSUME NEW c \in Cite, Seen!RecapDocumentSearch(c)
  PROVE  OneByOne!RecapDocumentSearch(c)
BY SeenPure, OnePure
   DEF Seen!RecapDocumentSearch, OneByOne!RecapDocumentSearch, Seen!SearchReturns,
       OneByOne!SearchReturns,
       Seen!RecapSearch, OneByOne!RecapSearch, Seen!NoMatch, OneByOne!NoMatch,
       Seen!SearchRaises, OneByOne!SearchRaises, Seen!Failed, OneByOne!Failed,
       Seen!GoOn, OneByOne!GoOn, Seen!Entry, OneByOne!Entry, Seen!VerifiedScore,
       OneByOne!VerifiedScore

LEMMA SameRecapDocketSearch ==
  ASSUME NEW c \in Cite, Seen!RecapDocketSearch(c)
  PROVE  OneByOne!RecapDocketSearch(c)
BY SeenPure, OnePure
   DEF Seen!RecapDocketSearch, OneByOne!RecapDocketSearch, Seen!SearchReturns,
       OneByOne!SearchReturns,
       Seen!RecapSearch, OneByOne!RecapSearch, Seen!NoMatch, OneByOne!NoMatch,
       Seen!SearchRaises, OneByOne!SearchRaises, Seen!Failed, OneByOne!Failed,
       Seen!GoOn, OneByOne!GoOn, Seen!Entry, OneByOne!Entry, Seen!VerifiedScore,
       OneByOne!VerifiedScore

LEMMA SameConclude ==
  ASSUME NEW c \in Cite, Seen!Conclude(c)
  PROVE  OneByOne!Conclude(c)
BY SeenPure, OnePure
   DEF Seen!Conclude, OneByOne!Conclude, Seen!Failed, OneByOne!Failed,
       Seen!Finish, OneByOne!Finish, Seen!VerifiedScore, OneByOne!VerifiedScore

LEMMA SameInvestigation ==
  ASSUME NEW c \in Cite, Seen!InvestigateCaption(c) \/ Seen!CaptionUnclassified(c)
  PROVE  OneByOne!InvestigateCaption(c) \/ OneByOne!CaptionUnclassified(c)
<1>1. Seen!InvestigateCaption(c) => OneByOne!InvestigateCaption(c)
  BY SeenPure, OnePure
     DEF Seen!InvestigateCaption, OneByOne!InvestigateCaption, Seen!Failed, OneByOne!Failed,
       Seen!Finish, OneByOne!Finish, Seen!Entry, OneByOne!Entry, Seen!OfCluster,
       OneByOne!OfCluster
<1>2. Seen!CaptionUnclassified(c) => OneByOne!CaptionUnclassified(c)
  BY SeenPure, OnePure
     DEF Seen!CaptionUnclassified, OneByOne!CaptionUnclassified, Seen!Failed,
         OneByOne!Failed,
       Seen!Finish, OneByOne!Finish, Seen!Entry, OneByOne!Entry, Seen!OfCluster,
       OneByOne!OfCluster
<1> QED
  BY <1>1, <1>2

LEMMA SameLookup ==
  ASSUME NEW c \in Cite, Seen!CitationLookup(c)
  PROVE  OneByOne!CitationLookup(c)
<1>1. \A verdict :
           Seen!LookupWithoutHit(c, verdict) => OneByOne!LookupWithoutHit(c, verdict)
  BY SeenPure, OnePure
     DEF Seen!LookupWithoutHit, OneByOne!LookupWithoutHit, Seen!Nothing, OneByOne!Nothing,
       Seen!Finish, OneByOne!Finish, Seen!Entry, OneByOne!Entry
<1>2. Seen!LookupHit(c) => OneByOne!LookupHit(c)
  BY SeenPure, OnePure
     DEF Seen!LookupHit, OneByOne!LookupHit, Seen!Finish, OneByOne!Finish, Seen!Entry,
         OneByOne!Entry
<1> QED
  BY <1>1, <1>2 DEF Seen!CitationLookup, OneByOne!CitationLookup, Seen!Failed,
                    OneByOne!Failed

LEMMA SameVerify ==
  ASSUME NEW c \in Cite, Seen!Verify(c)
  PROVE  OneByOne!Verify(c)
BY SameLookup, SameInvestigation, SameOpinionSearch, SameRecapDocumentSearch,
   SameRecapDocketSearch, SameConclude
   DEF Seen!Verify, Seen!Fallback, OneByOne!Verify, OneByOne!Fallback

(* A miss that no failed lookup hides is a lookup without a match. *)
LEMMA MissImplements ==
  ASSUME RoomForAll, BatchInv, NEW c \in Cite, StartMiss(c), "lookup" \notin failed[c]
  PROVE  Seen!Verify(c)
<1>1. world[c].lookup = "miss"
  BY DEF BatchInv, Complete, LookedUp, Known, StartMiss
<1>2. /\ SeenPc[c] = "citation_lookup" /\ UNCHANGED <<parsed, world, quickOnly>>
      /\ Seen!LookupWithoutHit(c, "no_match") /\ Seen!Failed(c, {})
  BY MissSeen DEF BatchInv
<1>3. Seen!CitationLookup(c)
  BY <1>1, <1>2 DEF Seen!CitationLookup, SeenPc
<1> QED
  BY <1>3 DEF Seen!Verify

(* The chunked lookup, its retries, the hit loop and the concurrent fallback  *)
(* implement verify() of each citation, for any number of them, as long as    *)
(* the entries of a chunk fit one response: the one exception is a lookup     *)
(* that raised and is taken for a miss (verifier.py, _run_batch).             *)
THEOREM BatchRefinesVerify ==
  ASSUME RoomForAll
  PROVE  BatchSpec => ImplementsVerify
<1> DEFINE Step == OneByOne!Next \/ \E c \in Cite : Swallowed(c)
<1>1. BatchInit => OneByOne!Init
  BY DEF BatchInit, OneByOne!Init, OneByOne!NoResult, NoResult
<1>2. BatchInv /\ [BatchNext]_batchVars => [Step]_(OneByOne!vars)
  <2> SUFFICES ASSUME BatchInv, [BatchNext]_batchVars
               PROVE  Step \/ UNCHANGED OneByOne!vars
    OBVIOUS
  <2>1. BatchTypeOK /\ hits \in SUBSET Known
    BY DEF BatchInv
  <2>2. CASE Unseen
    <3>1. UNCHANGED seenVars
      BY <2>1, <2>2, UnseenStutters
    <3> QED
      BY <3>1 DEF seenVars, OneByOne!vars, SeenPc, SeenFailed
  <2>3. ASSUME NEW c \in Cite, ProcessHit(c) \/ SearchMiss(c)
        PROVE  Step
    <3>1. Seen!Verify(c)
      BY <2>1, <2>3, HitSeen, FallbackSeen
    <3> QED
      BY <3>1, SameVerify DEF OneByOne!Next
  <2>4. ASSUME NEW c \in Cite, StartMiss(c)
        PROVE  Step
    <3>1. CASE "lookup" \in failed[c]
      BY <2>4, <3>1 DEF Swallowed
    <3>2. CASE "lookup" \notin failed[c]
      <4>1. Seen!Verify(c)
        BY <2>4, <3>2, MissImplements
      <4> QED
        BY <4>1, SameVerify DEF OneByOne!Next
    <3> QED
      BY <3>1, <3>2
  <2> QED
    BY <2>2, <2>3, <2>4, NextIsSeen
<1>3. OneByOne!Init /\ [][Step]_(OneByOne!vars) => ImplementsVerify
  BY DEF ImplementsVerify
<1> HIDE DEF Step
<1> QED
  BY BatchInvariance, <1>1, <1>2, <1>3, PTL DEF BatchSpec
=============================================================================
