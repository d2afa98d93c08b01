------------------------ MODULE CitationCache_proofs ------------------------
(***************************************************************************)
(* Proofs about CitationCache, for any number of processes and citations.  *)
(* A process is sound if its record is typed, its copy still holds what it *)
(* found in the file, and the miss of a quick call is neither in the copy, *)
(* nor among the answers it is going to put there, nor among those of a    *)
(* call that is to search everywhere.                                      *)
(***************************************************************************)
EXTENDS CitationCache, TLAPS

Record == [pc: {"off", "idle", "asking", "storing", "writing"}, mem: Entries,
           asked: SUBSET Key, hits: SUBSET Key, got: Entries, store: SUBSET Key,
           quick: BOOLEAN]

\* Entries without the miss of a quick call.
Searched == {m \in Entries : \A k \in Key : m[k] # "unsearched"}

Sound(p, r, known) ==
    /\ r \in Record
    /\ r.pc # "off" => known \subseteq Stored(r.mem)
    /\ \A k \in r.store : r.got[k] \notin {Absent, "unsearched"}
    /\ r.mem \in Searched
    /\ r.pc = "idle" => Kind[p] = "web"
    /\ Kind[p] = "cli" => ~r.quick
    /\ ~r.quick => \A k \in Key : r.got[k] # "unsearched"

RestOK ==
    /\ disk \in Searched /\ torn \in BOOLEAN
    /\ opens \in 0..MaxOpens /\ kills \in 0..MaxKills
    /\ knew \in [Process -> SUBSET Key]
    /\ alone \in SUBSET Process

CacheInv ==
    /\ RestOK
    /\ proc \in [Process -> Record]
    /\ \A p \in Process : Sound(p, proc[p], knew[p])

----------------------------------------------------------------------------
(* Operators *)

LEMMA EmptyType == Empty \in Entries /\ Empty \in Searched /\ Stored(Empty) = {}
BY CacheAssumption DEF Empty, Entries, Searched, Stored

LEMMA LoadType ==
    ASSUME RestOK
    PROVE  Load \in Searched
BY EmptyType DEF Load, RestOK

LEMMA StoredType == ASSUME NEW m PROVE Stored(m) \in SUBSET Key
BY DEF Stored

\* What a process takes from its copy was asked for and is there.
LEMMA TakenType ==
    ASSUME NEW p \in Process, NEW mem \in Entries, NEW asked \in SUBSET Key
    PROVE  Taken(p, mem, asked) \in SUBSET asked
<1>1. Kind[p] \in {"cli", "web", "pipeline"}
    BY CacheAssumption
<1>2. CASE Kind[p] = "cli"
    BY <1>2 DEF Taken
<1>3. CASE Kind[p] = "web"
    BY <1>3 DEF Taken
<1>4. CASE Kind[p] = "pipeline"
    BY <1>4 DEF Taken
<1> QED
    BY <1>1, <1>2, <1>3, <1>4

\* Only what was asked is put, and of that no miss of a quick call.
LEMMA KeptType ==
    ASSUME NEW p \in Process, NEW mem, NEW got, NEW new, NEW quick \in BOOLEAN,
           Kind[p] = "cli" => ~quick,
           ~quick => \A k \in new : got[k] # "unsearched"
    PROVE  /\ Kept(p, mem, got, new, quick) \subseteq new
           /\ \A k \in Kept(p, mem, got, new, quick) : got[k] # "unsearched"
<1>1. Kind[p] \in {"cli", "web", "pipeline"}
    BY CacheAssumption
<1>2. CASE Kind[p] = "cli"
    BY <1>2 DEF Kept
<1>3. CASE Kind[p] = "web"
    BY <1>3 DEF Kept
<1>4. CASE Kind[p] = "pipeline"
    BY <1>4 DEF Kept
<1> QED
    BY <1>1, <1>2, <1>3, <1>4

LEMMA OffSound ==
    ASSUME NEW p \in Process, NEW known
    PROVE  Sound(p, Off, known)
BY EmptyType DEF Sound, Off, Record, Searched

\* A server at rest, over a copy that holds what it found.
LEMMA IdleSound ==
    ASSUME NEW p \in Process, NEW mem \in Searched, NEW known \in SUBSET Stored(mem),
           Kind[p] = "web"
    PROVE  Sound(p, [Off EXCEPT !.pc = "idle", !.mem = mem], known)
BY EmptyType DEF Sound, Off, Record, Searched

LEMMA CalledSound ==
    ASSUME NEW p \in Process, NEW mem \in Searched, NEW asked \in SUBSET Key,
           NEW quick \in BOOLEAN, NEW known \in SUBSET Stored(mem),
           Kind[p] = "cli" => ~quick
    PROVE  Sound(p, Called(p, mem, asked, quick), known)
<1> DEFINE hits == Taken(p, mem, asked)
           got == [k \in Key |-> IF k \in hits THEN mem[k] ELSE Absent]
           r == [pc |-> "asking", mem |-> mem, asked |-> asked, hits |-> hits,
                 got |-> got, store |-> {}, quick |-> quick]
<1>1. Called(p, mem, asked, quick) = r
    BY DEF Called
<1>2. hits \in SUBSET Key
    BY TakenType DEF Searched
<1>3. got \in Entries
    BY DEF Searched, Entries
<1>4. r \in Record
    BY <1>2, <1>3 DEF Record, Searched
<1>5. \A k \in Key : got[k] # "unsearched"
    BY CacheAssumption DEF Searched
<1> QED
    BY <1>1, <1>4, <1>5 DEF Sound

----------------------------------------------------------------------------
(* The invariant *)

\* A step that changes the record of one process.
LEMMA OneChanges ==
    ASSUME CacheInv, RestOK', NEW p \in Process, NEW r,
           proc' = [proc EXCEPT ![p] = r], Sound(p, r, knew'[p]),
           \A q \in Process \ {p} : knew'[q] = knew[q]
    PROVE  CacheInv'
<1>1. r \in Record
    BY DEF Sound
<1>2. proc' \in [Process -> Record]
    BY <1>1 DEF CacheInv
<1>3. ASSUME NEW q \in Process
      PROVE  Sound(q, proc[q], knew[q])'
    <2>1. CASE q = p
        <3>1. proc'[q] = r
            BY <2>1 DEF CacheInv
        <3> QED
            BY <2>1, <3>1 DEF Sound, Record, Searched, Entries, Stored
    <2>2. CASE q # p
        <3>1. proc'[q] = proc[q] /\ knew'[q] = knew[q]
            BY <2>2
        <3> QED
            BY <3>1 DEF CacheInv, Sound, Record, Searched, Entries, Stored
    <2> QED
        BY <2>1, <2>2
<1> QED
    BY <1>2, <1>3 DEF CacheInv

LEMMA InitInv == ASSUME Init PROVE CacheInv
<1>1. RestOK
    <2>1. 0 \in 0..MaxOpens /\ 0 \in 0..MaxKills
        BY CacheAssumption
    <2> QED
        BY <2>1, EmptyType DEF Init, RestOK
<1>2. \A p \in Process : proc[p] = Off
    BY DEF Init
<1>3. \A p \in Process : Sound(p, Off, knew[p])
    BY OffSound
<1>4. proc \in [Process -> Record]
    BY <1>3 DEF Init, Sound
<1> QED
    BY <1>1, <1>2, <1>3, <1>4 DEF CacheInv

LEMMA OpenInv == ASSUME CacheInv, NEW p \in Process, Open(p) PROVE CacheInv'
<1>1. Load \in Searched /\ Stored(Load) \in SUBSET Key
    BY LoadType, StoredType DEF CacheInv
<1>2. knew'[p] = Stored(Load) /\ \A q \in Process \ {p} : knew'[q] = knew[q]
    BY DEF Open, CacheInv, RestOK
<1>3. RestOK'
    BY <1>1, CacheAssumption DEF Open, CacheInv, RestOK
<1>4. CASE Kind[p] = "web" /\ proc' = [proc EXCEPT ![p] = [Off EXCEPT !.pc = "idle", !.mem = Load]]
    <2>1. Sound(p, [Off EXCEPT !.pc = "idle", !.mem = Load], knew'[p])
        BY <1>1, <1>2, <1>4, IdleSound
    <2> QED
        BY <1>2, <1>3, <1>4, <2>1, OneChanges
<1>5. ASSUME NEW asked \in SUBSET Key \ {{}},
             proc' = [proc EXCEPT ![p] = Called(p, Load, asked, Kind[p] = "pipeline")]
      PROVE  CacheInv'
    <2>1. Kind[p] = "cli" => ~(Kind[p] = "pipeline")
        OBVIOUS
    <2>2. Sound(p, Called(p, Load, asked, Kind[p] = "pipeline"), knew'[p])
        BY <1>1, <1>2, <2>1, CalledSound
    <2> QED
        BY <1>2, <1>3, <1>5, <2>2, OneChanges
<1> QED
    BY <1>4, <1>5 DEF Open

LEMMA RequestInv == ASSUME CacheInv, NEW p \in Process, Request(p) PROVE CacheInv'
<1>1. proc[p] \in Record /\ proc[p].pc = "idle" /\ Sound(p, proc[p], knew[p])
    BY DEF Request, CacheInv
<1>2. /\ proc[p].mem \in Searched /\ knew[p] \in SUBSET Stored(proc[p].mem)
      /\ Kind[p] # "cli"
    BY <1>1 DEF Sound, Record
<1>3. RestOK' /\ knew' = knew
    BY DEF Request, CacheInv, RestOK
<1>4. PICK asked \in SUBSET Key \ {{}}, quick \in BOOLEAN :
         proc' = [proc EXCEPT ![p] = Called(p, proc[p].mem, asked, quick)]
    BY DEF Request, CacheInv
<1>5. Sound(p, Called(p, proc[p].mem, asked, quick), knew'[p])
    BY <1>2, <1>3, CalledSound
<1> QED
    BY <1>3, <1>4, <1>5, OneChanges

LEMMA ClearInv == ASSUME CacheInv, NEW p \in Process, Clear(p) PROVE CacheInv'
<1>1. RestOK'
    <2>1. opens' \in 0..MaxOpens
        BY CacheAssumption DEF Clear, CacheInv, RestOK
    <2> QED
        BY <2>1, EmptyType DEF Clear, CacheInv, RestOK
<1>2. proc' = proc /\ knew' = knew
    BY DEF Clear
<1> QED
    BY <1>1, <1>2 DEF CacheInv, Sound

LEMMA AnsweredInv == ASSUME CacheInv, NEW p \in Process, Answered(p) PROVE CacheInv'
<1> DEFINE r == proc[p]
<1>1. r \in Record /\ r.pc = "asking" /\ Sound(p, r, knew[p])
    BY DEF Answered, CacheInv
<1>2. RestOK' /\ knew' = knew
    BY DEF Answered, CacheInv, RestOK
<1>3. PICK new \in [r.asked \ r.hits -> Outcomes(r.quick)] :
         LET got == [k \in Key |-> IF k \in DOMAIN new THEN new[k] ELSE r.got[k]]
             kept == Kept(p, r.mem, got, DOMAIN new, r.quick)
         IN  proc' = [proc EXCEPT ![p] =
                [r EXCEPT !.pc = "storing", !.got = got, !.store = kept]]
    BY DEF Answered, CacheInv
<1> DEFINE got == [k \in Key |-> IF k \in DOMAIN new THEN new[k] ELSE r.got[k]]
           kept == Kept(p, r.mem, got, DOMAIN new, r.quick)
           s == [r EXCEPT !.pc = "storing", !.got = got, !.store = kept]
<1>4. proc' = [proc EXCEPT ![p] = s]
    BY <1>3
<1>5. /\ DOMAIN new = r.asked \ r.hits /\ DOMAIN new \subseteq Key
      /\ \A k \in DOMAIN new : new[k] \in Answer /\ (~r.quick => new[k] # "unsearched")
    BY <1>1 DEF Record, Outcomes
<1>6. got \in Entries
    BY <1>1, <1>5 DEF Record, Entries
<1>7. ~r.quick => \A k \in Key : got[k] # "unsearched"
    BY <1>1, <1>5 DEF Sound
<1>8. /\ kept \subseteq DOMAIN new
      /\ \A k \in kept : got[k] # "unsearched"
    <2>1. r.quick \in BOOLEAN /\ (Kind[p] = "cli" => ~r.quick)
        BY <1>1 DEF Sound, Record
    <2>2. ~r.quick => \A k \in DOMAIN new : got[k] # "unsearched"
        BY <1>5, <1>7
    <2> HIDE DEF got
    <2> QED
        BY <2>1, <2>2, KeptType
<1>9. s \in Record
    <2> HIDE DEF got, kept
    <2> QED
        BY <1>1, <1>5, <1>6, <1>8 DEF Record
<1>10. \A k \in kept : got[k] \notin {Absent, "unsearched"}
    BY <1>5, <1>8, CacheAssumption
<1>11. Sound(p, s, knew'[p])
    <2> HIDE DEF got, kept
    <2> QED
        BY <1>1, <1>2, <1>7, <1>9, <1>10 DEF Sound, Record
<1> QED
    BY <1>2, <1>4, <1>11, OneChanges

\* The end of a call leaves a sound process.
LEMMA RestSound ==
    ASSUME NEW p \in Process, Sound(p, proc[p], knew[p]), proc[p].pc # "off"
    PROVE  Sound(p, Rest(p), knew[p])
<1>1. proc[p].mem \in Searched /\ knew[p] \in SUBSET Stored(proc[p].mem)
    BY DEF Sound, Record
<1> QED
    BY <1>1, IdleSound, OffSound DEF Rest

LEMMA EndsInv ==
    ASSUME CacheInv, NEW p \in Process, Raises(p) \/ Return(p)
    PROVE  CacheInv'
<1>1. RestOK' /\ knew' = knew
    BY DEF Raises, Return, CacheInv, RestOK
<1>2. proc' = [proc EXCEPT ![p] = Rest(p)] /\ proc[p].pc # "off"
    BY DEF Raises, Return
<1>3. Sound(p, Rest(p), knew[p])
    BY <1>2, RestSound DEF CacheInv
<1> QED
    BY <1>1, <1>2, <1>3, OneChanges

LEMMA TruncateInv == ASSUME CacheInv, NEW p \in Process, Truncate(p) PROVE CacheInv'
<1> DEFINE r == proc[p]
<1>1. r \in Record /\ r.pc = "storing" /\ Sound(p, r, knew[p])
    BY DEF Truncate, CacheInv
<1>2. RestOK' /\ knew' = knew
    BY DEF Truncate, CacheInv, RestOK
<1>3. PICK k \in r.store :
         proc' = [proc EXCEPT ![p] =
            [r EXCEPT !.pc = "writing", !.mem = Put(r.mem, k, r.got[k]),
                      !.store = r.store \ {k}]]
    BY DEF Truncate, CacheInv
<1> DEFINE mem == Put(r.mem, k, r.got[k])
           s == [r EXCEPT !.pc = "writing", !.mem = mem, !.store = r.store \ {k}]
<1>4. k \in Key /\ r.got[k] \notin {Absent, "unsearched"} /\ r.got[k] \in Answer \cup {Absent}
    BY <1>1, <1>3 DEF Sound, Record, Entries
<1>5. mem \in Searched /\ Stored(r.mem) \subseteq Stored(mem)
    BY <1>1, <1>4 DEF Sound, Searched, Entries, Put, Stored
<1>6. s \in Record
    <2> HIDE DEF mem
    <2> QED
        BY <1>1, <1>5 DEF Record, Searched
<1>7. Sound(p, s, knew'[p])
    <2> HIDE DEF mem
    <2> QED
        BY <1>1, <1>2, <1>5, <1>6 DEF Sound, Record
<1> QED
    BY <1>2, <1>3, <1>7, OneChanges

LEMMA RewriteInv == ASSUME CacheInv, NEW p \in Process, Rewrite(p) PROVE CacheInv'
<1> DEFINE s == [proc[p] EXCEPT !.pc = "storing"]
<1>1. proc[p] \in Record /\ proc[p].pc = "writing" /\ Sound(p, proc[p], knew[p])
    BY DEF Rewrite, CacheInv
<1>2. RestOK' /\ knew' = knew
    BY <1>1 DEF Rewrite, CacheInv, RestOK, Sound
<1>3. proc' = [proc EXCEPT ![p] = s]
    BY DEF Rewrite, CacheInv
<1>4. s \in Record
    BY <1>1 DEF Record
<1>5. Sound(p, s, knew'[p])
    BY <1>1, <1>2, <1>4 DEF Sound, Record
<1> QED
    BY <1>2, <1>3, <1>5, OneChanges

LEMMA SecondWaveInv == ASSUME CacheInv, NEW p \in Process, SecondWave(p) PROVE CacheInv'
<1> DEFINE missed == {k \in proc[p].asked : proc[p].got[k] # "resolved"}
<1>1. proc[p] \in Record /\ proc[p].pc = "storing" /\ Sound(p, proc[p], knew[p])
    BY DEF SecondWave, CacheInv
<1>2. RestOK' /\ knew' = knew
    BY DEF SecondWave, CacheInv, RestOK
<1>3. /\ proc[p].mem \in Searched /\ knew[p] \in SUBSET Stored(proc[p].mem)
      /\ missed \in SUBSET Key
    BY <1>1 DEF Sound, Record
<1>4. proc' = [proc EXCEPT ![p] = Called(p, proc[p].mem, missed, FALSE)]
    BY DEF SecondWave, CacheInv
<1>5. Sound(p, Called(p, proc[p].mem, missed, FALSE), knew'[p])
    BY <1>2, <1>3, CalledSound
<1> QED
    BY <1>2, <1>4, <1>5, OneChanges

LEMMA KillInv == ASSUME CacheInv, NEW p \in Process, Kill(p) PROVE CacheInv'
<1>1. RestOK' /\ knew' = knew
    BY CacheAssumption DEF Kill, CacheInv, RestOK
<1>2. proc' = [proc EXCEPT ![p] = Off]
    BY DEF Kill
<1> QED
    BY <1>1, <1>2, OffSound, OneChanges

LEMMA NextInv == ASSUME CacheInv, [Next]_vars PROVE CacheInv'
<1>1. CASE UNCHANGED vars
    BY <1>1 DEF vars, CacheInv, RestOK, Sound, Record, Searched, Entries, Stored
<1>2. ASSUME NEW p \in Process,
             \/ Open(p) \/ Request(p) \/ Clear(p) \/ Answered(p) \/ Raises(p)
             \/ Truncate(p) \/ Rewrite(p) \/ SecondWave(p) \/ Return(p) \/ Kill(p)
      PROVE  CacheInv'
    BY <1>2, OpenInv, RequestInv, ClearInv, AnsweredInv, EndsInv, TruncateInv,
       RewriteInv, SecondWaveInv, KillInv
<1> QED
    BY <1>1, <1>2 DEF Next

THEOREM CacheInductive == Spec => []CacheInv
BY InitInv, NextInv, PTL DEF Spec

----------------------------------------------------------------------------
(* Theorems *)

\* The types of the cache and of its processes.
THEOREM CacheTypeCorrect == Spec => []CacheTypeOK
<1>1. CacheInv => CacheTypeOK
    BY DEF CacheInv, RestOK, CacheTypeOK, Record, Searched
<1> QED
    BY <1>1, CacheInductive, PTL

\* A call that is to search everywhere never ends in the miss of a quick one,
\* for any number of processes that write into the file (/api/verify,
\* _verify_batch_cached).
THEOREM MissesAlwaysSearched == Spec => []MissesAreSearched
<1>1. CacheInv => MissesAreSearched
    BY DEF CacheInv, Sound, Record, MissesAreSearched
<1> QED
    BY <1>1, CacheInductive, PTL

\* An entry is lost to --clear-cache or to a process that never read it, and
\* to nothing else (VerificationCache.put).
THEOREM OnlyStaleWritesAlwaysLose == Spec => OnlyStaleWritesLose
<1>1. ASSUME CacheInv, [Next]_vars PROVE [LostToStaleWrite]_disk
    <2>1. CASE disk' = disk
        BY <2>1
    <2>2. CASE disk' # disk
        <3>1. PICK p \in Process : Clear(p) \/ Rewrite(p)
            BY <1>1, <2>2 DEF Next, vars, Open, Request, Answered, Raises, Truncate,
                              SecondWave, Return, Kill
        <3>2. CASE Clear(p)
            BY <3>2 DEF Clear, LostToStaleWrite
        <3>3. CASE Rewrite(p)
            <4>1. /\ proc[p].pc = "writing" /\ disk' = proc[p].mem
                  /\ proc' = [proc EXCEPT ![p] = [proc[p] EXCEPT !.pc = "storing"]]
                BY <3>3, <1>1 DEF Rewrite, CacheInv
            <4>2. proc'[p].pc = "storing"
                BY <4>1, <1>1 DEF CacheInv, Record
            <4>3. knew[p] \subseteq Stored(disk')
                BY <4>1, <1>1 DEF CacheInv, Sound
            <4> QED
                BY <4>1, <4>2, <4>3 DEF LostToStaleWrite
        <3> QED
            BY <3>1, <3>2, <3>3
    <2> QED
        BY <2>1, <2>2
<1> QED
    BY <1>1, CacheInductive, PTL DEF Spec, OnlyStaleWritesLose
=============================================================================
