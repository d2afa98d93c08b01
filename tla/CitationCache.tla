--------------------------- MODULE CitationCache ---------------------------
(***************************************************************************)
(* The result cache (cache.py) and the processes that share its file: the  *)
(* command line (main of __main__.py), the web application (/api/verify)   *)
(* and the verify verb of the proposition pipeline (_verify_batch_cached). *)
(*                                                                         *)
(* Each process reads the file once, keeps its own copy, and rewrites the  *)
(* whole file from that copy for every entry it adds.  Nothing orders the  *)
(* processes.  A rewrite truncates the file first, so that another process *)
(* may read half of it, or write into it at the same time.                 *)
(***************************************************************************)
EXTENDS Integers, FiniteSets

CONSTANTS
    Process,
    Kind,       \* Kind[p]: "cli", "web" or "pipeline"
    Key,        \* citation texts, numbered in the order they are given
    Answer,     \* classes of status: "resolved", "miss" (NOT_FOUND after every
                \* search), "unsearched" (NOT_FOUND of a quick call), ...
    MaxOpens,   \* bound of the model: processes started
    MaxKills,   \* bound of the model
    Absent      \* no entry

ASSUME CacheAssumption ==
    /\ Key \subseteq Nat /\ IsFiniteSet(Key)
    /\ Kind \in [Process -> {"cli", "web", "pipeline"}]
    /\ {"resolved", "unsearched"} \subseteq Answer /\ Absent \notin Answer
    /\ MaxOpens \in Nat /\ MaxKills \in Nat

VARIABLES
    disk,       \* the entries of the file, if it is whole
    torn,       \* the file is not valid JSON
    proc,       \* the processes
    opens, kills,
    knew,       \* history: the entries each process found in the file
    alone       \* the process whose rewrite no other one has met

vars == <<disk, torn, proc, opens, kills, knew, alone>>

Entries == [Key -> Answer \cup {Absent}]
Empty == [k \in Key |-> Absent]
Stored(m) == {k \in Key : m[k] # Absent}

\* pc: "off"; "idle" (web: no request); "asking" CourtListener; "storing";
\* "writing" (the file is truncated).  `asked` are the citations of the call,
\* `hits` those answered from the copy, `store` those still to be put.
Off == [pc |-> "off", mem |-> Empty, asked |-> {}, hits |-> {},
        got |-> Empty, store |-> {}, quick |-> FALSE]

Init ==
    /\ disk = Empty /\ torn = FALSE
    /\ proc = [p \in Process |-> Off]
    /\ opens = 0 /\ kills = 0
    /\ knew = [p \in Process |-> {}]
    /\ alone = {}

----------------------------------------------------------------------------
(* VerificationCache *)

\* _load: a file that cannot be parsed counts as empty.
Load == IF torn THEN Empty ELSE disk

\* The test `if cache` asks for len(cache): an empty cache is as good as none.
Usable(mem) == Stored(mem) # {}

\* What a process takes from its copy: the command line everything, the
\* pipeline what resolved; the web application does not look.
Taken(p, mem, asked) ==
    CASE Kind[p] = "cli"      -> Stored(mem) \cap asked
      [] Kind[p] = "pipeline" -> {k \in asked : mem[k] = "resolved"}
      [] Kind[p] = "web"      -> {}

\* Mutant: the web application keeps the misses of its quick calls too.
KeptQuick(p, mem, got, asked, quick) ==
    CASE Kind[p] = "cli"      -> IF Usable(mem) THEN asked ELSE {}
      [] Kind[p] = "pipeline" -> {k \in asked : got[k] = "resolved"}
      [] Kind[p] = "web"      -> asked

\* What it puts there: the command line every answer, but none into an empty
\* copy; the web application all but the misses of a quick call; the pipeline
\* what resolved.
Kept(p, mem, got, asked, quick) ==
    CASE Kind[p] = "cli"      -> IF Usable(mem) THEN asked ELSE {}
      [] Kind[p] = "pipeline" -> {k \in asked : got[k] = "resolved"}
      [] Kind[p] = "web"      -> {k \in asked : ~quick \/ got[k] # "unsearched"}

\* Mutant: a put keeps only the entry it adds.
PutAlone(mem, k, a) == [Empty EXCEPT ![k] = a]
Put(mem, k, a) == [mem EXCEPT ![k] = a]

----------------------------------------------------------------------------
(* The processes *)

\* The calls a process makes when it starts: hits are taken at once.
Called(p, mem, asked, quick) ==
    LET hits == Taken(p, mem, asked)
    IN  [pc |-> "asking", mem |-> mem, asked |-> asked, hits |-> hits,
         got |-> [k \in Key |-> IF k \in hits THEN mem[k] ELSE Absent],
         store |-> {}, quick |-> quick]

Open(p) ==
    /\ proc[p].pc = "off" /\ opens < MaxOpens
    /\ opens' = opens + 1
    /\ knew' = [knew EXCEPT ![p] = Stored(Load)]
    /\ \/ /\ Kind[p] = "web"
          /\ proc' = [proc EXCEPT ![p] = [Off EXCEPT !.pc = "idle", !.mem = Load]]
       \/ \E asked \in SUBSET Key \ {{}} :
            /\ Kind[p] # "web"
            /\ proc' = [proc EXCEPT ![p] = Called(p, Load, asked, Kind[p] = "pipeline")]
    /\ UNCHANGED <<disk, torn, kills, alone>>

Request(p) ==
    /\ proc[p].pc = "idle"
    /\ \E asked \in SUBSET Key \ {{}}, quick \in BOOLEAN :
         proc' = [proc EXCEPT ![p] = Called(p, @.mem, asked, quick)]
    /\ UNCHANGED <<disk, torn, opens, kills, knew, alone>>

\* --clear-cache removes the file whatever it holds.
Clear(p) ==
    /\ Kind[p] = "cli" /\ proc[p].pc = "off" /\ opens < MaxOpens
    /\ opens' = opens + 1
    /\ disk' = Empty /\ torn' = FALSE
    /\ UNCHANGED <<proc, kills, knew, alone>>

\* A quick call ends in NOT_FOUND before the searches, any other after them.
Outcomes(quick) == Answer \ {IF quick THEN "miss" ELSE "unsearched"}

\* verify or verify_batch returns for everything that was not in the copy.
Answered(p) ==
    /\ proc[p].pc = "asking"
    /\ \E new \in [proc[p].asked \ proc[p].hits -> Outcomes(proc[p].quick)] :
         LET got == [k \in Key |-> IF k \in DOMAIN new THEN new[k] ELSE proc[p].got[k]]
             kept == Kept(p, proc[p].mem, got, DOMAIN new, proc[p].quick)
         IN  proc' = [proc EXCEPT ![p] =
                [@ EXCEPT !.pc = "storing", !.got = got, !.store = kept]]
    /\ UNCHANGED <<disk, torn, opens, kills, knew, alone>>

\* The end of a call: a server goes on with its copy, the others end.
Rest(p) == IF Kind[p] = "web" THEN [Off EXCEPT !.pc = "idle", !.mem = proc[p].mem] ELSE Off

\* An exception leaves the call, or the client of a server goes away while
\* the results are streamed, each put before it is sent.
Raises(p) ==
    /\ \/ proc[p].pc = "asking" /\ proc[p].hits # proc[p].asked
       \/ proc[p].pc = "storing" /\ Kind[p] = "web"
    /\ proc' = [proc EXCEPT ![p] = Rest(p)]
    /\ UNCHANGED <<disk, torn, opens, kills, knew, alone>>

\* put, first half: the copy is changed and the file truncated.
Truncate(p) ==
    /\ proc[p].pc = "storing"
    /\ \E k \in proc[p].store :
         /\ \A j \in proc[p].store : k <= j
         /\ proc' = [proc EXCEPT ![p] =
                [@ EXCEPT !.pc = "writing", !.mem = Put(proc[p].mem, k, proc[p].got[k]),
                          !.store = proc[p].store \ {k}]]
    /\ torn' = TRUE
    /\ alone' = IF \E q \in Process \ {p} : proc[q].pc = "writing" THEN {} ELSE {p}
    /\ UNCHANGED <<disk, opens, kills, knew>>

\* put, second half.  Two rewrites at the same time may leave the head of one
\* and the tail of the other.
Rewrite(p) ==
    /\ proc[p].pc = "writing"
    /\ proc' = [proc EXCEPT ![p] = [@ EXCEPT !.pc = "storing"]]
    /\ disk' = proc[p].mem
    /\ torn' \in IF p \in alone THEN {FALSE} ELSE BOOLEAN
    /\ UNCHANGED <<opens, kills, knew, alone>>

\* The second wave of the verify verb: the misses again, with every search.
SecondWave(p) ==
    LET missed == {k \in proc[p].asked : proc[p].got[k] # "resolved"}
    IN  /\ Kind[p] = "pipeline" /\ proc[p].pc = "storing" /\ proc[p].store = {}
        /\ proc[p].quick /\ missed # {}
        /\ proc' = [proc EXCEPT ![p] = Called(p, @.mem, missed, FALSE)]
        /\ UNCHANGED <<disk, torn, opens, kills, knew, alone>>

\* Everything is stored: the answers are printed, streamed or handed on.
Return(p) ==
    /\ proc[p].pc = "storing" /\ proc[p].store = {}
    /\ Kind[p] = "pipeline" =>
         \/ ~proc[p].quick
         \/ \A k \in proc[p].asked : proc[p].got[k] = "resolved"
    /\ proc' = [proc EXCEPT ![p] = Rest(p)]
    /\ UNCHANGED <<disk, torn, opens, kills, knew, alone>>

\* A killed process leaves the file as it is: torn, if it was writing.
Kill(p) ==
    /\ proc[p].pc # "off" /\ kills < MaxKills
    /\ kills' = kills + 1
    /\ proc' = [proc EXCEPT ![p] = Off]
    /\ UNCHANGED <<disk, torn, opens, knew, alone>>

Next == \E p \in Process :
    \/ Open(p) \/ Request(p) \/ Clear(p) \/ Answered(p) \/ Raises(p)
    \/ Truncate(p) \/ Rewrite(p) \/ SecondWave(p) \/ Return(p) \/ Kill(p)

Spec == Init /\ [][Next]_vars

----------------------------------------------------------------------------
(* Properties *)

\* Types.
CacheTypeOK ==
    /\ disk \in Entries /\ torn \in BOOLEAN
    /\ proc \in [Process ->
         [pc: {"off", "idle", "asking", "storing", "writing"}, mem: Entries,
          asked: SUBSET Key, hits: SUBSET Key, got: Entries, store: SUBSET Key,
          quick: BOOLEAN]]
    /\ opens \in 0..MaxOpens /\ kills \in 0..MaxKills
    /\ knew \in [Process -> SUBSET Key]
    /\ alone \in SUBSET Process

LostToStaleWrite ==
    \A k \in Stored(disk) \ Stored(disk') :
        \/ opens' = opens + 1 /\ disk' = Empty
        \/ \E p \in Process :
             proc[p].pc = "writing" /\ proc'[p].pc = "storing" /\ k \notin knew[p]

\* An entry leaves the file only when the cache is cleared, or when a process
\* rewrites the file that had read it before the entry was there, or torn: no
\* process drops what it found (VerificationCache.put writes all of _data).
OnlyStaleWritesLose == [][LostToStaleWrite]_disk

\* The miss of a quick call never ends a call that is to search everywhere,
\* whatever the three programs write over each other in the file from which it
\* took its answers (/api/verify; _verify_batch_cached: "a quick-only miss can't
\* poison the full path").
MissesAreSearched ==
    \A p \in Process : proc[p].pc \in {"storing", "writing"} /\ ~proc[p].quick =>
        \A k \in proc[p].asked : proc[p].got[k] # "unsearched"
=============================================================================
