------------------------------ MODULE QcTable ------------------------------
(***************************************************************************)
(* The review table of the web application (src/web/app.py): one CSV file  *)
(* that is rewritten as a whole by two handlers, qc_save and qc_run_batch, *)
(* and read by the review page through the memory copy of MasterCSV.       *)
(*                                                                         *)
(* The handlers share one event loop.  A save does not await once its body *)
(* is there, so it is one step; a batch reads the table, awaits the        *)
(* verification of its sample, and writes the table it read.  The process  *)
(* may be killed inside any rewrite, of the table, of a list or of a       *)
(* sidecar, and between two of them, and the writing itself may fail.      *)
(***************************************************************************)
EXTENDS Integers, Sequences, FiniteSets, FiniteSetsExt

CONSTANTS
    Citation,   \* citation texts
    Text,       \* Text[i]: the citation of the i-th row of the table
    Decision,   \* values of qc_status
    Mentions,   \* Mentions[c]: the citations whose text occurs in an entry on c
    Batch,      \* requests to run a batch; each is made once
    Name,       \* Name[b]: the sidecar file of a batch, named by its day and seed
    Filter,     \* sets of rows that a batch may be restricted to
    MaxSample,  \* bound on sample_size
    MaxSaves,   \* bound of the model: acknowledged saves
    MaxFaults,  \* bound of the model: kills and failed writes
    None,       \* no verification, no batch
    Absent      \* a row read from a table that has no qc_status column

Listing == {"investigate", "data"}

ASSUME TableAssumption ==
    /\ Text \in Seq(Citation)
    /\ {"", "rerun"} \subseteq Decision
    /\ Absent \notin Decision
    /\ None \notin Batch
    /\ DOMAIN Name = Batch
    /\ Mentions \in [Citation -> SUBSET Citation]
    /\ \A c \in Citation : c \in Mentions[c]
    /\ MaxSample \in Nat /\ MaxSaves \in Nat /\ MaxFaults \in Nat

VARIABLES
    file,       \* the rows of the table
    columns,    \* the header of the table has the columns of the review
    backup,     \* the rows of the .bak file
    view,       \* MasterCSV: the rows in memory, and whether their mtime is the file's
    batch,      \* the requests that run a batch
    sidecars,   \* the batch whose results each sidecar file holds
    lists,      \* QC_TRIAGE.md and flp_contributions.md: what each entry mentions
    saves, faults,
    before,     \* history: the rows a torn rewrite was to replace, None if the table is whole
    refused,    \* history: rows with a decision that was refused and stays in memory
    acked,      \* history: the decisions acknowledged to a user
    filed,      \* history: the decisions the table was rewritten with, before their list was
    marred      \* history: the lists whose writing failed or was killed

disk == <<file, columns, backup, sidecars, lists>>
listing == <<acked, filed, marred>>
vars == <<disk, view, batch, saves, faults, before, refused, listing>>

Cell == [v: Batch \cup {None}, qc: Decision \cup {Absent}]
Rows == Seq(Cell)

\* A memory copy that the next request reads again.
Stale == [rows |-> <<>>, fresh |-> FALSE]

Names == {Name[b] : b \in Batch}

\* The cell of a row that was never verified nor decided.
Fresh(has) == [v |-> None, qc |-> IF has THEN "" ELSE Absent]

Idle == [pc |-> "unused", rows |-> <<>>, taken |-> {}]

Init ==
    /\ columns \in BOOLEAN
    /\ file = [i \in DOMAIN Text |-> Fresh(columns)]
    /\ backup = <<>>
    /\ view = Stale
    /\ batch = [b \in Batch |-> Idle]
    /\ sidecars = [n \in Names |-> None]
    /\ lists = [l \in Listing |-> <<>>]
    /\ saves = 0 /\ faults = 0
    /\ before = None /\ refused = {}
    /\ acked = {} /\ filed = {} /\ marred = {}

----------------------------------------------------------------------------
(* MasterCSV *)

\* The rows a request works on: read again when the file's mtime has changed.
Loaded == IF view.fresh THEN view.rows ELSE file

\* Mutant: a batch does not drop the memory copy.
DroppedNever == view
Dropped == Stale

\* The rows that carry the citation; a request takes the first.
RowsOf(c, rows) == {i \in DOMAIN rows : Text[i] = c}
RowFor(c, rows) == Min(RowsOf(c, rows))

Decided(rows, i, d) == [rows EXCEPT ![i].qc = d]

\* What the writer puts on disk before it meets a cell the header has no
\* column for.
Written(rows) ==
    LET bad == {i \in DOMAIN rows : rows[i].qc # Absent}
    IN  IF columns \/ bad = {} THEN rows ELSE SubSeq(rows, 1, Min(bad) - 1)

\* A torn table can be found by its length: nothing is written behind it.
Torn(old, new) == IF Len(new) < Len(old) THEN old ELSE None

\* Mutant: the table is written before it is copied.
CopiedAfter(old, new) == new
Copied(old, new) == old

\* A page that shows a run looks up each of its citations in the table.
ShowRun ==
    /\ view' = [rows |-> Loaded, fresh |-> TRUE]
    /\ refused' = IF view.fresh THEN refused ELSE {}
    /\ UNCHANGED <<disk, batch, saves, faults, before, listing>>

----------------------------------------------------------------------------
(* qc_save *)

Listed(list, c) == \E k \in DOMAIN list : c \in list[k]

\* Mutant: the entry is looked for in the list's citations, not the reverse.
AppendedReversed(list, c) ==
    IF \E k \in DOMAIN list : list[k] \cap Mentions[c] # {} THEN list
    ELSE Append(list, Mentions[c])

\* A citation whose text occurs in the list is not added again.
Appended(list, c) == IF Listed(list, c) THEN list ELSE Append(list, Mentions[c])

\* write_text cuts the list before it writes: it may stop in any entry, of
\* which some of what it mentions may be there already.
Cuts(list) ==
    {SubSeq(list, 1, k) : k \in 0..Len(list)} \cup
    UNION {{Append(SubSeq(list, 1, k - 1), part) : part \in (SUBSET list[k]) \ {{}}}
            : k \in DOMAIN list}

\* What is left of a list if adding c to it fails or is killed: a list that
\* mentions c is not written.
Interrupted(list, c) == IF Listed(list, c) THEN {list} ELSE {list} \cup Cuts(Appended(list, c))

Undecided(i) == IF view.fresh THEN refused \ {i} ELSE {}

\* The decision reaches the table, then its list.  An error while the list is
\* written is logged and the save is acknowledged all the same.
Save(c, d) ==
    LET rows == Loaded
        new  == Decided(rows, RowFor(c, rows), d)
    IN  /\ saves < MaxSaves
        /\ RowsOf(c, rows) # {}
        /\ Written(new) = new
        /\ backup' = Copied(file, new)
        /\ file' = new
        /\ view' = [rows |-> new, fresh |-> TRUE]
        /\ before' = None
        /\ refused' = {}
        /\ acked' = acked \cup {<<c, d>>}
        /\ filed' = filed \cup {<<c, d>>}
        /\ saves' = saves + 1
        /\ \/ /\ d \in Listing
              /\ lists' = [lists EXCEPT ![d] = Appended(@, c)]
              /\ UNCHANGED <<faults, marred>>
           \/ /\ d \notin Listing
              /\ UNCHANGED <<lists, faults, marred>>
           \/ /\ d \in Listing /\ faults < MaxFaults
              /\ faults' = faults + 1
              /\ \E left \in Interrupted(lists[d], c) : lists' = [lists EXCEPT ![d] = left]
              /\ marred' = marred \cup {d}
        /\ UNCHANGED <<columns, batch, sidecars>>

\* The rows in memory are changed first: if the copy, or opening the file,
\* fails, the request ends in an error and memory keeps the decision.
SaveRefused(c, d) ==
    LET rows == Loaded
        i    == RowFor(c, rows)
    IN  /\ faults < MaxFaults
        /\ RowsOf(c, rows) # {}
        /\ view' = [rows |-> Decided(rows, i, d), fresh |-> TRUE]
        /\ backup' \in {backup, file}
        /\ before' = IF backup' = backup THEN before ELSE None
        /\ refused' = Undecided(i) \cup {i}
        /\ faults' = faults + 1
        /\ UNCHANGED <<file, columns, sidecars, lists, batch, saves, listing>>

\* The header has no column for the decision: the writer raises at the first
\* row that has one, with the file already cut.
SaveRaises(c, d) ==
    LET rows == Loaded
        i    == RowFor(c, rows)
        new  == Decided(rows, i, d)
    IN  /\ RowsOf(c, rows) # {}
        /\ Written(new) # new
        /\ backup' = Copied(file, Written(new))
        /\ file' = Written(new)
        /\ before' = Torn(file, Written(new))
        /\ view' = Stale
        /\ UNCHANGED <<columns, sidecars, lists, batch, saves, faults, refused, listing>>

----------------------------------------------------------------------------
(* qc_run_batch *)

\* Mutant: a verified row is taken again.
ActionableAgain(cell) == cell.qc \notin {"duplicate", "ignore"} \cup Listing

Actionable(cell) ==
    \/ cell.qc = "rerun"
    \/ cell.qc \notin {"duplicate", "ignore"} \cup Listing /\ cell.v = None

Candidates(rerunOnly, filter) ==
    {i \in DOMAIN file \cap filter :
        IF rerunOnly THEN file[i].qc = "rerun" ELSE Actionable(file[i])}

StartBatch(b) ==
    /\ batch[b].pc = "unused"
    /\ \E rerunOnly \in BOOLEAN, filter \in Filter, size \in 1..MaxSample :
         LET open == Candidates(rerunOnly, filter)
         IN  /\ open # {}
             /\ \E taken \in kSubset(Min({size, Cardinality(open)}), open) :
                  batch' = [batch EXCEPT ![b] =
                      [pc |-> "open", rows |-> file, taken |-> taken]]
    /\ UNCHANGED <<disk, view, saves, faults, before, refused, listing>>

\* _apply_verification_to_row, or the same for a short cite that is skipped.
Verified(cell, b) ==
    [v |-> b, qc |-> IF cell.qc = "rerun" THEN "" ELSE cell.qc]

\* Missing columns are filled with empty cells.
Filled(cell) == IF cell.qc = Absent THEN [cell EXCEPT !.qc = ""] ELSE cell

Outcome(b) ==
    [i \in DOMAIN batch[b].rows |->
        LET cell == Filled(batch[b].rows[i])
        IN  IF i \in batch[b].taken THEN Verified(cell, b) ELSE cell]

Closed(b) == [batch EXCEPT ![b].pc = "closed", ![b].rows = <<>>]

\* All results are in: the rows read at the start are written back with them,
\* the memory copy is dropped, and the sidecar is written.
WriteBack(b) ==
    /\ batch[b].pc = "open"
    /\ backup' = Copied(file, Outcome(b))
    /\ file' = Outcome(b)
    /\ columns' = TRUE
    /\ view' = Dropped
    /\ sidecars' = [sidecars EXCEPT ![Name[b]] = b]
    /\ before' = None
    /\ batch' = Closed(b)
    /\ UNCHANGED <<lists, saves, faults, refused, listing>>

\* The sidecar that b has opened: what another batch of its name had left
\* there is gone.
Opened(b) == [sidecars EXCEPT ![Name[b]] = None]

\* An error of the write-back ends the stream: before the table is opened, or
\* with the table written and no sidecar for it.
WriteBackFails(b) ==
    /\ batch[b].pc = "open" /\ faults < MaxFaults
    /\ faults' = faults + 1
    /\ batch' = Closed(b)
    /\ \/ /\ backup' \in {backup, file}
          /\ before' = IF backup' = backup THEN before ELSE None
          /\ UNCHANGED <<file, columns, view, sidecars>>
       \/ /\ backup' = Copied(file, Outcome(b))
          /\ file' = Outcome(b) /\ columns' = TRUE
          /\ view' = Dropped /\ before' = None
          /\ sidecars' \in {sidecars, Opened(b)}
    /\ UNCHANGED <<lists, saves, refused, listing>>

\* Mutant: a batch that ends early writes what it has, and no sidecar.
EndEarlySaving(b) ==
    /\ batch[b].pc = "open"
    /\ file' = Outcome(b) /\ backup' = file /\ view' = Stale
    /\ batch' = Closed(b)
    /\ UNCHANGED <<columns, sidecars, lists, saves, faults, before, refused, listing>>

\* verify_batch raises, or the client disconnects: nothing was written.
EndEarly(b) ==
    /\ batch[b].pc = "open"
    /\ batch' = Closed(b)
    /\ UNCHANGED <<disk, view, saves, faults, before, refused, listing>>

----------------------------------------------------------------------------
(* A kill takes the memory copy and every open batch. *)

Restarted ==
    /\ faults < MaxFaults
    /\ faults' = faults + 1
    /\ view' = Stale
    /\ batch' = [b \in Batch |->
                    IF batch[b].pc = "open" THEN Closed(b)[b] ELSE batch[b]]
    /\ refused' = {}

\* Killed inside a rewrite of the table: the copy is there, of the new rows
\* any part.
KilledWriting(new, header) ==
    /\ backup' = Copied(file, new)
    /\ \E k \in 0..Len(new) :
         /\ file' = SubSeq(new, 1, k)
         /\ before' = Torn(file, SubSeq(new, 1, k))
    /\ columns' = header
    /\ UNCHANGED <<lists, saves, listing>>

\* In a save: while the table is written, or with the table written, before,
\* while or after its list is, and before the save is acknowledged.
KillSaving(c, d) ==
    LET new == Decided(Loaded, RowFor(c, Loaded), d)
    IN  /\ Restarted
        /\ RowsOf(c, Loaded) # {}
        /\ \/ KilledWriting(Written(new), columns)
           \/ /\ d \in Listing /\ Written(new) = new
              /\ backup' = Copied(file, new)
              /\ file' = new /\ before' = None
              /\ filed' = filed \cup {<<c, d>>}
              /\ \E left \in Interrupted(lists[d], c) : lists' = [lists EXCEPT ![d] = left]
              /\ marred' = marred \cup {d}
              /\ UNCHANGED <<columns, saves, acked>>
        /\ UNCHANGED sidecars

\* In a write-back: while the table is written, or with the table written and
\* a part of the sidecar.
KillWritingBack(b) ==
    /\ Restarted
    /\ batch[b].pc = "open"
    /\ KilledWriting(Outcome(b), TRUE)
    /\ \/ UNCHANGED sidecars
       \/ file' = Outcome(b) /\ sidecars' = Opened(b)

Kill ==
    \/ Restarted /\ UNCHANGED <<disk, saves, before, listing>>
    \/ \E c \in Citation, d \in Decision : KillSaving(c, d)
    \/ \E b \in Batch : KillWritingBack(b)

Next ==
    \/ ShowRun
    \/ \E c \in Citation, d \in Decision : Save(c, d) \/ SaveRefused(c, d) \/ SaveRaises(c, d)
    \/ \E b \in Batch : StartBatch(b) \/ WriteBack(b) \/ WriteBackFails(b) \/ EndEarly(b)
    \/ Kill

Spec == Init /\ [][Next]_vars

----------------------------------------------------------------------------
(* Properties *)

\* Types.
QcTypeOK ==
    /\ file \in Rows /\ backup \in Rows /\ columns \in BOOLEAN
    /\ view \in [rows: Rows, fresh: BOOLEAN]
    /\ batch \in [Batch -> [pc: {"unused", "open", "closed"}, rows: Rows,
                            taken: SUBSET (DOMAIN Text)]]
    /\ sidecars \in [Names -> Batch \cup {None}]
    /\ lists \in [Listing -> Seq(SUBSET Citation)]
    /\ saves \in 0..MaxSaves /\ faults \in 0..MaxFaults
    /\ before \in Rows \cup {None}
    /\ refused \subseteq DOMAIN Text
    /\ acked \subseteq Citation \X Decision /\ filed \subseteq Citation \X Decision
    /\ marred \subseteq Listing

\* What a page is shown of a row is what the table holds, except for a
\* decision whose save ended in an error: memory is changed before the disk
\* (update_qc), and both handlers write behind MasterCSV's back.
ShownIsSaved ==
    view.fresh =>
        /\ Len(view.rows) = Len(file)
        /\ \A i \in DOMAIN file \ refused : view.rows[i] = file[i]

\* After a rewrite that was killed, or whose writer raised, the .bak file
\* holds the whole table as it was, until the next rewrite copies the torn
\* one (shutil.copy2 comes before open in both handlers).
TornIsBackedUp == before # None => backup = before

\* The step ends b, and the table may have become what b makes of it.
WritesBack(b) == batch[b].pc = "open" /\ batch'[b].pc # "open"

\* The step is a save of d on c that writes the table, to its end or not.
Saving(c, d) == Save(c, d) \/ SaveRaises(c, d) \/ KillSaving(c, d)

\* The step writes b's row i, or did before it was killed.
WroteRow(b, i) ==
    WritesBack(b) /\ i \in DOMAIN batch[b].rows /\ file'[i] = Outcome(b)[i]

DecisionKept(i) ==
    file[i].qc \notin {Absent, "", file'[i].qc} =>
        \/ \E d \in Decision :
             Saving(Text[i], d) /\ i = RowFor(Text[i], Loaded) /\ file'[i].qc = d
        \/ i \in refused /\ file'[i].qc = Loaded[i].qc
        \/ \E b \in Batch :
             /\ WroteRow(b, i)
             /\ \/ batch[b].rows[i].qc # file[i].qc
                \/ file[i].qc = "rerun" /\ i \in batch[b].taken

VerificationKept(i) ==
    file[i].v \notin {None, file'[i].v} =>
        \E b \in Batch :
          /\ WroteRow(b, i)
          /\ \/ batch[b].rows[i].v # file[i].v
             \/ batch[b].rows[i].qc = "rerun" /\ i \in batch[b].taken

UndoneByStaleWrite ==
    \A i \in DOMAIN file :
        IF i \in DOMAIN file' THEN DecisionKept(i) /\ VerificationKept(i)
        ELSE i \in DOMAIN backup' /\ backup'[i] = file[i]

\* A decision leaves the table in four ways: for the decision a save on its
\* citation is writing; for a refused one, which memory kept and the next save
\* writes with the rest; because it asked for the rerun that is now there; and
\* with the write-back of a batch that had read the table before the decision
\* was made.  A verification leaves it only for one that was asked for, or in
\* the same stale write-back.  A row that a torn rewrite drops is in the backup
\* that was made for that rewrite.  Kills and failed writes are no exception.
OnlyStaleWritesUndo == [][UndoneByStaleWrite]_file

\* What the review page can show: without a kill, every verification of the
\* table is in the sidecar of the batch that made it, whichever batches ran
\* at the same time, if no two share a day and a seed.
Reviewable ==
    faults = 0 =>
        \A i \in DOMAIN file : file[i].v # None =>
            \E n \in Names : sidecars[n] = file[i].v /\ i \in batch[file[i].v].taken

\* Whatever is listed, a part of an entry included, is of a decision that the
\* table was rewritten with before, acknowledged or not (a save may be killed
\* between the two, or before it answers); and in a list whose writing never
\* failed nor was killed, each decision acknowledged is found, under its own
\* entry or in another's text.  A kill inside the writing of a list may take
\* any of its entries: unlike the table, a list has no backup.
ListsBacked ==
    \A l \in Listing :
        /\ \A k \in DOMAIN lists[l] :
             \E c \in Citation : <<c, l>> \in filed /\ lists[l][k] \subseteq Mentions[c]
        /\ l \notin marred =>
             \A c \in Citation : <<c, l>> \in acked => Listed(lists[l], c)
=============================================================================
