--------------------------- MODULE QcTable_proofs ---------------------------
(***************************************************************************)
(* Proofs about QcTable, for any table, any decisions and any number of    *)
(* batches, saves and faults.  Apart from the properties themselves the    *)
(* invariant says that no copy of the table is longer than the table, that *)
(* memory has the verifications of the file, and that a batch took only    *)
(* rows it could act on.                                                   *)
(***************************************************************************)
EXTENDS QcTable, WellFoundedInduction, SequenceTheorems, TLAPS

\* Some copy of the table, possibly cut off.
Copies == {r \in Rows : Len(r) <= Len(Text)}

HistoryOK ==
    /\ columns \in BOOLEAN
    /\ sidecars \in [Names -> Batch \cup {None}]
    /\ lists \in [Listing -> Seq(SUBSET Citation)]
    /\ saves \in 0..MaxSaves /\ faults \in 0..MaxFaults
    /\ refused \subseteq DOMAIN Text
    /\ acked \subseteq Citation \X Decision /\ filed \subseteq Citation \X Decision
    /\ marred \subseteq Listing

CopiesOK ==
    /\ file \in Copies /\ backup \in Rows
    /\ before \in Rows \cup {None}
    /\ view \in [rows: Copies, fresh: BOOLEAN]
    /\ batch \in [Batch -> [pc: {"unused", "open", "closed"}, rows: Copies,
                            taken: SUBSET (DOMAIN Text)]]

SeenVerified == view.fresh => \A i \in DOMAIN file : view.rows[i].v = file[i].v

TakenActionable ==
    \A b \in Batch : batch[b].pc = "open" =>
        \A i \in batch[b].taken : Actionable(batch[b].rows[i])

QcInv ==
    /\ HistoryOK /\ CopiesOK
    /\ ShownIsSaved /\ SeenVerified
    /\ TakenActionable
    /\ TornIsBackedUp
    /\ ListsBacked

----------------------------------------------------------------------------
(* Least elements *)

Before == {ss \in Nat \X Nat : ss[1] < ss[2]}

LEMMA BeforeWellFounded == IsWellFoundedOn(Before, Nat)
BY NatLessThanWellFounded DEF OpToRel, Before

\* A set of natural numbers that is not empty has a least one.
LEMMA LeastOf ==
    ASSUME NEW T \in SUBSET Nat, T # {}
    PROVE  Min(T) \in T /\ \A y \in T : Min(T) <= y
<1>1. PICK x \in T : \A y \in T : <<y, x>> \notin Before
    BY BeforeWellFounded, WFMin
<1>2. \A y \in T : <<y, x>> \in Before <=> y < x
    BY DEF Before
<1>3. \A y \in T : ~(y < x)
    BY <1>1, <1>2
<1>4. \A y \in T : x \in Nat /\ y \in Nat
    OBVIOUS
<1>5. \A y \in T : x <= y
    BY <1>3, <1>4
<1> QED
    BY <1>5 DEF Min

----------------------------------------------------------------------------
(* Rows *)

LEMMA Bounds == MaxSaves \in Nat /\ MaxFaults \in Nat /\ None \notin Batch
BY TableAssumption

LEMMA CountsAreNatural == ASSUME HistoryOK PROVE saves \in Nat /\ faults \in Nat
BY Bounds DEF HistoryOK

\* A row given by its length and its cells.
LEMMA RowsByCells ==
    ASSUME NEW n \in Nat, NEW r \in [1..n -> Cell]
    PROVE  r \in Rows /\ Len(r) = n
BY SeqDef DEF Rows

LEMMA CellsOfRows ==
    ASSUME NEW r \in Rows
    PROVE  /\ Len(r) \in Nat /\ DOMAIN r = 1..Len(r)
           /\ r \in [1..Len(r) -> Cell]
BY DEF Rows

LEMMA TextLength == Len(Text) \in Nat /\ DOMAIN Text = 1..Len(Text)
<1>1. Text \in Seq(Citation)
    BY TableAssumption
<1> QED
    BY <1>1, LenProperties

\* One cell of a row is decided, and the others stay.
LEMMA DecidedRows ==
    ASSUME NEW r \in Rows, NEW i \in DOMAIN r, NEW d \in Decision
    PROVE  /\ Decided(r, i, d) \in Rows
           /\ Len(Decided(r, i, d)) = Len(r)
           /\ Decided(r, i, d)[i].qc = d
           /\ \A j \in DOMAIN r : Decided(r, i, d)[j].v = r[j].v
           /\ \A j \in DOMAIN r \ {i} : Decided(r, i, d)[j] = r[j]
<1>1. r \in [1..Len(r) -> Cell] /\ Len(r) \in Nat
    BY CellsOfRows
<1>2. r[i] \in Cell /\ [r[i] EXCEPT !.qc = d] \in Cell
    BY <1>1 DEF Cell
<1>3. Decided(r, i, d) = [r EXCEPT ![i] = [r[i] EXCEPT !.qc = d]]
    BY DEF Decided
<1>4. Decided(r, i, d) \in [1..Len(r) -> Cell]
    BY <1>1, <1>2, <1>3
<1>5. [r[i] EXCEPT !.qc = d].qc = d /\ [r[i] EXCEPT !.qc = d].v = r[i].v
    BY <1>2 DEF Cell
<1> QED
    BY <1>1, <1>3, <1>4, <1>5, RowsByCells

LEMMA PrefixRows ==
    ASSUME NEW r \in Rows, NEW k \in 0..Len(r)
    PROVE  /\ SubSeq(r, 1, k) \in Rows
           /\ Len(SubSeq(r, 1, k)) = k
           /\ \A j \in 1..k : SubSeq(r, 1, k)[j] = r[j]
<1>1. Len(r) \in Nat /\ \A j \in 1..k : r[j] \in Cell
    BY CellsOfRows
<1> QED
    BY <1>1, SubSeqProperties DEF Rows

\* What the writer puts on disk is the row or a prefix of it without decisions.
LEMMA WrittenRows ==
    ASSUME NEW r \in Rows
    PROVE  /\ Written(r) \in Rows
           /\ Len(Written(r)) <= Len(r)
           /\ \A j \in DOMAIN Written(r) : Written(r)[j] = r[j]
           /\ Written(r) # r => \A j \in DOMAIN Written(r) : r[j].qc = Absent
<1> DEFINE bad == {i \in DOMAIN r : r[i].qc # Absent}
<1>1. Len(r) \in Nat /\ DOMAIN r = 1..Len(r)
    BY CellsOfRows
<1>2. CASE columns \/ bad = {}
    <2>1. Written(r) = r
        BY <1>2 DEF Written
    <2> QED
        BY <1>1, <2>1
<1>3. CASE ~(columns \/ bad = {})
    <2>1. Written(r) = SubSeq(r, 1, Min(bad) - 1)
        BY <1>3 DEF Written
    <2>2. Min(bad) \in bad /\ \A j \in bad : Min(bad) <= j
        BY <1>1, <1>3, LeastOf
    <2>3. Min(bad) - 1 \in 0..Len(r)
        BY <1>1, <2>2
    <2>4. /\ Written(r) \in Rows /\ Len(Written(r)) = Min(bad) - 1
          /\ \A j \in 1..(Min(bad) - 1) : Written(r)[j] = r[j]
        BY <2>1, <2>3, PrefixRows
    <2>5. DOMAIN Written(r) = 1..(Min(bad) - 1)
        BY <2>4, CellsOfRows
    <2>6. \A j \in 1..(Min(bad) - 1) : j \notin bad /\ j \in DOMAIN r
        <3>1. Min(bad) \in 1..Len(r)
            BY <1>1, <2>2
        <3>2. \A j \in 1..(Min(bad) - 1) : j \in 1..Len(r) /\ ~(Min(bad) <= j)
            BY <1>1, <3>1
        <3> QED
            BY <1>1, <2>2, <3>2
    <2> QED
        BY <1>1, <2>3, <2>4, <2>5, <2>6
<1> QED
    BY <1>2, <1>3

\* The row a request works on carries the citation it was made for.
LEMMA RowForCitation ==
    ASSUME NEW c, NEW r \in Rows, RowsOf(c, r) # {}
    PROVE  RowFor(c, r) \in DOMAIN r /\ Text[RowFor(c, r)] = c
<1>1. RowsOf(c, r) \in SUBSET Nat
    BY CellsOfRows DEF RowsOf
<1>2. RowFor(c, r) \in RowsOf(c, r)
    BY <1>1, LeastOf DEF RowFor
<1> QED
    BY <1>2 DEF RowsOf

LEMMA NoRows == <<>> \in Copies /\ Stale \in [rows: Copies, fresh: BOOLEAN] /\ ~Stale.fresh
<1>1. <<>> \in Rows /\ Len(<<>>) = 0
    BY EmptySeq DEF Rows
<1> QED
    BY <1>1, TextLength DEF Copies, Stale

\* The rows in memory, or those of the file: the verifications are the file's.
LEMMA LoadedRows ==
    ASSUME QcInv
    PROVE  /\ Loaded \in Copies
           /\ Len(Loaded) = Len(file)
           /\ \A i \in DOMAIN file : Loaded[i].v = file[i].v
           /\ \A i \in DOMAIN file \ refused : Loaded[i] = file[i]
           /\ ~view.fresh => Loaded = file
BY DEF QcInv, CopiesOK, ShownIsSaved, SeenVerified, Loaded

LEMMA DecidedCopies ==
    ASSUME QcInv, NEW c \in Citation, NEW d \in Decision, RowsOf(c, Loaded) # {}
    PROVE  LET i == RowFor(c, Loaded)
               new == Decided(Loaded, i, d)
           IN  /\ i \in DOMAIN file /\ i \in DOMAIN Text /\ Text[i] = c
               /\ new \in Copies /\ Len(new) = Len(file)
               /\ new[i].qc = d
               /\ \A j \in DOMAIN file : new[j].v = file[j].v
               /\ \A j \in DOMAIN file \ {i} : new[j] = Loaded[j]
               /\ \A j \in DOMAIN file \ (refused \cup {i}) : new[j] = file[j]
               /\ ~view.fresh => \A j \in DOMAIN file \ {i} : new[j] = file[j]
<1> DEFINE i == RowFor(c, Loaded)
           new == Decided(Loaded, i, d)
<1>1. /\ Loaded \in Copies /\ Loaded \in Rows /\ file \in Copies /\ file \in Rows
      /\ Len(Loaded) = Len(file)
    BY LoadedRows DEF Copies, QcInv, CopiesOK
<1>2. DOMAIN Loaded = DOMAIN file /\ DOMAIN file \subseteq DOMAIN Text
    BY <1>1, CellsOfRows, TextLength DEF Copies
<1>3. i \in DOMAIN Loaded /\ Text[i] = c
    BY <1>1, RowForCitation
<1>4. /\ new \in Rows /\ Len(new) = Len(Loaded) /\ new[i].qc = d
      /\ \A j \in DOMAIN Loaded : new[j].v = Loaded[j].v
      /\ \A j \in DOMAIN Loaded \ {i} : new[j] = Loaded[j]
    BY <1>1, <1>3, DecidedRows
<1>5. new \in Copies
    BY <1>1, <1>4 DEF Copies
<1> HIDE DEF i, new
<1>6. /\ \A j \in DOMAIN file : new[j].v = file[j].v
      /\ \A j \in DOMAIN file \ {i} : new[j] = Loaded[j]
      /\ \A j \in DOMAIN file \ (refused \cup {i}) : new[j] = file[j]
      /\ ~view.fresh => \A j \in DOMAIN file \ {i} : new[j] = file[j]
    BY <1>2, <1>4, LoadedRows
<1>7. i \in DOMAIN file /\ i \in DOMAIN Text
    BY <1>2, <1>3
<1> QED
    BY <1>1, <1>3, <1>4, <1>5, <1>6, <1>7 DEF i, new

\* What a batch writes back: the rows it read, with its answers.
LEMMA OutcomeCopies ==
    ASSUME QcInv, NEW b \in Batch
    PROVE  /\ Outcome(b) \in Copies
           /\ DOMAIN Outcome(b) = DOMAIN batch[b].rows
           /\ \A i \in DOMAIN Outcome(b) :
                Outcome(b)[i] = LET cell == Filled(batch[b].rows[i])
                                IN  IF i \in batch[b].taken THEN Verified(cell, b) ELSE cell
<1> DEFINE r == batch[b].rows
           n == Len(r)
<1>1. r \in Copies /\ r \in Rows /\ n <= Len(Text)
    BY DEF QcInv, CopiesOK, Copies
<1>2. n \in Nat /\ DOMAIN r = 1..n /\ r \in [1..n -> Cell]
    BY <1>1, CellsOfRows
<1>3. \A i \in 1..n : Filled(r[i]) \in Cell
    BY <1>2, TableAssumption DEF Filled, Cell
<1>4. \A x \in Cell : Verified(x, b) \in Cell
    BY TableAssumption DEF Verified, Cell
<1>5. Outcome(b) \in [1..n -> Cell]
    BY <1>2, <1>3, <1>4 DEF Outcome
<1>6. Outcome(b) \in Rows /\ Len(Outcome(b)) = n
    BY <1>2, <1>5, RowsByCells
<1> QED
    BY <1>1, <1>2, <1>5, <1>6 DEF Copies, Outcome

LEMMA ClosedBatch ==
    ASSUME QcInv, NEW b \in Batch
    PROVE  /\ Closed(b)[b] = [pc |-> "closed", rows |-> <<>>, taken |-> batch[b].taken]
           /\ \A a \in Batch \ {b} : Closed(b)[a] = batch[a]
           /\ Closed(b) \in [Batch -> [pc: {"unused", "open", "closed"}, rows: Copies,
                                        taken: SUBSET (DOMAIN Text)]]
<1>1. batch \in [Batch -> [pc: {"unused", "open", "closed"}, rows: Copies,
                           taken: SUBSET (DOMAIN Text)]]
    BY DEF QcInv, CopiesOK
<1>2. Closed(b) = [batch EXCEPT ![b].pc = "closed", ![b].rows = <<>>] /\ <<>> \in Copies
    BY NoRows DEF Closed
<1> QED
    BY <1>1, <1>2

LEMMA ClosedActionable ==
    ASSUME QcInv, NEW b \in Batch, batch' = Closed(b)
    PROVE  TakenActionable'
<1>1. Closed(b)[b] = [pc |-> "closed", rows |-> <<>>, taken |-> batch[b].taken]
    BY ClosedBatch
<1>2. batch'[b].pc = "closed"
    BY <1>1
<1>3. \A a \in Batch \ {b} : batch'[a] = batch[a]
    BY ClosedBatch
<1> QED
    BY <1>2, <1>3 DEF QcInv, TakenActionable, Actionable

\* A step that leaves the lists and the acknowledgements alone.
LEMMA ListsStay ==
    ASSUME QcInv, UNCHANGED <<lists, listing>>
    PROVE  ListsBacked'
BY DEF QcInv, ListsBacked, Listed, listing

----------------------------------------------------------------------------
(* The lists *)

\* An entry is added, and what was listed is listed still.
LEMMA AppendedEntries ==
    ASSUME NEW list \in Seq(SUBSET Citation), NEW c \in Citation
    PROVE  /\ Appended(list, c) \in Seq(SUBSET Citation)
           /\ Listed(Appended(list, c), c)
           /\ \A x \in Citation : Listed(list, x) => Listed(Appended(list, c), x)
           /\ \A k \in DOMAIN Appended(list, c) :
                \/ Appended(list, c)[k] \subseteq Mentions[c]
                \/ k \in DOMAIN list /\ Appended(list, c)[k] = list[k]
<1>1. Mentions[c] \in SUBSET Citation /\ c \in Mentions[c]
    BY TableAssumption
<1>2. CASE Listed(list, c)
    BY <1>2 DEF Appended
<1>3. CASE ~Listed(list, c)
    <2>1. Appended(list, c) = Append(list, Mentions[c])
        BY <1>3 DEF Appended
    <2>2. /\ Append(list, Mentions[c]) \in Seq(SUBSET Citation)
          /\ Len(list) \in Nat /\ DOMAIN list = 1..Len(list)
          /\ DOMAIN Append(list, Mentions[c]) = 1..(Len(list) + 1)
          /\ Append(list, Mentions[c])[Len(list) + 1] = Mentions[c]
          /\ \A k \in 1..Len(list) : Append(list, Mentions[c])[k] = list[k]
        BY <1>1
    <2>3. /\ Len(list) + 1 \in 1..(Len(list) + 1)
          /\ \A k \in 1..Len(list) : k \in 1..(Len(list) + 1)
          /\ \A k \in 1..(Len(list) + 1) : k \in 1..Len(list) \/ k = Len(list) + 1
        BY <2>2
    <2> QED
        BY <1>1, <2>1, <2>2, <2>3 DEF Listed
<1> QED
    BY <1>2, <1>3

\* What is left of a list holds parts of its entries and of the one to add.
LEMMA CutEntries ==
    ASSUME NEW list \in Seq(SUBSET Citation), NEW left \in Cuts(list)
    PROVE  /\ left \in Seq(SUBSET Citation)
           /\ \A k \in DOMAIN left : k \in DOMAIN list /\ left[k] \subseteq list[k]
<1>1. Len(list) \in Nat /\ DOMAIN list = 1..Len(list) /\ \A k \in 1..Len(list) : list[k] \in SUBSET Citation
    OBVIOUS
<1>2. ASSUME NEW n \in 0..Len(list)
      PROVE  /\ SubSeq(list, 1, n) \in Seq(SUBSET Citation) /\ Len(SubSeq(list, 1, n)) = n
             /\ \A k \in 1..n : SubSeq(list, 1, n)[k] = list[k]
    BY <1>1, SubSeqProperties
<1>3. CASE \E k \in 0..Len(list) : left = SubSeq(list, 1, k)
    <2>1. PICK n \in 0..Len(list) : left = SubSeq(list, 1, n)
        BY <1>3
    <2>2. /\ left \in Seq(SUBSET Citation) /\ DOMAIN left = 1..n
          /\ \A k \in 1..n : left[k] = list[k] /\ k \in 1..Len(list)
        BY <1>1, <1>2, <2>1
    <2> QED
        BY <1>1, <2>2
<1>4. CASE \E k \in DOMAIN list : \E part \in SUBSET list[k] :
             left = Append(SubSeq(list, 1, k - 1), part)
    <2>1. PICK m \in 1..Len(list), part \in SUBSET Citation :
            part \subseteq list[m] /\ left = Append(SubSeq(list, 1, m - 1), part)
        BY <1>1, <1>4
    <2>2. PICK n \in 0..Len(list) : n = m - 1 /\ m = n + 1
        BY <1>1, <2>1
    <2>3. left = Append(SubSeq(list, 1, n), part)
        BY <2>1, <2>2
    <2>4. /\ SubSeq(list, 1, n) \in Seq(SUBSET Citation) /\ Len(SubSeq(list, 1, n)) = n
          /\ \A k \in 1..n : SubSeq(list, 1, n)[k] = list[k]
        BY <1>2
    <2> DEFINE first == SubSeq(list, 1, n)
    <2>5. first \in Seq(SUBSET Citation) /\ Len(first) = n /\ left = Append(first, part)
        BY <2>3, <2>4
    <2> HIDE DEF first
    <2>6. /\ left \in Seq(SUBSET Citation) /\ DOMAIN left = 1..(n + 1) /\ left[n + 1] = part
          /\ \A k \in 1..n : left[k] = first[k]
        BY <2>5
    <2>7. \A k \in 1..(n + 1) : (k \in 1..n \/ k = n + 1) /\ k \in 1..Len(list)
        BY <1>1, <2>1, <2>2
    <2>8. \A k \in 1..n : left[k] = list[k]
        BY <2>4, <2>6 DEF first
    <2> QED
        BY <1>1, <2>1, <2>2, <2>6, <2>7, <2>8
<1> QED
    BY <1>3, <1>4 DEF Cuts

LEMMA InterruptedEntries ==
    ASSUME NEW list \in Seq(SUBSET Citation), NEW c \in Citation, NEW left \in Interrupted(list, c)
    PROVE  /\ left \in Seq(SUBSET Citation)
           /\ \A k \in DOMAIN left :
                \/ left[k] \subseteq Mentions[c]
                \/ k \in DOMAIN list /\ left[k] \subseteq list[k]
<1>1. CASE left = list
    BY <1>1
<1>2. CASE left \in Cuts(Appended(list, c))
    <2>1. Appended(list, c) \in Seq(SUBSET Citation)
        BY AppendedEntries
    <2>2. /\ left \in Seq(SUBSET Citation)
          /\ \A k \in DOMAIN left :
               k \in DOMAIN Appended(list, c) /\ left[k] \subseteq Appended(list, c)[k]
        BY <1>2, <2>1, CutEntries
    <2> QED
        BY <2>2, AppendedEntries
<1> QED
    BY <1>1, <1>2 DEF Interrupted

\* Every entry is of c, or a part of what the list held at its place.
PartsOf(left, list, c) ==
    \A k \in DOMAIN left :
        \/ left[k] \subseteq Mentions[c]
        \/ k \in DOMAIN list /\ left[k] \subseteq list[k]

\* Nothing that was listed is lost, and c is listed.
Keeps(left, list, c) ==
    Listed(left, c) /\ \A x \in Citation : Listed(list, x) => Listed(left, x)

\* The list d was rewritten for c, to the end or not.
LEMMA RewrittenLists ==
    ASSUME QcInv, NEW c \in Citation, NEW d \in Listing,
           NEW left \in Seq(SUBSET Citation), lists' = [lists EXCEPT ![d] = left],
           PartsOf(left, lists[d], c),
           (Keeps(left, lists[d], c) /\ marred' = marred) \/ marred' = marred \cup {d},
           filed' = filed \cup {<<c, d>>},
           acked' = acked \/ acked' = acked \cup {<<c, d>>}
    PROVE  ListsBacked' /\ lists' \in [Listing -> Seq(SUBSET Citation)]
<1>1. lists \in [Listing -> Seq(SUBSET Citation)]
    BY DEF QcInv, HistoryOK
<1>2. lists'[d] = left /\ \A l \in Listing \ {d} : lists'[l] = lists[l]
    BY <1>1
<1>3. ASSUME NEW l \in Listing, NEW k \in DOMAIN lists'[l]
      PROVE  \E x \in Citation : <<x, l>> \in filed' /\ lists'[l][k] \subseteq Mentions[x]
    <2>1. CASE l # d
        BY <1>2, <1>3, <2>1 DEF QcInv, ListsBacked
    <2>2. CASE l = d /\ left[k] \subseteq Mentions[c]
        BY <1>2, <2>2
    <2>3. CASE l = d /\ k \in DOMAIN lists[d] /\ left[k] \subseteq lists[d][k]
        <3>1. PICK x \in Citation : <<x, d>> \in filed /\ lists[d][k] \subseteq Mentions[x]
            BY <2>3 DEF QcInv, ListsBacked
        <3> QED
            BY <1>2, <2>3, <3>1
    <2> QED
        BY <1>2, <1>3, <2>1, <2>2, <2>3 DEF PartsOf
<1>4. ASSUME NEW l \in Listing, l \notin marred', NEW x \in Citation, <<x, l>> \in acked'
      PROVE  Listed(lists'[l], x)
    <2>1. l \notin marred /\ (l = d => Keeps(left, lists[d], c))
        BY <1>4
    <2>2. <<x, l>> \in acked => Listed(lists[l], x)
        BY <2>1 DEF QcInv, ListsBacked
    <2>3. CASE l # d
        BY <1>2, <1>4, <2>2, <2>3
    <2>4. CASE l = d
        BY <1>2, <1>4, <2>1, <2>2, <2>4 DEF Keeps
    <2> QED
        BY <2>3, <2>4
<1> QED
    BY <1>1, <1>2, <1>3, <1>4 DEF ListsBacked

----------------------------------------------------------------------------
(* The invariant *)

LEMMA QcInitial == ASSUME Init PROVE QcInv
<1>1. file \in [1..Len(Text) -> Cell]
    BY TableAssumption, TextLength DEF Init, Fresh, Cell
<1>2. file \in Copies
    BY <1>1, RowsByCells, TextLength DEF Copies
<1>3. CopiesOK
    <2>1. /\ backup = <<>> /\ before = None /\ view = Stale
          /\ batch = [b \in Batch |-> [pc |-> "unused", rows |-> <<>>, taken |-> {}]]
        BY DEF Init, Idle
    <2> QED
        BY <1>2, <2>1, NoRows DEF CopiesOK, Copies
<1>4. HistoryOK
    <2>1. <<>> \in Seq(SUBSET Citation)
        BY EmptySeq
    <2>2. lists \in [Listing -> Seq(SUBSET Citation)]
        BY <2>1 DEF Init
    <2> QED
        BY <2>2, Bounds DEF Init, HistoryOK
<1>5. ShownIsSaved /\ SeenVerified
    BY DEF Init, Stale, ShownIsSaved, SeenVerified
<1>6. TakenActionable /\ TornIsBackedUp
    BY DEF Init, Idle, TakenActionable, TornIsBackedUp
<1>7. ListsBacked
    <2>1. lists = [l \in Listing |-> <<>>] /\ acked = {}
        BY DEF Init
    <2>2. DOMAIN <<>> = {}
        OBVIOUS
    <2> QED
        BY <2>1, <2>2 DEF ListsBacked
<1> QED
    BY <1>3, <1>4, <1>5, <1>6, <1>7 DEF QcInv

LEMMA ShowRunKeeps == ASSUME QcInv, ShowRun PROVE QcInv'
<1>1. /\ view' = [rows |-> Loaded, fresh |-> TRUE]
      /\ refused' = IF view.fresh THEN refused ELSE {}
      /\ UNCHANGED <<file, columns, backup, sidecars, lists, batch, saves, faults, before, listing>>
    BY DEF ShowRun, disk
<1>2. HistoryOK'
    BY <1>1 DEF QcInv, HistoryOK, listing
<1>3. CopiesOK'
    BY <1>1, LoadedRows DEF QcInv, CopiesOK
<1>4. ShownIsSaved' /\ SeenVerified'
    BY <1>1, LoadedRows DEF ShownIsSaved, SeenVerified
<1>5. TakenActionable' /\ TornIsBackedUp'
    BY <1>1 DEF QcInv, TakenActionable, Actionable, TornIsBackedUp
<1>6. ListsBacked'
    BY <1>1, ListsStay
<1> QED
    BY <1>2, <1>3, <1>4, <1>5, <1>6 DEF QcInv

\* A save that reached the table: its list may have failed.
LEMMA SaveLists ==
    ASSUME QcInv, NEW c \in Citation, NEW d \in Decision, Save(c, d)
    PROVE  /\ ListsBacked' /\ lists' \in [Listing -> Seq(SUBSET Citation)]
           /\ filed' = filed \cup {<<c, d>>} /\ acked' = acked \cup {<<c, d>>}
           /\ marred' \subseteq Listing
<1>1. /\ acked' = acked \cup {<<c, d>>} /\ filed' = filed \cup {<<c, d>>}
      /\ \/ /\ d \in Listing
            /\ lists' = [lists EXCEPT ![d] = Appended(lists[d], c)]
            /\ marred' = marred
         \/ d \notin Listing /\ UNCHANGED <<lists, marred>>
         \/ /\ d \in Listing
            /\ \E left \in Interrupted(lists[d], c) : lists' = [lists EXCEPT ![d] = left]
            /\ marred' = marred \cup {d}
    BY DEF Save
<1>2. lists \in [Listing -> Seq(SUBSET Citation)] /\ marred \subseteq Listing
    BY DEF QcInv, HistoryOK
<1>3. CASE d \in Listing /\ marred' = marred /\ lists' = [lists EXCEPT ![d] = Appended(lists[d], c)]
    <2>1. lists[d] \in Seq(SUBSET Citation)
        BY <1>2, <1>3
    <2>2. PICK left : left = Appended(lists[d], c)
        OBVIOUS
    <2>3. left \in Seq(SUBSET Citation) /\ PartsOf(left, lists[d], c) /\ Keeps(left, lists[d], c)
        BY <2>1, <2>2, AppendedEntries DEF PartsOf, Keeps
    <2>4. ListsBacked' /\ lists' \in [Listing -> Seq(SUBSET Citation)]
        BY <1>1, <1>3, <2>2, <2>3, RewrittenLists
    <2> QED
        BY <1>1, <1>2, <1>3, <2>4
<1>4. CASE d \notin Listing /\ UNCHANGED <<lists, marred>>
    <2>1. \A l \in Listing, x \in Citation : <<x, l>> \in acked' => <<x, l>> \in acked
        BY <1>1, <1>4
    <2>2. ListsBacked'
        BY <1>1, <1>4, <2>1 DEF QcInv, ListsBacked
    <2> QED
        BY <1>1, <1>2, <1>4, <2>2
<1>5. CASE /\ d \in Listing /\ marred' = marred \cup {d}
           /\ \E left \in Interrupted(lists[d], c) : lists' = [lists EXCEPT ![d] = left]
    <2>1. lists[d] \in Seq(SUBSET Citation)
        BY <1>2, <1>5
    <2>2. PICK left \in Interrupted(lists[d], c) : lists' = [lists EXCEPT ![d] = left]
        BY <1>5
    <2>3. /\ left \in Seq(SUBSET Citation)
          /\ PartsOf(left, lists[d], c)
        BY <2>1, InterruptedEntries DEF PartsOf
    <2>4. ListsBacked' /\ lists' \in [Listing -> Seq(SUBSET Citation)]
        BY <1>1, <1>5, <2>2, <2>3, RewrittenLists
    <2> QED
        BY <1>1, <1>2, <1>5, <2>4
<1> QED
    BY <1>1, <1>3, <1>4, <1>5

LEMMA SaveKeeps ==
    ASSUME QcInv, NEW c \in Citation, NEW d \in Decision, Save(c, d)
    PROVE  QcInv'
<1> DEFINE new == Decided(Loaded, RowFor(c, Loaded), d)
<1>1. /\ RowsOf(c, Loaded) # {}
      /\ backup' = file /\ file' = new /\ view' = [rows |-> new, fresh |-> TRUE]
      /\ before' = None /\ refused' = {}
      /\ saves < MaxSaves /\ saves' = saves + 1
      /\ faults' = faults \/ (faults < MaxFaults /\ faults' = faults + 1)
      /\ UNCHANGED <<columns, batch, sidecars>>
    BY DEF Save, Copied
<1>2. new \in Copies
    BY <1>1, DecidedCopies
<1> HIDE DEF new
<1>3. HistoryOK'
    <2>1. saves' \in 0..MaxSaves /\ faults' \in 0..MaxFaults
        BY <1>1, Bounds, CountsAreNatural DEF QcInv, HistoryOK
    <2>2. /\ acked' \subseteq Citation \X Decision /\ filed' \subseteq Citation \X Decision
          /\ marred' \subseteq Listing /\ refused' \subseteq DOMAIN Text
        BY <1>1, SaveLists DEF QcInv, HistoryOK
    <2> QED
        BY <1>1, <2>1, <2>2, SaveLists DEF QcInv, HistoryOK
<1>4. CopiesOK'
    BY <1>1, <1>2 DEF QcInv, CopiesOK, Copies
<1>5. ShownIsSaved' /\ SeenVerified' /\ TornIsBackedUp'
    BY <1>1 DEF ShownIsSaved, SeenVerified, TornIsBackedUp
<1>6. TakenActionable'
    BY <1>1 DEF QcInv, TakenActionable, Actionable
<1> QED
    BY <1>3, <1>4, <1>5, <1>6, SaveLists DEF QcInv

LEMMA SaveRefusedKeeps ==
    ASSUME QcInv, NEW c \in Citation, NEW d \in Decision, SaveRefused(c, d)
    PROVE  QcInv'
<1> DEFINE i == RowFor(c, Loaded)
           new == Decided(Loaded, i, d)
<1>1. /\ RowsOf(c, Loaded) # {}
      /\ view' = [rows |-> new, fresh |-> TRUE]
      /\ backup' \in {backup, file}
      /\ before' = IF backup' = backup THEN before ELSE None
      /\ refused' = (IF view.fresh THEN refused \ {i} ELSE {}) \cup {i}
      /\ faults < MaxFaults /\ faults' = faults + 1
      /\ UNCHANGED <<file, columns, sidecars, lists, batch, saves, listing>>
    BY DEF SaveRefused, Undecided
<1>2. /\ i \in DOMAIN Text /\ new \in Copies /\ Len(new) = Len(file)
      /\ \A j \in DOMAIN file : new[j].v = file[j].v
      /\ \A j \in DOMAIN file \ (refused \cup {i}) : new[j] = file[j]
      /\ ~view.fresh => \A j \in DOMAIN file \ {i} : new[j] = file[j]
    BY <1>1, DecidedCopies
<1> HIDE DEF i, new
<1>3. HistoryOK'
    BY <1>1, <1>2, Bounds, CountsAreNatural DEF QcInv, HistoryOK, listing
<1>4. CopiesOK'
    BY <1>1, <1>2 DEF QcInv, CopiesOK, Copies
<1>5. ShownIsSaved' /\ SeenVerified'
    BY <1>1, <1>2 DEF ShownIsSaved, SeenVerified
<1>6. TakenActionable' /\ TornIsBackedUp'
    BY <1>1 DEF QcInv, TakenActionable, Actionable, TornIsBackedUp
<1>7. ListsBacked'
    BY <1>1, ListsStay
<1> QED
    BY <1>3, <1>4, <1>5, <1>6, <1>7 DEF QcInv

LEMMA WrittenCopies ==
    ASSUME NEW r \in Copies
    PROVE  Written(r) \in Copies
BY WrittenRows, CellsOfRows, TextLength DEF Copies

LEMMA SaveRaisesKeeps ==
    ASSUME QcInv, NEW c \in Citation, NEW d \in Decision, SaveRaises(c, d)
    PROVE  QcInv'
<1> DEFINE new == Written(Decided(Loaded, RowFor(c, Loaded), d))
<1>1. /\ RowsOf(c, Loaded) # {}
      /\ backup' = file /\ file' = new /\ view' = Stale
      /\ before' \in {file, None}
      /\ UNCHANGED <<columns, sidecars, lists, batch, saves, faults, refused, listing>>
    BY DEF SaveRaises, Copied, Torn
<1>2. new \in Copies
    BY <1>1, DecidedCopies, WrittenCopies
<1> HIDE DEF new
<1>3. HistoryOK'
    BY <1>1 DEF QcInv, HistoryOK, listing
<1>4. CopiesOK'
    BY <1>1, <1>2, NoRows DEF QcInv, CopiesOK, Copies
<1>5. ShownIsSaved' /\ SeenVerified' /\ TornIsBackedUp'
    BY <1>1, NoRows DEF ShownIsSaved, SeenVerified, TornIsBackedUp
<1>6. TakenActionable'
    BY <1>1 DEF QcInv, TakenActionable, Actionable
<1>7. ListsBacked'
    BY <1>1, ListsStay
<1> QED
    BY <1>3, <1>4, <1>5, <1>6, <1>7 DEF QcInv

LEMMA StartBatchKeeps == ASSUME QcInv, NEW b \in Batch, StartBatch(b) PROVE QcInv'
<1>1. PICK taken :
        /\ taken \in SUBSET (DOMAIN file)
        /\ \A i \in taken : Actionable(file[i])
        /\ batch' = [batch EXCEPT ![b] = [pc |-> "open", rows |-> file, taken |-> taken]]
    <2>1. PICK rerunOnly \in BOOLEAN, filter \in Filter, size \in 1..MaxSample :
            \E taken \in kSubset(Min({size, Cardinality(Candidates(rerunOnly, filter))}),
                                 Candidates(rerunOnly, filter)) :
              batch' = [batch EXCEPT ![b] = [pc |-> "open", rows |-> file, taken |-> taken]]
        BY DEF StartBatch
    <2>2. PICK taken \in SUBSET Candidates(rerunOnly, filter) :
            batch' = [batch EXCEPT ![b] = [pc |-> "open", rows |-> file, taken |-> taken]]
        BY <2>1 DEF kSubset
    <2>3. \A i \in Candidates(rerunOnly, filter) : i \in DOMAIN file /\ Actionable(file[i])
        BY DEF Candidates, Actionable
    <2> QED
        BY <2>2, <2>3
<1>2. UNCHANGED <<file, columns, backup, sidecars, lists, view, saves, faults, before, refused, listing>>
    BY DEF StartBatch, disk
<1>3. file \in Copies /\ taken \in SUBSET (DOMAIN Text)
    BY <1>1, CellsOfRows, TextLength DEF QcInv, CopiesOK, Copies
<1>4. CopiesOK'
    BY <1>1, <1>2, <1>3 DEF QcInv, CopiesOK, Copies
<1>5. TakenActionable'
    BY <1>1, <1>2 DEF QcInv, CopiesOK, TakenActionable, Actionable
<1>6. HistoryOK' /\ ShownIsSaved' /\ SeenVerified' /\ TornIsBackedUp'
    BY <1>2 DEF QcInv, HistoryOK, ShownIsSaved, SeenVerified, TornIsBackedUp, listing
<1>7. ListsBacked'
    BY <1>2, ListsStay
<1> QED
    BY <1>4, <1>5, <1>6, <1>7 DEF QcInv

\* The rows of a batch are in the table, and memory is dropped.
LEMMA WrittenBackKeeps ==
    ASSUME QcInv, NEW b \in Batch, batch' = Closed(b), file' = Outcome(b), columns' = TRUE,
           backup' = file, view' = Stale, before' = None,
           sidecars' \in {sidecars, Opened(b), [sidecars EXCEPT ![Name[b]] = b]},
           faults' = faults \/ (faults < MaxFaults /\ faults' = faults + 1),
           UNCHANGED <<lists, saves, refused, listing>>
    PROVE  QcInv'
<1>1. HistoryOK'
    <2>1. faults' \in 0..MaxFaults /\ saves' \in 0..MaxSaves
        BY Bounds, CountsAreNatural DEF QcInv, HistoryOK
    <2>2. sidecars' \in [Names -> Batch \cup {None}]
        BY DEF QcInv, HistoryOK, Opened
    <2> QED
        BY <2>1, <2>2 DEF QcInv, HistoryOK, listing
<1>2. CopiesOK'
    BY ClosedBatch, OutcomeCopies, NoRows DEF QcInv, CopiesOK, Copies
<1>3. ShownIsSaved' /\ SeenVerified' /\ TornIsBackedUp'
    BY NoRows DEF ShownIsSaved, SeenVerified, TornIsBackedUp
<1>4. TakenActionable'
    BY ClosedActionable
<1>5. ListsBacked'
    BY ListsStay
<1> QED
    BY <1>1, <1>2, <1>3, <1>4, <1>5 DEF QcInv

\* A batch ends and the table stays.
LEMMA BatchGoneKeeps ==
    ASSUME QcInv, NEW b \in Batch, batch' = Closed(b),
           backup' \in {backup, file}, before' = IF backup' = backup THEN before ELSE None,
           faults' = faults \/ (faults < MaxFaults /\ faults' = faults + 1),
           UNCHANGED <<file, columns, view, sidecars, lists, saves, refused, listing>>
    PROVE  QcInv'
<1>1. HistoryOK'
    BY Bounds, CountsAreNatural DEF QcInv, HistoryOK, listing
<1>2. CopiesOK'
    BY ClosedBatch DEF QcInv, CopiesOK, Copies
<1>3. ShownIsSaved' /\ SeenVerified' /\ TornIsBackedUp'
    BY DEF QcInv, ShownIsSaved, SeenVerified, TornIsBackedUp
<1>4. TakenActionable'
    BY ClosedActionable
<1>5. ListsBacked'
    BY ListsStay
<1> QED
    BY <1>1, <1>2, <1>3, <1>4, <1>5 DEF QcInv

LEMMA BatchKeeps ==
    ASSUME QcInv, NEW b \in Batch, WriteBack(b) \/ WriteBackFails(b) \/ EndEarly(b)
    PROVE  QcInv'
<1>1. CASE WriteBack(b)
    <2>1. /\ batch' = Closed(b) /\ file' = Outcome(b) /\ columns' = TRUE /\ backup' = file
          /\ view' = Stale /\ before' = None /\ faults' = faults
          /\ sidecars' = [sidecars EXCEPT ![Name[b]] = b]
          /\ UNCHANGED <<lists, saves, refused, listing>>
        BY <1>1 DEF WriteBack, Copied, Dropped
    <2> QED
        BY <2>1, WrittenBackKeeps
<1>2. CASE WriteBackFails(b)
    <2>1. /\ batch' = Closed(b) /\ faults < MaxFaults /\ faults' = faults + 1
          /\ UNCHANGED <<lists, saves, refused, listing>>
        BY <1>2 DEF WriteBackFails
    <2>2. \/ /\ backup' \in {backup, file}
             /\ before' = IF backup' = backup THEN before ELSE None
             /\ UNCHANGED <<file, columns, view, sidecars>>
          \/ /\ backup' = file /\ file' = Outcome(b) /\ columns' = TRUE
             /\ view' = Stale /\ before' = None /\ sidecars' \in {sidecars, Opened(b)}
        BY <1>2 DEF WriteBackFails, Copied, Dropped
    <2>3. CASE UNCHANGED <<file, columns, view, sidecars>> /\ backup' \in {backup, file}
               /\ before' = IF backup' = backup THEN before ELSE None
        BY <2>1, <2>3, BatchGoneKeeps
    <2>4. CASE backup' = file /\ file' = Outcome(b) /\ columns' = TRUE
               /\ view' = Stale /\ before' = None /\ sidecars' \in {sidecars, Opened(b)}
        BY <2>1, <2>4, WrittenBackKeeps
    <2> QED
        BY <2>2, <2>3, <2>4
<1>3. CASE EndEarly(b)
    <2>1. /\ batch' = Closed(b)
          /\ UNCHANGED <<file, columns, backup, sidecars, lists, view, saves, faults, before,
                         refused, listing>>
        BY <1>3 DEF EndEarly, disk
    <2> QED
        BY <2>1, BatchGoneKeeps
<1> QED
    BY <1>1, <1>2, <1>3

\* The process restarts, with the table cut anywhere or not touched.
LEMMA RestartedKeeps ==
    ASSUME QcInv, Restarted, file' \in Copies, backup' \in Rows, columns' \in BOOLEAN,
           before' \in Rows \cup {None}, before' # None => backup' = before',
           sidecars' \in [Names -> Batch \cup {None}], UNCHANGED <<saves, acked>>,
           lists' \in [Listing -> Seq(SUBSET Citation)], ListsBacked',
           filed' \subseteq Citation \X Decision, marred' \subseteq Listing
    PROVE  QcInv'
<1>1. /\ faults < MaxFaults /\ faults' = faults + 1 /\ view' = Stale /\ refused' = {}
      /\ batch' = [b \in Batch |-> IF batch[b].pc = "open" THEN Closed(b)[b] ELSE batch[b]]
    BY DEF Restarted
<1>2. HistoryOK'
    BY <1>1, Bounds, CountsAreNatural DEF QcInv, HistoryOK
<1>3. \A b \in Batch :
        /\ batch'[b] \in [pc: {"unused", "open", "closed"}, rows: Copies,
                           taken: SUBSET (DOMAIN Text)]
        /\ batch'[b].pc # "open"
    <2>1. TAKE b \in Batch
    <2>2. CASE batch[b].pc = "open"
        <3>1. batch'[b] = [pc |-> "closed", rows |-> <<>>, taken |-> batch[b].taken]
            BY <1>1, <2>2, ClosedBatch
        <3> QED
            BY <3>1, NoRows DEF QcInv, CopiesOK
    <2>3. CASE batch[b].pc # "open"
        BY <1>1, <2>3 DEF QcInv, CopiesOK
    <2> QED
        BY <2>2, <2>3
<1>4. CopiesOK'
    BY <1>1, <1>3, NoRows DEF CopiesOK, Copies
<1>5. ShownIsSaved' /\ SeenVerified' /\ TornIsBackedUp'
    BY <1>1, NoRows DEF ShownIsSaved, SeenVerified, TornIsBackedUp
<1>6. TakenActionable'
    BY <1>3 DEF TakenActionable
<1> QED
    BY <1>2, <1>4, <1>5, <1>6 DEF QcInv

LEMMA WholeRows == ASSUME NEW r \in Rows PROVE SubSeq(r, 1, Len(r)) = r
BY DEF Rows

\* What a kill inside a save leaves of the table and of the lists.
LEMMA KillSavingOutcomes ==
    ASSUME QcInv, NEW c \in Citation, NEW d \in Decision, KillSaving(c, d)
    PROVE  /\ Restarted /\ RowsOf(c, Loaded) # {}
           /\ UNCHANGED <<columns, saves, acked, sidecars>>
           /\ lists' \in [Listing -> Seq(SUBSET Citation)] /\ ListsBacked'
           /\ filed' \subseteq Citation \X Decision /\ marred' \subseteq Listing
           /\ \E new \in Copies, k \in Nat :
                /\ new = Written(Decided(Loaded, RowFor(c, Loaded), d))
                /\ k \in 0..Len(new) /\ file' = SubSeq(new, 1, k)
                /\ backup' = file /\ before' \in {file, None}
<1> DEFINE decided == Decided(Loaded, RowFor(c, Loaded), d)
           new == Written(decided)
<1>1. /\ Restarted /\ RowsOf(c, Loaded) # {} /\ sidecars' = sidecars
      /\ \/ KilledWriting(new, columns)
         \/ /\ d \in Listing /\ new = decided
            /\ backup' = file /\ file' = decided /\ before' = None
            /\ filed' = filed \cup {<<c, d>>}
            /\ \E left \in Interrupted(lists[d], c) : lists' = [lists EXCEPT ![d] = left]
            /\ marred' = marred \cup {d}
            /\ UNCHANGED <<columns, saves, acked>>
    BY DEF KillSaving, Copied
<1>2. new \in Copies /\ new \in Rows /\ Len(new) \in Nat
    BY <1>1, DecidedCopies, WrittenCopies, CellsOfRows DEF Copies
<1> HIDE DEF new, decided
<1>3. QcInv /\ HistoryOK /\ lists \in [Listing -> Seq(SUBSET Citation)] /\ marred \subseteq Listing
    BY DEF QcInv, HistoryOK
<1>4. CASE KilledWriting(new, columns)
    <2>1. /\ UNCHANGED <<columns, saves, acked, lists, filed, marred>>
          /\ \E k \in Nat : /\ k \in 0..Len(new) /\ file' = SubSeq(new, 1, k)
                           /\ backup' = file /\ before' \in {file, None}
        BY <1>2, <1>4 DEF KilledWriting, Copied, Torn, listing
    <2>2. ListsBacked'
        BY <2>1, ListsStay DEF listing
    <2>3. lists' \in [Listing -> Seq(SUBSET Citation)]
          /\ filed' \subseteq Citation \X Decision /\ marred' \subseteq Listing
        BY <1>3, <2>1 DEF HistoryOK
    <2> QED
        BY <1>1, <1>2, <2>1, <2>2, <2>3 DEF new, decided
<1>5. CASE /\ d \in Listing /\ new = decided
           /\ backup' = file /\ file' = decided /\ before' = None
           /\ filed' = filed \cup {<<c, d>>}
           /\ \E left \in Interrupted(lists[d], c) : lists' = [lists EXCEPT ![d] = left]
           /\ marred' = marred \cup {d}
           /\ UNCHANGED <<columns, saves, acked>>
    <2>1. lists[d] \in Seq(SUBSET Citation)
        BY <1>3, <1>5
    <2>2. PICK left \in Interrupted(lists[d], c) : lists' = [lists EXCEPT ![d] = left]
        BY <1>5
    <2>3. /\ left \in Seq(SUBSET Citation)
          /\ PartsOf(left, lists[d], c)
        BY <2>1, InterruptedEntries DEF PartsOf
    <2>4. ListsBacked' /\ lists' \in [Listing -> Seq(SUBSET Citation)]
        BY <1>5, <2>2, <2>3, RewrittenLists
    <2>5. filed' \subseteq Citation \X Decision /\ marred' \subseteq Listing
        BY <1>3, <1>5 DEF HistoryOK
    <2>6. Len(new) \in 0..Len(new) /\ file' = SubSeq(new, 1, Len(new))
        BY <1>2, <1>5, WholeRows
    <2> QED
        BY <1>1, <1>2, <1>5, <2>4, <2>5, <2>6 DEF new, decided
<1> QED
    BY <1>1, <1>4, <1>5

LEMMA KillWritingBackOutcomes ==
    ASSUME QcInv, NEW b \in Batch, KillWritingBack(b)
    PROVE  /\ Restarted /\ batch[b].pc = "open" /\ columns' = TRUE
           /\ UNCHANGED <<lists, saves, listing>>
           /\ sidecars' \in [Names -> Batch \cup {None}]
           /\ \E new \in Copies, k \in Nat :
                /\ new = Outcome(b)
                /\ k \in 0..Len(new) /\ file' = SubSeq(new, 1, k)
                /\ backup' = file /\ before' \in {file, None}
<1> DEFINE new == Outcome(b)
<1>1. new \in Copies /\ Len(new) \in Nat
    BY OutcomeCopies, CellsOfRows DEF Copies
<1>2. /\ Restarted /\ batch[b].pc = "open" /\ KilledWriting(new, TRUE)
      /\ sidecars' \in {sidecars, Opened(b)}
    BY DEF KillWritingBack
<1>3. sidecars' \in [Names -> Batch \cup {None}]
    BY <1>2 DEF QcInv, HistoryOK, Opened
<1> HIDE DEF new
<1>4. /\ columns' = TRUE /\ UNCHANGED <<lists, saves, listing>>
      /\ \E k \in Nat : /\ k \in 0..Len(new) /\ file' = SubSeq(new, 1, k)
                       /\ backup' = file /\ before' \in {file, None}
    BY <1>1, <1>2 DEF KilledWriting, Copied, Torn
<1> QED
    BY <1>1, <1>2, <1>3, <1>4 DEF new

\* What a kill leaves: the table as it was, or cut while it was rewritten.
LEMMA KillOutcomes ==
    ASSUME QcInv, Kill
    PROVE  /\ Restarted /\ faults' = faults + 1
           /\ UNCHANGED <<saves, acked>> /\ columns' \in BOOLEAN
           /\ sidecars' \in [Names -> Batch \cup {None}]
           /\ lists' \in [Listing -> Seq(SUBSET Citation)] /\ ListsBacked'
           /\ filed' \subseteq Citation \X Decision /\ marred' \subseteq Listing
           /\ \/ UNCHANGED <<file, backup, before>>
              \/ \E new \in Copies, k \in Nat :
                   /\ k \in 0..Len(new) /\ file' = SubSeq(new, 1, k)
                   /\ backup' = file /\ before' \in {file, None}
<1>1. /\ columns \in BOOLEAN /\ sidecars \in [Names -> Batch \cup {None}]
      /\ lists \in [Listing -> Seq(SUBSET Citation)]
      /\ filed \subseteq Citation \X Decision /\ marred \subseteq Listing
    BY DEF QcInv, HistoryOK
<1>2. CASE Restarted /\ UNCHANGED <<disk, saves, before, listing>>
    <2>1. ListsBacked'
        BY <1>2, ListsStay DEF disk
    <2> QED
        BY <1>1, <1>2, <2>1 DEF Restarted, disk, listing
<1>3. ASSUME NEW c \in Citation, NEW d \in Decision, KillSaving(c, d)
      PROVE  /\ Restarted
             /\ UNCHANGED <<columns, saves, acked, sidecars>>
             /\ lists' \in [Listing -> Seq(SUBSET Citation)] /\ ListsBacked'
             /\ filed' \subseteq Citation \X Decision /\ marred' \subseteq Listing
             /\ \E new \in Copies, k \in Nat :
                  /\ k \in 0..Len(new) /\ file' = SubSeq(new, 1, k)
                  /\ backup' = file /\ before' \in {file, None}
    BY <1>3, KillSavingOutcomes
<1>4. ASSUME NEW b \in Batch, KillWritingBack(b)
      PROVE  /\ Restarted /\ columns' = TRUE
             /\ UNCHANGED <<saves, acked, lists, filed, marred>> /\ ListsBacked'
             /\ sidecars' \in [Names -> Batch \cup {None}]
             /\ \E new \in Copies, k \in Nat :
                  /\ k \in 0..Len(new) /\ file' = SubSeq(new, 1, k)
                  /\ backup' = file /\ before' \in {file, None}
    <2>1. UNCHANGED <<lists, saves, listing>>
        BY <1>4, KillWritingBackOutcomes
    <2>2. ListsBacked'
        BY <2>1, ListsStay
    <2> QED
        BY <1>4, <2>1, <2>2, KillWritingBackOutcomes DEF listing
<1>5. Restarted => faults' = faults + 1
    BY DEF Restarted
<1> QED
    BY <1>1, <1>2, <1>3, <1>4, <1>5 DEF Kill

LEMMA KillKeeps == ASSUME QcInv, Kill PROVE QcInv'
<1>1. file \in Copies /\ backup \in Rows /\ columns \in BOOLEAN /\ before \in Rows \cup {None}
      /\ (before # None => backup = before) /\ file \in Rows
    BY DEF QcInv, HistoryOK, CopiesOK, TornIsBackedUp, Copies
<1>2. CASE UNCHANGED <<file, backup, before>>
    BY <1>1, <1>2, KillOutcomes, RestartedKeeps
<1>3. CASE ~UNCHANGED <<file, backup, before>>
    <2>1. PICK new \in Copies, k \in Nat :
            /\ k \in 0..Len(new) /\ columns' \in BOOLEAN /\ file' = SubSeq(new, 1, k)
            /\ backup' = file /\ before' \in {file, None}
        BY <1>1, <1>3, KillOutcomes
    <2>2. file' \in Copies
        <3>1. new \in Rows /\ Len(new) <= Len(Text) /\ Len(new) \in Nat
            BY CellsOfRows DEF Copies
        <3>2. file' \in Rows /\ Len(file') = k
            BY <2>1, <3>1, PrefixRows
        <3>3. Len(file') <= Len(Text)
            BY <2>1, <3>1, <3>2, TextLength
        <3> QED
            BY <3>2, <3>3 DEF Copies
    <2> QED
        BY <1>1, <2>1, <2>2, KillOutcomes, RestartedKeeps
<1> QED
    BY <1>2, <1>3

LEMMA QcStep == ASSUME QcInv, [Next]_vars PROVE QcInv'
<1>1. CASE ShowRun
    BY <1>1, ShowRunKeeps
<1>2. ASSUME NEW c \in Citation, NEW d \in Decision,
             Save(c, d) \/ SaveRefused(c, d) \/ SaveRaises(c, d)
      PROVE  QcInv'
    BY <1>2, SaveKeeps, SaveRefusedKeeps, SaveRaisesKeeps
<1>3. ASSUME NEW b \in Batch,
             StartBatch(b) \/ WriteBack(b) \/ WriteBackFails(b) \/ EndEarly(b)
      PROVE  QcInv'
    BY <1>3, StartBatchKeeps, BatchKeeps
<1>4. CASE Kill
    BY <1>4, KillKeeps
<1>5. CASE UNCHANGED vars
    BY <1>5 DEF vars, disk, QcInv, HistoryOK, CopiesOK, Copies, ShownIsSaved, SeenVerified,
                TakenActionable, Actionable, TornIsBackedUp, ListsBacked, Listed, listing
<1> QED
    BY <1>1, <1>2, <1>3, <1>4, <1>5 DEF Next

----------------------------------------------------------------------------
(* What a step does to a decision and to a verification *)

\* What a save that is ended, or killed, leaves in the row i.
LEMMA SavedRow ==
    ASSUME QcInv, NEW c \in Citation, NEW d \in Decision, RowsOf(c, Loaded) # {},
           Saving(c, d), NEW i \in DOMAIN file,
           file'[i] = Decided(Loaded, RowFor(c, Loaded), d)[i]
    PROVE  DecisionKept(i) /\ VerificationKept(i)
<1> DEFINE j == RowFor(c, Loaded)
           new == Decided(Loaded, j, d)
<1>1. /\ Text[j] = c /\ new[j].qc = d /\ file'[i] = new[i]
      /\ \A k \in DOMAIN file : new[k].v = file[k].v
      /\ \A k \in DOMAIN file \ {j} : new[k] = Loaded[k]
      /\ \A k \in DOMAIN file \ (refused \cup {j}) : new[k] = file[k]
    BY DecidedCopies
<1> HIDE DEF new
<1>2. VerificationKept(i)
    BY <1>1 DEF VerificationKept
<1>3. CASE i = j
    <2>1. Text[i] = c /\ file'[i].qc = d /\ i = RowFor(Text[i], Loaded)
        BY <1>1, <1>3
    <2>2. Saving(Text[i], d)
        BY <2>1
    <2> QED
        BY <1>2, <2>1, <2>2 DEF DecisionKept
<1> HIDE DEF j
<1>4. CASE i # j
    <2>1. file'[i] = Loaded[i] /\ (i \notin refused => file'[i] = file[i])
        BY <1>1, <1>4
    <2> QED
        BY <1>2, <2>1 DEF DecisionKept
<1> QED
    BY <1>3, <1>4

LEMMA SaveUndoes ==
    ASSUME QcInv, NEW c \in Citation, NEW d \in Decision, Save(c, d),
           NEW i \in DOMAIN file
    PROVE  DecisionKept(i) /\ VerificationKept(i) /\ backup' = file
<1>1. /\ RowsOf(c, Loaded) # {} /\ file' = Decided(Loaded, RowFor(c, Loaded), d)
      /\ backup' = file
    BY DEF Save, Copied
<1>2. Saving(c, d)
    BY DEF Saving
<1> QED
    BY <1>1, <1>2, SavedRow

\* The file that is cut: its rows are those that were to be written.
LEMMA SaveRaisesUndoes ==
    ASSUME QcInv, NEW c \in Citation, NEW d \in Decision, SaveRaises(c, d),
           NEW i \in DOMAIN file
    PROVE  /\ i \in DOMAIN file' => DecisionKept(i) /\ VerificationKept(i)
           /\ backup' = file
<1> DEFINE new == Decided(Loaded, RowFor(c, Loaded), d)
<1>1. RowsOf(c, Loaded) # {} /\ file' = Written(new) /\ backup' = file
    BY DEF SaveRaises, Copied
<1>2. new \in Rows
    BY <1>1, DecidedCopies DEF Copies
<1>3. \A k \in DOMAIN file' : file'[k] = new[k]
    BY <1>1, <1>2, WrittenRows
<1>4. Saving(c, d)
    BY DEF Saving
<1> QED
    BY <1>1, <1>3, <1>4, SavedRow

LEMMA VerifiedCell ==
    ASSUME NEW cell, NEW b
    PROVE  /\ Verified(cell, b).v = b
           /\ Verified(cell, b).qc = IF cell.qc = "rerun" THEN "" ELSE cell.qc
BY DEF Verified

\* The rows of a batch: what differs from the table was changed since it began.
LEMMA WriteBackUndoes ==
    ASSUME QcInv, NEW b \in Batch, WritesBack(b), NEW i \in DOMAIN file \cap DOMAIN file',
           DOMAIN file' \subseteq DOMAIN Outcome(b), file'[i] = Outcome(b)[i]
    PROVE  DecisionKept(i) /\ VerificationKept(i)
<1> DEFINE old == batch[b].rows[i]
<1>1. /\ i \in DOMAIN Outcome(b)
      /\ Outcome(b)[i] = IF i \in batch[b].taken THEN Verified(Filled(old), b) ELSE Filled(old)
    BY OutcomeCopies
<1>2. old \in Cell
    <2>1. i \in DOMAIN batch[b].rows
        BY <1>1, OutcomeCopies
    <2>2. batch[b].rows \in Rows
        BY DEF QcInv, CopiesOK, Copies
    <2> QED
        BY <2>1, <2>2, CellsOfRows
<1>3. i \in batch[b].taken => Actionable(old)
    BY DEF QcInv, TakenActionable, WritesBack
<1> HIDE DEF old
<1>4. /\ Filled(old).v = old.v
      /\ Filled(old).qc = (IF old.qc = Absent THEN "" ELSE old.qc)
    BY <1>2 DEF Filled, Cell
<1>5. WroteRow(b, i)
    BY <1>1, OutcomeCopies DEF WroteRow
<1>6. CASE i \notin batch[b].taken
    <2>1. file'[i].v = old.v /\ file'[i].qc = (IF old.qc = Absent THEN "" ELSE old.qc)
        BY <1>1, <1>4, <1>6
    <2> QED
        BY <1>5, <2>1 DEF DecisionKept, VerificationKept, old
<1>7. CASE i \in batch[b].taken
    <2>1. /\ file'[i].v = b
          /\ file'[i].qc = (IF Filled(old).qc = "rerun" THEN "" ELSE Filled(old).qc)
        <3>1. file'[i] = Verified(Filled(old), b)
            BY <1>1, <1>7
        <3>2. /\ Verified(Filled(old), b).v = b
              /\ Verified(Filled(old), b).qc = IF Filled(old).qc = "rerun" THEN "" ELSE Filled(old).qc
            BY VerifiedCell
        <3>3. file'[i].v = Verified(Filled(old), b).v /\ file'[i].qc = Verified(Filled(old), b).qc
            BY <3>1
        <3> QED
            BY <3>2, <3>3
    <2>2. old.qc = "rerun" \/ old.v = None
        BY <1>3, <1>7 DEF Actionable
    <2>3. DecisionKept(i)
        <3>1. SUFFICES ASSUME file[i].qc \notin {Absent, "", file'[i].qc}, old.qc = file[i].qc
                       PROVE  file[i].qc = "rerun"
            BY <1>5, <1>7, <2>1 DEF DecisionKept, old
        <3> QED
            BY <1>4, <2>1, <3>1
    <2>4. VerificationKept(i)
        BY <1>5, <1>7, <2>1, <2>2 DEF VerificationKept, old
    <2> QED
        BY <2>3, <2>4
<1> QED
    BY <1>6, <1>7

\* A kill loses what the rewrite it cut would have lost, and else rows that
\* are in the backup.
LEMMA CutRows ==
    ASSUME NEW new \in Copies, NEW k \in 0..Len(new), file' = SubSeq(new, 1, k)
    PROVE  DOMAIN file' \subseteq DOMAIN new /\ \A j \in DOMAIN file' : file'[j] = new[j]
<1>1. new \in Rows /\ Len(new) \in Nat /\ DOMAIN new = 1..Len(new)
    BY CellsOfRows DEF Copies
<1>2. /\ file' \in Rows /\ Len(file') = k
      /\ \A j \in 1..k : file'[j] = new[j]
    BY <1>1, PrefixRows
<1>3. DOMAIN file' = 1..k
    BY <1>2, CellsOfRows
<1> QED
    BY <1>1, <1>2, <1>3

LEMMA KillUndoes ==
    ASSUME QcInv, Kill, NEW i \in DOMAIN file, file' # file
    PROVE  /\ i \in DOMAIN file' => DecisionKept(i) /\ VerificationKept(i)
           /\ backup' = file
<1>1. CASE Restarted /\ UNCHANGED <<disk, saves, before, listing>>
    BY <1>1 DEF disk
<1>2. ASSUME NEW c \in Citation, NEW d \in Decision, KillSaving(c, d)
      PROVE  /\ i \in DOMAIN file' => DecisionKept(i) /\ VerificationKept(i)
             /\ backup' = file
    <2> DEFINE decided == Decided(Loaded, RowFor(c, Loaded), d)
    <2>1. PICK new \in Copies, k \in Nat :
            /\ new = Written(decided)
            /\ k \in 0..Len(new) /\ file' = SubSeq(new, 1, k)
            /\ backup' = file
        BY <1>2, KillSavingOutcomes
    <2>2. RowsOf(c, Loaded) # {} /\ Saving(c, d)
        BY <1>2, KillSavingOutcomes DEF Saving
    <2>3. decided \in Rows
        BY <2>2, DecidedCopies DEF Copies
    <2>4. \A j \in DOMAIN file' : j \in DOMAIN new /\ file'[j] = new[j]
        BY <2>1, CutRows
    <2>5. \A j \in DOMAIN new : new[j] = decided[j]
        BY <2>1, <2>3, WrittenRows
    <2>6. i \in DOMAIN file' => file'[i] = decided[i]
        BY <2>4, <2>5
    <2> QED
        BY <2>1, <2>2, <2>6, SavedRow
<1>3. ASSUME NEW b \in Batch, KillWritingBack(b)
      PROVE  /\ i \in DOMAIN file' => DecisionKept(i) /\ VerificationKept(i)
             /\ backup' = file
    <2>1. PICK new \in Copies, k \in Nat :
            /\ new = Outcome(b)
            /\ k \in 0..Len(new) /\ file' = SubSeq(new, 1, k)
            /\ backup' = file
        BY <1>3, KillWritingBackOutcomes
    <2>2. DOMAIN file' \subseteq DOMAIN new /\ \A j \in DOMAIN file' : file'[j] = new[j]
        BY <2>1, CutRows
    <2>3. Restarted /\ batch[b].pc = "open"
        BY <1>3, KillWritingBackOutcomes
    <2>4. batch'[b].pc = "closed"
        <3>1. batch'[b] = Closed(b)[b]
            BY <2>3 DEF Restarted
        <3>2. Closed(b)[b] = [pc |-> "closed", rows |-> <<>>, taken |-> batch[b].taken]
            BY ClosedBatch
        <3>3. batch'[b] = [pc |-> "closed", rows |-> <<>>, taken |-> batch[b].taken]
            BY <3>1, <3>2
        <3> QED
            BY <3>3
    <2>5. WritesBack(b)
        BY <2>3, <2>4 DEF WritesBack
    <2> QED
        BY <2>1, <2>2, <2>5, WriteBackUndoes
<1> QED
    BY <1>1, <1>2, <1>3 DEF Kill

LEMMA BatchUndoes ==
    ASSUME QcInv, NEW b \in Batch, WriteBack(b) \/ WriteBackFails(b), file' # file,
           NEW i \in DOMAIN file
    PROVE  /\ i \in DOMAIN file' => DecisionKept(i) /\ VerificationKept(i)
           /\ backup' = file
<1>1. batch[b].pc = "open" /\ batch' = Closed(b) /\ file' = Outcome(b) /\ backup' = file
    BY DEF WriteBack, WriteBackFails, Copied
<1>2. batch'[b] = [pc |-> "closed", rows |-> <<>>, taken |-> batch[b].taken]
    BY <1>1, ClosedBatch
<1>3. WritesBack(b)
    BY <1>1, <1>2 DEF WritesBack
<1> QED
    BY <1>1, <1>3, WriteBackUndoes

LEMMA StepUndoes == ASSUME QcInv, [Next]_vars PROVE [UndoneByStaleWrite]_file
<1>1. SUFFICES ASSUME file' # file, NEW i \in DOMAIN file
               PROVE  /\ i \in DOMAIN file' => DecisionKept(i) /\ VerificationKept(i)
                      /\ backup' = file
    BY DEF UndoneByStaleWrite
<1>2. CASE Kill
    BY <1>1, <1>2, KillUndoes
<1>3. ASSUME NEW b \in Batch, WriteBack(b) \/ WriteBackFails(b)
      PROVE  /\ i \in DOMAIN file' => DecisionKept(i) /\ VerificationKept(i)
             /\ backup' = file
    BY <1>1, <1>3, BatchUndoes
<1>4. ASSUME NEW c \in Citation, NEW d \in Decision, Save(c, d) \/ SaveRaises(c, d)
      PROVE  /\ i \in DOMAIN file' => DecisionKept(i) /\ VerificationKept(i)
             /\ backup' = file
    BY <1>1, <1>4, SaveUndoes, SaveRaisesUndoes
<1> QED
    BY <1>1, <1>2, <1>3, <1>4
       DEF Next, vars, disk, ShowRun, SaveRefused, StartBatch, EndEarly

----------------------------------------------------------------------------
(* The sidecars: what is needed is that no two batches share a day and a seed *)

OwnSidecars == \A a, b \in Batch : Name[a] = Name[b] => a = b

\* The verification v of the i-th row is that of a batch that is closed, took
\* the row, and has its results in its sidecar.
Held(v, i) ==
    v # None =>
        /\ v \in Batch /\ batch[v].pc = "closed"
        /\ sidecars[Name[v]] = v /\ i \in batch[v].taken

\* Of the table, and of the rows with which an open batch will replace it.
RowsHeld(rows) == \A i \in DOMAIN rows : Held(rows[i].v, i)

AllHeld ==
    /\ RowsHeld(file)
    /\ \A b \in Batch : batch[b].pc = "open" => RowsHeld(batch[b].rows)

ReviewInv == QcInv /\ (faults = 0 => AllHeld)

\* What is held stays held while no sidecar and no closed batch is touched.
LEMMA HeldStays ==
    ASSUME NEW v, NEW i, Held(v, i),
           v \in Batch /\ batch[v].pc = "closed" => batch'[v] = batch[v],
           v \in Batch /\ batch[v].pc = "closed" => sidecars'[Name[v]] = sidecars[Name[v]]
    PROVE  Held(v, i)'
BY DEF Held

\* The same of the next state, each row with its verification named.
LEMMA AllHeldNext ==
    ASSUME \A v, i : i \in DOMAIN file' /\ v = file'[i].v => Held(v, i)',
           \A b \in Batch : batch'[b].pc = "open" =>
               \A v, i : i \in DOMAIN batch'[b].rows /\ v = batch'[b].rows[i].v => Held(v, i)'
    PROVE  AllHeld'
BY DEF AllHeld, RowsHeld, Held

LEMMA HeldBySave ==
    ASSUME QcInv, AllHeld, NEW c \in Citation, NEW d \in Decision,
           Save(c, d) \/ SaveRaises(c, d)
    PROVE  AllHeld'
<1> DEFINE new == Decided(Loaded, RowFor(c, Loaded), d)
<1>1. /\ RowsOf(c, Loaded) # {} /\ UNCHANGED <<batch, sidecars>>
      /\ file' = new \/ file' = Written(new)
    BY DEF Save, SaveRaises
<1>2. /\ new \in Rows /\ Len(new) = Len(file)
      /\ \A j \in DOMAIN file : new[j].v = file[j].v
    BY <1>1, DecidedCopies DEF Copies
<1>3. file \in Rows
    BY DEF QcInv, CopiesOK, Copies
<1> HIDE DEF new
<1>4. DOMAIN new = DOMAIN file
    BY <1>2, <1>3, CellsOfRows
<1>5. /\ DOMAIN Written(new) \subseteq DOMAIN new
      /\ \A j \in DOMAIN Written(new) : Written(new)[j] = new[j]
    BY <1>2, WrittenRows, CellsOfRows
<1>6. \A j \in DOMAIN file' : j \in DOMAIN file /\ file'[j].v = file[j].v
    BY <1>1, <1>2, <1>4, <1>5
<1>7. \A v, i : Held(v, i) => Held(v, i)'
    BY <1>1, HeldStays
<1>8. \A v, i : i \in DOMAIN file' /\ v = file'[i].v => Held(v, i)'
    BY <1>6, <1>7 DEF AllHeld, RowsHeld
<1>9. \A b \in Batch : batch'[b].pc = "open" =>
        \A v, i : i \in DOMAIN batch'[b].rows /\ v = batch'[b].rows[i].v => Held(v, i)'
    BY <1>1, <1>7 DEF AllHeld, RowsHeld
<1> QED
    BY <1>8, <1>9, AllHeldNext

LEMMA HeldByStart ==
    ASSUME QcInv, AllHeld, NEW b \in Batch, StartBatch(b)
    PROVE  AllHeld'
<1>1. /\ batch[b].pc = "unused" /\ UNCHANGED <<file, sidecars>>
      /\ \E taken : batch' = [batch EXCEPT ![b] = [pc |-> "open", rows |-> file, taken |-> taken]]
    BY DEF StartBatch, disk
<1>2. batch'[b].rows = file /\ \A a \in Batch \ {b} : batch'[a] = batch[a]
    BY <1>1 DEF QcInv, CopiesOK
<1>3. \A v, i : Held(v, i) => Held(v, i)'
    BY <1>1, <1>2, HeldStays
<1>4. \A v, i : i \in DOMAIN file' /\ v = file'[i].v => Held(v, i)'
    BY <1>1, <1>3 DEF AllHeld, RowsHeld
<1>5. \A a \in Batch : batch'[a].pc = "open" =>
        \A v, i : i \in DOMAIN batch'[a].rows /\ v = batch'[a].rows[i].v => Held(v, i)'
    BY <1>1, <1>2, <1>3 DEF AllHeld, RowsHeld
<1> QED
    BY <1>4, <1>5, AllHeldNext

LEMMA HeldByEnd ==
    ASSUME QcInv, AllHeld, OwnSidecars, NEW b \in Batch, WriteBack(b) \/ EndEarly(b)
    PROVE  AllHeld'
<1>1. batch[b].pc = "open" /\ batch' = Closed(b)
    BY DEF WriteBack, EndEarly
<1>2. /\ batch'[b].pc = "closed" /\ batch'[b].taken = batch[b].taken
      /\ \A a \in Batch \ {b} : batch'[a] = batch[a]
    <2>1. batch'[b] = [pc |-> "closed", rows |-> <<>>, taken |-> batch[b].taken]
        BY <1>1, ClosedBatch
    <2>2. \A a \in Batch \ {b} : batch'[a] = batch[a]
        BY <1>1, ClosedBatch
    <2> QED
        BY <2>1, <2>2
<1>3. sidecars \in [Names -> Batch \cup {None}] /\ Name[b] \in Names
    BY DEF QcInv, HistoryOK, Names
<1>4. ASSUME NEW v, NEW i, Held(v, i) PROVE Held(v, i)'
    <2>1. v \in Batch /\ batch[v].pc = "closed" => v # b /\ Name[v] # Name[b] /\ Name[v] \in Names
        BY <1>1 DEF OwnSidecars, Names
    <2>2. v \in Batch /\ batch[v].pc = "closed" => sidecars'[Name[v]] = sidecars[Name[v]]
        BY <1>3, <2>1 DEF WriteBack, EndEarly, disk
    <2> QED
        BY <1>2, <1>4, <2>1, <2>2, HeldStays
<1>5. \A a \in Batch : batch'[a].pc = "open" =>
        \A v, i : i \in DOMAIN batch'[a].rows /\ v = batch'[a].rows[i].v => Held(v, i)'
    BY <1>2, <1>4 DEF AllHeld, RowsHeld
<1>6. CASE EndEarly(b)
    <2>1. file' = file
        BY <1>6 DEF EndEarly, disk
    <2>2. \A v, i : i \in DOMAIN file' /\ v = file'[i].v => Held(v, i)'
        BY <1>4, <2>1 DEF AllHeld, RowsHeld
    <2> QED
        BY <1>5, <2>2, AllHeldNext
<1>7. CASE WriteBack(b)
    <2>1. file' = Outcome(b) /\ sidecars'[Name[b]] = b
        BY <1>3, <1>7 DEF WriteBack
    <2>2. batch[b].rows \in Rows /\ RowsHeld(batch[b].rows)
        BY <1>1 DEF QcInv, CopiesOK, Copies, AllHeld
    <2>3. ASSUME NEW v, NEW i, i \in DOMAIN file' /\ v = file'[i].v PROVE Held(v, i)'
        <3>1. PICK old : old = batch[b].rows[i]
            OBVIOUS
        <3>2. /\ i \in DOMAIN batch[b].rows
              /\ file'[i] = IF i \in batch[b].taken THEN Verified(Filled(old), b) ELSE Filled(old)
            BY <2>1, <2>3, <3>1, OutcomeCopies
        <3>3. old \in Cell /\ Held(old.v, i)
            BY <2>2, <3>1, <3>2, CellsOfRows DEF RowsHeld
        <3>4. Filled(old).v = old.v
            BY <3>3 DEF Filled, Cell
        <3>5. CASE i \in batch[b].taken
            <4>1. file'[i] = Verified(Filled(old), b)
                BY <3>2, <3>5
            <4>2. v = Verified(Filled(old), b).v
                BY <2>3, <4>1
            <4>3. v = b
                BY <4>2, VerifiedCell
            <4> QED
                BY <1>2, <2>1, <3>5, <4>3 DEF Held
        <3>6. CASE i \notin batch[b].taken
            <4>1. v = old.v
                BY <2>3, <3>2, <3>4, <3>6
            <4> QED
                BY <1>4, <3>3, <4>1
        <3> QED
            BY <3>5, <3>6
    <2> QED
        BY <1>5, <2>3, AllHeldNext
<1> QED
    BY <1>6, <1>7

LEMMA ReviewStep ==
    ASSUME OwnSidecars, ReviewInv, [Next]_vars
    PROVE  ReviewInv'
<1>1. QcInv /\ QcInv' /\ faults \in Nat
    BY QcStep, CountsAreNatural DEF ReviewInv, QcInv
<1>2. SUFFICES ASSUME faults' = 0 PROVE AllHeld'
    BY <1>1 DEF ReviewInv
<1>3. ASSUME NEW c \in Citation, NEW d \in Decision, Save(c, d) \/ SaveRaises(c, d)
      PROVE  AllHeld'
    <2>1. faults = 0
        BY <1>1, <1>2, <1>3 DEF Save, SaveRaises
    <2> QED
        BY <1>1, <1>3, <2>1, HeldBySave DEF ReviewInv
<1>4. ASSUME NEW b \in Batch, StartBatch(b) \/ WriteBack(b) \/ EndEarly(b)
      PROVE  AllHeld'
    <2>1. faults = 0
        BY <1>2, <1>4 DEF StartBatch, WriteBack, EndEarly
    <2> QED
        BY <1>1, <1>4, <2>1, HeldByStart, HeldByEnd DEF ReviewInv
<1>5. CASE ShowRun \/ UNCHANGED vars
    <2>1. faults' = faults /\ UNCHANGED <<file, batch, sidecars>>
        BY <1>5 DEF ShowRun, vars, disk
    <2> QED
        BY <1>2, <2>1 DEF ReviewInv, AllHeld, RowsHeld, Held
<1>6. \A c \in Citation, d \in Decision : ~SaveRefused(c, d)
    BY <1>1, <1>2 DEF SaveRefused
<1>7. \A b \in Batch : ~WriteBackFails(b)
    BY <1>1, <1>2 DEF WriteBackFails
<1>8. ~Kill
    <2>1. Kill => faults' = faults + 1
        BY <1>1, KillOutcomes
    <2> QED
        BY <1>1, <1>2, <2>1
<1> QED
    BY <1>3, <1>4, <1>5, <1>6, <1>7, <1>8 DEF Next

----------------------------------------------------------------------------
(* Theorems *)

\* The invariant is inductive.
THEOREM QcInductive == Spec => []QcInv
<1>1. Init => QcInv
    BY QcInitial
<1>2. QcInv /\ [Next]_vars => QcInv'
    BY QcStep
<1> QED
    BY <1>1, <1>2, PTL DEF Spec

\* Every reachable state of the review table is well typed (src/web/app.py).
THEOREM QcTypeCorrect == Spec => []QcTypeOK
<1>1. QcInv => QcTypeOK
    BY DEF QcInv, HistoryOK, CopiesOK, Copies, QcTypeOK
<1> QED
    BY <1>1, QcInductive, PTL

\* For any table, any decisions and any order of saves, batches and faults, a
\* page is shown what the table holds, but for decisions that were refused.
THEOREM AlwaysShownAsSaved == Spec => []ShownIsSaved
<1>1. QcInv => ShownIsSaved
    BY DEF QcInv
<1> QED
    BY <1>1, QcInductive, PTL

\* A torn table always has its backup (shutil.copy2 before open).
THEOREM TornAlwaysBackedUp == Spec => []TornIsBackedUp
<1>1. QcInv => TornIsBackedUp
    BY DEF QcInv
<1> QED
    BY <1>1, QcInductive, PTL

\* Every entry of a list is of a decision that the table was rewritten with,
\* and a list whose writing never failed holds what was acknowledged.
THEOREM ListsAlwaysBacked == Spec => []ListsBacked
<1>1. QcInv => ListsBacked
    BY DEF QcInv
<1> QED
    BY <1>1, QcInductive, PTL

\* What may take a decision, a verification or a row from the table, for any
\* table and any order of saves, batches, failed writes and kills.
THEOREM OnlyStaleWritesAlwaysUndo == Spec => OnlyStaleWritesUndo
<1>1. QcInv /\ [Next]_vars => [UndoneByStaleWrite]_file
    BY StepUndoes
<1> QED
    BY <1>1, QcInductive, PTL DEF Spec, OnlyStaleWritesUndo

\* Without a fault, every verification of the table can be reviewed: it is in
\* the sidecar of the batch that made it, however batches and saves overlap.
\* The hypothesis is that of the property: no two batches share a day and a
\* seed (src/web/app.py names the sidecar by them).
THEOREM AlwaysReviewable == OwnSidecars => (Spec => []Reviewable)
<1> SUFFICES ASSUME OwnSidecars PROVE Spec => []Reviewable
    OBVIOUS
<1>1. Init => ReviewInv
    <2>1. ASSUME Init PROVE RowsHeld(file)
        <3>1. \A i \in DOMAIN file : file[i].v = None
            BY <2>1 DEF Init, Fresh
        <3> QED
            BY <3>1 DEF RowsHeld, Held
    <2>2. Init => \A b \in Batch : batch[b].pc # "open"
        BY DEF Init, Idle
    <2> QED
        BY <2>1, <2>2, QcInitial DEF ReviewInv, AllHeld
<1>2. ReviewInv /\ [Next]_vars => ReviewInv'
    BY ReviewStep
<1>3. ReviewInv => Reviewable
    <2>1. SUFFICES ASSUME QcInv, RowsHeld(file), NEW i \in DOMAIN file, file[i].v # None
                   PROVE  \E n \in Names : sidecars[n] = file[i].v /\ i \in batch[file[i].v].taken
        BY DEF ReviewInv, AllHeld, Reviewable
    <2> QED
        BY <2>1 DEF RowsHeld, Held, Names
<1> QED
    BY <1>1, <1>2, <1>3, PTL DEF Spec
=============================================================================
