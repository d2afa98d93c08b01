---------------------------- MODULE QuoteMatcher ----------------------------
(***************************************************************************)
(* quote_matcher.py: whether the words in quotation marks are the words of *)
(* the opinion.  A text is a sequence of tokens: words, numbers, marks of  *)
(* star pagination, and the two marks of a disclosed edit, an ellipsis and *)
(* a bracketed alteration.  The search for the place in the opinion is a   *)
(* ratio of characters; here it is a span and whether its ratio is poor.   *)
(***************************************************************************)
EXTENDS Naturals, Sequences, FiniteSets, SequencesExt, FiniteSetsExt

CONSTANTS
    Ellipsis, Bracket,  \* _GAP_ELLIPSIS, _GAP_BRACKET
    StarPage,           \* "*534"
    SmallNumber,        \* words of one or two digits
    QuantityLead,       \* _QUANTITY_LEAD: "within", "to"
    EllipsisLimit,      \* _GAP_SPAN_LIMIT of an ellipsis; a bracket's is 1
    EndOf,              \* pairs of words: the second ends in the first,
    StartOf,            \* begins with it,
    PartOf              \* or holds it anywhere

Gaps == {Ellipsis, Bracket}
Limit(gap) == IF gap = Ellipsis THEN EllipsisLimit ELSE 1

----------------------------------------------------------------------------
(* Texts: the words, and the gaps by the number of words before them.  Of  *)
(* several gaps in one place the first counts.                             *)

\* The tokens of a text but those of some kind.
Without(kind, text) ==
    LET kept[i \in 0..Len(text)] ==
            IF i = 0 THEN <<>>
            ELSE IF text[i] \in kind THEN kept[i - 1] ELSE Append(kept[i - 1], text[i])
    IN  kept[Len(text)]

Words(text) == Without(Gaps \cup {StarPage}, text)

GapsOf(text) ==
    LET before(i) == Len(Words(SubSeq(text, 1, i)))
    IN  {[at |-> before(i), kind |-> text[i]] :
            i \in {i \in DOMAIN text :
                      /\ text[i] \in Gaps
                      /\ \A j \in 1..i-1 : text[j] \in Gaps => before(j) # before(i)}}

\* A quote that is looked up as it stands loses its marks; the opinion keeps
\* its own.
Needle(quote) == Without(Gaps, quote)

\* The search is for a string: the first word may begin inside a word of the
\* opinion and the last one end inside a word.
Is(word, other, part) == word = other \/ <<word, other>> \in part
StringIn(needle, stretch) ==
    LET n == Len(needle)
    IN  /\ Len(stretch) = n
        /\ \A i \in 2..n-1 : stretch[i] = needle[i]
        /\ IF n = 1 THEN Is(needle[1], stretch[1], PartOf)
           ELSE Is(needle[1], stretch[1], EndOf) /\ Is(needle[n], stretch[n], StartOf)

FoundExactly(quote, opinion) ==
    \E i, j \in 1..Len(opinion) : StringIn(Needle(quote), SubSeq(opinion, i, j))

----------------------------------------------------------------------------
(* difflib.SequenceMatcher: the longest common stretch, the first of       *)
(* several, and likewise on both sides of it.                              *)

\* A block <<i, j, k>>: a[i+1..i+k] = b[j+1..j+k], within the bounds.
CommonStretches(a, b, al, ah, bl, bh) ==
    {x \in (al..ah) \X (bl..bh) \X (1..ah - al) :
        /\ x[1] + x[3] <= ah /\ x[2] + x[3] <= bh
        /\ \A n \in 1..x[3] : a[x[1] + n] = b[x[2] + n]}

Longest(blocks) ==
    CHOOSE x \in blocks : \A y \in blocks :
        \/ x[3] > y[3]
        \/ x[3] = y[3] /\ x[1] < y[1]
        \/ x[3] = y[3] /\ x[1] = y[1] /\ x[2] <= y[2]

\* A region <<al, ah, bl, bh>> of both lists, and the blocks found in it.
Regions(a, b) == (0..Len(a)) \X (0..Len(a)) \X (0..Len(b)) \X (0..Len(b))

MatchingBlocks(a, b) ==
    LET blocks[r \in Regions(a, b)] ==
            LET common == CommonStretches(a, b, r[1], r[2], r[3], r[4])
                x == Longest(common)
            IN  IF common = {} THEN {}
                ELSE blocks[<<r[1], x[1], r[3], x[2]>>] \cup {x}
                     \cup blocks[<<x[1] + x[3], r[2], x[2] + x[3], r[4]>>]
    IN  blocks[<<0, Len(a), 0, Len(b)>>]

Precedes(x, y) == x # y /\ x[1] + x[3] <= y[1] /\ x[2] + x[3] <= y[2]

\* What lies between a block and the next: words i1+1..i2 of the quote have
\* become words j1+1..j2 of the opinion.
Opcodes(a, b) ==
    LET blocks == MatchingBlocks(a, b) \cup {<<0, 0, 0>>, <<Len(a), Len(b), 0>>}
        neighbours == {xy \in blocks \X blocks :
                          /\ Precedes(xy[1], xy[2])
                          /\ \A z \in blocks : ~(Precedes(xy[1], z) /\ Precedes(z, xy[2]))}
        between == {[i1 |-> xy[1][1] + xy[1][3], i2 |-> xy[2][1],
                     j1 |-> xy[1][2] + xy[1][3], j2 |-> xy[2][2]] : xy \in neighbours}
    IN  {op \in between : op.i1 < op.i2 \/ op.j1 < op.j2}

----------------------------------------------------------------------------
(* _is_licensed *)

\* Mutant: a gap may stand for any number of words.
CoveredWhole(gaps, pos, run) == \E g \in gaps : g.at \in {pos - 1, pos, pos + 1}

Covered(gaps, pos, run) ==
    \E g \in gaps : g.at - pos \in {-1, 0, 1} /\ run <= Limit(g.kind)

\* A lone number, unless the word before it leads up to a quantity.
FootnoteMarker(words, j) ==
    words[j] \in SmallNumber /\ (j = 1 \/ words[j - 1] \notin QuantityLead)

\* Words that only one side has; a substitution never is.
Licensed(op, quote, span) ==
    \/ /\ op.i1 = op.i2
       /\ \/ op.i1 = 0 \/ op.i1 >= Len(Words(quote))
          \/ Covered(GapsOf(quote), op.i1, op.j2 - op.j1)
          \/ op.j2 = op.j1 + 1 /\ FootnoteMarker(Words(span), op.j2)
    \/ op.j1 = op.j2 /\ Covered(GapsOf(span), op.j1, op.i2 - op.i1)

\* _word_alterations
Altered(quote, span) ==
    IF Words(quote) = <<>> THEN {}
    ELSE {op \in Opcodes(Words(quote), Words(span)) : ~Licensed(op, quote, span)}

\* verify_quote: the span is from..to, of a poor ratio or not.
VerifyQuote(quote, opinion, from, to, poor) ==
    CASE Needle(quote) = <<>> \/ opinion = <<>> -> "FABRICATED"
      [] Needle(quote) # <<>> /\ FoundExactly(quote, opinion) -> "VERBATIM"
      [] OTHER -> IF poor THEN "FABRICATED"
                  ELSE IF Altered(quote, SubSeq(opinion, from, to)) = {} THEN "VERBATIM"
                  ELSE "CLOSE"

----------------------------------------------------------------------------
(* Properties.  A reading of a quote in an opinion: where each of its words *)
(* stands, in their order, the first and the last perhaps inside a word.    *)

ReadAs(q, i, word) ==
    \/ word = q[i]
    \/ i = 1 /\ <<q[i], word>> \in EndOf
    \/ i = Len(q) /\ <<q[i], word>> \in StartOf
    \/ Len(q) = 1 /\ <<q[i], word>> \in PartOf

Readings(quote, opinion) ==
    LET q == Words(quote)  o == Words(opinion)
    IN  {e \in [1..Len(q) -> 1..Len(o)] :
            /\ \A i \in 1..Len(q) : ReadAs(q, i, o[e[i]])
            /\ \A i \in 1..Len(q) - 1 : e[i] < e[i + 1]}

\* What a reading leaves out after word i is next to a gap that may stand for
\* that much, or a footnote's number.
Discloses(quote, opinion, e, i) ==
    LET run == e[i + 1] - e[i] - 1
    IN  \/ run = 0
        \/ \E g \in GapsOf(quote) : g.at \in i-1..i+1 /\ run <= Limit(g.kind)
        \/ run = 1 /\ FootnoteMarker(Words(opinion), e[i] + 1)

\* A verbatim quote can be read in the opinion: every word of it, in order, if
\* perhaps its first and last inside a word, and nothing left out between them
\* that the quote does not disclose ("VERBATIM ... if only typographic junk
\* differs", quote_matcher.py).  An opinion that alters its own sources is left
\* out.
VerbatimReading(quote, opinion, from, to, poor) ==
    VerifyQuote(quote, opinion, from, to, poor) = "VERBATIM"
    /\ Range(opinion) \cap Gaps = {} =>
        \E e \in Readings(quote, opinion) :
            \A i \in 1..Len(Words(quote)) - 1 : Discloses(quote, opinion, e, i)

\* A bracketed alteration stands for exactly one word.
BracketStandsForOne(quote, opinion, from, to, poor) ==
    /\ VerifyQuote(quote, opinion, from, to, poor) = "VERBATIM"
    /\ Range(opinion) \cap (Gaps \cup SmallNumber) = {} /\ Ellipsis \notin Range(quote)
    => \E e \in Readings(quote, opinion) :
           LET n == Len(Words(quote))
           IN  e[n] - e[1] + 1 - n <= Cardinality({i \in DOMAIN quote : quote[i] = Bracket})
=============================================================================
