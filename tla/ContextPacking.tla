--------------------------- MODULE ContextPacking ---------------------------
(***************************************************************************)
(* The evidence pack: which of the ranked hits go into the prompt.  An     *)
(* item has a kind (source_type), a document or None, a score in           *)
(* thousandths, an estimate of its tokens, whether it is a citation        *)
(* candidate, whether its snippet is too short to be of use, and the text  *)
(* of its snippet as a value that only equality is asked of.               *)
(***************************************************************************)
EXTENDS Integers, Sequences, FiniteSets, SequencesExt, Lists

None == "none"

(* A stable descending sort, Python's sorted(..., reverse=True): Better is *)
(* a strict order of the items' keys.                                      *)
SortedBy(Better(_, _), items) ==
    LET Place(i) == Cardinality({j \in DOMAIN items :
                        Better(items[j], items[i])
                        \/ (j < i /\ ~Better(items[i], items[j]))}) + 1
    IN  [k \in DOMAIN items |-> items[CHOOSE i \in DOMAIN items : Place(i) = k]]

(* What the policy allows a route: items, items of one document and of one *)
(* kind, and tokens.                                                       *)
Limits(mode) ==
    [items    |-> CASE mode \in {"exact", "visual"} -> 10
                    [] mode \in {"multi_hop", "global", "argumentative"} -> 24
                    [] OTHER -> 12,
     document |-> IF mode = "visual" THEN 3 ELSE 4,
     summary  |-> IF mode = "global" THEN 8 ELSE 4,
     edge     |-> 2,
     tokens   |-> CASE mode = "exact" -> 2400
                    [] mode \in {"multi_hop", "global", "argumentative"} -> 6000
                    [] mode = "visual" -> 3600
                    [] OTHER -> 3200]

QualityWeight(kind) ==
    CASE kind \in {"chunk", "visual_page"} -> 100
      [] kind = "proposition" -> 94
      [] kind = "summary" -> 90
      [] kind = "graph_edge" -> 72
      [] OTHER -> 85

RouteBonus(mode, kind) ==
    CASE mode = "global" /\ kind = "summary" -> 80
      [] mode \in {"global", "argumentative", "multi_hop"} /\ kind = "chunk" -> 50
      [] mode = "argumentative" /\ kind = "proposition" -> 60
      [] mode = "multi_hop" /\ kind = "proposition" -> 50
      [] mode = "visual" /\ kind = "visual_page" -> 120
      [] OTHER -> 0

(* The first component of the code's key, times 100.                       *)
Utility(mode, item) ==
    item.score * QualityWeight(item.kind) + 100 * RouteBonus(mode, item.kind)
    + IF item.candidate /\ item.doc # None THEN 4000 ELSE 0

MoreUseful(mode, a, b) ==
    LET ua == Utility(mode, a)
        ub == Utility(mode, b)
    IN  \/ ua > ub
        \/ ua = ub /\ a.score > b.score
        \/ ua = ub /\ a.score = b.score /\ a.doc # None /\ b.doc = None

OrderItems(mode, items) ==
    LET Better(a, b) == MoreUseful(mode, a, b) IN SortedBy(Better, items)

SameText(a, b) == a.kind = b.kind /\ a.doc = b.doc /\ a.text = b.text

(* Mutant of Deduplicate: only neighbours are compared.                    *)
DeduplicateNeighbours(items) ==
    Places(items, {i \in DOMAIN items : i = 1 \/ ~SameText(items[i - 1], items[i])})

(* Of the items with one text the first is kept.                           *)
Deduplicate(items) ==
    Places(items, {i \in DOMAIN items : \A j \in 1..(i - 1) : ~SameText(items[j], items[i])})

IsLowSignal(item) == item.short

DocumentKey(item) == IF item.doc = None THEN item.kind ELSE item.doc

KindLimit(limits, kind) ==
    CASE kind = "graph_edge" -> limits.edge
      [] kind = "summary" -> limits.summary
      [] OTHER -> limits.items

Tokens(items) == Total([i \in DOMAIN items |-> items[i].tokens])

Count(Test(_), items) == Cardinality({i \in DOMAIN items : Test(items[i])})

(* try_select: whether the item may join those selected.                   *)
FitsPack(limits, selected, item) ==
    /\ Len(selected) < limits.items
    /\ ~IsLowSignal(item)
    /\ Count(LAMBDA s : DocumentKey(s) = DocumentKey(item), selected) < limits.document
    /\ Count(LAMBDA s : s.kind = item.kind, selected) < KindLimit(limits, item.kind)
    /\ Tokens(selected) + item.tokens <= limits.tokens

TrySelect(limits, selected, item) ==
    IF FitsPack(limits, selected, item) THEN Append(selected, item) ELSE selected

(* What try_select guarantees of the items selected.                       *)
WithinLimits(limits, items) ==
    /\ Len(items) <= limits.items /\ Tokens(items) <= limits.tokens
    /\ \A i \in DOMAIN items :
          /\ Cardinality({j \in DOMAIN items : DocumentKey(items[j]) = DocumentKey(items[i])})
                <= limits.document
          /\ Cardinality({j \in DOMAIN items : items[j].kind = items[i].kind})
                <= KindLimit(limits, items[i].kind)

(* A pass over the items: those that are wanted are tried.                 *)
Tried(Wanted(_, _), limits, start, items) ==
    LET Kept[k \in 0..Len(items)] ==
            IF k = 0 THEN start
            ELSE LET kept == Kept[k - 1]
                 IN  IF Wanted(kept, items[k]) THEN TrySelect(limits, kept, items[k]) ELSE kept
    IN  Kept[Len(items)]

Citable(item) == item.candidate /\ item.kind # "graph_edge" /\ item.doc # None

(* First pass: one citable item of each document.                          *)
CoverDocuments(limits, items) ==
    Tried(LAMBDA selected, item :
              Citable(item) /\ \A i \in DOMAIN selected : selected[i].doc # item.doc,
          limits, <<>>, items)

(* The best chunk, when none is selected yet.                              *)
ReserveChunk(limits, selected, items) ==
    LET chunks == {i \in DOMAIN items : items[i].kind = "chunk"}
    IN  IF chunks = {} \/ \E i \in DOMAIN selected : selected[i].kind = "chunk"
        THEN selected ELSE TrySelect(limits, selected, items[Nth(chunks, 1)])

Fill(limits, selected, items) ==
    Tried(LAMBDA kept, item : \A i \in DOMAIN kept : kept[i] # item,
          limits, selected, items)

PackWithin(limits, mode, hits) ==
    LET items   == Deduplicate(OrderItems(mode, hits))
        covered == CoverDocuments(limits, items)
    IN  Fill(limits, ReserveChunk(limits, covered, items), items)

Pack(mode, hits) == PackWithin(Limits(mode), mode, hits)

=============================================================================
