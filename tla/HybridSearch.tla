---------------------------- MODULE HybridSearch ----------------------------
(***************************************************************************)
(* The candidate search of the retrieval orchestrator, call by call.  A    *)
(* question is planned as variants (0 is the original, the others are its  *)
(* facets); each layer of the memory is searched with each variant, in     *)
(* Qdrant, dense then sparse, and in SQL when Qdrant does not answer.  Any *)
(* call to Qdrant may fail, and the request's adapter is then unavailable  *)
(* to the end of the request.                                              *)
(***************************************************************************)
EXTENDS Naturals, FiniteSets, Sequences

CONSTANTS MaxVariants,    \* largest number of planned variants
          Modes           \* the retrieval modes asked for

ASSUME SearchAssumption ==
    /\ MaxVariants \in Nat \ {0}
    /\ Modes \subseteq {"factual_local", "global", "argumentative", "multi_hop", "visual"}

Layers == <<"chunk", "proposition", "summary">>

Expandable == {"multi_hop", "argumentative", "global"}

VARIABLES
    setting,      \* what the request finds: mode, placement of dense vectors, data
    available,    \* QdrantAdapter._available of this request
    planned,      \* variants of the multi-query plan
    executing,    \* variants still executed (retrieval_variants)
    layer,        \* index in Layers; 4 after the last
    variant,      \* the variant being searched
    call,         \* next call of that variant
    dense,        \* backends that gave its dense hits
    found,        \* layer -> variants -> the backends that gave hits
    reads,        \* SQL scans made: <<layer, variant, kind>>
    fallback,     \* variant_fallback_reason is set
    kinds         \* kinds of the hits returned

callVars  == <<layer, variant, call, dense, found, reads>>
hybridVars == <<setting, available, planned, executing, callVars, fallback, kinds>>

Backends == {"codes", "dense", "sparse", "local"}
Nothing  == [l \in 1..Len(Layers) |-> [v \in {} |-> {}]]

(* rows: layers with matching rows in SQL; points: those also in Qdrant.   *)
Settings == [mode : Modes, denseInQdrant : BOOLEAN,
             rows : SUBSET (1..Len(Layers)), points : SUBSET (1..Len(Layers))]

HybridInit ==
    /\ setting \in {s \in Settings : s.points \subseteq s.rows}
    /\ available \in BOOLEAN
    /\ planned \in 1..(IF setting.mode \in Expandable THEN MaxVariants ELSE 1)
    /\ executing = IF available THEN planned ELSE 1
    /\ fallback = (planned > 1 /\ ~available)
    /\ layer = 1 /\ variant = 0 /\ call = "begin"
    /\ dense = {} /\ found = Nothing /\ reads = {} /\ kinds = {}

Searching == layer <= Len(Layers)

InSql    == layer \in setting.rows
InQdrant == layer \in setting.points

UseCandidateIndex == ~(setting.denseInQdrant /\ available)

AllowLocal == variant = 0

BeginVariant ==
    /\ Searching /\ call = "begin" /\ variant < executing
    /\ variant = 0 \/ available
    /\ call' = IF UseCandidateIndex THEN "codes" ELSE "dense"
    /\ dense' = {}
    /\ UNCHANGED <<setting, available, planned, executing, layer, variant, found, reads,
                   fallback, kinds>>

(* The codes kept in SQL; an error or the cardinality cap gives no hits.   *)
SearchCodes ==
    /\ Searching /\ call = "codes"
    /\ \E hits \in {TRUE, FALSE} :
          /\ hits => InSql
          /\ dense' = IF hits THEN {"codes"} ELSE {}
    /\ reads' = reads \cup {<<layer, variant, "codes">>}
    /\ call' = "dense"
    /\ UNCHANGED <<setting, available, planned, executing, layer, variant, found,
                   fallback, kinds>>

DenseAsked == dense = {} /\ setting.denseInQdrant /\ available

SearchDense ==
    /\ Searching /\ call = "dense"
    /\ IF DenseAsked
       THEN \/ dense' = (IF InQdrant THEN {"dense"} ELSE {}) /\ UNCHANGED available
            \/ dense' = {} /\ available' = FALSE
       ELSE UNCHANGED <<dense, available>>
    /\ call' = "sparse"
    /\ UNCHANGED <<setting, planned, executing, layer, variant, found, reads,
                   fallback, kinds>>

(***************************************************************************)
(* When SQL is scanned: sparse are Qdrant's sparse hits, tried says that   *)
(* Qdrant was asked for them.  Chunks are scanned whenever there are no    *)
(* sparse hits; the other layers when Qdrant was not asked; every layer    *)
(* when there are no hits at all.  Only with the original question.        *)
(***************************************************************************)
ScansSql(sparse, tried) ==
    /\ AllowLocal
    /\ sparse = {}
    /\ Layers[layer] = "chunk" \/ ~tried \/ dense = {}

Hits(sparse, tried) ==
    dense \cup sparse \cup (IF ScansSql(sparse, tried) /\ InSql THEN {"local"} ELSE {})

VariantFound(sparse, tried) ==
    /\ found' = [found EXCEPT ![layer] =
          [v \in DOMAIN @ \cup {variant} |->
              IF v = variant THEN Hits(sparse, tried) ELSE @[v]]]
    /\ reads' = IF ScansSql(sparse, tried)
                THEN reads \cup {<<layer, variant, "rows">>} ELSE reads
    /\ variant' = variant + 1
    /\ call' = "begin" /\ dense' = {}

SearchSparse ==
    /\ Searching /\ call = "sparse"
    /\ IF available
       THEN \/ UNCHANGED available
               /\ VariantFound(IF InQdrant THEN {"sparse"} ELSE {}, TRUE)
            \/ available' = FALSE /\ VariantFound({}, TRUE)
       ELSE UNCHANGED available /\ VariantFound({}, FALSE)
    /\ UNCHANGED <<setting, planned, executing, layer, fallback, kinds>>

(* Mutant of Truncated: the plan is kept when Qdrant has failed.           *)
NeverTruncated == FALSE

(* After each layer: with Qdrant gone, only the original goes on.          *)
Truncated == executing > 1 /\ ~available

EndLayer ==
    /\ Searching /\ call = "begin"
    /\ variant = executing \/ (variant > 0 /\ ~available)
    /\ executing' = IF Truncated THEN 1 ELSE executing
    /\ fallback' = (fallback \/ variant < executing \/ Truncated)
    /\ layer' = layer + 1 /\ variant' = 0
    /\ call' = IF layer = Len(Layers) THEN "visual" ELSE "begin"
    /\ UNCHANGED <<setting, available, planned, dense, found, reads, kinds>>

(* Visual pages, in visual mode.                                           *)
SearchVisualPages ==
    /\ call = "visual"
    /\ kinds' \in {{}} \cup {k \in {{"visual_page"}} : setting.mode = "visual"}
    /\ call' = "found"
    /\ UNCHANGED <<setting, available, planned, executing, layer, variant, dense, found,
                   reads, fallback>>

(* search returns the hits of the layers that found something and of the   *)
(* pages; in multi-hop mode, the relations of the propositions found too.  *)
(* What else it held is gone.                                              *)
FoundIn(l) == \E v \in DOMAIN found[l] : found[l][v] # {}

SearchReturned ==
    /\ call = "found"
    /\ call' = "returned" /\ layer' = 1 /\ variant' = 0
    /\ found' = Nothing /\ reads' = {}
    /\ planned' = 1 /\ executing' = 1
    /\ setting' = [setting EXCEPT !.rows = {}, !.points = {}, !.denseInQdrant = TRUE]
    /\ available' = TRUE /\ fallback' = FALSE
    /\ kinds' = kinds \cup {Layers[l] : l \in {k \in 1..Len(Layers) : FoundIn(k)}}
                 \cup {k \in {"graph_edge"} : setting.mode = "multi_hop" /\ FoundIn(2)}
    /\ UNCHANGED dense

HybridNext ==
    \/ BeginVariant \/ SearchCodes \/ SearchDense \/ SearchSparse
    \/ EndLayer \/ SearchVisualPages \/ SearchReturned

HybridSpec == HybridInit /\ [][HybridNext]_hybridVars

-----------------------------------------------------------------------------
SearchEnded == call = "found"

Searched(l) == DOMAIN found[l]

HybridTypeOK ==
    /\ setting \in Settings
    /\ available \in BOOLEAN /\ fallback \in BOOLEAN
    /\ planned \in 1..MaxVariants /\ executing \in 1..planned
    /\ layer \in 1..(Len(Layers) + 1) /\ variant \in 0..MaxVariants
    /\ call \in {"begin", "codes", "dense", "sparse", "visual", "found", "returned"}
    /\ dense \subseteq Backends
    /\ kinds \subseteq {"chunk", "proposition", "summary", "visual_page", "graph_edge"}
    /\ \A l \in 1..Len(Layers) :
          Searched(l) \subseteq 0..(MaxVariants - 1) /\ \A v \in Searched(l) : found[l][v] \subseteq Backends
    /\ reads \subseteq (1..Len(Layers)) \X (0..(MaxVariants - 1)) \X {"codes", "rows"}

(***************************************************************************)
(* A question with facets never multiplies the work of SQL: wherever       *)
(* Qdrant fails, a layer's rows are scanned for the original question      *)
(* only, and so are its codes when dense vectors live in Qdrant.           *)
(***************************************************************************)
ScansAreOriginal ==
    \A r \in reads : r[2] = 0 \/ (r[3] = "codes" /\ ~setting.denseInQdrant)

(***************************************************************************)
(* Degraded, not empty: wherever Qdrant fails, a layer with matching rows  *)
(* gives hits to the original question.                                    *)
(***************************************************************************)
DegradedNotEmpty ==
    \A l \in setting.rows :
        l < layer => 0 \in Searched(l) /\ found[l][0] # {}

(***************************************************************************)
(* The variants the evidence names as executed have been searched in every *)
(* layer, and a planned variant that a layer was not searched with is      *)
(* accounted for by the fallback reason.                                   *)
(***************************************************************************)
ExecutedEverywhere ==
    SearchEnded => \A l \in 1..Len(Layers) :
        /\ 0..(executing - 1) \subseteq Searched(l)
        /\ fallback \/ Searched(l) = 0..(planned - 1)

(* A Qdrant that fails in the middle of a question (_qdrant_available)     *)
(* neither empties the answer nor multiplies the work, and is accounted    *)
(* for.                                                                    *)
QdrantFailureIsContained == ScansAreOriginal /\ DegradedNotEmpty /\ ExecutedEverywhere

=============================================================================
