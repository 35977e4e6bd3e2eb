--------------------------- MODULE AnsweringProofs ---------------------------
(***************************************************************************)
(* Theorems about Answering, for any number of variants, any modes,        *)
(* corpora, drafts and opinions of the judge, and about Chunking, which    *)
(* makes the texts that answers are packed from, for any documents and     *)
(* budgets.                                                                *)
(***************************************************************************)
EXTENDS Answering, Chunking, ListTheorems

-----------------------------------------------------------------------------
(* The search: whenever Qdrant fails during a question, the answer is      *)
(* neither empty nor searched for several times in SQL, and the failure is *)
(* accounted for.                                                          *)

(* Where the search stands: the layers behind it have been searched with   *)
(* every executed variant, the present one up to the present variant.      *)
Place ==
    /\ call \in {"begin", "codes", "dense", "sparse", "returned"} => layer <= 3
    /\ call \in {"visual", "found"} => layer = 4 /\ variant = 0
    /\ variant <= executing
    /\ call \in {"codes", "dense", "sparse"} => variant < executing

Progress ==
    /\ \A l \in 1..3 : l < layer =>
          /\ 0..(executing - 1) \subseteq Searched(l)
          /\ fallback \/ Searched(l) = 0..(planned - 1)
    /\ \A l \in 1..3 : l = layer => Searched(l) = 0..(variant - 1)
    /\ \A l \in 1..3 : l > layer => Searched(l) = {}

(* While Qdrant answers, the plan is executed; afterwards it is shortened, *)
(* and that is noted.                                                      *)
Shortened ==
    /\ available => executing = planned
    /\ fallback \/ executing = planned

(* The original question has found what SQL has.                           *)
OriginalFound ==
    \A l \in 1..3 : l \in setting.rows /\ 0 \in Searched(l) => found[l][0] # {}

(* A facet asks the codes only where they are the index.                   *)
CodesOfOriginal == call = "codes" => variant = 0 \/ ~setting.denseInQdrant

HybridInv ==
    /\ HybridTypeOK
    /\ DOMAIN found = 1..3
    /\ Place /\ Progress /\ Shortened /\ OriginalFound
    /\ CodesOfOriginal /\ ScansAreOriginal

-----------------------------------------------------------------------------
(* There are three layers.                                                 *)
LEMMA ThreeLayers == Len(Layers) = 3
BY DEF Layers

(* What the search has done so far depends on these variables only.        *)
LEMMA SameProgress ==
    ASSUME HybridInv, UNCHANGED <<setting, planned, executing, layer, variant, found, fallback>>,
           available' \in BOOLEAN, available' => available
    PROVE  /\ DOMAIN found' = 1..3
           /\ Progress' /\ Shortened' /\ OriginalFound'
BY DEF HybridInv, Progress, Shortened, OriginalFound, Searched

(* The beginning of a variant chooses where to ask for dense hits.         *)
LEMMA BeginKeeps == ASSUME HybridInv, BeginVariant PROVE HybridInv'
<1>1. UNCHANGED <<setting, available, planned, executing, layer, variant, found, reads,
                  fallback, kinds>>
      /\ dense' = {} /\ call' \in {"codes", "dense"} /\ layer <= 3 /\ variant < executing
  BY ThreeLayers DEF BeginVariant, Searching
<1>2. HybridTypeOK'
  BY <1>1 DEF HybridInv, HybridTypeOK, Searched
<1>3. Place'
  BY <1>1 DEF HybridInv, Place
<1>4. CodesOfOriginal'
  BY <1>1 DEF BeginVariant, UseCandidateIndex, CodesOfOriginal
<1>5. ScansAreOriginal'
  BY <1>1 DEF HybridInv, ScansAreOriginal
<1>6. DOMAIN found' = 1..3 /\ Progress' /\ Shortened' /\ OriginalFound'
  BY <1>1, SameProgress DEF HybridInv, HybridTypeOK
<1>7. QED
  BY <1>2, <1>3, <1>4, <1>5, <1>6 DEF HybridInv

(* A reading of the codes is one of the original question, or they are the *)
(* index.                                                                  *)
LEMMA CodesKeep == ASSUME HybridInv, SearchCodes PROVE HybridInv'
<1>1. /\ UNCHANGED <<setting, available, planned, executing, layer, variant, found,
                    fallback, kinds>>
      /\ dense' \subseteq {"codes"} /\ call = "codes" /\ call' = "dense"
      /\ reads' = reads \cup {<<layer, variant, "codes">>} /\ layer <= 3
  BY ThreeLayers DEF SearchCodes, Searching
<1>2. variant < executing /\ layer \in 1..3 /\ variant \in 0..(MaxVariants - 1)
  BY <1>1, ThreeLayers, SearchAssumption DEF HybridInv, Place, HybridTypeOK
<1>3. reads' \subseteq (1..3) \X (0..(MaxVariants - 1)) \X {"codes", "rows"}
  BY <1>1, <1>2, ThreeLayers DEF HybridInv, HybridTypeOK
<1>4. HybridTypeOK'
  BY <1>1, <1>3, ThreeLayers DEF HybridInv, HybridTypeOK, Searched, Backends
<1>5. Place'
  BY <1>1, <1>2 DEF HybridInv, Place
<1>6. ScansAreOriginal'
  <2>1. variant = 0 \/ ~setting.denseInQdrant
    BY <1>1 DEF HybridInv, CodesOfOriginal
  <2>2. QED
    BY <1>1, <2>1 DEF HybridInv, ScansAreOriginal
<1>7. CodesOfOriginal'
  BY <1>1 DEF CodesOfOriginal
<1>8. DOMAIN found' = 1..3 /\ Progress' /\ Shortened' /\ OriginalFound'
  BY <1>1, SameProgress DEF HybridInv, HybridTypeOK
<1>9. QED
  BY <1>4, <1>5, <1>6, <1>7, <1>8 DEF HybridInv

(* The dense call may be the one that fails.                               *)
LEMMA DenseKeeps == ASSUME HybridInv, SearchDense PROVE HybridInv'
<1>1. /\ UNCHANGED <<setting, planned, executing, layer, variant, found, reads,
                    fallback, kinds>>
      /\ dense' \subseteq dense \cup {"dense"} /\ call = "dense" /\ call' = "sparse"
      /\ available' \in BOOLEAN /\ (available' => available)
  BY DEF SearchDense, HybridInv, HybridTypeOK
<1>2. HybridTypeOK'
  BY <1>1 DEF HybridInv, HybridTypeOK, Searched, Backends
<1>3. Place' /\ CodesOfOriginal' /\ ScansAreOriginal'
  BY <1>1 DEF HybridInv, Place, CodesOfOriginal, ScansAreOriginal
<1>4. DOMAIN found' = 1..3 /\ Progress' /\ Shortened' /\ OriginalFound'
  BY <1>1, SameProgress
<1>5. QED
  BY <1>2, <1>3, <1>4 DEF HybridInv

(* The variant is done: what it found is kept, SQL was scanned for the     *)
(* original question at most, and the original has hits if SQL has rows.   *)
LEMMA FoundKeeps ==
    ASSUME HybridInv, call = "sparse",
           NEW sparse \in SUBSET Backends, NEW tried \in BOOLEAN, VariantFound(sparse, tried),
           UNCHANGED <<setting, planned, executing, layer, fallback, kinds>>,
           available' \in BOOLEAN, available' => available
    PROVE  HybridInv'
<1>1. /\ layer \in 1..3 /\ variant \in 0..(MaxVariants - 1) /\ variant < executing
      /\ executing \in Nat /\ planned \in Nat
  BY ThreeLayers, SearchAssumption DEF HybridInv, Place, HybridTypeOK
<1>2. /\ variant' = variant + 1 /\ call' = "begin" /\ dense' = {}
      /\ reads' \subseteq reads \cup {<<layer, 0, "rows">>}
      /\ reads' \subseteq reads \cup {<<layer, variant, "rows">>}
  BY <1>1 DEF VariantFound, ScansSql, AllowLocal
<1>3. /\ DOMAIN found' = 1..3
      /\ \A l \in 1..3 : l # layer => found'[l] = found[l]
      /\ DOMAIN found'[layer] = Searched(layer) \cup {variant}
      /\ \A v \in Searched(layer) \cup {variant} :
            found'[layer][v] = IF v = variant THEN Hits(sparse, tried) ELSE found[layer][v]
  BY <1>1 DEF VariantFound, HybridInv, Searched
<1>4. Hits(sparse, tried) \subseteq Backends
  BY DEF Hits, HybridInv, HybridTypeOK, Backends
<1>5. ASSUME NEW l \in 1..3
      PROVE  /\ DOMAIN found'[l] \subseteq 0..(MaxVariants - 1)
             /\ \A v \in DOMAIN found'[l] : found'[l][v] \subseteq Backends
  <2>1. Searched(l) \subseteq 0..(MaxVariants - 1)
        /\ \A v \in Searched(l) : found[l][v] \subseteq Backends
    BY ThreeLayers DEF HybridInv, HybridTypeOK
  <2>2. CASE l # layer
    BY <1>3, <2>1, <2>2 DEF Searched
  <2>3. CASE l = layer
    BY <1>1, <1>3, <1>4, <2>1, <2>3
  <2>4. QED
    BY <2>2, <2>3
<1>6. reads' \subseteq (1..3) \X (0..(MaxVariants - 1)) \X {"codes", "rows"}
  BY <1>1, <1>2, ThreeLayers DEF HybridInv, HybridTypeOK
<1>7. HybridTypeOK'
  BY <1>1, <1>2, <1>5, <1>6, ThreeLayers, SearchAssumption
  DEF HybridInv, HybridTypeOK, Searched
<1>8. Place'
  BY <1>1, <1>2 DEF HybridInv, Place
<1>9. Progress'
  <2>1. Searched(layer)' = 0..(variant' - 1)
    BY <1>1, <1>2, <1>3 DEF HybridInv, Progress, Searched
  <2>2. \A l \in 1..3 : l # layer => Searched(l)' = Searched(l)
    BY <1>3 DEF Searched
  <2>3. QED
    BY <1>1, <2>1, <2>2 DEF HybridInv, Progress
<1>10. OriginalFound'
  <2> SUFFICES ASSUME NEW l \in 1..3, l \in setting.rows, 0 \in DOMAIN found'[l]
               PROVE  found'[l][0] # {}
    BY DEF OriginalFound, Searched
  <2>1. CASE l # layer \/ variant # 0
    BY <1>1, <1>3, <2>1 DEF HybridInv, OriginalFound, Searched
  <2>2. CASE l = layer /\ variant = 0
    <3>1. found'[l][0] = Hits(sparse, tried)
      BY <1>3, <2>2
    <3>2. Hits(sparse, tried) # {}
      BY <2>2 DEF Hits, ScansSql, AllowLocal, InSql
    <3>3. QED
      BY <3>1, <3>2
  <2>3. QED
    BY <2>1, <2>2
<1>11. Shortened' /\ CodesOfOriginal'
  BY <1>2 DEF HybridInv, Shortened, CodesOfOriginal
<1>12. ScansAreOriginal'
  BY <1>2 DEF HybridInv, ScansAreOriginal
<1>13. QED
  BY <1>3, <1>7, <1>8, <1>9, <1>10, <1>11, <1>12 DEF HybridInv

(* The end of a layer: with Qdrant gone only the original goes on.         *)
LEMMA EndKeeps == ASSUME HybridInv, EndLayer PROVE HybridInv'
<1>1. /\ layer \in 1..3 /\ variant \in Nat /\ planned \in 1..MaxVariants /\ executing \in 1..planned
      /\ MaxVariants \in Nat /\ call = "begin"
  BY ThreeLayers, SearchAssumption DEF HybridInv, HybridTypeOK, EndLayer, Searching
<1>2. /\ UNCHANGED <<setting, available, planned, dense, found, reads, kinds>>
      /\ layer' = layer + 1 /\ variant' = 0
      /\ call' = IF layer = 3 THEN "visual" ELSE "begin"
      /\ executing' = IF Truncated THEN 1 ELSE executing
      /\ fallback' = (fallback \/ variant < executing \/ Truncated)
      /\ variant = executing \/ (variant > 0 /\ ~available)
  BY ThreeLayers DEF EndLayer
<1>3. executing' \in 1..executing /\ executing' \in 1..planned
  BY <1>1, <1>2
<1>4. HybridTypeOK'
  BY <1>1, <1>2, <1>3, ThreeLayers DEF HybridInv, HybridTypeOK, Searched
<1>5. Place'
  BY <1>1, <1>2, <1>3 DEF Place
<1>6. Shortened'
  BY <1>1, <1>2 DEF HybridInv, Shortened, Truncated
<1>7. Progress'
  <2>1. \A l \in 1..3 : Searched(l)' = Searched(l)
    BY <1>2 DEF Searched
  <2>2. Searched(layer) = 0..(variant - 1)
    BY <1>1 DEF HybridInv, Progress
  <2>3. executing' <= variant
    BY <1>1, <1>2 DEF Truncated, HybridInv, Shortened, Place
  <2>4. fallback' \/ variant = planned
    <3>1. fallback \/ variant < executing => fallback'
      BY <1>2
    <3>2. variant <= executing /\ (fallback \/ executing = planned)
      BY DEF HybridInv, Place, Shortened
    <3>3. variant < executing \/ variant = executing
      BY <1>1, <3>2
    <3>4. QED
      BY <3>1, <3>2, <3>3
  <2>5. ASSUME NEW l \in 1..3, l < layer'
        PROVE  /\ 0..(executing' - 1) \subseteq Searched(l)'
               /\ fallback' \/ Searched(l)' = 0..(planned' - 1)
    <3>1. CASE l = layer
      BY <1>1, <1>2, <1>3, <2>1, <2>2, <2>3, <2>4, <3>1
    <3>2. CASE l # layer
      <4>1. l < layer
        BY <1>1, <1>2, <2>5, <3>2
      <4>2. 0..(executing - 1) \subseteq Searched(l) /\ (fallback \/ Searched(l) = 0..(planned - 1))
        BY <4>1 DEF HybridInv, Progress
      <4>3. 0..(executing' - 1) \subseteq 0..(executing - 1)
        <5>1. planned \in Nat
          BY <1>1
        <5>2. executing \in Nat
          BY <1>1, <5>1
        <5>3. executing' \in Nat /\ executing' <= executing
          BY <1>3, <5>2
        <5>4. \A a, b \in Nat : a <= b => 0..(a - 1) \subseteq 0..(b - 1)
          OBVIOUS
        <5>5. QED
          BY <5>2, <5>3, <5>4
      <4>4. fallback => fallback'
        BY <1>2
      <4>5. Searched(l)' = Searched(l) /\ planned' = planned
        BY <1>2, <2>1
      <4>6. QED
        BY <4>2, <4>3, <4>4, <4>5
    <3>3. QED
      BY <3>1, <3>2
  <2>6. ASSUME NEW l \in 1..3, l >= layer' PROVE Searched(l)' = {}
    BY <1>1, <1>2, <2>1, <2>6 DEF HybridInv, Progress
  <2>7. 0..(variant' - 1) = {}
    BY <1>2
  <2>8. QED
    BY <1>1, <1>2, <2>5, <2>6, <2>7 DEF Progress
<1>8. OriginalFound' /\ DOMAIN found' = 1..3
  BY <1>2 DEF HybridInv, OriginalFound, Searched
<1>9. CodesOfOriginal' /\ ScansAreOriginal'
  BY <1>2 DEF HybridInv, CodesOfOriginal, ScansAreOriginal
<1>10. QED
  BY <1>4, <1>5, <1>6, <1>7, <1>8, <1>9 DEF HybridInv

(* The pages come after the last layer.                                    *)
LEMMA PagesKeep == ASSUME HybridInv, SearchVisualPages PROVE HybridInv'
<1>1. /\ UNCHANGED <<setting, available, planned, executing, layer, variant, dense, found,
                    reads, fallback>>
      /\ call = "visual" /\ call' = "found" /\ kinds' \subseteq {"visual_page"}
  BY DEF SearchVisualPages
<1>2. HybridTypeOK'
  BY <1>1 DEF HybridInv, HybridTypeOK, Searched
<1>3. Place' /\ CodesOfOriginal' /\ ScansAreOriginal'
  BY <1>1 DEF HybridInv, Place, CodesOfOriginal, ScansAreOriginal
<1>4. DOMAIN found' = 1..3 /\ Progress' /\ Shortened' /\ OriginalFound'
  BY <1>1, SameProgress DEF HybridInv, HybridTypeOK
<1>5. QED
  BY <1>2, <1>3, <1>4 DEF HybridInv

(* Nothing has been found before the first call.                           *)
LEMMA NothingFound ==
    /\ DOMAIN Nothing = 1..3
    /\ \A l \in 1..3 : DOMAIN Nothing[l] = {}
BY ThreeLayers DEF Nothing

(* A search that has returned holds nothing.                               *)
LEMMA ReturnKeeps == ASSUME HybridInv, SearchReturned PROVE HybridInv'
<1>1. /\ call = "found" /\ call' = "returned" /\ layer' = 1 /\ variant' = 0
      /\ found' = Nothing /\ reads' = {} /\ planned' = 1 /\ executing' = 1
      /\ setting' = [setting EXCEPT !.rows = {}, !.points = {}, !.denseInQdrant = TRUE]
      /\ available' = TRUE /\ fallback' = FALSE /\ UNCHANGED dense
  BY DEF SearchReturned
<1>2. kinds' \subseteq {"chunk", "proposition", "summary", "visual_page", "graph_edge"}
  <2>1. \A l \in 1..3 : Layers[l] \in {"chunk", "proposition", "summary"}
    BY DEF Layers
  <2>2. kinds' \subseteq kinds \cup {Layers[l] : l \in 1..3} \cup {"graph_edge"}
    BY ThreeLayers DEF SearchReturned
  <2>3. QED
    BY <2>1, <2>2 DEF HybridInv, HybridTypeOK
<1>3. setting' \in Settings /\ setting'.rows = {}
  BY <1>1 DEF HybridInv, HybridTypeOK, Settings
<1>4. HybridTypeOK'
  <2>1. \A l \in 1..Len(Layers) : Searched(l)' = {}
    BY <1>1, NothingFound, ThreeLayers DEF Searched
  <2>2. /\ planned' \in 1..MaxVariants /\ executing' \in 1..planned'
        /\ layer' \in 1..(Len(Layers) + 1) /\ variant' \in 0..MaxVariants
    BY <1>1, ThreeLayers, SearchAssumption
  <2>3. available' \in BOOLEAN /\ fallback' \in BOOLEAN /\ dense' \subseteq Backends
    BY <1>1 DEF HybridInv, HybridTypeOK
  <2>4. QED
    BY <1>1, <1>2, <1>3, <2>1, <2>2, <2>3 DEF HybridTypeOK
<1>5. Place' /\ Shortened' /\ CodesOfOriginal' /\ ScansAreOriginal'
  BY <1>1 DEF Place, Shortened, CodesOfOriginal, ScansAreOriginal
<1>6. Progress' /\ OriginalFound' /\ DOMAIN found' = 1..3
  BY <1>1, <1>3, NothingFound DEF Progress, OriginalFound, Searched
<1>7. QED
  BY <1>4, <1>5, <1>6 DEF HybridInv

(* It holds when the search begins.                                        *)
LEMMA HybridInvInit == HybridInit => HybridInv
<1> SUFFICES ASSUME HybridInit PROVE HybridInv
  OBVIOUS
<1>1. /\ setting \in Settings /\ available \in BOOLEAN /\ planned \in 1..MaxVariants
      /\ executing = IF available THEN planned ELSE 1
      /\ fallback = (planned > 1 /\ ~available)
      /\ layer = 1 /\ variant = 0 /\ call = "begin" /\ dense = {}
      /\ found = Nothing /\ reads = {} /\ kinds = {}
  BY SearchAssumption DEF HybridInit
<1>2. HybridTypeOK
  BY <1>1, NothingFound, ThreeLayers, SearchAssumption DEF HybridTypeOK, Searched
<1>3. Place /\ Shortened /\ CodesOfOriginal /\ ScansAreOriginal
  <2>1. planned \in Nat \ {0}
    BY <1>1, SearchAssumption
  <2>2. planned = 1 \/ planned > 1
    BY <2>1
  <2>3. Shortened
    BY <1>1, <2>2 DEF Shortened
  <2>4. executing \in Nat \ {0}
    BY <1>1, <2>1
  <2>5. Place
    BY <1>1, <2>4 DEF Place
  <2>6. QED
    BY <1>1, <2>3, <2>5 DEF CodesOfOriginal, ScansAreOriginal
<1>4. Progress /\ OriginalFound /\ DOMAIN found = 1..3
  BY <1>1, NothingFound DEF Progress, OriginalFound, Searched
<1>5. QED
  BY <1>2, <1>3, <1>4 DEF HybridInv

(* Every call keeps it.                                                    *)
LEMMA HybridInvStep == HybridInv /\ [HybridNext]_hybridVars => HybridInv'
<1> SUFFICES ASSUME HybridInv, [HybridNext]_hybridVars PROVE HybridInv'
  OBVIOUS
<1>1. CASE SearchSparse
  <2>1. call = "sparse" /\ UNCHANGED <<setting, planned, executing, layer, fallback, kinds>>
    BY <1>1 DEF SearchSparse
  <2>2. {} \in SUBSET Backends /\ {"sparse"} \in SUBSET Backends
    BY DEF Backends
  <2>3. PICK sparse \in SUBSET Backends, tried \in BOOLEAN :
           VariantFound(sparse, tried) /\ available' \in BOOLEAN /\ (available' => available)
    BY <1>1, <2>2 DEF SearchSparse, HybridInv, HybridTypeOK
  <2>4. QED
    BY <2>1, <2>3, FoundKeeps
<1>2. CASE UNCHANGED hybridVars
  <2>1. UNCHANGED <<setting, available, planned, executing, layer, variant, call, dense,
                    found, reads, fallback, kinds>>
    BY <1>2 DEF hybridVars, callVars
  <2>2. QED
    BY <2>1 DEF HybridInv, HybridTypeOK, Place, Progress, Shortened, OriginalFound,
                CodesOfOriginal, ScansAreOriginal, Searched
<1>3. QED
  BY <1>1, <1>2, BeginKeeps, CodesKeep, DenseKeeps, EndKeeps, PagesKeep, ReturnKeeps
  DEF HybridNext

(* A Qdrant that fails in any call of a question, for any number of        *)
(* variants: the original question still gets the hits that SQL has, no    *)
(* facet is scanned for in SQL, and variants that were not searched in     *)
(* every layer are not named as executed.                                  *)
THEOREM FailureContained == HybridSpec => []QdrantFailureIsContained
<1>1. HybridInv => QdrantFailureIsContained
  <2> SUFFICES ASSUME HybridInv PROVE QdrantFailureIsContained
    OBVIOUS
  <2>1. layer \in 1..4 /\ setting.rows \subseteq 1..3 /\ executing \in Nat \ {0}
    BY ThreeLayers DEF HybridInv, HybridTypeOK, Settings
  <2>2. DegradedNotEmpty
    <3> SUFFICES ASSUME NEW l \in setting.rows, l < layer
                 PROVE  0 \in Searched(l) /\ found[l][0] # {}
      BY DEF DegradedNotEmpty
    <3>1. l \in 1..3 /\ 0 \in 0..(executing - 1)
      BY <2>1
    <3>2. 0 \in Searched(l)
      BY <3>1 DEF HybridInv, Progress
    <3>3. QED
      BY <3>1, <3>2 DEF HybridInv, OriginalFound
  <2>3. ExecutedEverywhere
    <3> SUFFICES ASSUME call = "found", NEW l \in 1..3
                 PROVE  /\ 0..(executing - 1) \subseteq Searched(l)
                        /\ fallback \/ Searched(l) = 0..(planned - 1)
      BY ThreeLayers DEF ExecutedEverywhere, SearchEnded
    <3>1. l < layer
      BY DEF HybridInv, Place
    <3>2. QED
      BY <3>1 DEF HybridInv, Progress
  <2>4. QED
    BY <2>2, <2>3 DEF HybridInv, QdrantFailureIsContained
<1>2. QED
  BY <1>1, HybridInvInit, HybridInvStep, PTL DEF HybridSpec



-----------------------------------------------------------------------------
(* The evidence pack.                                                      *)

(* Ordering places by three numbers, the greatest first, and equals by     *)
(* their places.                                                           *)
Outranks(a, b, c, i, j) ==
    \/ a[i] > a[j]
    \/ a[i] = a[j] /\ b[i] > b[j]
    \/ a[i] = a[j] /\ b[i] = b[j] /\ c[i] > c[j]

Ahead(a, b, c, D) ==
    {p \in D \X D : \/ Outranks(a, b, c, p[1], p[2])
                    \/ p[1] < p[2] /\ ~Outranks(a, b, c, p[2], p[1])}

(* Such an ordering is total.                                              *)
LEMMA AheadIsTotal ==
    ASSUME NEW D \in SUBSET Nat, NEW a \in [D -> Int], NEW b \in [D -> Int], NEW c \in [D -> Int]
    PROVE  StrictTotalOrder(Ahead(a, b, c, D), D)
<1> DEFINE R == Ahead(a, b, c, D)
           less(x, y) == \/ Outranks(a, b, c, x, y)
                         \/ x < y /\ ~Outranks(a, b, c, y, x)
<1>1. \A x, y \in D : <<x, y>> \in R <=> less(x, y)
  BY DEF Ahead
<1>2. ASSUME NEW x \in D PROVE ~less(x, x)
  BY DEF Outranks
<1>3. ASSUME NEW x \in D, NEW y \in D, x # y PROVE less(x, y) \/ less(y, x)
  BY <1>3 DEF Outranks
<1>4. ASSUME NEW x \in D, NEW y \in D, NEW z \in D, less(x, y), less(y, z) PROVE less(x, z)
  <2>1. /\ x \in Nat /\ y \in Nat /\ z \in Nat
        /\ a[x] \in Int /\ a[y] \in Int /\ a[z] \in Int
        /\ b[x] \in Int /\ b[y] \in Int /\ b[z] \in Int
        /\ c[x] \in Int /\ c[y] \in Int /\ c[z] \in Int
    OBVIOUS
  <2> QED
    BY <1>4, <2>1 DEF Outranks
<1> HIDE DEF R, less
<1>5. /\ \A x \in D : <<x, x>> \notin R
      /\ \A x, y \in D : x # y => <<x, y>> \in R \/ <<y, x>> \in R
      /\ \A x, y, z \in D : <<x, y>> \in R /\ <<y, z>> \in R => <<x, z>> \in R
  BY <1>1, <1>2, <1>3, <1>4
<1> QED
  BY <1>5 DEF StrictTotalOrder, R

(* Scores and sizes of items are numbers.                                  *)
Measured(S) == \A item \in S : item.score \in Int /\ item.tokens \in Nat

(* The usefulness of an item is a number.                                  *)
LEMMA UtilityIsInt ==
    ASSUME NEW mode, NEW item, item.score \in Int
    PROVE  Utility(mode, item) \in Int
<1>1. QualityWeight(item.kind) \in Int
  BY DEF QualityWeight
<1>2. RouteBonus(mode, item.kind) \in Int
  BY DEF RouteBonus
<1>3. item.score * QualityWeight(item.kind) \in Int
  <2> DEFINE x == item.score
             y == QualityWeight(item.kind)
  <2>1. x \in Int /\ y \in Int
    BY <1>1
  <2> HIDE DEF x, y
  <2>2. x * y \in Int
    BY <2>1
  <2> QED
    BY <2>2 DEF x, y
<1> QED
  BY <1>2, <1>3 DEF Utility

(* The sort by utility loses and invents nothing.                          *)
LEMMA OrderKeepsItems ==
    ASSUME NEW S, NEW items \in Seq(S), Measured(S), NEW mode
    PROVE  /\ OrderItems(mode, items) \in Seq(S)
           /\ Len(OrderItems(mode, items)) = Len(items)
           /\ \A k \in DOMAIN items : \E i \in DOMAIN items :
                  OrderItems(mode, items)[k] = items[i]
<1> DEFINE D == DOMAIN items
           a == [i \in D |-> Utility(mode, items[i])]
           b == [i \in D |-> items[i].score]
           c == [i \in D |-> IF items[i].doc # None THEN 1 ELSE 0]
           R == Ahead(a, b, c, D)
           Standing(i) == Cardinality({j \in D :
                           MoreUseful(mode, items[j], items[i])
                           \/ (j < i /\ ~MoreUseful(mode, items[i], items[j]))}) + 1
<1>1. D = 1..Len(items) /\ Len(items) \in Nat
  OBVIOUS
<1>2. a \in [D -> Int] /\ b \in [D -> Int] /\ c \in [D -> Int]
  <2>1. \A i \in D : items[i] \in S
    OBVIOUS
  <2> QED
    BY <2>1, UtilityIsInt DEF Measured
<1>3. \A i, j \in D : MoreUseful(mode, items[i], items[j]) <=> Outranks(a, b, c, i, j)
  BY DEF MoreUseful, Outranks
<1>4. IsFiniteSet(D) /\ Cardinality(D) = Len(items) /\ D \in SUBSET Nat
  BY <1>1, FS_Interval
<1> HIDE DEF a, b, c
<1>5. StrictTotalOrder(R, D)
  BY <1>2, <1>4, AheadIsTotal
<1>6. \A i \in D : Standing(i) = Cardinality(Before(R, D, i)) + 1
  <2> SUFFICES ASSUME NEW i \in D
               PROVE  {j \in D : MoreUseful(mode, items[j], items[i])
                                 \/ (j < i /\ ~MoreUseful(mode, items[i], items[j]))}
                      = Before(R, D, i)
    OBVIOUS
  <2> QED
    BY <1>3 DEF Before, Ahead
<1> HIDE DEF R
<1>7. \A n \in 0..(Cardinality(D) - 1) : \E i \in D : Cardinality(Before(R, D, i)) = n
  BY <1>4, <1>5, RankExists
<1>8. \A k \in D : \E i \in D : Standing(i) = k
  <2> SUFFICES ASSUME NEW k \in D PROVE \E i \in D : Cardinality(Before(R, D, i)) + 1 = k
    BY <1>6
  <2>1. k - 1 \in 0..(Cardinality(D) - 1)
    BY <1>1, <1>4
  <2>2. PICK i \in D : Cardinality(Before(R, D, i)) = k - 1
    BY <1>7, <2>1
  <2> QED
    BY <1>1, <2>2
<1>9. OrderItems(mode, items) = [k \in D |-> items[CHOOSE i \in D : Standing(i) = k]]
  BY DEF OrderItems, SortedBy
<1> HIDE DEF Standing
<1>10. \A k \in D : (CHOOSE i \in D : Standing(i) = k) \in D
  BY <1>8
<1>11. \A k \in D : \E i \in D : OrderItems(mode, items)[k] = items[i]
  BY <1>9, <1>10
<1>12. OrderItems(mode, items) \in Seq(S) /\ Len(OrderItems(mode, items)) = Len(items)
  <2> DEFINE picked(k) == CHOOSE i \in D : Standing(i) = k
             out == [k \in 1..Len(items) |-> items[picked(k)]]
  <2>1. OrderItems(mode, items) = out
    BY <1>1, <1>9
  <2>2. \A k \in 1..Len(items) : picked(k) \in D
    BY <1>1, <1>10
  <2> HIDE DEF picked
  <2>3. \A k \in 1..Len(items) : items[picked(k)] \in S
    BY <2>2
  <2>4. out \in [1..Len(items) -> S]
    BY <2>3
  <2> HIDE DEF out
  <2>5. out \in Seq(S) /\ Len(out) = Len(items)
    BY <1>1, <2>4
  <2> QED
    BY <2>1, <2>5
<1> QED
  BY <1>11, <1>12


(* A pass over a list: each item is left, or is new and joins those        *)
(* selected where it fits.                                                 *)
Tries(limits, kept, item, tried) ==
    \/ tried = kept
    \/ tried = TrySelect(limits, kept, item) /\ \A i \in DOMAIN kept : kept[i] # item

Passes(f, limits, start, items) ==
    /\ f[0] = start
    /\ \A k \in 1..Len(items) : Tries(limits, f[k - 1], items[k], f[k])

(* The first pass of the packing, one item of each document.               *)
LEMMA CoverIsPass ==
    ASSUME NEW S, NEW items \in Seq(S), NEW limits
    PROVE  \E f \in [0..Len(items) -> Seq(S)] :
               Passes(f, limits, <<>>, items) /\ CoverDocuments(limits, items) = f[Len(items)]
<1> DEFINE n == Len(items)
           wanted(kept, item) == Citable(item) /\ \A i \in DOMAIN kept : kept[i].doc # item.doc
           step(kept, item) == IF wanted(kept, item) THEN TrySelect(limits, kept, item) ELSE kept
           Kept == CHOOSE Kept : Kept = [k \in 0..Len(items) |->
                       IF k = 0 THEN <<>>
                       ELSE LET kept == Kept[k - 1]
                            IN  IF wanted(kept, items[k]) THEN TrySelect(limits, kept, items[k])
                                ELSE kept]
           tried == [x \in Seq(S) \X (1..n) |-> step(x[1], items[x[2]])]
<1>1. n \in Nat /\ <<>> \in Seq(S) /\ \A k \in 1..n : items[k] \in S
  OBVIOUS
<1>2. CoverDocuments(limits, items) = Kept[n]
  BY DEF CoverDocuments, Tried
<1>3. \A kept \in Seq(S), item \in S : wanted(kept, item) => \A i \in DOMAIN kept : kept[i] # item
  OBVIOUS
<1> HIDE DEF wanted, n
<1>4. \A kept \in Seq(S), item \in S : /\ Tries(limits, kept, item, step(kept, item))
                                       /\ step(kept, item) \in Seq(S)
  BY <1>3 DEF TrySelect, Tries
<1>5. tried \in [Seq(S) \X (1..n) -> Seq(S)]
  <2> HIDE DEF step
  <2> QED
    BY <1>1, <1>4
<1>6. \A k \in 1..n, kept \in Seq(S) : tried[<<kept, k>>] = step(kept, items[k])
  <2> HIDE DEF step
  <2> QED
    OBVIOUS
<1> HIDE DEF tried
<1>7. PICK f \in [0..n -> Seq(S)] : Obeys(f, n, <<>>, tried)
  BY <1>1, <1>5, RecursionExists
<1>8. ASSUME NEW k \in 0..n PROVE f[k] = IF k = 0 THEN <<>> ELSE step(f[k - 1], items[k])
  <2> HIDE DEF step
  <2>1. f[k] = IF k = 0 THEN <<>> ELSE tried[<<f[k - 1], k>>]
    BY <1>7 DEF Obeys
  <2>2. k # 0 => k \in 1..n /\ f[k - 1] \in Seq(S)
    BY <1>1, <1>7
  <2> QED
    BY <1>6, <2>1, <2>2
<1>9. f = [k \in 0..n |-> IF k = 0 THEN <<>> ELSE step(f[k - 1], items[k])]
  <2>1. f = [k \in 0..n |-> f[k]]
    BY <1>7
  <2> HIDE DEF step
  <2> QED
    BY <1>8, <2>1
<1>10. Kept = [k \in 0..n |-> IF k = 0 THEN <<>> ELSE step(Kept[k - 1], items[k])]
  BY <1>9 DEF n
<1> HIDE DEF Kept, step
<1> DEFINE T == {k \in 0..n : Kept[k] \in Seq(S)}
<1>11. Kept[0] = <<>>
  BY <1>1, <1>10
<1>12. ASSUME NEW k \in 1..n
       PROVE  k \in 0..n /\ k - 1 \in 0..n /\ Kept[k] = step(Kept[k - 1], items[k])
  <2>1. k \in 0..n /\ k # 0 /\ k - 1 \in 0..n
    BY <1>1
  <2> QED
    BY <1>10, <2>1
<1>13. 0..n \subseteq T
  <2>1. 0 \in T
    <3>1. Kept[0] \in Seq(S) /\ 0 \in 0..n
      BY <1>1, <1>11
    <3> QED
      BY <3>1
  <2>2. ASSUME NEW k \in 1..n, k - 1 \in T PROVE k \in T
    <3>1. Kept[k - 1] \in Seq(S) /\ items[k] \in S
      BY <1>1, <2>2
    <3>2. step(Kept[k - 1], items[k]) \in Seq(S)
      BY <1>4, <3>1
    <3> QED
      BY <1>12, <3>2
  <2> HIDE DEF T
  <2> QED
    BY <1>1, <2>1, <2>2, UpTo
<1>14. Kept \in [0..n -> Seq(S)]
  <2>1. Kept = [k \in 0..n |-> Kept[k]]
    BY <1>10
  <2> QED
    BY <1>13, <2>1
<1>15. Passes(Kept, limits, <<>>, items)
  <2>1. ASSUME NEW k \in 1..n PROVE Tries(limits, Kept[k - 1], items[k], Kept[k])
    <3>1. Kept[k - 1] \in Seq(S) /\ items[k] \in S
      BY <1>1, <1>12, <1>14
    <3> QED
      BY <1>4, <1>12, <3>1
  <2> QED
    BY <1>11, <2>1 DEF Passes, n
<1> QED
  BY <1>2, <1>14, <1>15 DEF n

(* The last pass of the packing, whatever fits.                            *)
LEMMA FillIsPass ==
    ASSUME NEW S, NEW items \in Seq(S), NEW limits, NEW start \in Seq(S)
    PROVE  \E f \in [0..Len(items) -> Seq(S)] :
               Passes(f, limits, start, items) /\ Fill(limits, start, items) = f[Len(items)]
<1> DEFINE n == Len(items)
           wanted(kept, item) == \A i \in DOMAIN kept : kept[i] # item
           step(kept, item) == IF wanted(kept, item) THEN TrySelect(limits, kept, item) ELSE kept
           Kept == CHOOSE Kept : Kept = [k \in 0..Len(items) |->
                       IF k = 0 THEN start
                       ELSE LET kept == Kept[k - 1]
                            IN  IF wanted(kept, items[k]) THEN TrySelect(limits, kept, items[k])
                                ELSE kept]
           tried == [x \in Seq(S) \X (1..n) |-> step(x[1], items[x[2]])]
<1>1. n \in Nat /\ start \in Seq(S) /\ \A k \in 1..n : items[k] \in S
  OBVIOUS
<1>2. Fill(limits, start, items) = Kept[n]
  BY DEF Fill, Tried
<1>3. \A kept \in Seq(S), item \in S : wanted(kept, item) => \A i \in DOMAIN kept : kept[i] # item
  OBVIOUS
<1> HIDE DEF wanted, n
<1>4. \A kept \in Seq(S), item \in S : /\ Tries(limits, kept, item, step(kept, item))
                                       /\ step(kept, item) \in Seq(S)
  BY <1>3 DEF TrySelect, Tries
<1>5. tried \in [Seq(S) \X (1..n) -> Seq(S)]
  <2> HIDE DEF step
  <2> QED
    BY <1>1, <1>4
<1>6. \A k \in 1..n, kept \in Seq(S) : tried[<<kept, k>>] = step(kept, items[k])
  <2> HIDE DEF step
  <2> QED
    OBVIOUS
<1> HIDE DEF tried
<1>7. PICK f \in [0..n -> Seq(S)] : Obeys(f, n, start, tried)
  BY <1>1, <1>5, RecursionExists
<1>8. ASSUME NEW k \in 0..n PROVE f[k] = IF k = 0 THEN start ELSE step(f[k - 1], items[k])
  <2> HIDE DEF step
  <2>1. f[k] = IF k = 0 THEN start ELSE tried[<<f[k - 1], k>>]
    BY <1>7 DEF Obeys
  <2>2. k # 0 => k \in 1..n /\ f[k - 1] \in Seq(S)
    BY <1>1, <1>7
  <2> QED
    BY <1>6, <2>1, <2>2
<1>9. f = [k \in 0..n |-> IF k = 0 THEN start ELSE step(f[k - 1], items[k])]
  <2>1. f = [k \in 0..n |-> f[k]]
    BY <1>7
  <2> HIDE DEF step
  <2> QED
    BY <1>8, <2>1
<1>10. Kept = [k \in 0..n |-> IF k = 0 THEN start ELSE step(Kept[k - 1], items[k])]
  BY <1>9 DEF n
<1> HIDE DEF Kept, step
<1> DEFINE T == {k \in 0..n : Kept[k] \in Seq(S)}
<1>11. Kept[0] = start
  BY <1>1, <1>10
<1>12. ASSUME NEW k \in 1..n
       PROVE  k \in 0..n /\ k - 1 \in 0..n /\ Kept[k] = step(Kept[k - 1], items[k])
  <2>1. k \in 0..n /\ k # 0 /\ k - 1 \in 0..n
    BY <1>1
  <2> QED
    BY <1>10, <2>1
<1>13. 0..n \subseteq T
  <2>1. 0 \in T
    <3>1. Kept[0] \in Seq(S) /\ 0 \in 0..n
      BY <1>1, <1>11
    <3> QED
      BY <3>1
  <2>2. ASSUME NEW k \in 1..n, k - 1 \in T PROVE k \in T
    <3>1. Kept[k - 1] \in Seq(S) /\ items[k] \in S
      BY <1>1, <2>2
    <3>2. step(Kept[k - 1], items[k]) \in Seq(S)
      BY <1>4, <3>1
    <3> QED
      BY <1>12, <3>2
  <2> HIDE DEF T
  <2> QED
    BY <1>1, <2>1, <2>2, UpTo
<1>14. Kept \in [0..n -> Seq(S)]
  <2>1. Kept = [k \in 0..n |-> Kept[k]]
    BY <1>10
  <2> QED
    BY <1>13, <2>1
<1>15. Passes(Kept, limits, start, items)
  <2>1. ASSUME NEW k \in 1..n PROVE Tries(limits, Kept[k - 1], items[k], Kept[k])
    <3>1. Kept[k - 1] \in Seq(S) /\ items[k] \in S
      BY <1>1, <1>12, <1>14
    <3> QED
      BY <1>4, <1>12, <3>1
  <2> QED
    BY <1>11, <2>1 DEF Passes, n
<1> QED
  BY <1>2, <1>14, <1>15 DEF n


-----------------------------------------------------------------------------
(* Limits.                                                                 *)
PackLimits == [items : Nat, document : Nat, summary : Nat, edge : Nat, tokens : Nat]

(* Every route has limits.                                                 *)
LEMMA LimitsAreNumbers == ASSUME NEW mode PROVE Limits(mode) \in PackLimits
BY DEF Limits, PackLimits

(* Choosing places of a list one longer.                                   *)
LEMMA OneMorePlace ==
    ASSUME NEW n \in Nat, NEW T \in SUBSET (1..n)
    PROVE  /\ IsFiniteSet(T) /\ Cardinality(T) \in Nat
           /\ Cardinality(T \cup {n + 1}) = Cardinality(T) + 1
<1>1. IsFiniteSet(T)
  <2>1. IsFiniteSet(1..n)
    BY FS_Interval
  <2> QED
    BY <2>1, FS_Subset
<1>2. n + 1 \notin T
  OBVIOUS
<1> QED
  BY <1>1, <1>2, FS_AddElement, FS_CardinalityType

(* The tokens of a list one item longer.                                   *)
LEMMA TokensAppended ==
    ASSUME NEW S, Measured(S), NEW items \in Seq(S), NEW item \in S
    PROVE  /\ Tokens(items) \in Nat
           /\ Tokens(Append(items, item)) = Tokens(items) + item.tokens
<1> DEFINE s == [i \in DOMAIN items |-> items[i].tokens]
           longer == Append(items, item)
           t == [i \in DOMAIN longer |-> longer[i].tokens]
           n == Len(items)
<1>1. Tokens(items) = Total(s)
  BY DEF Tokens
<1>2. Tokens(longer) = Total(t)
  BY DEF Tokens
<1>3. /\ n \in Nat /\ DOMAIN items = 1..n /\ DOMAIN longer = 1..(n + 1)
      /\ \A i \in 1..n : items[i] \in S /\ longer[i] = items[i]
      /\ longer[n + 1] = item
  OBVIOUS
<1>4. item.tokens \in Nat /\ \A i \in 1..n : items[i].tokens \in Nat
  BY <1>3 DEF Measured
<1> HIDE DEF longer, n
<1>5. s \in [1..n -> Nat] /\ t = [i \in 1..(n + 1) |-> longer[i].tokens]
  BY <1>3, <1>4
<1>6. s \in Seq(Nat) /\ Len(s) = n /\ s \in Seq(Int)
  BY <1>3, <1>5
<1>7. t = Append(s, item.tokens)
  <2> DEFINE u == Append(s, item.tokens)
  <2>1. \A i \in 1..n : u[i] = items[i].tokens
    BY <1>3, <1>5, <1>6
  <2>2. u[n + 1] = item.tokens /\ u = [i \in 1..(n + 1) |-> u[i]]
    BY <1>3, <1>4, <1>6
  <2> HIDE DEF u
  <2>3. \A i \in 1..(n + 1) : u[i] = longer[i].tokens
    BY <1>3, <2>1, <2>2
  <2> QED
    BY <1>5, <2>2, <2>3 DEF u
<1> HIDE DEF s, t
<1>8. Total(s) \in Nat
  BY <1>6, TotalIsNat
<1>9. Total(t) = Total(s) + item.tokens
  <2>1. PICK x \in Int : x = item.tokens
    BY <1>4
  <2>2. Total(Append(s, x)) = Total(s) + x
    BY <1>6, TotalAppended
  <2> QED
    BY <1>7, <2>1, <2>2
<1> QED
  BY <1>1, <1>8, <1>2, <1>9 DEF longer

(* Of the items selected, how many have a key, when one more is.           *)
Sharing(key, D, value) == Cardinality({j \in D : key[j] = value})

(* How many items share a key when one more is selected.                   *)
LEMMA OneMoreOfKey ==
    ASSUME NEW n \in Nat, NEW old, NEW new, NEW limit \in [1..(n + 1) -> Nat],
           \A i \in 1..n : new[i] = old[i],
           \A i \in 1..n : new[i] = new[n + 1] => limit[i] = limit[n + 1],
           \A i \in 1..n : Sharing(old, 1..n, old[i]) <= limit[i],
           Sharing(old, 1..n, new[n + 1]) < limit[n + 1]
    PROVE  \A i \in 1..(n + 1) : Sharing(new, 1..(n + 1), new[i]) <= limit[i]
<1> SUFFICES ASSUME NEW i \in 1..(n + 1)
             PROVE  Sharing(new, 1..(n + 1), new[i]) <= limit[i]
  OBVIOUS
<1> DEFINE T == {j \in 1..n : old[j] = new[i]}
           U == {j \in 1..(n + 1) : new[j] = new[i]}
<1>1. T \in SUBSET (1..n)
  OBVIOUS
<1>2. CASE new[i] = new[n + 1]
  <2>1. U = T \cup {n + 1}
    BY <1>2
  <2>2. Cardinality(T) < limit[n + 1]
    BY <1>2 DEF Sharing
  <2>3. limit[i] = limit[n + 1] /\ limit[i] \in Nat
    BY <1>2
  <2> HIDE DEF T, U
  <2>4. Cardinality(U) = Cardinality(T) + 1 /\ Cardinality(T) \in Nat
    BY <1>1, <2>1, OneMorePlace
  <2>5. Cardinality(U) <= limit[i]
    BY <2>2, <2>3, <2>4
  <2> QED
    BY <2>5 DEF U, Sharing
<1>3. CASE new[i] # new[n + 1]
  <2>1. i \in 1..n /\ new[i] = old[i]
    BY <1>3
  <2>2. U = {j \in 1..n : old[j] = old[i]}
    BY <1>3, <2>1
  <2>3. Sharing(new, 1..(n + 1), new[i]) = Sharing(old, 1..n, old[i])
    BY <2>2 DEF Sharing
  <2> QED
    BY <2>1, <2>3
<1> QED
  BY <1>2, <1>3


(* What is selected: items of the list, within the limits, none twice.     *)
Selection(limits, S, selected) ==
    /\ selected \in Seq(S)
    /\ WithinLimits(limits, selected)
    /\ \A i, j \in DOMAIN selected : selected[i] = selected[j] => i = j

(* The limits, item by item.                                               *)
DocumentKeys(items) == [i \in DOMAIN items |-> DocumentKey(items[i])]
KindKeys(items)     == [i \in DOMAIN items |-> items[i].kind]

WithinShares(limits, items, n) ==
    /\ Len(items) <= limits.items /\ Tokens(items) <= limits.tokens
    /\ \A i \in 1..n : Sharing(DocumentKeys(items), 1..n, DocumentKeys(items)[i]) <= limits.document
    /\ \A i \in 1..n : Sharing(KindKeys(items), 1..n, KindKeys(items)[i])
                         <= KindLimit(limits, items[i].kind)

(* The shares of the documents and kinds in a selection are within its limits. *)
LEMMA SelectionShares ==
    ASSUME NEW items, NEW limits, NEW n \in Nat, DOMAIN items = 1..n
    PROVE  WithinLimits(limits, items) <=> WithinShares(limits, items, n)
<1> DEFINE doc  == DocumentKeys(items)
           kind == KindKeys(items)
<1>1. ASSUME NEW i \in 1..n
      PROVE  /\ {j \in 1..n : doc[j] = doc[i]} = {j \in DOMAIN items : DocumentKey(items[j]) = DocumentKey(items[i])}
             /\ {j \in 1..n : kind[j] = kind[i]} = {j \in DOMAIN items : items[j].kind = items[i].kind}
  BY DEF DocumentKeys, KindKeys
<1>2. ASSUME NEW i \in 1..n
      PROVE  /\ Sharing(doc, 1..n, doc[i])
                = Cardinality({j \in DOMAIN items : DocumentKey(items[j]) = DocumentKey(items[i])})
             /\ Sharing(kind, 1..n, kind[i])
                = Cardinality({j \in DOMAIN items : items[j].kind = items[i].kind})
  BY <1>1 DEF Sharing
<1> QED
  BY <1>2, Zenon DEF WithinLimits, WithinShares

(* Nothing is within all limits.                                           *)
LEMMA NothingSelected ==
    ASSUME NEW S, NEW limits \in PackLimits
    PROVE  Selection(limits, S, <<>>)
<1>1. Tokens(<<>>) = 0
  <2>1. [i \in DOMAIN <<>> |-> <<>>[i].tokens] = <<>>
    OBVIOUS
  <2> QED
    BY <2>1, TotalOfNone DEF Tokens
<1> QED
  BY <1>1 DEF Selection, WithinLimits, PackLimits

(* An item that fits and is new may join.                                 *)
LEMMA SelectionGrows ==
    ASSUME NEW S, Measured(S), NEW limits \in PackLimits,
           NEW selected, Selection(limits, S, selected),
           NEW item \in S, \A i \in DOMAIN selected : selected[i] # item
    PROVE  Selection(limits, S, TrySelect(limits, selected, item))
<1> SUFFICES ASSUME FitsPack(limits, selected, item)
             PROVE  Selection(limits, S, Append(selected, item))
  BY DEF TrySelect
<1> DEFINE longer == Append(selected, item)
           n == Len(selected)
<1>1. selected \in Seq(S)
  BY DEF Selection
<1>2. /\ n \in Nat /\ DOMAIN selected = 1..n /\ DOMAIN longer = 1..(n + 1)
      /\ \A i \in 1..n : longer[i] = selected[i]
      /\ longer[n + 1] = item /\ longer \in Seq(S) /\ Len(longer) = n + 1
  BY <1>1
<1>3. /\ n < limits.items /\ Tokens(selected) + item.tokens <= limits.tokens
      /\ Sharing(DocumentKeys(selected), 1..n, DocumentKey(item)) < limits.document
      /\ Sharing(KindKeys(selected), 1..n, item.kind) < KindLimit(limits, item.kind)
  <2>1. /\ {j \in 1..n : DocumentKeys(selected)[j] = DocumentKey(item)}
           = {j \in DOMAIN selected : DocumentKey(selected[j]) = DocumentKey(item)}
        /\ {j \in 1..n : KindKeys(selected)[j] = item.kind}
           = {j \in DOMAIN selected : selected[j].kind = item.kind}
    BY <1>2 DEF DocumentKeys, KindKeys
  <2> QED
    BY <2>1 DEF FitsPack, Count, Sharing
<1>4. /\ \A i \in 1..n : Sharing(DocumentKeys(selected), 1..n, DocumentKeys(selected)[i]) <= limits.document
      /\ \A i \in 1..n : Sharing(KindKeys(selected), 1..n, KindKeys(selected)[i])
                           <= KindLimit(limits, selected[i].kind)
  BY <1>2, SelectionShares DEF Selection, WithinShares
<1>5. limits.items \in Nat /\ limits.document \in Nat /\ \A kind : KindLimit(limits, kind) \in Nat
  BY DEF PackLimits, KindLimit
<1>6. Len(longer) <= limits.items /\ Tokens(longer) <= limits.tokens
  BY <1>1, <1>2, <1>3, <1>5, TokensAppended
<1> HIDE DEF longer, n
<1>7. \A i \in 1..(n + 1) : Sharing(DocumentKeys(longer), 1..(n + 1), DocumentKeys(longer)[i]) <= limits.document
  <2> DEFINE old == DocumentKeys(selected)
             new == DocumentKeys(longer)
             limit == [j \in 1..(n + 1) |-> limits.document]
  <2>1. \A i \in 1..n : new[i] = old[i]
    BY <1>2 DEF DocumentKeys
  <2>2. new[n + 1] = DocumentKey(item)
    BY <1>2 DEF DocumentKeys
  <2>3. limit \in [1..(n + 1) -> Nat] /\ \A i \in 1..(n + 1) : limit[i] = limits.document
    BY <1>5
  <2>4. n + 1 \in 1..(n + 1) /\ \A i \in 1..n : i \in 1..(n + 1)
    BY <1>2
  <2>5. \A i \in 1..n : Sharing(old, 1..n, old[i]) <= limit[i]
    BY <1>4, <2>3, <2>4
  <2>6. Sharing(old, 1..n, new[n + 1]) < limit[n + 1]
    BY <1>3, <2>2, <2>3, <2>4
  <2> HIDE DEF old, new, limit
  <2>7. \A i \in 1..n : new[i] = new[n + 1] => limit[i] = limit[n + 1]
    BY <2>3, <2>4
  <2>8. n \in Nat /\ limit \in [1..(n + 1) -> Nat]
    BY <1>2, <2>3
  <2>9. \A i \in 1..(n + 1) : Sharing(new, 1..(n + 1), new[i]) <= limit[i]
    BY <2>1, <2>5, <2>6, <2>7, <2>8, OneMoreOfKey
  <2> QED
    BY <2>3, <2>9 DEF new
<1>8. \A i \in 1..(n + 1) : Sharing(KindKeys(longer), 1..(n + 1), KindKeys(longer)[i])
                             <= KindLimit(limits, longer[i].kind)
  <2> DEFINE old == KindKeys(selected)
             new == KindKeys(longer)
             limit == [j \in 1..(n + 1) |-> KindLimit(limits, new[j])]
  <2>1. /\ limit \in [1..(n + 1) -> Nat]
        /\ \A i \in 1..n : new[i] = old[i]
        /\ \A i \in 1..n : old[i] = selected[i].kind
        /\ new[n + 1] = item.kind
        /\ \A i \in 1..(n + 1) : limit[i] = KindLimit(limits, new[i])
        /\ \A i \in 1..(n + 1) : new[i] = longer[i].kind
    BY <1>2, <1>5 DEF KindKeys
  <2>2. n + 1 \in 1..(n + 1) /\ \A i \in 1..n : i \in 1..(n + 1)
    BY <1>2
  <2>3. \A i \in 1..n : Sharing(old, 1..n, old[i]) <= limit[i]
    BY <1>4, <2>1, <2>2
  <2>4. Sharing(old, 1..n, new[n + 1]) < limit[n + 1]
    BY <1>3, <2>1, <2>2
  <2> HIDE DEF old, new, limit
  <2>5. \A i \in 1..n : new[i] = new[n + 1] => limit[i] = limit[n + 1]
    BY <2>1, <2>2
  <2>6. \A i \in 1..(n + 1) : Sharing(new, 1..(n + 1), new[i]) <= limit[i]
    BY <1>2, <2>1, <2>3, <2>4, <2>5, OneMoreOfKey
  <2> QED
    BY <2>1, <2>6 DEF new
<1>9. \A i, j \in 1..(n + 1) : longer[i] = longer[j] => i = j
  <2>1. \A i, j \in 1..n : selected[i] = selected[j] => i = j
    BY <1>2 DEF Selection
  <2>2. \A i \in 1..n : longer[i] # longer[n + 1]
    BY <1>2
  <2>3. \A i \in 1..(n + 1) : i \in 1..n \/ i = n + 1
    BY <1>2
  <2> QED
    BY <1>2, <2>1, <2>2, <2>3
<1>10. WithinLimits(limits, longer)
  <2>1. WithinShares(limits, longer, n + 1)
    BY <1>6, <1>7, <1>8 DEF WithinShares
  <2> QED
    BY <1>2, <2>1, SelectionShares
<1> QED
  BY <1>2, <1>9, <1>10 DEF Selection, longer


(* The items of a list of which each text is kept once.                    *)
LEMMA TextsOnce ==
    ASSUME NEW S, NEW items \in Seq(S)
    PROVE  /\ Deduplicate(items) \in Seq(S)
           /\ \A m, n \in DOMAIN Deduplicate(items) :
                  SameText(Deduplicate(items)[m], Deduplicate(items)[n]) => m = n
<1> DEFINE set == {i \in DOMAIN items : \A j \in 1..(i - 1) : ~SameText(items[j], items[i])}
           d == Deduplicate(items)
<1>1. d = Places(items, set) /\ set \in SUBSET (DOMAIN items)
  BY DEF Deduplicate
<1>2. \A i \in set : i \in Nat \ {0} /\ \A j \in 1..(i - 1) : ~SameText(items[j], items[i])
  OBVIOUS
<1> HIDE DEF set, d
<1>3. /\ d \in Seq(S)
      /\ \A m, n \in DOMAIN d : m < n => \E i, j \in set : i < j /\ d[m] = items[i] /\ d[n] = items[j]
  BY <1>1, PlacesOf
<1>4. ASSUME NEW m \in DOMAIN d, NEW n \in DOMAIN d, m < n PROVE ~SameText(d[m], d[n])
  <2>1. PICK i, j \in set : i < j /\ d[m] = items[i] /\ d[n] = items[j]
    BY <1>3, <1>4
  <2>2. i \in 1..(j - 1)
    BY <1>2, <2>1
  <2> QED
    BY <1>2, <2>1, <2>2
<1>5. \A m, n \in DOMAIN d : SameText(d[m], d[n]) => SameText(d[n], d[m])
  BY DEF SameText
<1>6. \A m, n \in DOMAIN d : m < n \/ n < m \/ m = n
  BY <1>3
<1> QED
  BY <1>3, <1>4, <1>5, <1>6 DEF d

(* A pass keeps what is selected within the limits.                        *)
LEMMA PassSelects ==
    ASSUME NEW S, Measured(S), NEW limits \in PackLimits, NEW items \in Seq(S),
           NEW start, Selection(limits, S, start),
           NEW f, Passes(f, limits, start, items)
    PROVE  Selection(limits, S, f[Len(items)])
<1> DEFINE n == Len(items)
           T == {k \in 0..n : Selection(limits, S, f[k])}
<1>1. n \in Nat /\ \A k \in 1..n : items[k] \in S
  OBVIOUS
<1> HIDE DEF n
<1>2. 0 \in T
  BY <1>1 DEF Passes
<1>3. ASSUME NEW k \in 1..n, k - 1 \in T PROVE k \in T
  <2>1. Tries(limits, f[k - 1], items[k], f[k])
    BY DEF Passes, n
  <2>2. Selection(limits, S, f[k - 1]) /\ items[k] \in S /\ k \in 0..n
    BY <1>1, <1>3
  <2>3. Selection(limits, S, f[k])
    BY <2>1, <2>2, SelectionGrows DEF Tries
  <2> QED
    BY <2>2, <2>3
<1>4. 0..n \subseteq T
  <2> HIDE DEF T
  <2> QED
    BY <1>1, <1>2, <1>3, UpTo
<1> QED
  BY <1>1, <1>4 DEF n

(* The pack is made of hits, is within the limits of its mode, and holds   *)
(* no text twice.                                                          *)
LEMMA PackSelects ==
    ASSUME NEW S, Measured(S), NEW hits \in Seq(S), NEW mode
    PROVE  /\ Pack(mode, hits) \in Seq(S)
           /\ WithinLimits(Limits(mode), Pack(mode, hits))
           /\ \A i, j \in DOMAIN Pack(mode, hits) :
                  SameText(Pack(mode, hits)[i], Pack(mode, hits)[j]) => i = j
<1> DEFINE limits == Limits(mode)
           items == Deduplicate(OrderItems(mode, hits))
           D == {items[i] : i \in DOMAIN items}
           covered == CoverDocuments(limits, items)
           reserved == ReserveChunk(limits, covered, items)
           filled == Fill(limits, reserved, items)
<1>1. OrderItems(mode, hits) \in Seq(S)
  BY OrderKeepsItems
<1>2. items \in Seq(S) /\ \A m, n \in DOMAIN items : SameText(items[m], items[n]) => m = n
  BY <1>1, TextsOnce
<1>3. Pack(mode, hits) = filled
  BY DEF Pack, PackWithin
<1>4. limits \in PackLimits
  BY LimitsAreNumbers
<1> HIDE DEF items, limits
<1>5. items \in Seq(D) /\ D \subseteq S
  BY <1>2
<1>6. Measured(D)
  BY <1>5 DEF Measured
<1>7. \A x, y \in D : SameText(x, y) => x = y
  BY <1>2
<1> HIDE DEF D
<1>8. Selection(limits, D, covered)
  <2>1. PICK f \in [0..Len(items) -> Seq(D)] : Passes(f, limits, <<>>, items) /\ covered = f[Len(items)]
    BY <1>5, CoverIsPass
  <2> HIDE DEF covered
  <2>2. Selection(limits, D, f[Len(items)])
    BY <1>4, <1>5, <1>6, <2>1, NothingSelected, PassSelects
  <2> QED
    BY <2>1, <2>2
<1> HIDE DEF covered
<1>9. Selection(limits, D, reserved)
  <2> DEFINE excerpts == {i \in DOMAIN items : items[i].kind = "chunk"}
  <2>1. CASE excerpts = {} \/ \E i \in DOMAIN covered : covered[i].kind = "chunk"
    BY <1>8, <2>1 DEF ReserveChunk
  <2>2. CASE ~(excerpts = {} \/ \E i \in DOMAIN covered : covered[i].kind = "chunk")
    <3>1. reserved = TrySelect(limits, covered, items[Nth(excerpts, 1)])
      BY <2>2 DEF ReserveChunk
    <3>2. excerpts \in SUBSET Nat /\ IsFiniteSet(excerpts) /\ excerpts # {}
      <4>1. IsFiniteSet(1..Len(items)) /\ excerpts \in SUBSET (1..Len(items))
        BY <1>5, FS_Interval
      <4> QED
        BY <2>2, <4>1, FS_Subset
    <3>3. \A i \in excerpts : i \in DOMAIN items /\ items[i] \in D /\ items[i].kind = "chunk"
      BY <1>5
    <3> HIDE DEF excerpts
    <3>4. Cardinality(excerpts) \in Nat \ {0}
      BY <3>2, FS_EmptySet, FS_CardinalityType
    <3>5. Nth(excerpts, 1) \in excerpts
      BY <3>2, <3>4, NthPlace
    <3>6. PICK item \in D : item = items[Nth(excerpts, 1)] /\ item.kind = "chunk"
      BY <3>3, <3>5
    <3>7. \A i \in DOMAIN covered : covered[i] # item
      BY <2>2, <3>6
    <3>8. Selection(limits, D, TrySelect(limits, covered, item))
      BY <1>4, <1>6, <1>8, <3>7, SelectionGrows
    <3> QED
      BY <3>1, <3>6, <3>8
  <2> QED
    BY <2>1, <2>2
<1> HIDE DEF reserved
<1>10. Selection(limits, D, filled)
  <2>1. reserved \in Seq(D)
    BY <1>9 DEF Selection
  <2>2. PICK f \in [0..Len(items) -> Seq(D)] : Passes(f, limits, reserved, items) /\ filled = f[Len(items)]
    BY <1>5, <2>1, FillIsPass
  <2> HIDE DEF filled
  <2>3. Selection(limits, D, f[Len(items)])
    BY <1>4, <1>5, <1>6, <1>9, <2>2, PassSelects
  <2> QED
    BY <2>2, <2>3
<1> HIDE DEF filled
<1>11. filled \in Seq(D) /\ WithinLimits(limits, filled)
       /\ \A i, j \in DOMAIN filled : filled[i] = filled[j] => i = j
  BY <1>10 DEF Selection
<1>12. \A i, j \in DOMAIN filled : SameText(filled[i], filled[j]) => i = j
  BY <1>7, <1>11
<1>13. filled \in Seq(S)
  BY <1>5, <1>11
<1> QED
  BY <1>3, <1>11, <1>12, <1>13 DEF limits


-----------------------------------------------------------------------------
(* Verification.                                                           *)
VerdictSet == {"unverified", "conflicting", "partially_verified", "verified"}

FoundIssues == {"uncited_claims", "weak_claim_support", "invalid_citation_markers",
                "uncitable_evidence_references", "wrong_output_language",
                "missing_citations", "unresolved_contradiction"}

IssueNames == FoundIssues \cup {"regenerated_after_failed_verification", "spanish_fallback"}
                          \cup UNION {o.issues : o \in Opinions}

Issues == {s \in SUBSET IssueNames : IsFiniteSet(s)}

CheckRow == [verdict : VerdictSet, score : 0..100, issues : Issues]
DraftRow == [claims : Seq([marks : SUBSET Nat, support : Nat]), overlap : Nat, english : BOOLEAN]
Opinion  == [verdict : VerdictSet, score : Nat, issues : Issues]

(* What a verified draft is.                                               *)
Clean(items, spanish, text) ==
    /\ CitedClaims(items, text) = DOMAIN text.claims
    /\ \A i \in DOMAIN text.claims : text.claims[i].support >= 18
    /\ \A m \in Marks(text) : m \in DOMAIN items /\ EvidenceIsCitable(items[m])
    /\ ~(spanish /\ text.english)

(* The verdicts are ordered as they are listed.                            *)
LEMMA VerdictsAre == ToSet(Verdicts) = VerdictSet
BY DEF ToSet, Verdicts, VerdictSet

(* The rank of each verdict.                                               *)
LEMMA RanksAre ==
    /\ Rank("unverified") = 1 /\ Rank("conflicting") = 2
    /\ Rank("partially_verified") = 3 /\ Rank("verified") = 4
<1>1. /\ DOMAIN Verdicts = 1..4 /\ Verdicts[1] = "unverified" /\ Verdicts[2] = "conflicting"
      /\ Verdicts[3] = "partially_verified" /\ Verdicts[4] = "verified"
  BY DEF Verdicts
<1>2. \A r \in 1..4 : r = 1 \/ r = 2 \/ r = 3 \/ r = 4
  OBVIOUS
<1> QED
  BY <1>1, <1>2 DEF Rank

(* Integer division of counts.                                             *)
LEMMA DividedIsNat ==
    ASSUME NEW a \in Nat, NEW b \in Nat \ {0}
    PROVE  a \div b \in Nat
OBVIOUS

(* A share in hundredths is a number.                                      *)
LEMMA PercentIsNat ==
    ASSUME NEW part \in Nat, NEW whole \in Nat
    PROVE  Percent(part, whole) \in Nat
<1>1. 100 * part \in Nat
  OBVIOUS
<1> QED
  BY <1>1, DividedIsNat DEF Percent

(* The claims of a draft that are cited, and those that are supported.     *)
LEMMA ClaimsCounted ==
    ASSUME NEW text \in DraftRow, NEW items
    PROVE  /\ Len(text.claims) \in Nat
           /\ CitedClaims(items, text) \subseteq 1..Len(text.claims)
           /\ Cardinality(CitedClaims(items, text)) \in Nat
           /\ Cardinality(SupportedClaims(items, text)) \in Nat
<1>1. text.claims \in Seq([marks : SUBSET Nat, support : Nat])
  BY DEF DraftRow
<1>2. Len(text.claims) \in Nat /\ DOMAIN text.claims = 1..Len(text.claims)
  BY <1>1
<1>3. IsFiniteSet(1..Len(text.claims))
  BY <1>2, FS_Interval
<1>4. /\ CitedClaims(items, text) \in SUBSET (1..Len(text.claims))
      /\ SupportedClaims(items, text) \in SUBSET (1..Len(text.claims))
  BY <1>2 DEF CitedClaims, SupportedClaims
<1> QED
  BY <1>2, <1>3, <1>4, FS_Subset, FS_CardinalityType

(* The local score is a percentage.                                        *)
LEMMA MeanIsNat ==
    ASSUME NEW text \in DraftRow, NEW items
    PROVE  MeanSupport(items, text) \in Nat
<1> DEFINE n == Len(text.claims)
           s == [i \in 1..n |-> ClaimSupport(items, text.claims[i])]
<1>1. text.claims \in Seq([marks : SUBSET Nat, support : Nat])
  BY DEF DraftRow
<1>2. n \in Nat /\ \A i \in 1..n : text.claims[i] \in [marks : SUBSET Nat, support : Nat]
  <2> DEFINE claims == text.claims
             Claim == [marks : SUBSET Nat, support : Nat]
  <2>1. claims \in Seq(Claim)
    BY <1>1
  <2> HIDE DEF claims, Claim
  <2>2. Len(claims) \in Nat /\ \A i \in 1..Len(claims) : claims[i] \in Claim
    BY <2>1
  <2> QED
    BY <2>2 DEF claims, Claim
<1>3. ASSUME NEW i \in 1..n PROVE ClaimSupport(items, text.claims[i]) \in Nat
  <2>1. PICK claim \in [marks : SUBSET Nat, support : Nat] : claim = text.claims[i]
    BY <1>2
  <2>2. ClaimSupport(items, claim) \in Nat
    BY DEF ClaimSupport
  <2> QED
    BY <2>1, <2>2
<1>4. s \in [1..n -> Nat]
  BY <1>3
<1>5. MeanSupport(items, text) = IF n = 0 THEN 0 ELSE Total(s) \div n
  BY DEF MeanSupport
<1> HIDE DEF s, n
<1>6. s \in Seq(Nat)
  BY <1>2, <1>4
<1>7. Total(s) \in Nat
  BY <1>6, TotalIsNat
<1>8. n # 0 => Total(s) \div n \in Nat
  BY <1>2, <1>7, DividedIsNat
<1> QED
  BY <1>5, <1>8

(* The score the code gives a draft is between 0 and 100.                  *)
LEMMA ScoreIsPercent ==
    ASSUME NEW text \in DraftRow, NEW items
    PROVE  LocalScore(items, text) \in 0..100
<1> DEFINE n == Len(text.claims)
           cited == Percent(Cardinality(CitedClaims(items, text)), n)
           supported == Percent(Cardinality(SupportedClaims(items, text)), n)
           mean == MeanSupport(items, text)
           overlap == text.overlap
           sum == 20 * overlap + 35 * cited + 25 * supported + 20 * mean
<1>1. cited \in Nat /\ supported \in Nat /\ mean \in Nat /\ overlap \in Nat
  BY ClaimsCounted, PercentIsNat, MeanIsNat DEF DraftRow
<1>2. LocalScore(items, text) = MinNat(100, sum \div 100)
  BY DEF LocalScore
<1> HIDE DEF cited, supported, mean, overlap
<1>3. sum \in Nat
  BY <1>1
<1> HIDE DEF sum
<1>4. sum \div 100 \in Nat
  BY <1>3, DividedIsNat
<1>5. PICK q \in Nat : q = sum \div 100
  BY <1>4
<1>6. MinNat(100, q) \in 0..100
  BY DEF MinNat
<1> QED
  BY <1>2, <1>5, <1>6

(* A draft without the issues that lower the verdict is clean.             *)
LEMMA NoIssueIsClean ==
    ASSUME NEW text \in DraftRow, NEW items, NEW plan, NEW spanish \in BOOLEAN,
           LocalIssues(items, plan, spanish, text) \cap
             {"uncited_claims", "weak_claim_support", "invalid_citation_markers",
              "uncitable_evidence_references", "wrong_output_language"} = {}
    PROVE  Clean(items, spanish, text)
<1> DEFINE issues == LocalIssues(items, plan, spanish, text)
           cited == CitedClaims(items, text)
<1>1. /\ "uncited_claims" \notin issues /\ "weak_claim_support" \notin issues
      /\ "invalid_citation_markers" \notin issues
      /\ "uncitable_evidence_references" \notin issues /\ "wrong_output_language" \notin issues
  OBVIOUS
<1>2. cited = DOMAIN text.claims
  BY <1>1 DEF LocalIssues
<1>3. SupportedClaims(items, text) = cited
  BY <1>1 DEF LocalIssues
<1>4. Marks(text) \subseteq DOMAIN items
  BY <1>1 DEF LocalIssues
<1>5. ValidMarks(items, Marks(text)) \ CitableMarks(items, Marks(text)) = {}
  BY <1>1 DEF LocalIssues
<1>6. ~(spanish /\ text.english)
  BY <1>1 DEF LocalIssues
<1>7. \A i \in DOMAIN text.claims : text.claims[i].support >= 18
  BY <1>2, <1>3 DEF SupportedClaims
<1>8. \A m \in Marks(text) : m \in DOMAIN items /\ EvidenceIsCitable(items[m])
  BY <1>4, <1>5 DEF ValidMarks, CitableMarks
<1> QED
  BY <1>2, <1>6, <1>7, <1>8 DEF Clean

(* The caps keep a check sensible, and a verdict that survives them means  *)
(* that none of the issues is there.                                       *)
LEMMA CappedIsSensible ==
    ASSUME NEW c \in CheckRow
    PROVE  /\ Capped(c) \in CheckRow
           /\ Capped(c).verdict = "verified" =>
                c.issues \cap {"uncited_claims", "weak_claim_support", "invalid_citation_markers",
                               "uncitable_evidence_references", "wrong_output_language"} = {}
<1>1. PICK v \in VerdictSet, s \in 0..100, is \in Issues :
         c = [verdict |-> v, score |-> s, issues |-> is]
  <2>1. /\ c.verdict \in VerdictSet /\ c.score \in 0..100
        /\ c.issues \in Issues
        /\ c = [verdict |-> c.verdict, score |-> c.score, issues |-> c.issues]
    BY DEF CheckRow
  <2> QED
    BY <2>1
<1>2. c.verdict = v /\ c.score = s /\ c.issues = is
  BY <1>1
<1> DEFINE row(w, n) == [verdict |-> w, score |-> n, issues |-> is]
<1>3. \A w \in VerdictSet, n \in 0..100 : row(w, n) \in CheckRow /\ row(w, n).verdict = w
  BY <1>1 DEF CheckRow
<1>4. \A n \in 0..100 : MinNat(s, n) \in 0..100
  BY <1>1 DEF MinNat
<1>5. CASE "wrong_output_language" \in is
  <2>1. Capped(c) = row("unverified", MinNat(s, 34))
    BY <1>2, <1>5 DEF Capped, MinGrounding, Lowered
  <2>2. "unverified" \in VerdictSet /\ 34 \in 0..100 /\ "unverified" # "verified"
    BY DEF VerdictSet
  <2> HIDE DEF row
  <2>3. MinNat(s, 34) \in 0..100
    BY <1>4, <2>2
  <2> QED
    BY <1>3, <2>1, <2>2, <2>3
<1> DEFINE partial == IF v = "verified" THEN "partially_verified" ELSE v
<1>6. partial \in VerdictSet /\ partial # "verified"
  BY <1>1 DEF VerdictSet
<1>7. \A n \in 0..100 : /\ AtMostPartial(c, n) \in CheckRow
                        /\ AtMostPartial(c, n).verdict # "verified"
  <2> SUFFICES ASSUME NEW n \in 0..100
               PROVE  AtMostPartial(c, n) \in CheckRow /\ AtMostPartial(c, n).verdict # "verified"
    OBVIOUS
  <2>1. AtMostPartial(c, n) = row(partial, MinNat(s, n))
    BY <1>2 DEF AtMostPartial, Lowered
  <2>2. MinNat(s, n) \in 0..100
    BY <1>4
  <2> HIDE DEF row, partial
  <2> QED
    BY <1>3, <1>6, <2>1, <2>2
<1>8. CASE /\ "wrong_output_language" \notin is
           /\ \/ is \cap {"uncitable_evidence_references", "invalid_citation_markers"} # {}
              \/ is \cap {"uncited_claims", "weak_claim_support"} # {}
  <2>1. Capped(c) = AtMostPartial(c, 69) \/ Capped(c) = AtMostPartial(c, 74)
    BY <1>2, <1>8 DEF Capped
  <2>2. 69 \in 0..100 /\ 74 \in 0..100
    OBVIOUS
  <2> QED
    BY <1>7, <2>1, <2>2
<1>9. CASE /\ "wrong_output_language" \notin is
           /\ is \cap {"uncitable_evidence_references", "invalid_citation_markers"} = {}
           /\ is \cap {"uncited_claims", "weak_claim_support"} = {}
  <2>1. Capped(c) = c
    BY <1>2, <1>9 DEF Capped
  <2>2. c.issues \cap {"uncited_claims", "weak_claim_support", "invalid_citation_markers",
                       "uncitable_evidence_references", "wrong_output_language"} = {}
    BY <1>2, <1>9
  <2> QED
    BY <2>1, <2>2
<1> QED
  BY <1>5, <1>8, <1>9


(* A set of a few elements is finite.                                      *)
LEMMA FewAreFinite ==
    ASSUME NEW a, NEW b, NEW c, NEW d, NEW e, NEW f, NEW g
    PROVE  IsFiniteSet({a, b, c, d, e, f, g})
<1>1. IsFiniteSet({a})
  BY FS_Singleton
<1>2. IsFiniteSet({a} \cup {b})
  BY <1>1, FS_AddElement
<1>3. IsFiniteSet(({a} \cup {b}) \cup {c})
  BY <1>2, FS_AddElement
<1>4. IsFiniteSet((({a} \cup {b}) \cup {c}) \cup {d})
  BY <1>3, FS_AddElement
<1>5. IsFiniteSet(((({a} \cup {b}) \cup {c}) \cup {d}) \cup {e})
  BY <1>4, FS_AddElement
<1>6. IsFiniteSet((((({a} \cup {b}) \cup {c}) \cup {d}) \cup {e}) \cup {f})
  BY <1>5, FS_AddElement
<1>7. IsFiniteSet(((((({a} \cup {b}) \cup {c}) \cup {d}) \cup {e}) \cup {f}) \cup {g})
  BY <1>6, FS_AddElement
<1>8. ((((({a} \cup {b}) \cup {c}) \cup {d}) \cup {e}) \cup {f}) \cup {g} = {a, b, c, d, e, f, g}
  OBVIOUS
<1> QED
  BY <1>7, <1>8

(* What the model may say of a draft: nothing, or one opinion.             *)
Opinable(opinions) == opinions = {} \/ \E o \in Opinion : opinions = {o}

(* A verification is sensible, and a draft it finds verified is clean,     *)
(* whatever the verifying model says.                                      *)
LEMMA VerifyIsSensible ==
    ASSUME NEW items, NEW plan, NEW spanish \in BOOLEAN, NEW text \in DraftRow,
           NEW opinions, Opinable(opinions)
    PROVE  /\ Verify(items, plan, spanish, text, opinions) \in CheckRow
           /\ Verify(items, plan, spanish, text, opinions).verdict = "verified" =>
                Clean(items, spanish, text)
<1> DEFINE score == LocalScore(items, text)
           issues == LocalIssues(items, plan, spanish, text)
           verdict == LocalVerdict(score, issues)
           local == [verdict |-> verdict, score |-> score, issues |-> issues]
           bad == {"uncited_claims", "weak_claim_support", "invalid_citation_markers",
                   "uncitable_evidence_references", "wrong_output_language"}
<1>1. score \in 0..100
  BY ScoreIsPercent
<1>2. issues \in Issues
  <2>1. issues \subseteq FoundIssues
    BY DEF LocalIssues, FoundIssues
  <2>2. IsFiniteSet(FoundIssues)
    BY FewAreFinite, Zenon DEF FoundIssues
  <2> HIDE DEF issues
  <2>3. IsFiniteSet(issues)
    BY <2>1, <2>2, FS_Subset
  <2> QED
    BY <2>1, <2>3 DEF Issues, IssueNames
<1>3. verdict \in VerdictSet
  BY DEF LocalVerdict, VerdictSet
<1>4. issues \cap bad = {} => Clean(items, spanish, text)
  BY NoIssueIsClean
<1> HIDE DEF score, issues, verdict
<1>5. CASE opinions = {}
  <2>1. Verify(items, plan, spanish, text, opinions) = Capped(local)
    BY <1>5 DEF Verify, score, issues, verdict
  <2>2. local \in CheckRow /\ local.issues = issues
    BY <1>1, <1>2, <1>3 DEF CheckRow
  <2> HIDE DEF local
  <2> QED
    BY <1>4, <2>1, <2>2, CappedIsSensible
<1>6. ASSUME NEW o \in Opinion, opinions = {o}
      PROVE  /\ Verify(items, plan, spanish, text, opinions) \in CheckRow
             /\ Verify(items, plan, spanish, text, opinions).verdict = "verified" =>
                  Clean(items, spanish, text)
  <2> DEFINE w == IF Rank(o.verdict) < Rank(verdict) THEN o.verdict ELSE verdict
             n == IF o.score > 0 THEN MinNat(score, o.score) ELSE score
             is == issues \cup o.issues
             row == [verdict |-> w, score |-> n, issues |-> is]
  <2>1. (CHOOSE x \in opinions : TRUE) = o
    BY <1>6
  <2>2. Verify(items, plan, spanish, text, opinions) = Capped(WithOpinion(local, o))
    BY <1>6, <2>1 DEF Verify, score, issues, verdict
  <2>3. WithOpinion(local, o) = row
    BY DEF WithOpinion
  <2>4. o.verdict \in VerdictSet /\ o.score \in Nat /\ o.issues \in Issues
    BY DEF Opinion
  <2>5. w \in VerdictSet
    BY <1>3, <2>4
  <2>6. n \in 0..100
    BY <1>1, <2>4 DEF MinNat
  <2>7. is \in Issues
    BY <1>2, <2>4, FS_Union DEF Issues
  <2>8. issues \subseteq is
    OBVIOUS
  <2> HIDE DEF w, n, is
  <2>9. row \in CheckRow /\ row.issues = is
    BY <2>5, <2>6, <2>7 DEF CheckRow
  <2> HIDE DEF row, local, bad
  <2>10. /\ Capped(row) \in CheckRow
         /\ Capped(row).verdict = "verified" => is \cap bad = {}
    BY <2>9, CappedIsSensible DEF bad
  <2> QED
    BY <1>4, <2>2, <2>3, <2>8, <2>10
<1> QED
  BY <1>5, <1>6 DEF Opinable

-----------------------------------------------------------------------------
(* The repair.                                                             *)

(* The order of qualities, written out.                                    *)
LEMMA GreaterMeans ==
    ASSUME NEW a1 \in Int, NEW a2 \in Int, NEW a3 \in Int, NEW a4 \in Int,
           NEW b1 \in Int, NEW b2 \in Int, NEW b3 \in Int, NEW b4 \in Int
    PROVE  LexGreater(<<a1, a2, a3, a4>>, <<b1, b2, b3, b4>>) <=>
             \/ a1 > b1
             \/ a1 = b1 /\ a2 > b2
             \/ a1 = b1 /\ a2 = b2 /\ a3 > b3
             \/ a1 = b1 /\ a2 = b2 /\ a3 = b3 /\ a4 > b4
<1> DEFINE a == <<a1, a2, a3, a4>>
           b == <<b1, b2, b3, b4>>
           over(i) == a[i] > b[i] /\ \A j \in 1..(i - 1) : a[j] = b[j]
<1>1. LexGreater(a, b) <=> \E i \in 1..4 : over(i)
  BY DEF LexGreater
<1>2. /\ a[1] = a1 /\ a[2] = a2 /\ a[3] = a3 /\ a[4] = a4
      /\ b[1] = b1 /\ b[2] = b2 /\ b[3] = b3 /\ b[4] = b4
  OBVIOUS
<1> HIDE DEF a, b
<1>3. /\ over(1) <=> a1 > b1
      /\ over(2) <=> a1 = b1 /\ a2 > b2
      /\ over(3) <=> a1 = b1 /\ a2 = b2 /\ a3 > b3
      /\ over(4) <=> a1 = b1 /\ a2 = b2 /\ a3 = b3 /\ a4 > b4
  <2>1. \A j \in 1..0 : FALSE
    OBVIOUS
  <2>2. \A j : j \in 1..1 <=> j = 1
    OBVIOUS
  <2>3. \A j : j \in 1..2 <=> j = 1 \/ j = 2
    OBVIOUS
  <2>4. \A j : j \in 1..3 <=> j = 1 \/ j = 2 \/ j = 3
    OBVIOUS
  <2> QED
    BY <1>2, <2>1, <2>2, <2>3, <2>4
<1>4. (\E i \in 1..4 : over(i)) <=> over(1) \/ over(2) \/ over(3) \/ over(4)
  <2> HIDE DEF over
  <2>1. \A i : i \in 1..4 <=> i = 1 \/ i = 2 \/ i = 3 \/ i = 4
    OBVIOUS
  <2> QED
    BY <2>1
<1> HIDE DEF over
<1> QED
  BY <1>1, <1>3, <1>4 DEF a, b

(* The four numbers of a quality.                                          *)
LEMMA QualityIs ==
    ASSUME NEW c \in CheckRow, NEW citations, IsFiniteSet(citations)
    PROVE  /\ Rank(c.verdict) \in Int /\ c.score \in Int /\ Cardinality(citations) \in Int
           /\ Cardinality(c.issues) \in Nat
           /\ Quality(c, citations) = <<Rank(c.verdict), c.score, Cardinality(citations),
                                        0 - Cardinality(c.issues)>>
<1>1. c.verdict \in VerdictSet /\ c.score \in 0..100 /\ IsFiniteSet(c.issues)
  BY DEF CheckRow, Issues
<1>2. Rank(c.verdict) \in Int
  BY <1>1, RanksAre DEF VerdictSet
<1>3. Cardinality(citations) \in Nat /\ Cardinality(c.issues) \in Nat
  BY <1>1, FS_CardinalityType
<1> QED
  BY <1>1, <1>2, <1>3 DEF Quality

(* A quality is not greater than itself, nor than that of the draft which  *)
(* was preferred to it and has one issue more.                             *)
LEMMA QualityIrreflexive ==
    ASSUME NEW c \in CheckRow, NEW citations, IsFiniteSet(citations)
    PROVE  ~LexGreater(Quality(c, citations), Quality(c, citations))
<1> DEFINE r == Rank(c.verdict)
           s == c.score
           n == Cardinality(citations)
           m == 0 - Cardinality(c.issues)
<1>1. r \in Int /\ s \in Int /\ n \in Int /\ m \in Int /\ Quality(c, citations) = <<r, s, n, m>>
  BY QualityIs
<1> HIDE DEF r, s, n, m
<1>2. ~LexGreater(<<r, s, n, m>>, <<r, s, n, m>>)
  BY <1>1, GreaterMeans
<1> QED
  BY <1>1, <1>2

(* A draft that is preferred is not worse, although it gets an issue more. *)
LEMMA AdoptedIsNotWorse ==
    ASSUME NEW old \in CheckRow, NEW new \in CheckRow, NEW issue \in IssueNames,
           NEW oldCitations, NEW newCitations,
           IsFiniteSet(oldCitations), IsFiniteSet(newCitations),
           Better(new, newCitations, old, oldCitations),
           NEW adopted, adopted = [new EXCEPT !.issues = new.issues \cup {issue}]
    PROVE  /\ adopted \in CheckRow /\ adopted.verdict = new.verdict
           /\ ~LexGreater(Quality(old, oldCitations), Quality(adopted, newCitations))
<1> DEFINE a1 == Rank(old.verdict)
           a2 == old.score
           a3 == Cardinality(oldCitations)
           a4 == Cardinality(old.issues)
           b1 == Rank(new.verdict)
           b2 == new.score
           b3 == Cardinality(newCitations)
           b4 == Cardinality(new.issues)
           c4 == Cardinality(adopted.issues)
<1>1. /\ adopted.verdict = new.verdict /\ adopted.score = new.score
      /\ adopted.issues = new.issues \cup {issue} /\ IsFiniteSet(new.issues)
      /\ adopted = [verdict |-> new.verdict, score |-> new.score, issues |-> new.issues \cup {issue}]
  BY DEF CheckRow, Issues
<1>2. IsFiniteSet(adopted.issues) /\ adopted.issues \in SUBSET IssueNames /\ c4 <= b4 + 1 /\ b4 \in Nat
  <2>1. b4 \in Nat
    BY <1>1, FS_CardinalityType
  <2>2. new.issues \in SUBSET IssueNames
    BY DEF CheckRow, Issues
  <2>3. PICK old4 : old4 = new.issues
    OBVIOUS
  <2>4. IsFiniteSet(old4) /\ adopted.issues = old4 \cup {issue}
    BY <1>1, <2>3
  <2>5. /\ IsFiniteSet(old4 \cup {issue})
        /\ Cardinality(old4 \cup {issue}) =
             IF issue \in old4 THEN Cardinality(old4) ELSE Cardinality(old4) + 1
    BY <2>4, FS_AddElement
  <2>6. Cardinality(old4) = b4
    BY <2>3
  <2>7. c4 = Cardinality(old4 \cup {issue})
    BY <2>4
  <2> HIDE DEF b4, c4
  <2>8. c4 <= b4 + 1
    BY <2>1, <2>5, <2>6, <2>7
  <2>9. adopted.issues \in SUBSET IssueNames
    BY <2>2, <2>3, <2>4
  <2> QED
    BY <2>1, <2>4, <2>5, <2>8, <2>9
<1>3. adopted \in CheckRow
  <2>1. new.verdict \in VerdictSet /\ new.score \in 0..100
    BY DEF CheckRow, Issues
  <2> QED
    BY <1>1, <1>2, <2>1 DEF CheckRow, Issues
<1>4. /\ a1 \in Int /\ a2 \in Int /\ a3 \in Int /\ a4 \in Nat
      /\ Quality(old, oldCitations) = <<a1, a2, a3, 0 - a4>>
  BY QualityIs
<1>5. /\ b1 \in Int /\ b2 \in Int /\ b3 \in Int /\ b4 \in Nat
      /\ Quality(new, newCitations) = <<b1, b2, b3, 0 - b4>>
  BY QualityIs
<1>6. c4 \in Nat /\ Quality(adopted, newCitations) = <<b1, b2, b3, 0 - c4>>
  BY <1>1, <1>3, QualityIs
<1>7. LexGreater(<<b1, b2, b3, 0 - b4>>, <<a1, a2, a3, 0 - a4>>)
  BY <1>4, <1>5 DEF Better
<1> HIDE DEF a1, a2, a3, a4, b1, b2, b3, b4, c4
<1>8. \/ b1 > a1
      \/ b1 = a1 /\ b2 > a2
      \/ b1 = a1 /\ b2 = a2 /\ b3 > a3
      \/ b1 = a1 /\ b2 = a2 /\ b3 = a3 /\ 0 - b4 > 0 - a4
  <2>1. 0 - b4 \in Int /\ 0 - a4 \in Int
    BY <1>4, <1>5
  <2> QED
    BY <1>4, <1>5, <1>7, <2>1, GreaterMeans
<1>9. ~LexGreater(<<a1, a2, a3, 0 - a4>>, <<b1, b2, b3, 0 - c4>>)
  <2>1. 0 - c4 \in Int /\ 0 - a4 \in Int
    BY <1>4, <1>6
  <2>2. LexGreater(<<a1, a2, a3, 0 - a4>>, <<b1, b2, b3, 0 - c4>>) <=>
             \/ a1 > b1
             \/ a1 = b1 /\ a2 > b2
             \/ a1 = b1 /\ a2 = b2 /\ a3 > b3
             \/ a1 = b1 /\ a2 = b2 /\ a3 = b3 /\ 0 - a4 > 0 - c4
    BY <1>4, <1>5, <2>1, GreaterMeans
  <2> QED
    BY <1>2, <1>4, <1>5, <1>6, <1>8, <2>2
<1> QED
  BY <1>1, <1>3, <1>4, <1>6, <1>9


-----------------------------------------------------------------------------
(* The hits of the search, as a sequence.                                  *)

(* The hits that are ranked are hits of the corpus, whatever was found.    *)
LEMMA HitsAreListed ==
    ASSUME NEW c \in Corpora
    PROVE  RankedHits(c) \in Seq(ToSet(c)) /\ Measured(ToSet(c))
<1> DEFINE S == ToSet(c)
           hits == {i \in DOMAIN c : c[i].kind \in kinds}
           substantive == {i \in hits : ~c[i].metadataOnly}
           set == IF substantive = {} THEN hits ELSE substantive
           ranked == Places(c, set)
           n == MinNat(ResultLimit(setting.mode), Len(ranked))
<1>1. c \in Seq(S) /\ \A i \in DOMAIN c : c[i].score \in Int /\ c[i].tokens \in Nat
  BY AnsweringAssumption
<1>2. Measured(S)
  BY <1>1 DEF ToSet, Measured
<1>3. set \in SUBSET (DOMAIN c)
  OBVIOUS
<1>4. RankedHits(c) = SubSeq(ranked, 1, n)
  BY DEF RankedHits
<1>5. ResultLimit(setting.mode) \in Nat
  BY DEF ResultLimit
<1> HIDE DEF S, hits, substantive, set
<1>6. ranked \in Seq(S)
  BY <1>1, <1>3, PlacesOf
<1> HIDE DEF ranked
<1>7. n \in 0..Len(ranked)
  BY <1>5, <1>6 DEF MinNat
<1> HIDE DEF n
<1>8. SubSeq(ranked, 1, n) \in Seq(S)
  BY <1>6, <1>7, SubSeqProperties
<1> QED
  BY <1>2, <1>4, <1>8 DEF S


-----------------------------------------------------------------------------
(* The answer.                                                             *)
AnswerSteps == {"search", "evidence", "map", "write", "verify", "repair", "settle", "strict",
                "answered", "refused", "failed"}

AnswerTypes ==
    /\ corpus \in Corpora \cup {<<>>} /\ policy \in [strict : BOOLEAN, spanish : BOOLEAN]
    /\ at \in AnswerSteps
    /\ pack \in Seq(ToSet(corpus))
    /\ draft \in Drafts \cup {NoDraft}
    /\ cites \in SUBSET (DOMAIN pack)
    /\ checked \in CheckRow

Verified == {"repair", "settle", "strict", "answered"}

(* The citations are those of the draft, and a draft verified is clean.    *)
DraftIsBound ==
    /\ at \in {"verify"} \cup Verified => cites = BindCitations(pack, draft)
    /\ at \in Verified /\ checked.verdict = "verified" => Clean(pack, policy.spanish, draft)

(* The draft is not worse than the first was.                              *)
FirstIsRemembered ==
    /\ at = "repair" => first = Quality(checked, cites)
    /\ at \in {"settle", "strict", "answered"} =>
          "spanish_fallback" \in checked.issues \/ ~LexGreater(first, Quality(checked, cites))

(* What strict mode has made sure of.                                      *)
StrictlyCited ==
    at = "answered" /\ policy.strict =>
        /\ cites # {}
        /\ setting.mode = "visual" => \E i \in cites : pack[i].anchor = "page"

PackIsEmptyAtFirst == at = "search" => pack = <<>>

AnswerInv ==
    /\ HybridInv /\ AnswerTypes /\ PackIsWithinLimits /\ PackIsEmptyAtFirst
    /\ DraftIsBound /\ FirstIsRemembered /\ StrictlyCited


(* What the model may write and say has these shapes.                      *)
LEMMA DraftsAreRows == Drafts \cup {NoDraft} \subseteq DraftRow
<1>1. Drafts \subseteq DraftRow
  BY AnsweringAssumption DEF DraftRow
<1>2. NoDraft \in DraftRow
  BY DEF NoDraft, DraftRow
<1> QED
  BY <1>1, <1>2

(* The verifying model has no opinion, or one.                             *)
LEMMA MayOpineIsOpinable ==
    ASSUME NEW opinions \in MayOpine
    PROVE  Opinable(opinions)
<1>1. CASE opinions = {}
  BY <1>1 DEF Opinable
<1>2. ASSUME NEW o \in Opinions, opinions = {o}
      PROVE  Opinable(opinions)
  <2>1. o \in [verdict : ToSet(Verdicts), score : Nat, issues : SUBSET STRING]
        /\ IsFiniteSet(o.issues)
    BY AnsweringAssumption
  <2>2. PICK v \in VerdictSet, s \in Nat, is \in SUBSET STRING :
           o = [verdict |-> v, score |-> s, issues |-> is]
    BY <2>1, VerdictsAre
  <2>3. o.issues \in Issues
    BY <2>1 DEF Issues, IssueNames
  <2>4. is \in Issues
    BY <2>2, <2>3
  <2> HIDE DEF Issues
  <2>5. o \in Opinion
    BY <2>2, <2>4 DEF Opinion
  <2> QED
    BY <1>2, <2>5 DEF Opinable
<1> QED
  BY <1>1, <1>2 DEF MayOpine

(* The citations of any draft are places of the pack.                      *)
LEMMA CitationsArePlaces ==
    ASSUME NEW items, NEW text
    PROVE  BindCitations(items, text) \subseteq DOMAIN items
BY DEF BindCitations, CitableMarks, ValidMarks

(* Once there is evidence, the search and the pack stay as they are.       *)
LEMMA SearchKept ==
    ASSUME AnswerInv, UNCHANGED hybridVars
    PROVE  HybridInv' /\ setting' = setting
<1>1. HybridInv'
  BY HybridInvStep DEF AnswerInv
<1> QED
  BY <1>1 DEF hybridVars

(* The pack stays within its limits while neither it nor the route changes. *)
LEMMA PackKept ==
    ASSUME AnswerInv, UNCHANGED <<hybridVars, corpus, policy, pack>>
    PROVE  PackIsWithinLimits'
<1>1. setting' = setting /\ pack' = pack
  BY DEF hybridVars
<1> QED
  BY <1>1 DEF AnswerInv, PackIsWithinLimits

(* The search goes on: there is nothing but the search.                    *)
LEMMA AnswerSearchKeeps ==
    ASSUME AnswerInv, at = "search", HybridNext, UNCHANGED answerVars
    PROVE  AnswerInv'
<1>1. UNCHANGED <<corpus, policy, at, pack, memos, draft, cites, checked, first>>
  BY DEF answerVars
<1>2. HybridInv'
  BY HybridInvStep DEF AnswerInv
<1>3. pack = <<>>
  BY DEF AnswerInv, PackIsEmptyAtFirst
<1>4. PackIsWithinLimits'
  <2> DEFINE limits == Limits(setting'.mode)
             S == {}
  <2>1. limits \in PackLimits
    BY LimitsAreNumbers
  <2> HIDE DEF limits
  <2>2. Selection(limits, S, <<>>)
    BY <2>1, NothingSelected
  <2>3. WithinLimits(limits, <<>>)
    BY <2>2 DEF Selection
  <2> QED
    BY <1>1, <1>3, <2>3 DEF PackIsWithinLimits, limits
<1>5. AnswerTypes'
  BY <1>1 DEF AnswerInv, AnswerTypes
<1>6. PackIsEmptyAtFirst' /\ DraftIsBound' /\ FirstIsRemembered' /\ StrictlyCited'
  BY <1>1 DEF PackIsEmptyAtFirst, DraftIsBound, FirstIsRemembered, StrictlyCited, Verified,
              AnswerInv
<1> QED
  BY <1>2, <1>4, <1>5, <1>6 DEF AnswerInv

(* The evidence is ranked and packed.                                      *)
LEMMA TakeKeeps == ASSUME AnswerInv, TakeEvidence PROVE AnswerInv'
<1>1. PICK c \in Corpora : corpus' = c /\ pack' = Pack(setting.mode, RankedHits(c))
  BY DEF TakeEvidence
<1>2. /\ at' = "evidence" /\ policy' \in Policies
      /\ UNCHANGED <<hybridVars, memos, draft, cites, checked, first>>
      /\ at = "search"
  BY DEF TakeEvidence
<1>3. HybridInv' /\ setting' = setting
  BY <1>2, SearchKept
<1> DEFINE S == ToSet(c)
<1>5. RankedHits(c) \in Seq(S) /\ Measured(S)
  BY HitsAreListed
<1> HIDE DEF S
<1> DEFINE hits == RankedHits(c)
           p == Pack(setting.mode, hits)
<1>6. hits \in Seq(S)
  BY <1>5
<1> HIDE DEF hits
<1>7. /\ p \in Seq(S) /\ WithinLimits(Limits(setting.mode), p)
      /\ \A i, j \in DOMAIN p : SameText(p[i], p[j]) => i = j
  BY <1>5, <1>6, PackSelects
<1>8. pack' = p
  BY <1>1 DEF hits
<1> HIDE DEF p
<1>9. PackIsWithinLimits'
  BY <1>3, <1>7, <1>8 DEF PackIsWithinLimits
<1>10. pack = <<>>
  BY <1>2 DEF AnswerInv, PackIsEmptyAtFirst
<1>11. AnswerTypes'
  <2>1. corpus' \in Corpora \cup {<<>>} /\ at' \in AnswerSteps
    BY <1>1, <1>2 DEF AnswerSteps
  <2>2. policy' \in [strict : BOOLEAN, spanish : BOOLEAN]
    BY <1>2, AnsweringAssumption
  <2>3. pack' \in Seq(ToSet(corpus'))
    BY <1>1, <1>7, <1>8 DEF S
  <2>4. cites = {}
    BY <1>10 DEF AnswerInv, AnswerTypes
  <2>5. draft' = draft /\ cites' = cites /\ checked' = checked
    BY <1>2
  <2> QED
    BY <2>1, <2>2, <2>3, <2>4, <2>5 DEF AnswerInv, AnswerTypes
<1>12. PackIsEmptyAtFirst' /\ DraftIsBound' /\ FirstIsRemembered' /\ StrictlyCited'
  BY <1>2 DEF PackIsEmptyAtFirst, DraftIsBound, FirstIsRemembered, StrictlyCited, Verified
<1> QED
  BY <1>3, <1>9, <1>11, <1>12 DEF AnswerInv


(* A step that leaves the draft alone, and its verification, unless it was *)
(* none of the later steps that are reached.                               *)
LEMMA WaitingKeeps ==
    ASSUME AnswerInv, UNCHANGED <<hybridVars, corpus, policy, pack>>,
           UNCHANGED <<draft, cites, checked, first>>,
           at' \in {"refused", "failed", "map", "write"}
    PROVE  AnswerInv'
<1>1. HybridInv' /\ PackIsWithinLimits'
  BY SearchKept, PackKept
<1>2. AnswerTypes'
  BY DEF AnswerInv, AnswerTypes, AnswerSteps
<1>3. PackIsEmptyAtFirst' /\ DraftIsBound' /\ FirstIsRemembered' /\ StrictlyCited'
  BY DEF PackIsEmptyAtFirst, DraftIsBound, FirstIsRemembered, StrictlyCited, Verified
<1> QED
  BY <1>1, <1>2, <1>3 DEF AnswerInv

(* A draft written has the citations of its markers.                       *)
LEMMA WriteKeeps == ASSUME AnswerInv, WriteDraft PROVE AnswerInv'
<1>1. PICK new \in Drafts : draft' = new /\ cites' = BindCitations(pack, new)
  BY DEF WriteDraft
<1>2. at' = "verify" /\ UNCHANGED <<hybridVars, corpus, policy, pack>> /\ checked' = checked
  BY DEF WriteDraft, AnswerKeeps
<1>3. HybridInv' /\ PackIsWithinLimits'
  BY <1>2, SearchKept, PackKept
<1>4. BindCitations(pack, new) \subseteq DOMAIN pack
  BY CitationsArePlaces
<1>5. AnswerTypes'
  BY <1>1, <1>2, <1>4 DEF AnswerInv, AnswerTypes, AnswerSteps
<1>6. PackIsEmptyAtFirst' /\ DraftIsBound' /\ FirstIsRemembered' /\ StrictlyCited'
  BY <1>1, <1>2 DEF PackIsEmptyAtFirst, DraftIsBound, FirstIsRemembered, StrictlyCited, Verified
<1> QED
  BY <1>3, <1>5, <1>6 DEF AnswerInv

(* The verification is sensible whatever the verifying model says.         *)
LEMMA VerifiedSensibly ==
    ASSUME AnswerInv, NEW new \in Drafts \cup {NoDraft}, NEW opinions \in MayOpine
    PROVE  /\ Verify(pack, Plan, policy.spanish, new, opinions) \in CheckRow
           /\ Verify(pack, Plan, policy.spanish, new, opinions).verdict = "verified" =>
                Clean(pack, policy.spanish, new)
<1>1. new \in DraftRow
  BY DraftsAreRows
<1>2. Opinable(opinions)
  BY MayOpineIsOpinable
<1>3. policy.spanish \in BOOLEAN
  BY DEF AnswerInv, AnswerTypes
<1> DEFINE spanish == policy.spanish
           plan == Plan
<1>4. spanish \in BOOLEAN
  BY <1>3
<1> HIDE DEF spanish, plan
<1>5. /\ Verify(pack, plan, spanish, new, opinions) \in CheckRow
      /\ Verify(pack, plan, spanish, new, opinions).verdict = "verified" =>
           Clean(pack, spanish, new)
  BY <1>1, <1>2, <1>4, VerifyIsSensible
<1> QED
  BY <1>5 DEF spanish, plan

(* The citations of a pack are finitely many.                              *)
LEMMA CitesAreFinite ==
    ASSUME AnswerInv, NEW set \in SUBSET (DOMAIN pack)
    PROVE  IsFiniteSet(set)
<1> DEFINE n == Len(pack)
<1>1. n \in Nat /\ DOMAIN pack = 1..n
  BY DEF AnswerInv, AnswerTypes
<1> HIDE DEF n
<1>2. IsFiniteSet(1..n)
  BY <1>1, FS_Interval
<1> QED
  BY <1>1, <1>2, FS_Subset

(* A draft found verified is clean, and its quality is remembered.         *)
LEMMA VerifyKeeps == ASSUME AnswerInv, VerifyDraft PROVE AnswerInv'
<1>1. PICK opinions \in MayOpine : checked' = Verify(pack, Plan, policy.spanish, draft, opinions)
  BY DEF VerifyDraft
<1>2. /\ at = "verify" /\ at' \in {"repair", "settle"} /\ first' = Quality(checked', cites)
      /\ UNCHANGED <<hybridVars, corpus, policy, pack>> /\ UNCHANGED <<memos, draft, cites>>
  BY DEF VerifyDraft, AnswerKeeps
<1>3. HybridInv' /\ PackIsWithinLimits'
  BY <1>2, SearchKept, PackKept
<1>4. checked' \in CheckRow /\ (checked'.verdict = "verified" => Clean(pack, policy.spanish, draft))
  <2>1. draft \in Drafts \cup {NoDraft}
    BY DEF AnswerInv, AnswerTypes
  <2> QED
    BY <1>1, <2>1, VerifiedSensibly
<1>5. AnswerTypes'
  BY <1>2, <1>4 DEF AnswerInv, AnswerTypes, AnswerSteps
<1>6. DraftIsBound'
  BY <1>2, <1>4 DEF AnswerInv, DraftIsBound, Verified
<1>7. FirstIsRemembered'
  <2>1. IsFiniteSet(cites)
    BY CitesAreFinite DEF AnswerInv, AnswerTypes
  <2>2. ~LexGreater(Quality(checked', cites), Quality(checked', cites))
    BY <1>4, <2>1, QualityIrreflexive
  <2> QED
    BY <1>2, <2>2 DEF FirstIsRemembered
<1>8. PackIsEmptyAtFirst' /\ StrictlyCited'
  BY <1>2 DEF PackIsEmptyAtFirst, StrictlyCited
<1> QED
  BY <1>3, <1>5, <1>6, <1>7, <1>8 DEF AnswerInv

(* The first draft is kept.                                                *)
LEMMA DraftStays ==
    ASSUME AnswerInv, at = "repair", at' = "settle",
           UNCHANGED <<hybridVars, corpus, policy, pack>>,
           UNCHANGED <<draft, cites, checked, first>>
    PROVE  AnswerInv'
<1>1. HybridInv' /\ PackIsWithinLimits'
  BY SearchKept, PackKept
<1>2. AnswerTypes'
  BY DEF AnswerInv, AnswerTypes, AnswerSteps
<1>3. DraftIsBound'
  BY DEF AnswerInv, DraftIsBound, Verified
<1>4. FirstIsRemembered'
  <2>1. IsFiniteSet(cites) /\ checked \in CheckRow
    BY CitesAreFinite DEF AnswerInv, AnswerTypes
  <2>2. ~LexGreater(Quality(checked, cites), Quality(checked, cites))
    BY <2>1, QualityIrreflexive
  <2> QED
    BY <2>2 DEF AnswerInv, FirstIsRemembered
<1>5. PackIsEmptyAtFirst' /\ StrictlyCited'
  BY DEF PackIsEmptyAtFirst, StrictlyCited
<1> QED
  BY <1>1, <1>2, <1>3, <1>4, <1>5 DEF AnswerInv

(* The second draft is adopted, with one issue more.                       *)
LEMMA AdoptKeeps ==
    ASSUME AnswerInv, at = "repair", at' = "settle",
           UNCHANGED <<hybridVars, corpus, policy, pack>>, first' = first,
           NEW new \in Drafts, NEW newChecked \in CheckRow,
           newChecked.verdict = "verified" => Clean(pack, policy.spanish, new),
           Better(newChecked, BindCitations(pack, new), checked, cites),
           Adopt(new, newChecked)
    PROVE  AnswerInv'
<1>1. HybridInv' /\ PackIsWithinLimits'
  BY SearchKept, PackKept
<1> DEFINE old == checked
           oldCites == cites
           newCites == BindCitations(pack, new)
           issue == "regenerated_after_failed_verification"
<1>2. /\ draft' = new /\ cites' = newCites
      /\ checked' = [newChecked EXCEPT !.issues = newChecked.issues \cup {issue}]
  BY DEF Adopt
<1>3. newCites \subseteq DOMAIN pack
  BY CitationsArePlaces
<1>4. IsFiniteSet(newCites) /\ IsFiniteSet(oldCites) /\ old \in CheckRow
  <2>1. newCites \in SUBSET (DOMAIN pack) /\ oldCites \in SUBSET (DOMAIN pack)
    BY <1>3 DEF AnswerInv, AnswerTypes
  <2> HIDE DEF newCites, oldCites
  <2> QED
    BY <2>1, CitesAreFinite DEF AnswerInv, AnswerTypes
<1>5. issue \in IssueNames
  BY DEF IssueNames
<1>6. Better(newChecked, newCites, old, oldCites)
  OBVIOUS
<1>7. PICK row : row = checked'
  OBVIOUS
<1>8. row = [newChecked EXCEPT !.issues = newChecked.issues \cup {issue}]
  BY <1>2, <1>7
<1> HIDE DEF old, oldCites, newCites, issue
<1>9. /\ row \in CheckRow /\ row.verdict = newChecked.verdict
      /\ ~LexGreater(Quality(old, oldCites), Quality(row, newCites))
  BY <1>4, <1>5, <1>6, <1>8, AdoptedIsNotWorse
<1>10. AnswerTypes'
  BY <1>2, <1>3, <1>7, <1>9 DEF AnswerInv, AnswerTypes, AnswerSteps
<1>11. DraftIsBound'
  BY <1>2, <1>7, <1>9 DEF DraftIsBound, Verified, newCites
<1>12. FirstIsRemembered'
  <2>1. first = Quality(old, oldCites)
    BY DEF AnswerInv, FirstIsRemembered, old, oldCites
  <2>2. ~LexGreater(first', Quality(checked', cites'))
    BY <1>2, <1>7, <1>9, <2>1
  <2> QED
    BY <2>2 DEF FirstIsRemembered
<1>13. PackIsEmptyAtFirst' /\ StrictlyCited'
  BY DEF PackIsEmptyAtFirst, StrictlyCited
<1> QED
  BY <1>1, <1>10, <1>11, <1>12, <1>13 DEF AnswerInv

(* The repair keeps the first draft, or adopts one that is not worse.      *)
LEMMA RepairKeeps == ASSUME AnswerInv, RepairDraft PROVE AnswerInv'
<1>1. /\ at = "repair" /\ at' = "settle" /\ first' = first
      /\ UNCHANGED <<hybridVars, corpus, policy, pack>>
  BY DEF RepairDraft, AnswerKeeps
<1>2. PICK new \in Drafts, opinions \in MayOpine :
         IF Better(Verify(pack, Plan, policy.spanish, new, opinions), BindCitations(pack, new),
                   checked, cites)
         THEN Adopt(new, Verify(pack, Plan, policy.spanish, new, opinions))
         ELSE UNCHANGED <<draft, cites, checked>>
  BY Zenon DEF RepairDraft
<1>3. PICK newChecked : newChecked = Verify(pack, Plan, policy.spanish, new, opinions)
  OBVIOUS
<1>4. IF Better(newChecked, BindCitations(pack, new), checked, cites)
      THEN Adopt(new, newChecked) ELSE UNCHANGED <<draft, cites, checked>>
  BY <1>2, <1>3
<1>5. CASE ~Better(newChecked, BindCitations(pack, new), checked, cites)
  BY <1>1, <1>4, <1>5, DraftStays
<1>6. CASE Better(newChecked, BindCitations(pack, new), checked, cites)
  <2>1. newChecked \in CheckRow
        /\ (newChecked.verdict = "verified" => Clean(pack, policy.spanish, new))
    BY <1>3, VerifiedSensibly
  <2>2. Adopt(new, newChecked)
    BY <1>4, <1>6
  <2> QED
    BY <1>1, <1>6, <2>1, <2>2, AdoptKeeps
<1> QED
  BY <1>5, <1>6

(* The answer that is written instead when the language is wrong has no    *)
(* citations, and is not verified.                                         *)
LEMMA SettleKeeps == ASSUME AnswerInv, Settle PROVE AnswerInv'
<1>1. /\ at = "settle" /\ at' = "strict" /\ first' = first
      /\ UNCHANGED <<hybridVars, corpus, policy, pack>>
  BY DEF Settle, AnswerKeeps
<1>2. HybridInv' /\ PackIsWithinLimits'
  BY <1>1, SearchKept, PackKept
<1>3. PackIsEmptyAtFirst' /\ StrictlyCited'
  BY <1>1 DEF PackIsEmptyAtFirst, StrictlyCited
<1>4. CASE FallsBack
  <2> DEFINE more == checked.issues \cup {"spanish_fallback"}
             row == [verdict |-> "unverified", score |-> 0, issues |-> more]
  <2>1. draft' = NoDraft /\ cites' = {} /\ checked' = row
    BY <1>4 DEF Settle
  <2>2. more \in Issues
    <3> DEFINE is == checked.issues
    <3>1. is \in Issues
      BY DEF AnswerInv, AnswerTypes, CheckRow
    <3> HIDE DEF is
    <3>2. is \subseteq IssueNames /\ IsFiniteSet(is)
      BY <3>1 DEF Issues
    <3>3. IsFiniteSet(is \cup {"spanish_fallback"})
      BY <3>2, FS_AddElement
    <3>4. "spanish_fallback" \in IssueNames
      BY DEF IssueNames
    <3> QED
      BY <3>2, <3>3, <3>4 DEF Issues, is
  <2>3. "spanish_fallback" \in more
    OBVIOUS
  <2> HIDE DEF more
  <2>4. row \in CheckRow /\ row.verdict = "unverified" /\ row.issues = more
    BY <2>2 DEF CheckRow, VerdictSet
  <2> HIDE DEF row
  <2>5. BindCitations(pack, NoDraft) = {}
    <3>1. Marks(NoDraft) = {}
      BY DEF Marks, NoDraft
    <3> QED
      BY <3>1 DEF BindCitations, CitableMarks, ValidMarks
  <2>6. AnswerTypes'
    BY <1>1, <2>1, <2>4 DEF AnswerInv, AnswerTypes, AnswerSteps
  <2>7. DraftIsBound'
    BY <1>1, <2>1, <2>4, <2>5 DEF DraftIsBound
  <2>8. FirstIsRemembered'
    BY <1>1, <2>1, <2>3, <2>4 DEF FirstIsRemembered
  <2> QED
    BY <1>2, <1>3, <2>6, <2>7, <2>8 DEF AnswerInv
<1>5. CASE ~FallsBack
  <2>1. UNCHANGED <<draft, cites, checked>>
    BY <1>5 DEF Settle
  <2>2. AnswerTypes'
    BY <1>1, <2>1 DEF AnswerInv, AnswerTypes, AnswerSteps
  <2>3. DraftIsBound' /\ FirstIsRemembered'
    BY <1>1, <2>1 DEF AnswerInv, DraftIsBound, FirstIsRemembered, Verified
  <2> QED
    BY <1>2, <1>3, <2>2, <2>3 DEF AnswerInv
<1> QED
  BY <1>4, <1>5

(* The answer is stored, or refused.                                       *)
LEMMA StoreKeeps == ASSUME AnswerInv, StoreAnswer PROVE AnswerInv'
<1>1. /\ at = "strict" /\ at' \in {"refused", "answered"}
      /\ at' = "answered" => ~AnswerRefused
      /\ UNCHANGED <<hybridVars, corpus, policy, pack>>
      /\ UNCHANGED <<memos, draft, cites, checked, first>>
  BY DEF StoreAnswer, AnswerKeeps
<1>2. HybridInv' /\ PackIsWithinLimits' /\ setting' = setting
  BY <1>1, SearchKept, PackKept
<1>3. AnswerTypes'
  BY <1>1 DEF AnswerInv, AnswerTypes, AnswerSteps
<1>4. PackIsEmptyAtFirst' /\ DraftIsBound' /\ FirstIsRemembered'
  BY <1>1 DEF AnswerInv, PackIsEmptyAtFirst, DraftIsBound, FirstIsRemembered, Verified
<1>5. StrictlyCited'
  BY <1>1, <1>2 DEF StrictlyCited, AnswerRefused
<1> QED
  BY <1>2, <1>3, <1>4, <1>5 DEF AnswerInv

(* The invariant holds at first.                                           *)
LEMMA AnswerInvInit == AnswerInit => AnswerInv
<1> SUFFICES ASSUME AnswerInit PROVE AnswerInv
  OBVIOUS
<1>1. /\ corpus = <<>> /\ policy = Lenient /\ at = "search" /\ pack = <<>>
      /\ draft = NoDraft /\ cites = {} /\ checked = Unchecked
  BY DEF AnswerInit
<1>2. HybridInv
  BY HybridInvInit DEF AnswerInit
<1>3. PackIsWithinLimits
  <2> DEFINE limits == Limits(setting.mode)
             S == {}
  <2>1. limits \in PackLimits
    BY LimitsAreNumbers
  <2> HIDE DEF limits
  <2>2. Selection(limits, S, <<>>)
    BY <2>1, NothingSelected
  <2>3. WithinLimits(limits, <<>>)
    BY <2>2 DEF Selection
  <2> QED
    BY <1>1, <2>3 DEF PackIsWithinLimits, limits
<1>4. Unchecked \in CheckRow
  <2>1. {} \in Issues
    BY FS_EmptySet DEF Issues
  <2> QED
    BY <2>1 DEF Unchecked, CheckRow, VerdictSet
<1>5. AnswerTypes
  BY <1>1, <1>4 DEF AnswerTypes, AnswerSteps, Lenient
<1>6. PackIsEmptyAtFirst /\ DraftIsBound /\ FirstIsRemembered /\ StrictlyCited
  BY <1>1 DEF PackIsEmptyAtFirst, DraftIsBound, FirstIsRemembered, StrictlyCited, Verified
<1> QED
  BY <1>2, <1>3, <1>5, <1>6 DEF AnswerInv

(* Every step of a question keeps it.                                      *)
LEMMA AnswerInvStep == AnswerInv /\ [AnswerNext]_allVars => AnswerInv'
<1> SUFFICES ASSUME AnswerInv, [AnswerNext]_allVars PROVE AnswerInv'
  OBVIOUS
<1>1. CASE Compose
  BY <1>1, WaitingKeeps DEF Compose, AnswerKeeps
<1>2. CASE SummarizeGroup
  <2>1. at' \in {"map", "write"}
    BY <1>2 DEF SummarizeGroup
  <2> QED
    BY <1>2, <2>1, WaitingKeeps DEF SummarizeGroup, AnswerKeeps
<1>3. CASE ModelFails
  BY <1>3, WaitingKeeps DEF ModelFails, AnswerKeeps
<1>4. CASE RepairFails
  BY <1>4, DraftStays DEF RepairFails, AnswerKeeps
<1>5. CASE UNCHANGED allVars
  <2>1. UNCHANGED hybridVars
        /\ UNCHANGED <<corpus, policy, at, pack, memos, draft, cites, checked, first>>
    BY <1>5 DEF allVars, answerVars
  <2>2. HybridInv' /\ PackIsWithinLimits' /\ setting' = setting
    BY <2>1, SearchKept, PackKept
  <2>3. AnswerTypes'
    BY <2>1 DEF AnswerInv, AnswerTypes
  <2>4. PackIsEmptyAtFirst' /\ DraftIsBound' /\ FirstIsRemembered' /\ StrictlyCited'
    BY <2>1, <2>2 DEF AnswerInv, PackIsEmptyAtFirst, DraftIsBound, FirstIsRemembered,
                      StrictlyCited
  <2> QED
    BY <2>2, <2>3, <2>4 DEF AnswerInv
<1> QED
  BY <1>1, <1>2, <1>3, <1>4, <1>5, AnswerSearchKeeps, TakeKeeps, WriteKeeps, VerifyKeeps,
     RepairKeeps, SettleKeeps, StoreKeeps DEF AnswerNext

(* An answer that is stored belongs to its citations and its verdict, for  *)
(* any corpora, drafts, opinions of the verifying model and failures: the  *)
(* invariant follows each draft from its writing to the strict check.      *)
THEOREM AnswersAreSound == AnswerSpec => []AnswerIsSound
<1>1. AnswerInv => AnswerIsSound
  <2> SUFFICES ASSUME AnswerInv PROVE AnswerIsSound
    OBVIOUS
  <2>1. AnswerTypeOK
    <3>1. HybridTypeOK
      BY DEF AnswerInv, HybridInv
    <3>2. ToSet(pack) \subseteq ToSet(corpus)
      <4> DEFINE S == ToSet(corpus)
      <4>1. pack \in Seq(S)
        BY DEF AnswerInv, AnswerTypes
      <4> HIDE DEF S
      <4>2. ToSet(pack) \subseteq S
        BY <4>1 DEF ToSet
      <4> QED
        BY <4>2 DEF S
    <3>3. checked.verdict \in ToSet(Verdicts) /\ checked.score \in 0..100
      BY VerdictsAre DEF AnswerInv, AnswerTypes, CheckRow
    <3> QED
      BY <3>1, <3>2, <3>3 DEF AnswerInv, AnswerTypes, AnswerTypeOK, AnswerSteps
  <2>2. CitationsAreOfTheText
    <3> SUFFICES ASSUME at = "answered" PROVE
            /\ cites = BindCitations(pack, draft)
            /\ policy.strict => \E i \in cites :
                EvidenceIsCitable(pack[i]) /\ (setting.mode = "visual" => pack[i].anchor = "page")
      BY DEF CitationsAreOfTheText
    <3>1. cites = BindCitations(pack, draft)
      BY DEF AnswerInv, DraftIsBound, Verified
    <3>2. \A i \in cites : EvidenceIsCitable(pack[i])
      BY <3>1 DEF BindCitations, CitableMarks
    <3> QED
      BY <3>1, <3>2 DEF AnswerInv, StrictlyCited
  <2>3. RepairNeverWorse
    BY DEF AnswerInv, FirstIsRemembered, RepairNeverWorse
  <2>4. VerifiedIsClean
    BY DEF AnswerInv, DraftIsBound, Verified, VerifiedIsClean, Clean
  <2> QED
    BY <2>1, <2>2, <2>3, <2>4 DEF AnswerInv, AnswerIsSound
<1> QED
  BY <1>1, AnswerInvInit, AnswerInvStep, PTL DEF AnswerSpec


-----------------------------------------------------------------------------
(* The groups of a synthesis.                                              *)

(* The places D of a pack are read once each by the groups.                *)
ReadOnce(groups, D) ==
    /\ groups \in Seq(SUBSET D)
    /\ \A i \in D : \E m \in DOMAIN groups : i \in groups[m]
    /\ \A m, n \in DOMAIN groups : m # n => groups[m] \cap groups[n] = {}

(* One group for each document, or kind and title, that appears.           *)
LEMMA GroupsReadOnce ==
    ASSUME NEW S, NEW items \in Seq(S)
    PROVE  ReadOnce(GroupsByKey(items), DOMAIN items)
<1> DEFINE D == DOMAIN items
           key == [i \in D |-> GroupKey(items[i])]
           First == {i \in D : \A j \in 1..(i - 1) : key[j] # key[i]}
           N == Cardinality(First)
           group(n) == {i \in D : key[i] = key[Nth(First, n)]}
           groups == [n \in 1..N |-> group(n)]
<1>1. D = 1..Len(items) /\ Len(items) \in Nat /\ IsFiniteSet(1..Len(items))
  BY FS_Interval
<1>2. First \in SUBSET D /\ D \in SUBSET Nat
  BY <1>1
<1>3. IsFiniteSet(First) /\ First \in SUBSET Nat
  BY <1>1, <1>2, FS_Subset
<1>4. First = {i \in DOMAIN items : \A j \in 1..(i - 1) : GroupKey(items[j]) # GroupKey(items[i])}
  <2>1. \A i \in D : \A j \in 1..(i - 1) : j \in D
    BY <1>1
  <2> QED
    BY <2>1
<1>5. /\ N \in Nat
      /\ \A n \in 1..N : Nth(First, n) \in First
      /\ \A m, n \in 1..N : m < n => Nth(First, m) < Nth(First, n)
      /\ \A i \in First : \E n \in 1..N : Nth(First, n) = i
  <2> HIDE DEF First
  <2> QED
    BY <1>3, NthPlace
<1>6. GroupsByKey(items) = groups
  <2>1. \A n \in 1..N : Nth(First, n) \in D
    BY <1>2, <1>5
  <2> DEFINE F == {i \in DOMAIN items :
                      \A j \in 1..(i - 1) : GroupKey(items[j]) # GroupKey(items[i])}
  <2>2. GroupsByKey(items) =
          [n \in 1..Cardinality(F) |->
             {i \in DOMAIN items : GroupKey(items[i]) = GroupKey(items[Nth(F, n)])}]
    BY DEF GroupsByKey
  <2>3. F = First
    BY <1>4
  <2> HIDE DEF F, First
  <2>4. \A n \in 1..N : group(n) =
             {i \in DOMAIN items : GroupKey(items[i]) = GroupKey(items[Nth(First, n)])}
    BY <2>1
  <2> QED
    BY <2>2, <2>3, <2>4
<1>7. \A i \in D : \E j \in First : key[j] = key[i]
  <2> SUFFICES ASSUME NEW i \in D PROVE \E j \in First : key[j] = key[i]
    OBVIOUS
  <2> DEFINE same == {j \in D : key[j] = key[i]}
  <2>1. same \in SUBSET Nat /\ same # {}
    BY <1>2
  <2> HIDE DEF same
  <2>2. PICK j \in same : \A k \in same : j <= k
    BY <2>1, LeastNumber
  <2>3. j \in D /\ key[j] = key[i]
    BY <2>2 DEF same
  <2>4. ASSUME NEW k \in 1..(j - 1) PROVE key[k] # key[j]
    <3>1. k \in D /\ k < j /\ k \in Nat /\ j \in Nat
      BY <1>1, <2>3
    <3>2. k \notin same
      BY <2>2, <3>1
    <3> QED
      BY <2>3, <3>1, <3>2 DEF same
  <2> QED
    BY <2>3, <2>4
<1> HIDE DEF key
<1>8. \A m, n \in 1..N : key[Nth(First, m)] = key[Nth(First, n)] => m = n
  <2>1. ASSUME NEW m \in 1..N, NEW n \in 1..N, m < n
        PROVE  key[Nth(First, m)] # key[Nth(First, n)]
    <3> DEFINE a == Nth(First, m)
               b == Nth(First, n)
    <3>1. a \in First /\ b \in First /\ a < b
      BY <1>5, <2>1
    <3> HIDE DEF a, b
    <3>2. a \in 1..(b - 1)
      BY <1>1, <1>2, <3>1
    <3>3. key[a] # key[b]
      BY <3>1, <3>2
    <3> QED
      BY <3>3 DEF a, b
  <2> HIDE DEF First, N
  <2>2. \A m, n \in 1..N : m = n \/ m < n \/ n < m
    BY <1>5
  <2> QED
    BY <2>1, <2>2
<1>9. \A n \in 1..N : group(n) \in SUBSET D
  OBVIOUS
<1>10. groups \in Seq(SUBSET D)
  <2> HIDE DEF group, D, N
  <2> QED
    BY <1>5, <1>9 DEF N
<1>11. DOMAIN groups = 1..N /\ \A n \in 1..N : groups[n] = group(n)
  <2> HIDE DEF group, N
  <2> QED
    OBVIOUS
<1>12. \A i \in D : \E m \in 1..N : i \in group(m)
  <2> SUFFICES ASSUME NEW i \in D PROVE \E m \in 1..N : i \in group(m)
    OBVIOUS
  <2>1. PICK j \in First : key[j] = key[i]
    BY <1>7
  <2> HIDE DEF First, N
  <2>2. PICK m \in 1..N : Nth(First, m) = j
    BY <1>5 DEF N
  <2> QED
    BY <2>1, <2>2
<1>13. \A m, n \in 1..N : m # n => group(m) \cap group(n) = {}
  <2> HIDE DEF First, N
  <2> QED
    BY <1>8
<1> HIDE DEF group, groups, N, D, First
<1> QED
  BY <1>6, <1>10, <1>11, <1>12, <1>13 DEF ReadOnce, D

-----------------------------------------------------------------------------
(* The merge of the groups in buckets.                                     *)
Buckets(K, D) == [1..K -> SUBSET D]

(* There is a lightest bucket.                                             *)
LEMMA LightestIsABucket ==
    ASSUME NEW K \in Nat \ {0}, NEW D, IsFiniteSet(D), NEW b \in Buckets(K, D)
    PROVE  Lightest(b) \in 1..K
<1> DEFINE weight == [x \in 1..K |-> Cardinality(b[x])]
           weights == {weight[x] : x \in 1..K}
<1>1. DOMAIN b = 1..K /\ \A x \in 1..K : b[x] \in SUBSET D
  BY DEF Buckets
<1>2. \A x \in 1..K : weight[x] \in Nat
  <2> SUFFICES ASSUME NEW x \in 1..K PROVE weight[x] \in Nat
    OBVIOUS
  <2>1. IsFiniteSet(b[x])
    BY <1>1, FS_Subset
  <2> QED
    BY <2>1, FS_CardinalityType
<1>3. 1 \in 1..K
  OBVIOUS
<1>4. \A x \in 1..K : weight[x] = Cardinality(b[x])
  OBVIOUS
<1> HIDE DEF weight
<1>5. weights \in SUBSET Nat /\ weights # {}
  BY <1>2, <1>3
<1> HIDE DEF weights
<1>6. PICK w \in weights : \A v \in weights : w <= v
  BY <1>5, LeastNumber
<1> DEFINE light == {x \in 1..K : weight[x] = w}
<1>7. light \in SUBSET Nat /\ light # {}
  BY <1>6 DEF weights
<1> HIDE DEF light
<1>8. PICK x \in light : \A y \in light : x <= y
  BY <1>7, LeastNumber
<1>9. x \in 1..K /\ weight[x] = w /\ w \in Nat
  BY <1>5, <1>6, <1>8 DEF light
<1>10. \A c \in 1..K : weight[x] < weight[c] \/ (weight[x] = weight[c] /\ x <= c)
  <2> SUFFICES ASSUME NEW c \in 1..K
               PROVE weight[x] < weight[c] \/ (weight[x] = weight[c] /\ x <= c)
    OBVIOUS
  <2>1. weight[c] \in Nat /\ w <= weight[c]
    BY <1>2, <1>6 DEF weights
  <2>2. weight[c] = w => x <= c
    BY <1>8 DEF light
  <2> QED
    BY <1>9, <2>1, <2>2
<1>11. \A c \in DOMAIN b :
          LET pair == <<Cardinality(b[x]), Cardinality(b[c])>>
          IN  pair[1] < pair[2] \/ (pair[1] = pair[2] /\ x <= c)
  BY <1>1, <1>4, <1>9, <1>10
<1>12. Lightest(b) \in DOMAIN b
  BY <1>1, <1>9, <1>11 DEF Lightest
<1> QED
  BY <1>1, <1>12

(* A group poured in a bucket.                                             *)
PouredOne(b, group) == [b EXCEPT ![Lightest(b)] = b[Lightest(b)] \cup group]

JoinsOne(c, K, b, group) ==
    \E l \in 1..K : \A x \in 1..K : c[x] = IF x = l THEN b[x] \cup group ELSE b[x]

(* Pouring a group changes one bucket, by the places of the group.         *)
LEMMA PouredOnePours ==
    ASSUME NEW K \in Nat \ {0}, NEW D, IsFiniteSet(D), NEW b \in Buckets(K, D),
           NEW group \in SUBSET D
    PROVE  PouredOne(b, group) \in Buckets(K, D) /\ JoinsOne(PouredOne(b, group), K, b, group)
<1> DEFINE l == Lightest(b)
<1>1. l \in 1..K
  BY LightestIsABucket
<1> HIDE DEF l
<1>2. PouredOne(b, group) = [b EXCEPT ![l] = b[l] \cup group]
  BY DEF PouredOne, l
<1>3. b \in [1..K -> SUBSET D]
  BY DEF Buckets
<1> QED
  BY <1>1, <1>2, <1>3 DEF Buckets, JoinsOne

(* The buckets after each group.                                           *)
Pours(f, K, D, groups) ==
    /\ f[0] = [x \in 1..K |-> {}]
    /\ \A k \in 1..Len(groups) : f[k] = PouredOne(f[k - 1], groups[k])

(* The merge pours one group after the other.                              *)
LEMMA PouredIsPoured ==
    ASSUME NEW K \in Nat \ {0}, NEW D, IsFiniteSet(D), NEW groups \in Seq(SUBSET D)
    PROVE  \E f \in [0..Len(groups) -> Buckets(K, D)] :
               Pours(f, K, D, groups) /\ Poured(groups, K) = f[Len(groups)]
<1> DEFINE n == Len(groups)
           A == Buckets(K, D)
           start == [b \in 1..K |-> {}]
           Bs == CHOOSE Bs : Bs = [k \in 0..Len(groups) |->
                     IF k = 0 THEN [b \in 1..K |-> {}]
                     ELSE LET buckets == Bs[k - 1]
                          IN  [buckets EXCEPT ![Lightest(buckets)] = @ \cup groups[k]]]
           tried == [x \in A \X (1..n) |-> PouredOne(x[1], groups[x[2]])]
<1>1. n \in Nat /\ start \in A /\ \A k \in 1..n : groups[k] \in SUBSET D
  BY DEF Buckets
<1>2. Poured(groups, K) = Bs[n]
  BY DEF Poured
<1>3. \A b : \A g : [b EXCEPT ![Lightest(b)] = @ \cup g] = PouredOne(b, g)
  BY DEF PouredOne
<1>4. \A b \in A, k \in 1..n : PouredOne(b, groups[k]) \in A
  <2> HIDE DEF A, n
  <2> QED
    BY <1>1, PouredOnePours DEF A
<1> HIDE DEF n, A
<1>5. tried \in [A \X (1..n) -> A]
  BY <1>4
<1>6. \A b \in A, k \in 1..n : tried[<<b, k>>] = PouredOne(b, groups[k])
  OBVIOUS
<1> HIDE DEF tried, start
<1>7. PICK f \in [0..n -> A] : Obeys(f, n, start, tried)
  BY <1>1, <1>5, RecursionExists
<1>8. ASSUME NEW k \in 0..n PROVE f[k] = IF k = 0 THEN start ELSE PouredOne(f[k - 1], groups[k])
  <2>1. f[k] = IF k = 0 THEN start ELSE tried[<<f[k - 1], k>>]
    BY <1>7 DEF Obeys
  <2>2. k # 0 => k \in 1..n /\ f[k - 1] \in A
    BY <1>1, <1>7
  <2> QED
    BY <1>6, <2>1, <2>2
<1>9. f = [k \in 0..n |-> IF k = 0 THEN start ELSE PouredOne(f[k - 1], groups[k])]
  <2>1. f = [k \in 0..n |-> f[k]]
    BY <1>7
  <2> QED
    BY <1>8, <2>1
<1>10. f = [k \in 0..Len(groups) |->
               IF k = 0 THEN [b \in 1..K |-> {}]
               ELSE LET buckets == f[k - 1]
                    IN  [buckets EXCEPT ![Lightest(buckets)] = @ \cup groups[k]]]
  BY <1>9, Zenon DEF n, start, PouredOne
<1>11. Bs = [k \in 0..Len(groups) |->
               IF k = 0 THEN [b \in 1..K |-> {}]
               ELSE LET buckets == Bs[k - 1]
                    IN  [buckets EXCEPT ![Lightest(buckets)] = @ \cup groups[k]]]
  BY <1>10, Zenon
<1> HIDE DEF Bs
<1>12. Bs = [k \in 0..n |-> IF k = 0 THEN start ELSE PouredOne(Bs[k - 1], groups[k])]
  BY <1>11, Zenon DEF n, start, PouredOne
<1> DEFINE T == {k \in 0..n : Bs[k] \in A}
<1>13. Bs[0] = start
  BY <1>1, <1>12
<1>14. ASSUME NEW k \in 1..n
       PROVE  k \in 0..n /\ k - 1 \in 0..n /\ Bs[k] = PouredOne(Bs[k - 1], groups[k])
  <2>1. k \in 0..n /\ k # 0 /\ k - 1 \in 0..n
    BY <1>1
  <2> QED
    BY <1>12, <2>1
<1>15. 0..n \subseteq T
  <2>1. 0 \in T
    <3>1. Bs[0] \in A /\ 0 \in 0..n
      BY <1>1, <1>13
    <3> QED
      BY <3>1
  <2>2. ASSUME NEW k \in 1..n, k - 1 \in T PROVE k \in T
    <3>1. Bs[k - 1] \in A
      BY <2>2
    <3>2. PouredOne(Bs[k - 1], groups[k]) \in A
      BY <1>4, <3>1
    <3> QED
      BY <1>14, <3>2
  <2> HIDE DEF T
  <2> QED
    BY <1>1, <2>1, <2>2, UpTo
<1>16. Bs \in [0..n -> A]
  <2>1. Bs = [k \in 0..n |-> Bs[k]]
    BY <1>12
  <2> QED
    BY <1>15, <2>1
<1>17. Pours(Bs, K, D, groups)
  BY <1>13, <1>14 DEF Pours, n, start
<1> QED
  BY <1>2, <1>16, <1>17 DEF n, A


(* The first k groups are in the buckets, and each place in one of them.   *)
PouredUpTo(b, K, D, groups, k) ==
    /\ b \in Buckets(K, D)
    /\ \A i \in D : (\E x \in 1..K : i \in b[x]) <=> (\E m \in 1..k : i \in groups[m])
    /\ \A x, y \in 1..K : x # y => b[x] \cap b[y] = {}

(* The buckets are empty at first.                                         *)
LEMMA NonePoured ==
    ASSUME NEW K \in Nat \ {0}, NEW D, NEW groups
    PROVE  PouredUpTo([x \in 1..K |-> {}], K, D, groups, 0)
BY DEF PouredUpTo, Buckets

(* A group that is poured shares no place with those before it.            *)
LEMMA OneMorePoured ==
    ASSUME NEW K \in Nat \ {0}, NEW D, IsFiniteSet(D), NEW groups, ReadOnce(groups, D),
           NEW k \in 1..Len(groups), NEW b, PouredUpTo(b, K, D, groups, k - 1)
    PROVE  PouredUpTo(PouredOne(b, groups[k]), K, D, groups, k)
<1> DEFINE g == groups[k]
           c == PouredOne(b, groups[k])
<1>1. groups \in Seq(SUBSET D)
  BY DEF ReadOnce
<1>2. Len(groups) \in Nat /\ DOMAIN groups = 1..Len(groups) /\ g \in SUBSET D
  BY <1>1
<1>3. b \in Buckets(K, D)
  BY DEF PouredUpTo
<1> HIDE DEF g
<1>4. c = PouredOne(b, g)
  BY DEF g
<1> HIDE DEF c
<1>5. PICK l \in 1..K : /\ c \in Buckets(K, D)
                        /\ \A x \in 1..K : c[x] = IF x = l THEN b[x] \cup g ELSE b[x]
  <2>1. g \in SUBSET D
    BY <1>2
  <2>2. PouredOne(b, g) \in Buckets(K, D) /\ JoinsOne(PouredOne(b, g), K, b, g)
    BY <1>3, <2>1, PouredOnePours
  <2> QED
    BY <1>4, <2>2, Zenon DEF JoinsOne
<1>6. \A i : (\E m \in 1..k : i \in groups[m]) <=> (\E m \in 1..(k - 1) : i \in groups[m]) \/ i \in g
  <2>1. \A m : m \in 1..k <=> m \in 1..(k - 1) \/ m = k
    BY <1>2
  <2> QED
    BY <2>1 DEF g
<1>7. \A i \in D : (\E x \in 1..K : i \in c[x]) <=> (\E x \in 1..K : i \in b[x]) \/ i \in g
  BY <1>5
<1>8. \A i \in D : (\E x \in 1..K : i \in c[x]) <=> (\E m \in 1..k : i \in groups[m])
  BY <1>6, <1>7 DEF PouredUpTo
<1>9. \A x \in 1..K : b[x] \cap g = {}
  <2> SUFFICES ASSUME NEW x \in 1..K, NEW i \in b[x], i \in g PROVE FALSE
    OBVIOUS
  <2>1. i \in D
    BY <1>2
  <2>2. PICK m \in 1..(k - 1) : i \in groups[m]
    BY <2>1 DEF PouredUpTo
  <2>3. m \in DOMAIN groups /\ k \in DOMAIN groups /\ m # k
    BY <1>2
  <2>4. groups[m] \cap groups[k] = {}
    BY <2>3 DEF ReadOnce
  <2> QED
    BY <2>2, <2>4 DEF g
<1>10. \A x, y \in 1..K : x # y => c[x] \cap c[y] = {}
  <2>1. \A x, y \in 1..K : x # y => b[x] \cap b[y] = {}
    BY DEF PouredUpTo
  <2> QED
    BY <1>5, <1>9, <2>1
<1> QED
  BY <1>4, <1>5, <1>8, <1>10 DEF PouredUpTo, g

(* In no more buckets than calls, every place is read once.                *)
LEMMA MergeReadsOnce ==
    ASSUME NEW K \in Nat \ {0}, NEW D, IsFiniteSet(D), NEW groups, ReadOnce(groups, D)
    PROVE  ReadOnce(Merge(groups, K), D) /\ Len(Merge(groups, K)) <= K
<1> DEFINE n == Len(groups)
           p == Poured(groups, K)
<1>1. groups \in Seq(SUBSET D) /\ n \in Nat /\ DOMAIN groups = 1..n
  BY DEF ReadOnce
<1>2. PICK f \in [0..Len(groups) -> Buckets(K, D)] :
          Pours(f, K, D, groups) /\ p = f[Len(groups)]
  BY <1>1, PouredIsPoured
<1>3. PouredUpTo(f[n], K, D, groups, n)
  <2> DEFINE T == {k \in 0..n : PouredUpTo(f[k], K, D, groups, k)}
  <2>1. 0 \in T
    BY <1>1, <1>2, NonePoured DEF Pours
  <2>2. ASSUME NEW k \in 1..n, k - 1 \in T PROVE k \in T
    <3>1. k \in 1..Len(groups) /\ PouredUpTo(f[k - 1], K, D, groups, k - 1)
      BY <2>2
    <3>2. f[k] = PouredOne(f[k - 1], groups[k])
      BY <1>2 DEF Pours
    <3> DEFINE b == f[k - 1]
    <3>3. PouredUpTo(b, K, D, groups, k - 1) /\ f[k] = PouredOne(b, groups[k])
      BY <3>1, <3>2
    <3> HIDE DEF b, n
    <3>4. PouredUpTo(PouredOne(b, groups[k]), K, D, groups, k)
      BY <3>1, <3>3, OneMorePoured
    <3>5. k \in 0..n
      BY <1>1
    <3> QED
      BY <3>3, <3>4, <3>5
  <2> HIDE DEF T, n
  <2>3. 0..n \subseteq T
    BY <1>1, <2>1, <2>2, UpTo
  <2>4. n \in 0..n
    BY <1>1
  <2> QED
    BY <2>3, <2>4 DEF T
<1>4. PouredUpTo(p, K, D, groups, n)
  BY <1>2, <1>3
<1> HIDE DEF p
<1>5. p \in Seq(SUBSET D) /\ DOMAIN p = 1..K /\ Len(p) = K
  BY <1>4 DEF PouredUpTo, Buckets
<1> DEFINE full == {x \in DOMAIN p : p[x] # {}}
           m == Places(p, full)
<1>6. Merge(groups, K) = m
  BY Zenon DEF Merge, Filter, p
<1>7. full \in SUBSET (DOMAIN p) /\ IsFiniteSet(1..K)
  BY FS_Interval
<1>8. Cardinality(full) <= K
  <2>1. full \in SUBSET (1..K)
    BY <1>5, <1>7
  <2> HIDE DEF full
  <2>2. Cardinality(full) <= Cardinality(1..K)
    BY <1>7, <2>1, FS_Subset
  <2> QED
    BY <2>2, FS_Interval
<1>9. \A x \in full : p[x] \subseteq D /\ x \in 1..K
  BY <1>5
<1>10. \A x \in 1..K : p[x] # {} => x \in full
  BY <1>5
<1> HIDE DEF full
<1>11. /\ m \in Seq(SUBSET D) /\ Len(m) = Cardinality(full)
       /\ \A y \in full : \E x \in DOMAIN m : m[x] = p[y]
       /\ \A x, y \in DOMAIN m : x < y => \E i, j \in full : i < j /\ m[x] = p[i] /\ m[y] = p[j]
  <2> DEFINE R == SUBSET D
  <2>1. p \in Seq(R)
    BY <1>5
  <2> HIDE DEF R
  <2>2. /\ Places(p, full) \in Seq(R)
        /\ Len(Places(p, full)) = Cardinality(full)
        /\ \A i \in full : \E y \in DOMAIN Places(p, full) : Places(p, full)[y] = p[i]
        /\ \A x, y \in DOMAIN Places(p, full) :
              x < y => \E i, j \in full :
                         i < j /\ Places(p, full)[x] = p[i] /\ Places(p, full)[y] = p[j]
    BY <1>7, <2>1, PlacesOf
  <2> QED
    BY <2>2 DEF R
<1> HIDE DEF m
<1>12. \A i \in D : \E x \in DOMAIN m : i \in m[x]
  <2> SUFFICES ASSUME NEW i \in D PROVE \E x \in DOMAIN m : i \in m[x]
    OBVIOUS
  <2>1. PICK g \in DOMAIN groups : i \in groups[g]
    BY DEF ReadOnce
  <2>2. PICK x \in 1..K : i \in p[x]
    BY <1>1, <1>4, <2>1 DEF PouredUpTo
  <2> QED
    BY <1>10, <1>11, <2>2
<1>13. \A x, y \in DOMAIN m : x # y => m[x] \cap m[y] = {}
  <2>1. ASSUME NEW x \in DOMAIN m, NEW y \in DOMAIN m, x < y PROVE m[x] \cap m[y] = {}
    <3>1. PICK i, j \in full : i < j /\ m[x] = p[i] /\ m[y] = p[j]
      BY <1>11, <2>1
    <3>2. i \in 1..K /\ j \in 1..K /\ i # j
      BY <1>9, <3>1
    <3> QED
      BY <1>4, <3>1, <3>2 DEF PouredUpTo
  <2>2. DOMAIN m \subseteq Nat
    BY <1>11
  <2>3. \A x, y \in DOMAIN m : x # y => x < y \/ y < x
    BY <2>2
  <2> QED
    BY <2>1, <2>3
<1> QED
  BY <1>6, <1>8, <1>11, <1>12, <1>13 DEF ReadOnce

(* What the map calls of a synthesis read.                                 *)
LEMMA SynthesisReadsOnce ==
    ASSUME NEW S, NEW items \in Seq(S), NEW K \in Nat \ {0}
    PROVE  /\ ReadOnce(SynthesisGroups(items, K), DOMAIN items)
           /\ Len(SynthesisGroups(items, K)) <= K
<1> DEFINE D == DOMAIN items
           groups == GroupsByKey(items)
<1>1. IsFiniteSet(D)
  <2>1. D = 1..Len(items) /\ Len(items) \in Nat /\ IsFiniteSet(1..Len(items))
    BY FS_Interval
  <2> QED
    BY <2>1
<1>2. ReadOnce(groups, D)
  BY GroupsReadOnce
<1>3. SynthesisGroups(items, K) = IF Len(groups) <= K THEN groups ELSE Merge(groups, K)
  BY DEF SynthesisGroups
<1> HIDE DEF groups, D
<1>4. ReadOnce(Merge(groups, K), D) /\ Len(Merge(groups, K)) <= K
  BY <1>1, <1>2, MergeReadsOnce
<1> QED
  BY <1>2, <1>3, <1>4 DEF D

-----------------------------------------------------------------------------
(* The map calls made so far are the first groups.                         *)
MemosAreGroups ==
    /\ memos \in Seq(SUBSET (DOMAIN pack))
    /\ Len(memos) <= Len(Groups)
    /\ \A m \in DOMAIN memos : memos[m] = Groups[m]

SynthesisInv ==
    /\ AnswerInv
    /\ at \in {"search", "evidence"} => memos = <<>>
    /\ at = "map" => MemosAreGroups /\ Len(memos) < Len(Groups)
    /\ at = "write" /\ Staged => MemosAreGroups /\ Len(memos) = Len(Groups)

(* The groups of the pack read each of its items once.                     *)
LEMMA GroupsReadThePack ==
    ASSUME AnswerInv
    PROVE  ReadOnce(Groups, DOMAIN pack) /\ Len(Groups) <= MapCalls
<1>1. PICK S : pack \in Seq(S)
  BY DEF AnswerInv, AnswerTypes
<1> QED
  BY <1>1, SynthesisReadsOnce, AnsweringAssumption DEF Groups

(* A map call reads the next group.                                        *)
LEMMA SummarizeReadsNext == ASSUME SynthesisInv, SummarizeGroup PROVE SynthesisInv'
<1> DEFINE g == Groups
           n == Len(memos)
<1>1. /\ at = "map" /\ memos' = Append(memos, g[n + 1])
      /\ at' = IF Len(memos') = Len(g) THEN "write" ELSE "map"
      /\ UNCHANGED <<hybridVars, corpus, policy, pack>>
  BY DEF SummarizeGroup, AnswerKeeps
<1>2. AnswerInv'
  BY AnswerInvStep DEF SynthesisInv, AnswerNext
<1>3. Groups' = g
  BY <1>1 DEF Groups
<1>4. g \in Seq(SUBSET (DOMAIN pack))
  BY GroupsReadThePack DEF SynthesisInv, ReadOnce
<1>5. memos \in Seq(SUBSET (DOMAIN pack)) /\ n < Len(g) /\ \A m \in DOMAIN memos : memos[m] = g[m]
  BY <1>1 DEF SynthesisInv, MemosAreGroups
<1> HIDE DEF g
<1>6. n \in Nat /\ Len(g) \in Nat /\ n + 1 \in 1..Len(g) /\ g[n + 1] \in SUBSET (DOMAIN pack)
  BY <1>4, <1>5
<1>7. /\ memos' \in Seq(SUBSET (DOMAIN pack)) /\ Len(memos') = n + 1
      /\ \A m \in DOMAIN memos' : memos'[m] = g[m]
  BY <1>1, <1>5, <1>6
<1>8. MemosAreGroups'
  BY <1>1, <1>3, <1>6, <1>7 DEF MemosAreGroups
<1>9. at' = "map" => Len(memos') < Len(Groups')
  BY <1>1, <1>3, <1>6, <1>7
<1>10. at' = "write" => Len(memos') = Len(Groups')
  BY <1>1, <1>3
<1>11. at' \in {"map", "write"}
  BY <1>1
<1> QED
  BY <1>2, <1>8, <1>9, <1>10, <1>11 DEF SynthesisInv

(* What a synthesis reads: for any corpora and any number of map calls.    *)
THEOREM SynthesisReadsThePack == AnswerSpec => []SynthesisReadsEverything
<1>1. AnswerInit => SynthesisInv
  <2> SUFFICES ASSUME AnswerInit PROVE SynthesisInv
    OBVIOUS
  <2>1. AnswerInv
    BY AnswerInvInit
  <2>2. at = "search" /\ memos = <<>>
    BY DEF AnswerInit
  <2> QED
    BY <2>1, <2>2 DEF SynthesisInv
<1>2. SynthesisInv /\ [AnswerNext]_allVars => SynthesisInv'
  <2> SUFFICES ASSUME SynthesisInv, [AnswerNext]_allVars PROVE SynthesisInv'
    OBVIOUS
  <2>1. AnswerInv'
    BY AnswerInvStep DEF SynthesisInv
  <2>2. CASE Compose
    <3>1. /\ at = "evidence" /\ at' \in {"refused", "map", "write"}
          /\ at' = "map" => Staged
          /\ at' = "write" => ~Staged
          /\ UNCHANGED <<hybridVars, corpus, policy, pack>> /\ memos' = memos
      BY <2>2 DEF Compose, AnswerKeeps
    <3>2. Groups' = Groups /\ Staged' = Staged
      BY <3>1 DEF hybridVars, Groups, Staged, Plan
    <3>3. Len(Groups) \in Nat
      BY GroupsReadThePack DEF SynthesisInv, ReadOnce
    <3>4. memos = <<>>
      BY <3>1 DEF SynthesisInv
    <3>5. at' = "map" => MemosAreGroups' /\ Len(memos') < Len(Groups')
      <4> SUFFICES ASSUME at' = "map" PROVE MemosAreGroups' /\ Len(memos') < Len(Groups')
        OBVIOUS
      <4>1. Len(Groups) >= 2
        BY <3>1 DEF Staged
      <4>2. memos' = <<>> /\ Groups' = Groups /\ pack' = pack
        BY <3>1, <3>2, <3>4
      <4> QED
        BY <3>3, <4>1, <4>2 DEF MemosAreGroups
    <3> QED
      BY <2>1, <3>1, <3>2, <3>5 DEF SynthesisInv
  <2>3. CASE SummarizeGroup
    BY <2>3, SummarizeReadsNext
  <2>4. CASE at = "search" /\ HybridNext /\ UNCHANGED answerVars
    BY <2>1, <2>4 DEF SynthesisInv, answerVars
  <2>5. CASE TakeEvidence
    BY <2>1, <2>5 DEF SynthesisInv, TakeEvidence
  <2>6. CASE \/ WriteDraft \/ ModelFails \/ VerifyDraft \/ RepairDraft \/ RepairFails
             \/ Settle \/ StoreAnswer
    <3>1. at' \notin {"search", "evidence", "map", "write"}
      BY <2>6 DEF WriteDraft, ModelFails, VerifyDraft, RepairDraft, RepairFails, Settle,
                  StoreAnswer
    <3> QED
      BY <2>1, <3>1 DEF SynthesisInv
  <2>7. CASE UNCHANGED allVars
    <3>1. UNCHANGED <<hybridVars, corpus, policy, at, pack, memos>>
      BY <2>7 DEF allVars, answerVars
    <3>2. Groups' = Groups /\ Staged' = Staged
      BY <3>1 DEF hybridVars, Groups, Staged, Plan
    <3> QED
      BY <2>1, <3>1, <3>2 DEF SynthesisInv, MemosAreGroups
  <2> QED
    BY <2>2, <2>3, <2>4, <2>5, <2>6, <2>7 DEF AnswerNext
<1>3. SynthesisInv => SynthesisReadsEverything
  <2> SUFFICES ASSUME SynthesisInv, at = "write", Staged
               PROVE  /\ Len(memos) <= MapCalls
                      /\ \A i \in DOMAIN pack : \E m \in DOMAIN memos : i \in memos[m]
                      /\ \A m, n \in DOMAIN memos : m # n => memos[m] \cap memos[n] = {}
    BY DEF SynthesisReadsEverything
  <2> DEFINE g == Groups
  <2>1. memos \in Seq(SUBSET (DOMAIN pack)) /\ Len(memos) = Len(g)
        /\ \A m \in DOMAIN memos : memos[m] = g[m]
    BY DEF SynthesisInv, MemosAreGroups
  <2>2. ReadOnce(g, DOMAIN pack) /\ Len(g) <= MapCalls
    BY GroupsReadThePack DEF SynthesisInv
  <2> HIDE DEF g
  <2>3. DOMAIN memos = DOMAIN g
    BY <2>1, <2>2 DEF ReadOnce
  <2> QED
    BY <2>1, <2>2, <2>3 DEF ReadOnce
<1> QED
  BY <1>1, <1>2, <1>3, PTL DEF AnswerSpec

-----------------------------------------------------------------------------
(* Chunks: what SEGMENT makes of a document.                               *)

(* Products grow.                                                        *)
LEMMA TimesGrows ==
    ASSUME NEW c \in Nat, NEW a \in Nat, NEW b \in Nat, a <= b
    PROVE  c * a <= c * b
  OBVIOUS

(* A quotient, and what is left below the divisor.                       *)
LEMMA Quotient ==
    ASSUME NEW c \in Nat \ {0}, NEW k \in Nat
    PROVE  /\ k \div c \in Nat
           /\ c * (k \div c) <= k /\ k < c * (k \div c) + c
  OBVIOUS

(* A quotient is at most t up to the last number before t + 1.           *)
LEMMA QuotientAtMost ==
    ASSUME NEW c \in Nat \ {0}, NEW k \in Nat, NEW t \in Nat
    PROVE  k \div c <= t <=> k <= c * (t + 1) - 1
<1> DEFINE q == k \div c
<1>1. q \in Nat /\ c * q <= k /\ k < c * q + c
  BY Quotient
<1>2. c * (t + 1) = c * t + c /\ c * t \in Nat /\ c * q \in Nat
  BY <1>1
<1> HIDE DEF q
<1>3. q <= t => c * q <= c * t
  BY <1>1, TimesGrows
<1>4. c * (t + 1) <= c * q \/ q <= t
  BY <1>1, TimesGrows
<1> QED
  BY <1>1, <1>2, <1>3, <1>4 DEF q

(* A text has at most t tokens if it is no longer than the longest of t. *)
LEMMA EstimateIs ==
    ASSUME NEW k \in Nat
    PROVE  /\ Estimate(k) \in Nat
           /\ Estimate(k) = 0 <=> k = 0
           /\ \A t \in Nat \ {0} : Estimate(k) <= t <=> k <= Longest(t)
<1>1. k \div CharsPerToken \in Nat
  BY Quotient, ChunkSettings
<1>2. Estimate(k) = IF k = 0 THEN 0
                    ELSE IF 1 >= k \div CharsPerToken THEN 1 ELSE k \div CharsPerToken
  BY <1>1, OfTwo DEF Estimate
<1>3. ASSUME NEW t \in Nat \ {0} PROVE k \div CharsPerToken <= t <=> k <= Longest(t)
  BY QuotientAtMost, ChunkSettings DEF Longest
<1>4. \A t \in Nat \ {0} : Longest(t) \in Nat
  BY ChunkSettings, QuotientAtMost, 0 \div CharsPerToken = 0 DEF Longest
<1> QED
  BY <1>1, <1>2, <1>3, <1>4

Windows(w, low, high, beyond) ==
    /\ w \in [0..(high - low + 1) -> Int \X Int]
    /\ Bisect(low, high, beyond) = w[high - low + 1][1]
    /\ w[0] = <<low, high>>
    /\ \A k \in 1..(high - low + 1) : w[k] = Halved(w[k - 1], beyond)

(* The windows of a bisection.                                           *)
LEMMA WindowObeys ==
    ASSUME NEW low \in Int, NEW high \in Int, low <= high + 1, NEW beyond
    PROVE  \E w : Windows(w, low, high, beyond)
<1> DEFINE turns == high - low + 1
           Window == CHOOSE Window : Window =
               [k \in 0..turns |-> IF k = 0 THEN <<low, high>> ELSE Halved(Window[k - 1], beyond)]
           A == Int \X Int
           step == [p \in A \X (1..turns) |-> Halved(p[1], beyond)]
<1>1. turns \in Nat /\ <<low, high>> \in A
  OBVIOUS
<1>2. Bisect(low, high, beyond) = Window[turns][1]
  BY DEF Bisect
<1>3. \A w \in A : Halved(w, beyond) \in A
  BY DEF Halved
<1>4. step \in [A \X (1..turns) -> A]
  BY <1>3
<1>5. \A k \in 1..turns : \A v \in A : step[<<v, k>>] = Halved(v, beyond)
  OBVIOUS
<1> HIDE DEF step, turns, A
<1>6. PICK f \in [0..turns -> A] : Obeys(f, turns, <<low, high>>, step)
  BY <1>1, <1>4, RecursionExists
<1>7. ASSUME NEW k \in 0..turns
      PROVE  f[k] = IF k = 0 THEN <<low, high>> ELSE Halved(f[k - 1], beyond)
  <2>1. f[k] = IF k = 0 THEN <<low, high>> ELSE step[<<f[k - 1], k>>]
    BY <1>6 DEF Obeys
  <2>2. k # 0 => k \in 1..turns /\ f[k - 1] \in A
    BY <1>1, <1>6
  <2> QED
    BY <1>5, <2>1, <2>2
<1>8. f = [k \in 0..turns |-> IF k = 0 THEN <<low, high>> ELSE Halved(f[k - 1], beyond)]
  <2>1. f = [k \in 0..turns |-> f[k]]
    BY <1>6
  <2> QED
    BY <1>7, <2>1, Zenon
<1>9. Window = [k \in 0..turns |-> IF k = 0 THEN <<low, high>> ELSE Halved(Window[k - 1], beyond)]
  BY <1>8, Zenon
<1> HIDE DEF Window
<1>10. \A k \in 0..turns : Window[k] = IF k = 0 THEN <<low, high>> ELSE Halved(Window[k - 1], beyond)
  BY <1>9, Zenon
<1>11. 0 \in 0..turns /\ \A k \in 1..turns : k \in 0..turns /\ k # 0
  BY <1>1
<1>12. Window[0] = <<low, high>> /\ \A k \in 1..turns : Window[k] = Halved(Window[k - 1], beyond)
  BY <1>10, <1>11, Zenon
<1> DEFINE T == {k \in 0..turns : Window[k] \in A}
<1>13. 0 \in T
  BY <1>1, <1>11, <1>12
<1>14. \A k \in 1..turns : k - 1 \in T => k \in T
  BY <1>3, <1>11, <1>12 DEF A
<1>15. 0..turns \subseteq T
  <2> HIDE DEF T
  <2> QED
    BY <1>1, <1>13, <1>14, UpTo
<1>16. Window \in [0..turns -> A]
  <2>1. Window = [k \in 0..turns |-> Window[k]]
    BY <1>9
  <2> QED
    BY <1>15, <2>1
<1>17. Windows(Window, low, high, beyond)
  BY <1>2, <1>12, <1>16 DEF turns, A, Windows
<1> QED
  BY <1>17, Zenon

(* Where what is beyond goes on, bisection finds the first place of it.  *)
LEMMA BisectFinds ==
    ASSUME NEW low \in Int, NEW high \in Int, low <= high + 1, NEW beyond \in SUBSET (low..high),
           \A e \in beyond : \A f \in low..high : e <= f => f \in beyond
    PROVE  /\ Bisect(low, high, beyond) \in low..(high + 1)
           /\ \A e \in low..high : e \in beyond <=> Bisect(low, high, beyond) <= e
<1> DEFINE turns == high - low + 1
<1>0. PICK w : Windows(w, low, high, beyond)
  BY WindowObeys, Zenon
<1>1. /\ w \in [0..turns -> Int \X Int]
      /\ Bisect(low, high, beyond) = w[turns][1]
      /\ w[0] = <<low, high>>
      /\ \A k \in 1..turns : w[k] = Halved(w[k - 1], beyond)
  BY <1>0, Zenon DEF Windows
<1>2. turns \in Nat
  OBVIOUS
<1> DEFINE Good(k, l, h) ==
             /\ l \in low..(high + 1) /\ h \in (low - 1)..high /\ l <= h + 1
             /\ h - l + 1 <= turns - k \/ h < l
             /\ \A e \in low..high : e < l => e \notin beyond
             /\ \A e \in low..high : h < e => e \in beyond
           T == {k \in 0..turns : Good(k, w[k][1], w[k][2])}
<1>3. 0 \in T
  BY <1>1
<1>4. ASSUME NEW k \in 1..turns, k - 1 \in T PROVE k \in T
  <2> DEFINE l == w[k - 1][1]
             h == w[k - 1][2]
             middle == (l + h) \div 2
  <2>1. Good(k - 1, l, h)
    BY <1>4
  <2>2. l \in Int /\ h \in Int /\ k \in 0..turns /\ k - 1 \in 0..turns
    BY <2>1
  <2>3. w[k] = IF l > h THEN w[k - 1]
               ELSE IF middle \in beyond THEN <<l, middle - 1>> ELSE <<middle + 1, h>>
    BY <1>1, Zenon DEF Halved
  <2>4. middle \in Int /\ (l <= h => l <= middle /\ middle <= h)
    BY <2>2
  <2> HIDE DEF l, h, middle
  <2>5. CASE l > h
    <3>1. w[k][1] = l /\ w[k][2] = h
      BY <2>3, <2>5 DEF l, h
    <3> QED
      BY <2>1, <2>2, <2>5, <3>1
  <2>6. CASE l <= h /\ middle \in beyond
    <3>1. w[k][1] = l /\ w[k][2] = middle - 1
      BY <2>2, <2>3, <2>6
    <3>2. \A e \in low..high : middle - 1 < e => e \in beyond
      BY <2>4, <2>6
    <3>3. Good(k, l, middle - 1)
      BY <2>1, <2>2, <2>4, <2>6, <3>2
    <3> HIDE DEF Good
    <3> QED
      BY <2>2, <3>1, <3>3
  <2>7. CASE l <= h /\ middle \notin beyond
    <3>1. w[k][1] = middle + 1 /\ w[k][2] = h
      BY <2>2, <2>3, <2>7
    <3>2. middle \in low..high
      BY <2>1, <2>2, <2>4, <2>7
    <3>3. \A e \in low..high : e < middle + 1 => e \notin beyond
      BY <2>4, <2>7, <3>2
    <3>4. Good(k, middle + 1, h)
      BY <2>1, <2>2, <2>4, <2>7, <3>3
    <3> HIDE DEF Good
    <3> QED
      BY <2>2, <3>1, <3>4
  <2> QED
    BY <2>2, <2>5, <2>6, <2>7
<1>5. 0..turns \subseteq T
  <2> HIDE DEF T, turns
  <2> QED
    BY <1>2, <1>3, <1>4, UpTo
<1>6. Good(turns, w[turns][1], w[turns][2])
  BY <1>2, <1>5
<1> QED
  BY <1>1, <1>6

IsText(text) == text \in Seq(Letters)

(* The budget in characters.                                             *)
LEMMA WithinIs ==
    ASSUME NEW from \in Nat, NEW to \in Nat, from <= to
    PROVE  /\ WithinBudget(from, to) <=> to - from <= Longest(MaxTokens)
           /\ Longest(MaxTokens) \in Nat /\ Longest(MaxTokens) >= 1
<1>1. MaxTokens \in Nat \ {0}
  BY ChunkSettings
<1>2. 1 \div CharsPerToken <= 1 /\ 1 \div CharsPerToken \in Nat
  <2>1. 1 <= CharsPerToken * (1 + 1) - 1
    BY ChunkSettings
  <2> QED
    BY <2>1, Quotient, QuotientAtMost, ChunkSettings
<1>3. Estimate(1) = 1
  BY <1>2, OfTwo DEF Estimate
<1>4. 1 <= Longest(MaxTokens)
  BY <1>1, <1>3, EstimateIs
<1>5. Longest(MaxTokens) \in Int
  BY <1>1, ChunkSettings DEF Longest
<1> QED
  BY <1>1, <1>4, <1>5, EstimateIs DEF WithinBudget

(* A step ends at the end of the text at the latest.                     *)
LEMMA ProbeIs ==
    ASSUME NEW text, IsText(text), NEW start \in Nat, start < Len(text), NEW d \in Nat
    PROVE  Probe(text, start, d) = IF Len(text) <= start + d THEN Len(text) ELSE start + d
<1>1. Len(text) \in Int /\ start + d \in Int
  BY DEF IsText
<1> QED
  BY <1>1, OfTwo, Zenon DEF Probe

(* A step fits and leaves more of the text, if the place it leads to is    *)
(* before the end.                                                         *)
LEMMA FitsIs ==
    ASSUME NEW text, IsText(text), NEW start \in Nat, start < Len(text), NEW d \in Nat
    PROVE  FitsAndMore(text, start, d)
           <=> start + d < Len(text) /\ d <= Longest(MaxTokens)
<1>1. start + d \in Nat /\ start <= start + d /\ start + d - start = d
  OBVIOUS
<1>2. WithinBudget(start, start + d) <=> d <= Longest(MaxTokens)
  BY <1>1, WithinIs
<1> QED
  BY <1>2, Zenon DEF FitsAndMore

(* The steps that are doubled.                                           *)
LEMMA StepObeys ==
    ASSUME NEW text, IsText(text), NEW start \in Nat
    PROVE  \E s \in [0..((Len(text) + 1) \div 2) -> Nat] :
               /\ LongestStep(text, start) = s[(Len(text) + 1) \div 2]
               /\ s[0] = 1
               /\ \A k \in 1..((Len(text) + 1) \div 2) :
                     s[k] = IF FitsAndMore(text, start, s[k - 1]) THEN 2 * s[k - 1] ELSE s[k - 1]
<1> DEFINE n == (Len(text) + 1) \div 2
           Doubled(d) == IF FitsAndMore(text, start, d) THEN 2 * d ELSE d
           Step == CHOOSE Step : Step = [k \in 0..n |-> IF k = 0 THEN 1 ELSE Doubled(Step[k - 1])]
           step == [p \in Nat \X (1..n) |-> Doubled(p[1])]
<1>1. n \in Nat /\ 1 \in Nat
  BY DEF IsText
<1>2. LongestStep(text, start) = Step[n]
  BY DEF LongestStep
<1>3. \A d \in Nat : Doubled(d) \in Nat
  OBVIOUS
<1>4. step \in [Nat \X (1..n) -> Nat]
  BY <1>3
<1>5. \A k \in 1..n : \A v \in Nat : step[<<v, k>>] = Doubled(v)
  OBVIOUS
<1> HIDE DEF step, n, Doubled
<1>6. PICK f \in [0..n -> Nat] : Obeys(f, n, 1, step)
  BY <1>1, <1>4, RecursionExists
<1>7. ASSUME NEW k \in 0..n PROVE f[k] = IF k = 0 THEN 1 ELSE Doubled(f[k - 1])
  <2>1. f[k] = IF k = 0 THEN 1 ELSE step[<<f[k - 1], k>>]
    BY <1>6 DEF Obeys
  <2>2. k # 0 => k \in 1..n /\ f[k - 1] \in Nat
    BY <1>1, <1>6
  <2> QED
    BY <1>5, <2>1, <2>2
<1>8. f = [k \in 0..n |-> IF k = 0 THEN 1 ELSE Doubled(f[k - 1])]
  <2>1. f = [k \in 0..n |-> f[k]]
    BY <1>6
  <2> QED
    BY <1>7, <2>1, Zenon
<1>9. Step = [k \in 0..n |-> IF k = 0 THEN 1 ELSE Doubled(Step[k - 1])]
  BY <1>8, Zenon
<1> HIDE DEF Step
<1>10. \A k \in 0..n : Step[k] = IF k = 0 THEN 1 ELSE Doubled(Step[k - 1])
  BY <1>9, Zenon
<1>11. 0 \in 0..n /\ \A k \in 1..n : k \in 0..n /\ k # 0
  BY <1>1
<1>12. Step[0] = 1 /\ \A k \in 1..n : Step[k] = Doubled(Step[k - 1])
  BY <1>10, <1>11, Zenon
<1> DEFINE T == {k \in 0..n : Step[k] \in Nat}
<1>13. 0 \in T
  BY <1>11, <1>12
<1>14. \A k \in 1..n : k - 1 \in T => k \in T
  BY <1>3, <1>11, <1>12
<1>15. 0..n \subseteq T
  <2> HIDE DEF T
  <2> QED
    BY <1>1, <1>13, <1>14, UpTo
<1>16. Step \in [0..n -> Nat]
  <2>1. Step = [k \in 0..n |-> Step[k]]
    BY <1>9
  <2> QED
    BY <1>15, <2>1
<1> QED
  BY <1>2, <1>12, <1>16, Zenon DEF n, Doubled

(* The last step does not fit, or reaches the end; half of it fits.      *)
LEMMA LongestStepIs ==
    ASSUME NEW text, IsText(text), NEW start \in Nat, start < Len(text)
    PROVE  /\ LongestStep(text, start) \in Nat \ {0}
           /\ ~FitsAndMore(text, start, LongestStep(text, start))
           /\ \/ LongestStep(text, start) = 1
              \/ \E e \in Nat \ {0} :
                    LongestStep(text, start) = 2 * e /\ FitsAndMore(text, start, e)
<1> DEFINE n == (Len(text) + 1) \div 2
           Fits(d) == FitsAndMore(text, start, d)
<1>1. PICK s \in [0..n -> Nat] :
          /\ LongestStep(text, start) = s[n] /\ s[0] = 1
          /\ \A k \in 1..n : s[k] = IF Fits(s[k - 1]) THEN 2 * s[k - 1] ELSE s[k - 1]
  BY StepObeys, Zenon
<1>2. n \in Nat /\ 2 * n >= Len(text) /\ Len(text) \in Nat /\ (n = 0 => Len(text) = 0)
  BY DEF IsText
<1>3. ASSUME NEW d \in Nat, d >= Len(text) PROVE ~Fits(d)
  BY <1>2, <1>3, FitsIs
<1> HIDE DEF Fits, n
<1> DEFINE Doubled(d) == d = 1 \/ \E e \in Nat \ {0} : d = 2 * e /\ Fits(e)
           T == {k \in 0..n : s[k] >= 1 /\ Doubled(s[k]) /\ ((k > 0 => s[k] >= 2 * k) \/ ~Fits(s[k]))}
<1>4. 0 \in T
  BY <1>1, <1>2
<1>5. ASSUME NEW k \in 1..n, k - 1 \in T PROVE k \in T
  <2>1. s[k - 1] \in Nat \ {0} /\ k \in 0..n /\ k - 1 \in 0..n
    BY <1>1, <1>2, <1>5
  <2>2. s[k] = IF Fits(s[k - 1]) THEN 2 * s[k - 1] ELSE s[k - 1]
    BY <1>1
  <2>3. CASE Fits(s[k - 1])
    <3>1. s[k - 1] >= k
      BY <1>5, <2>3, <2>1
    <3>2. s[k] >= 2 * k /\ s[k] >= 1
      BY <2>1, <2>2, <2>3, <3>1
    <3>3. Doubled(s[k])
      BY <2>1, <2>2, <2>3
    <3> QED
      BY <2>1, <3>2, <3>3
  <2>4. CASE ~Fits(s[k - 1])
    BY <1>5, <2>1, <2>2, <2>4
  <2> QED
    BY <2>3, <2>4
<1>6. 0..n \subseteq T
  <2> HIDE DEF T
  <2> QED
    BY <1>2, <1>4, <1>5, UpTo
<1>7. n \in T /\ s[n] \in Nat
  BY <1>1, <1>2, <1>6
<1>8. ~Fits(s[n])
  BY <1>3, <1>2, <1>7
<1>9. s[n] \in Nat \ {0} /\ Doubled(s[n])
  BY <1>7
<1> QED
  BY <1>1, <1>8, <1>9, Zenon DEF Fits

(* The end is the last place within the budget.                            *)
LEMMA LargestEnd ==
    ASSUME NEW text, IsText(text), NEW start \in Nat, start < Len(text)
    PROVE  LargestBoundedEnd(text, start) =
               IF Len(text) - start <= Longest(MaxTokens) THEN Len(text)
               ELSE start + Longest(MaxTokens)
<1> DEFINE n == Len(text)
           L == Longest(MaxTokens)
           d == LongestStep(text, start)
           probe == Probe(text, start, d)
           low  == start + (d \div 2) + 1
           high == probe - 1
           beyond == {e \in low..high : ~WithinBudget(start, e)}
           reached == Bisect(low, high, beyond)
<1>1. LargestBoundedEnd(text, start) = IF WithinBudget(start, probe) THEN n ELSE reached - 1
  BY DEF LargestBoundedEnd
<1>2. n \in Nat /\ L \in Nat /\ L >= 1
  BY WithinIs DEF IsText
<1>3. d \in Nat \ {0} /\ ~FitsAndMore(text, start, d)
      /\ (d = 1 \/ \E e \in Nat \ {0} : d = 2 * e /\ FitsAndMore(text, start, e))
  BY LongestStepIs, Zenon
<1>4. probe = IF n <= start + d THEN n ELSE start + d
  BY <1>3, ProbeIs
<1>5. probe \in Nat /\ start <= probe /\ (WithinBudget(start, probe) <=> probe - start <= L)
  <2>1. probe \in Nat /\ start <= probe
    BY <1>2, <1>3, <1>4
  <2> HIDE DEF probe
  <2> QED
    BY <2>1, WithinIs, Zenon
<1>6. ASSUME NEW e \in Nat \ {0}, FitsAndMore(text, start, e) PROVE start + e < n /\ e <= L
  BY <1>6, FitsIs
<1>7. WithinBudget(start, probe) => probe = n
  BY <1>2, <1>3, <1>4 DEF FitsAndMore
<1>8. d \div 2 \in Nat /\ d \div 2 <= L
  <2>1. CASE d = 1
    BY <1>2, <2>1
  <2>2. CASE d # 1
    <3>1. PICK e \in Nat \ {0} : d = 2 * e /\ FitsAndMore(text, start, e)
      BY <1>3, <2>2
    <3>2. d \div 2 = e /\ e <= L
      BY <1>6, <3>1
    <3> QED
      BY <3>2
  <2> QED
    BY <2>1, <2>2
<1> HIDE DEF d, probe, L, n
<1>9. CASE ~WithinBudget(start, probe)
  <2>1. low \in Nat /\ high \in Int /\ low <= high + 1 /\ start < low
        /\ start + L + 1 \in low..(high + 1)
    BY <1>2, <1>5, <1>8, <1>9
  <2>2. \A e \in low..high : e \in beyond <=> e - start > L
    <3> SUFFICES ASSUME NEW e \in low..high PROVE WithinBudget(start, e) <=> e - start <= L
      BY <1>2, <2>1
    <3>1. e \in Nat /\ start <= e
      BY <2>1
    <3> QED
      BY <3>1, WithinIs DEF L
  <2>3. beyond \in SUBSET (low..high)
    OBVIOUS
  <2> HIDE DEF low, high, beyond
  <2>4. \A e \in beyond : \A f \in low..high : e <= f => f \in beyond
    BY <1>2, <2>1, <2>2, <2>3
  <2>5. reached \in low..(high + 1) /\ \A e \in low..high : e \in beyond <=> reached <= e
    BY <2>1, <2>3, <2>4, BisectFinds
  <2> HIDE DEF reached
  <2> DEFINE firstLong == start + L + 1
  <2>8. firstLong - start > L /\ firstLong \in low..(high + 1)
    BY <1>2, <2>1
  <2>6. reached = firstLong
    <3>1. ASSUME reached \in low..high PROVE reached >= firstLong
      BY <1>2, <2>1, <2>2, <2>5, <3>1
    <3> HIDE DEF firstLong
    <3>2. ASSUME firstLong \in low..high PROVE reached <= firstLong
      BY <2>2, <2>5, <2>8, <3>2
    <3>3. ASSUME high \in low..high, ~(reached <= high) PROVE ~(high - start > L)
      BY <2>2, <2>5, <3>3
    <3>4. high - start > L <=> high >= firstLong
      BY <1>2, <2>1 DEF firstLong
    <3> QED
      BY <1>2, <2>1, <2>5, <2>8, <3>1, <3>2, <3>3, <3>4
  <2>7. n - start > L
    BY <1>2, <1>4, <1>5, <1>9, <1>3
  <2> QED
    BY <1>1, <1>2, <1>9, <2>6, <2>7 DEF n, L, firstLong
<1>10. CASE WithinBudget(start, probe)
  BY <1>1, <1>2, <1>5, <1>7, <1>10 DEF n, L
<1> QED
  BY <1>9, <1>10

(* A run of blanks ends behind the last of them.                           *)
LEMMA RunEndIs ==
    ASSUME NEW text, NEW i \in Nat, NEW end \in Nat, i <= end, NEW blanks
    PROVE  /\ RunEnd(text, i, blanks, end) \in i..end
           /\ \A k \in i..end : k < RunEnd(text, i, blanks, end) => At(text, k) \in blanks
           /\ i < end /\ At(text, i) \in blanks => i < RunEnd(text, i, blanks, end)
<1> DEFINE S == {j \in i..end : j = end \/ At(text, j) \notin blanks}
<1>1. S \in SUBSET (i..end) /\ end \in S
  OBVIOUS
<1>2. RunEnd(text, i, blanks, end) = Min(S)
  BY DEF RunEnd
<1>3. Min(S) \in S /\ \A y \in S : Min(S) <= y
  <2> HIDE DEF S
  <2> QED
    BY <1>1, LeastOf, i \in Int, end \in Int, Zenon
<1>4. Min(S) \in i..end
  BY <1>3
<1>5. ASSUME NEW k \in i..end, k < Min(S) PROVE At(text, k) \in blanks
  BY <1>3, <1>4, <1>5
<1>6. i < end /\ At(text, i) \in blanks => i < Min(S)
  BY <1>3, <1>4
<1> HIDE DEF S
<1> QED
  BY <1>2, <1>4, <1>5, <1>6

(* A semantic end is behind the start and behind no letter.                *)
LEMMA SemanticEndsAre ==
    ASSUME NEW text, NEW start \in Nat, NEW end \in Nat, start < end,
           NEW e \in SemanticEnds(text, start, end)
    PROVE  e \in (start + 1)..end /\ At(text, e - 1) # "letter"
<1> DEFINE AfterStop(i) == i > start /\ At(text, i - 1) = "stop"
           Stops == {j \in start..end : AfterStop(j) /\ (j = end \/ Blank(text, j))}
           Lines == {i \in start..(end - 1) :
                       At(text, i) = "line" /\ ~AfterStop(RunStart(text, i, start))}
<1>1. \/ \E i \in Stops : e = RunEnd(text, i, {"space", "line"}, end)
      \/ \E i \in Lines : e = RunEnd(text, i, {"line"}, end)
  BY DEF SemanticEnds
<1>2. CASE \E i \in Stops : e = RunEnd(text, i, {"space", "line"}, end)
  <2>1. PICK i \in Stops : e = RunEnd(text, i, {"space", "line"}, end)
    BY <1>2
  <2>2. i \in Nat /\ start < i /\ i <= end /\ At(text, i - 1) = "stop"
    BY <2>1
  <2>3. e \in i..end /\ \A k \in i..end : k < e => At(text, k) \in {"space", "line"}
    BY <2>1, <2>2, RunEndIs
  <2>4. CASE e = i
    BY <2>2, <2>3, <2>4
  <2>5. CASE e # i
    <3>1. e - 1 \in i..end /\ e - 1 < e
      BY <2>2, <2>3, <2>5
    <3>2. At(text, e - 1) \in {"space", "line"}
      BY <2>3, <3>1
    <3> QED
      BY <2>2, <2>3, <3>2
  <2> QED
    BY <2>4, <2>5
<1>3. CASE \E i \in Lines : e = RunEnd(text, i, {"line"}, end)
  <2>1. PICK i \in Lines : e = RunEnd(text, i, {"line"}, end)
    BY <1>3
  <2>2. i \in Nat /\ start <= i /\ i < end /\ i <= end /\ At(text, i) = "line"
    BY <2>1
  <2>3. e \in i..end /\ i < e /\ \A k \in i..end : k < e => At(text, k) \in {"line"}
    BY <2>1, <2>2, RunEndIs
  <2>4. e - 1 \in i..end /\ e - 1 < e
    BY <2>2, <2>3
  <2>5. At(text, e - 1) \in {"line"}
    BY <2>3, <2>4
  <2> QED
    BY <2>2, <2>3, <2>5
<1> QED
  BY <1>1, <1>2, <1>3

(* A break is behind no letter and leaves the minimum.                     *)
LEMMA PreferredIs ==
    ASSUME NEW text, NEW start \in Nat, NEW end \in Nat, start < end
    PROVE  /\ PreferredBoundary(text, start, end) \in (start + 1)..end
           /\ end = Len(text) => PreferredBoundary(text, start, end) = end
           /\ \/ PreferredBoundary(text, start, end) = end
              \/ At(text, PreferredBoundary(text, start, end) - 1) # "letter"
           /\ PreferredBoundary(text, start, end) >= Minimum(start, end)
<1> DEFINE least == Minimum(start, end)
           semantic == {e \in SemanticEnds(text, start, end) : e >= least}
           spaces   == {i \in least..(end - 1) : At(text, i) = "space"}
           result == PreferredBoundary(text, start, end)
<1>1. result = IF end = Len(text) THEN end
               ELSE IF semantic # {} THEN Max(semantic)
               ELSE IF spaces # {} THEN Max(spaces) + 1
               ELSE end
  BY DEF PreferredBoundary
<1>2. least \in (start + 1)..end
  <2>1. ((end - start) * 6) \div 10 \in Int /\ ((end - start) * 6) \div 10 <= end - start
    OBVIOUS
  <2> QED
    BY <2>1, OfTwo DEF Minimum
<1>3. \A e \in semantic : e \in (start + 1)..end /\ At(text, e - 1) # "letter" /\ e >= least
  BY SemanticEndsAre
<1>4. semantic \in SUBSET ((start + 1)..end)
  BY <1>3
<1>5. spaces \in SUBSET (least..(end - 1))
  OBVIOUS
<1>6. \A i \in spaces : At(text, i) = "space" /\ i >= least /\ i < end /\ i \in Nat
  BY <1>2
<1> HIDE DEF least, semantic, spaces, result
<1>7. CASE semantic # {} /\ end # Len(text)
  <2>1. Max(semantic) \in semantic
    BY <1>4, <1>7, GreatestOf, start + 1 \in Int, end \in Int, Zenon
  <2>2. result \in semantic
    BY <1>1, <1>7, <2>1
  <2> QED
    BY <1>3, <1>7, <2>2 DEF result, least
<1>8. CASE semantic = {} /\ end # Len(text) /\ spaces # {}
  <2>1. Max(spaces) \in spaces
    <3>1. least \in Int /\ end - 1 \in Int
      BY <1>2
    <3> QED
      BY <1>5, <1>8, <3>1, GreatestOf, Zenon
  <2>2. PICK m \in spaces : result = m + 1
    BY <1>1, <1>8, <2>1
  <2>3. m \in Nat /\ m >= least /\ m < end /\ At(text, m) = "space" /\ result - 1 = m
    BY <1>6, <2>2
  <2>4. At(text, result - 1) # "letter"
    BY <2>3
  <2>5. result \in (start + 1)..end /\ result >= least
    BY <1>2, <2>2, <2>3
  <2> QED
    BY <1>8, <2>4, <2>5 DEF result, least
<1>9. CASE end = Len(text) \/ (semantic = {} /\ spaces = {})
  <2>1. result = end
    BY <1>1, <1>9
  <2> QED
    BY <1>2, <2>1 DEF result, least
<1> QED
  BY <1>7, <1>8, <1>9

(* What is repeated is within the overlap.                                 *)
LEMMA OverlapIs ==
    ASSUME NEW text, NEW start \in Nat, NEW end \in Nat, start < end
    PROVE  /\ OverlapStart(text, start, end) \in (start + 1)..end
           /\ Estimate(end - OverlapStart(text, start, end)) <= OverlapTokens
<1> DEFINE low == start + 1
           beyond == {b \in low..end : Estimate(end - b) <= OverlapTokens}
           best   == Bisect(low, end, beyond)
           spaces == {i \in best..(end - 1) : At(text, i) = "space"}
           inWord == best < end /\ ~Blank(text, best - 1) /\ ~Blank(text, best)
           result == OverlapStart(text, start, end)
<1>1. result = IF OverlapTokens = 0 THEN end
               ELSE IF inWord /\ spaces # {} THEN Min(spaces) + 1 ELSE best
  BY DEF OverlapStart
<1>2. OverlapTokens \in Nat
  BY ChunkSettings
<1>3. \A b \in low..end : end - b \in Nat
  OBVIOUS
<1>4. ASSUME NEW b \in low..end, NEW c \in low..end, b <= c,
             Estimate(end - b) <= OverlapTokens
      PROVE  Estimate(end - c) <= OverlapTokens
  <2>1. end - b \in Nat /\ end - c \in Nat /\ end - c <= end - b
    BY <1>3, <1>4
  <2>2. CASE OverlapTokens = 0
    BY <1>4, <2>1, <2>2, EstimateIs
  <2>3. CASE OverlapTokens \in Nat \ {0}
    <3>1. Longest(OverlapTokens) \in Int
      BY <2>3, ChunkSettings DEF Longest
    <3> QED
      BY <1>4, <2>1, <2>3, <3>1, EstimateIs
  <2> QED
    BY <1>2, <2>2, <2>3
<1>5. Estimate(0) = 0
  BY EstimateIs
<1>6. end \in beyond
  BY <1>2, <1>5, <1>3
<1>7. \A e \in beyond : \A f \in low..end : e <= f => f \in beyond
  BY <1>4
<1>8. beyond \in SUBSET (low..end) /\ low \in Int /\ low <= end + 1 /\ end \in low..end
  OBVIOUS
<1>9. \A b \in beyond : Estimate(end - b) <= OverlapTokens
  OBVIOUS
<1> HIDE DEF beyond
<1>10. best \in low..(end + 1) /\ \A e \in low..end : e \in beyond <=> best <= e
  BY <1>7, <1>8, BisectFinds
<1>11. best \in beyond /\ best \in low..end
  BY <1>6, <1>8, <1>10
<1>12. \A i \in spaces : i + 1 \in beyond
  <2> SUFFICES ASSUME NEW i \in spaces PROVE i + 1 \in beyond
    OBVIOUS
  <2>1. i + 1 \in low..end /\ best <= i + 1
    BY <1>11
  <2> QED
    BY <1>10, <2>1
<1>13. spaces \in SUBSET (best..(end - 1)) /\ best \in Int
  BY <1>11
<1> HIDE DEF best, spaces, inWord, result, low
<1>14. spaces # {} => Min(spaces) \in spaces
  BY <1>13, LeastOf, end - 1 \in Int, Zenon
<1>15. result \in beyond
  BY <1>1, <1>6, <1>11, <1>12, <1>14
<1>16. result \in low..end /\ Estimate(end - result) <= OverlapTokens
  BY <1>8, <1>9, <1>15
<1> QED
  BY <1>16 DEF result, low

Slice == {p \in [node : Nat, from : Nat, to : Nat] : p.from < p.to}

(* What the next segment of a text is.                                     *)
SegmentOf(text, s) ==
    /\ s \in Slice /\ s.node = next /\ s.to <= Len(text) /\ WithinBudget(s.from, s.to)
    /\ s.to = Len(text) \/ At(text, s.to - 1) # "letter" \/ ~WithinBudget(s.from, s.to + 1)
    /\ s.to = Len(text) \/ s.to - s.from >= Minimum(0, Longest(MaxTokens))

Follows(s, before) ==
    /\ before.from < s.from /\ s.from <= before.to
    /\ Estimate(before.to - s.from) <= OverlapTokens

SegmentEnd(text, start) == PreferredBoundary(text, start, LargestBoundedEnd(text, start))

(* A segment from a start is as it should be.                            *)
LEMMA SegmentEndIs ==
    ASSUME NEW text, IsText(text), NEW start \in Nat, start < Len(text), next \in Nat
    PROVE  SegmentOf(text, [node |-> next, from |-> start, to |-> SegmentEnd(text, start)])
<1> DEFINE n == Len(text)
           L == Longest(MaxTokens)
           end == LargestBoundedEnd(text, start)
           to == SegmentEnd(text, start)
           s == [node |-> next, from |-> start, to |-> to]
<1>1. n \in Nat /\ L \in Nat /\ L >= 1
  BY WithinIs DEF IsText
<1>2. end = IF n - start <= L THEN n ELSE start + L
  BY LargestEnd
<1>3. end \in Nat /\ start < end /\ end <= n /\ end - start <= L
      /\ (end = n \/ end - start = L)
  BY <1>1, <1>2
<1>4. to = PreferredBoundary(text, start, end)
  BY DEF SegmentEnd
<1> HIDE DEF end, to, n, L
<1>5. /\ to \in (start + 1)..end /\ (end = Len(text) => to = end)
      /\ (to = end \/ At(text, to - 1) # "letter")
      /\ to >= Minimum(start, end)
  BY <1>3, <1>4, PreferredIs
<1>6. to \in Nat /\ start < to /\ to <= n /\ to - start <= L
  BY <1>1, <1>3, <1>5
<1>7. WithinBudget(start, to)
  BY <1>6, WithinIs DEF L
<1>8. to = n \/ At(text, to - 1) # "letter" \/ ~WithinBudget(start, to + 1)
  <2>1. CASE to = end /\ end # n
    <3>1. to - start = L
      BY <1>3, <2>1
    <3> DEFINE more == to + 1
    <3>2. more \in Nat /\ start <= more /\ more - start > L
      BY <1>1, <1>6, <3>1
    <3> HIDE DEF more
    <3>3. WithinBudget(start, more) <=> more - start <= L
      BY <3>2, WithinIs DEF L
    <3>4. ~WithinBudget(start, more)
      BY <1>1, <3>2, <3>3
    <3> QED
      BY <3>4 DEF more
  <2>2. CASE to # end
    BY <1>5, <2>2
  <2>3. CASE to = end /\ end = n
    BY <2>3
  <2> QED
    BY <2>1, <2>2, <2>3
<1>9. to = n \/ to - start >= Minimum(0, L)
  <2>1. ASSUME end # n PROVE to - start >= Minimum(0, L)
    <3>1. end - start = L
      BY <1>3, <2>1
    <3>2. Minimum(start, end) = start + Max({1, (L * 6) \div 10})
      BY <3>1 DEF Minimum
    <3>3. Minimum(0, L) = Max({1, (L * 6) \div 10}) /\ Minimum(0, L) \in Int
      <4>1. L - 0 = L
        BY <1>1
      <4>2. (L * 6) \div 10 \in Int
        BY <1>1
      <4>3. Max({1, (L * 6) \div 10}) \in Int
        BY <4>2, OfTwo
      <4>4. Minimum(0, L) = 0 + Max({1, (L * 6) \div 10})
        BY <4>1, Zenon DEF Minimum
      <4> QED
        BY <4>3, <4>4
    <3> QED
      BY <1>5, <1>6, <3>2, <3>3
  <2> QED
    BY <1>5, <2>1 DEF n
<1>10. s \in Slice
  BY <1>6 DEF Slice
<1>11. s.node = next /\ s.from = start /\ s.to = to
  OBVIOUS
<1> HIDE DEF s
<1>12. SegmentOf(text, s)
  BY <1>6, <1>7, <1>8, <1>9, <1>10, <1>11 DEF SegmentOf, n, L
<1> QED
  BY <1>12, Zenon DEF s, to

(* It ends behind the segment before it if less is repeated than a break   *)
(* leaves.                                                                 *)
LEMMA SegmentGoesOn ==
    ASSUME NEW text, NEW s, SegmentOf(text, s), NEW before \in Slice, Follows(s, before),
           before.to < Len(text), Len(text) \in Nat,
           OverlapTokens = 0 \/ Longest(OverlapTokens) < Minimum(0, Longest(MaxTokens))
    PROVE  before.to < s.to
<1>1. /\ s.from \in Nat /\ s.to \in Nat /\ before.to \in Nat
      /\ s.from < s.to /\ s.from <= before.to
      /\ Estimate(before.to - s.from) <= OverlapTokens
  BY DEF SegmentOf, Follows, Slice
<1>2. before.to - s.from \in Nat /\ OverlapTokens \in Nat
  BY <1>1, ChunkSettings
<1>3. CASE OverlapTokens = 0
  <2>1. before.to - s.from = 0
    BY <1>1, <1>2, <1>3, EstimateIs
  <2> QED
    BY <1>1, <2>1
<1>4. CASE OverlapTokens # 0 /\ s.to # Len(text)
  <2>1. before.to - s.from <= Longest(OverlapTokens)
    BY <1>1, <1>2, <1>4, EstimateIs
  <2>2. s.to - s.from >= Minimum(0, Longest(MaxTokens))
    BY <1>4 DEF SegmentOf
  <2>3. Longest(OverlapTokens) < Minimum(0, Longest(MaxTokens))
    BY <1>4
  <2>4. Longest(OverlapTokens) \in Int
    BY <1>2, ChunkSettings DEF Longest
  <2>5. Minimum(0, Longest(MaxTokens)) \in Int
    <3>1. Longest(MaxTokens) \in Int
      BY ChunkSettings DEF Longest
    <3>2. ((Longest(MaxTokens) - 0) * 6) \div 10 \in Int
      BY <3>1
    <3> QED
      BY <3>2, OfTwo DEF Minimum
  <2> QED
    BY <1>1, <2>1, <2>2, <2>3, <2>4, <2>5
<1>5. CASE s.to = Len(text)
  BY <1>5
<1> QED
  BY <1>3, <1>4, <1>5

(* The first segment of a text, and one behind another.                    *)
LEMMA NextSegmentIs ==
    ASSUME NEW text, IsText(text), text # <<>>, next \in Nat, NEW segs \in Seq(Slice),
           segs # <<>> => segs[Len(segs)].to < Len(text)
    PROVE  /\ SegmentOf(text, NextSegment(text, segs))
           /\ segs = <<>> => NextSegment(text, segs).from = 0
           /\ segs # <<>> => Follows(NextSegment(text, segs), segs[Len(segs)])
<1> DEFINE last  == segs[Len(segs)]
           over  == OverlapStart(text, last.from, last.to)
           start == IF segs = <<>> THEN 0 ELSE Min({last.to, Max({last.from + 1, over})})
           s == [node |-> next, from |-> start, to |-> SegmentEnd(text, start)]
<1>1. NextSegment(text, segs) = s
  BY DEF NextSegment, SegmentEnd
<1>2. Len(text) \in Nat /\ Len(text) > 0
  BY DEF IsText
<1>3. ASSUME segs # <<>>
      PROVE  /\ last.from \in Nat /\ last.to \in Nat /\ last.from < last.to /\ last.to < Len(text)
             /\ start = over /\ over \in (last.from + 1)..last.to
             /\ Estimate(last.to - over) <= OverlapTokens
  <2>1. last \in Slice
    BY <1>3
  <2>2. last.from \in Nat /\ last.to \in Nat /\ last.from < last.to /\ last.to < Len(text)
    BY <1>3, <2>1 DEF Slice
  <2>3. over \in (last.from + 1)..last.to /\ Estimate(last.to - over) <= OverlapTokens
    BY <2>2, OverlapIs
  <2> HIDE DEF last, over
  <2>4. Max({last.from + 1, over}) = over
    <3>1. last.from + 1 \in Int /\ over \in Int /\ (last.from + 1 >= over => last.from + 1 = over)
      BY <2>2, <2>3
    <3> QED
      BY <3>1, OfTwo, Zenon
  <2>5. Min({last.to, over}) = over
    <3>1. last.to \in Int /\ over \in Int /\ (last.to <= over => last.to = over)
      BY <2>2, <2>3
    <3> QED
      BY <3>1, OfTwo, Zenon
  <2> QED
    BY <1>3, <2>2, <2>3, <2>4, <2>5
<1>4. start \in Nat /\ start < Len(text)
  <2>1. CASE segs = <<>>
    BY <1>2, <2>1
  <2>2. CASE segs # <<>>
    <3> HIDE DEF last, over, start
    <3> QED
      BY <1>2, <1>3, <2>2
  <2> QED
    BY <2>1, <2>2
<1>5. segs = <<>> => start = 0
  OBVIOUS
<1>6. s.from = start
  OBVIOUS
<1> HIDE DEF last, over, start
<1>7. SegmentOf(text, s)
  BY <1>4, SegmentEndIs
<1>8. ASSUME segs # <<>> PROVE Follows(s, last)
  BY <1>3, <1>6, <1>8 DEF Follows
<1> HIDE DEF s
<1> QED
  BY <1>1, <1>5, <1>6, <1>7, <1>8 DEF last

Size(part) == part.to - part.from

(* A part more makes a list longer by its size and a joint.              *)
LEMMA LengthAppended ==
    ASSUME NEW list \in Seq(Slice), NEW part \in Slice
    PROVE  /\ Length(list) \in Nat /\ Size(part) \in Nat \ {0}
           /\ Length(Append(list, part)) =
                 IF list = <<>> THEN Size(part) ELSE Length(list) + 2 + Size(part)
<1> DEFINE sizes(l) == [i \in DOMAIN l |-> l[i].to - l[i].from]
           gaps(l) == IF l = <<>> THEN 0 ELSE 2 * (Len(l) - 1)
           more == Append(list, part)
<1>1. \A l : Length(l) = Total(sizes(l)) + gaps(l)
  BY DEF Length
<1>2. Size(part) \in Nat \ {0}
  BY DEF Size, Slice
<1>3. sizes(list) \in Seq(Nat) /\ Len(sizes(list)) = Len(list)
  <2>1. \A i \in DOMAIN list : list[i].to - list[i].from \in Nat
    <3> SUFFICES ASSUME NEW i \in DOMAIN list PROVE list[i].to - list[i].from \in Nat
      OBVIOUS
    <3>1. list[i] \in Slice
      OBVIOUS
    <3> QED
      BY <3>1 DEF Slice
  <2>2. DOMAIN list = 1..Len(list) /\ Len(list) \in Nat
    OBVIOUS
  <2> QED
    BY <2>1, <2>2
<1>4. sizes(more) = Append(sizes(list), Size(part))
  <2>1. more \in Seq(Slice) /\ Len(more) = Len(list) + 1 /\ DOMAIN more = 1..(Len(list) + 1)
    OBVIOUS
  <2>2. \A i \in 1..Len(list) : more[i] = list[i]
    OBVIOUS
  <2>3. more[Len(list) + 1] = part
    OBVIOUS
  <2>4. sizes(more) \in Seq(Int) /\ Len(sizes(more)) = Len(list) + 1
    <3>1. \A i \in DOMAIN more : more[i].to - more[i].from \in Int
      <4> SUFFICES ASSUME NEW i \in DOMAIN more PROVE more[i].to - more[i].from \in Int
        OBVIOUS
      <4>1. more[i] \in Slice
        BY <2>1
      <4> QED
        BY <4>1 DEF Slice
    <3> QED
      BY <2>1, <3>1
  <2>5. Append(sizes(list), Size(part)) \in Seq(Int)
        /\ Len(Append(sizes(list), Size(part))) = Len(list) + 1
    BY <1>2, <1>3
  <2>6. ASSUME NEW i \in 1..(Len(list) + 1)
        PROVE  sizes(more)[i] = Append(sizes(list), Size(part))[i]
    <3>1. sizes(more)[i] = more[i].to - more[i].from
      BY <2>1
    <3>2. CASE i \in 1..Len(list)
      <4>1. Append(sizes(list), Size(part))[i] = sizes(list)[i]
        BY <1>2, <1>3, <3>2
      <4>2. sizes(list)[i] = list[i].to - list[i].from
        BY <3>2
      <4> QED
        BY <2>2, <3>1, <3>2, <4>1, <4>2
    <3>3. CASE i = Len(list) + 1
      <4>1. Append(sizes(list), Size(part))[i] = Size(part)
        BY <1>2, <1>3, <3>3
      <4> QED
        BY <2>3, <3>1, <3>3, <4>1 DEF Size
    <3> QED
      BY <3>2, <3>3
  <2> HIDE DEF more, sizes
  <2> QED
    BY <2>4, <2>5, <2>6
<1>5. Total(sizes(list)) \in Nat
  <2> HIDE DEF sizes
  <2> QED
    BY <1>3, TotalIsNat
<1>6. Total(sizes(more)) = Total(sizes(list)) + Size(part)
  <2> HIDE DEF sizes
  <2>1. sizes(list) \in Seq(Int) /\ Size(part) \in Int
    BY <1>2, <1>3
  <2> QED
    BY <1>4, <2>1, TotalAppended
<1>7. gaps(list) \in Nat /\ gaps(more) = 2 * Len(list) /\ Len(list) \in Nat
  <2>1. Len(more) = Len(list) + 1 /\ Len(<<>>) = 0 /\ Len(list) \in Nat
    OBVIOUS
  <2>2. list # <<>> => Len(list) >= 1
    OBVIOUS
  <2>3. more # <<>>
    BY <2>1
  <2> HIDE DEF more
  <2> QED
    BY <2>1, <2>2, <2>3
<1>8. Length(list) \in Nat
  BY <1>1, <1>5, <1>7
<1>9. Length(more) = Total(sizes(list)) + Size(part) + 2 * Len(list)
  BY <1>1, <1>2, <1>5, <1>6, <1>7
<1>10. ASSUME list = <<>> PROVE Length(more) = Size(part)
  <2>1. sizes(list) = <<>>
    BY <1>10
  <2>2. Total(sizes(list)) = 0
    BY <2>1, TotalOfNone
  <2>3. Len(list) = 0
    BY <1>10
  <2> HIDE DEF sizes, more
  <2> QED
    BY <1>2, <1>9, <2>2, <2>3
<1> HIDE DEF gaps, sizes
<1>11. ASSUME list # <<>>
       PROVE  Length(more) = Length(list) + 2 + Size(part)
  <2>1. Length(list) = Total(sizes(list)) + 2 * (Len(list) - 1)
    BY <1>1, <1>11, <1>3 DEF gaps
  <2> HIDE DEF more
  <2> QED
    BY <1>2, <1>5, <1>7, <1>9, <2>1
<1> HIDE DEF more
<1>12. Length(more) = IF list = <<>> THEN Size(part) ELSE Length(list) + 2 + Size(part)
  BY <1>10, <1>11
<1> QED
  BY <1>2, <1>8, <1>12 DEF more

(* A list that is not empty has a length.                                *)
LEMMA LengthIs ==
    ASSUME NEW list \in Seq(Slice)
    PROVE  /\ Length(list) \in Nat
           /\ list # <<>> => Length(list) > 0
<1>1. [node |-> 0, from |-> 0, to |-> 1] \in Slice
  BY DEF Slice
<1>2. Length(list) \in Nat
  BY <1>1, LengthAppended
<1>3. ASSUME list # <<>> PROVE Length(list) > 0
  <2> DEFINE front == SubSeq(list, 1, Len(list) - 1)
             last == list[Len(list)]
  <2>1. front \in Seq(Slice) /\ last \in Slice /\ list = Append(front, last)
    BY <1>3
  <2> HIDE DEF front, last
  <2>2. /\ Length(front) \in Nat /\ Size(last) \in Nat \ {0}
        /\ Length(list) = IF front = <<>> THEN Size(last) ELSE Length(front) + 2 + Size(last)
    BY <2>1, LengthAppended
  <2> QED
    BY <2>2
<1> QED
  BY <1>2, <1>3

(* A part alone has no joint.                                            *)
LEMMA LengthOfOne ==
    ASSUME NEW part \in Slice
    PROVE  Length(<<part>>) = Size(part) /\ Length(<<>>) = 0
<1>1. <<>> \in Seq(Slice) /\ Append(<<>>, part) = <<part>>
  OBVIOUS
<1>2. Length(<<part>>) = Size(part)
  BY <1>1, LengthAppended
<1>3. [i \in DOMAIN <<>> |-> <<>>[i].to - <<>>[i].from] = <<>>
  OBVIOUS
<1>4. Length(<<>>) = Total(<<>>) + 0
  BY <1>3 DEF Length
<1> QED
  BY <1>2, <1>4, TotalOfNone

(* The nodes and their segments.                                           *)
ChunkTypeOK ==
    /\ tree \in Seq(Node) /\ next \in 1..(Len(tree) + 1)
    /\ segments \in Seq(Slice) /\ joined \in 0..Len(segments)
    /\ parts \in Seq(Slice) /\ chunks \in Seq(Seq(Slice))

SegmentsAreOfNode ==
    /\ segments # <<>> => Left /\ ~Skipped(tree[next])
    /\ \A i \in DOMAIN segments :
          segments[i].node = next /\ segments[i].to <= Len(tree[next].text)

(* No place of the node is left out between two segments.                  *)
SegmentsCover ==
    segments # <<>> =>
        \A i \in 1..segments[Len(segments)].to :
            \E j \in DOMAIN segments : segments[j].from < i /\ i <= segments[j].to

PartsAreLeft == Left /\ parts = <<>> => chunks = <<>>

(* What the parts hold so far.                                             *)
Covers(part, n, i) == part.node = n /\ part.from < i /\ i <= part.to

Holds(n, i) ==
    \/ \E p \in DOMAIN parts : Covers(parts[p], n, i)
    \/ \E k \in DOMAIN chunks : \E p \in DOMAIN chunks[k] : Covers(chunks[k][p], n, i)

Due(n, i) ==
    \/ n < next /\ ~Skipped(tree[n]) /\ i \in DOMAIN tree[n].text
    \/ \E j \in 1..joined : Covers(segments[j], n, i)

AllIsHeld == \A n \in DOMAIN tree : \A i \in Nat : Holds(n, i) <=> Due(n, i)

ChunkInv ==
    /\ ChunkTypeOK /\ SegmentsAreOfNode /\ SegmentsAdvance /\ SegmentsCover
    /\ ChunksAreBounded /\ PartsAreLeft /\ AllIsHeld

(* What a segment is by itself, and what the one before it makes of it.    *)
Lone(text, s) ==
    /\ s.from < s.to /\ WithinBudget(s.from, s.to)
    /\ s.to = Len(text) \/ At(text, s.to - 1) # "letter" \/ ~WithinBudget(s.from, s.to + 1)
    /\ s.to = Len(text) \/ s.to - s.from >= Minimum(0, Longest(MaxTokens))

Chained(s, before) ==
    /\ Follows(s, before)
    /\ OverlapTokens = 0 \/ Longest(OverlapTokens) < Minimum(0, Longest(MaxTokens))
          => before.to < s.to

SegmentAdvances(list, text) ==
    \A i \in DOMAIN list :
        Lone(text, list[i]) /\ (i = 1 => list[i].from = 0) /\ (i > 1 => Chained(list[i], list[i - 1]))

(* SegmentsAdvance in terms of a list and a text.                        *)
LEMMA AdvanceIs == SegmentsAdvance <=> SegmentAdvances(segments, tree[next].text)
  BY DEF SegmentsAdvance, SegmentAdvances, Lone, Chained, Follows

(* The same after a step.                                                *)
LEMMA AdvanceAfter == (SegmentsAdvance <=> SegmentAdvances(segments, tree[next].text))'
  BY AdvanceIs, PTL

(* Texts and nodes of the tree.                                            *)
LEMMA NodesAre ==
    ASSUME ChunkTypeOK, Left
    PROVE  /\ next \in DOMAIN tree /\ next \in Nat /\ next + 1 \in 1..(Len(tree) + 1)
           /\ tree[next] \in Node /\ IsText(tree[next].text)
           /\ ~Skipped(tree[next]) => tree[next].text # <<>>
<1>1. next \in DOMAIN tree /\ next \in Nat /\ next + 1 \in 1..(Len(tree) + 1)
  BY DEF ChunkTypeOK, Left
<1>2. tree[next] \in Node
  BY <1>1 DEF ChunkTypeOK
<1>3. IsText(tree[next].text)
  BY <1>2 DEF Node, IsText
<1>4. tree[next].text = <<>> => Skipped(tree[next])
  <2>1. DOMAIN <<>> = {}
    OBVIOUS
  <2> QED
    BY <2>1 DEF Skipped
<1> QED
  BY <1>1, <1>2, <1>3, <1>4

(* A node that is skipped has no segments.                                 *)
LEMMA InvSkipsNode ==
    ASSUME ChunkInv, SkipNode
    PROVE  ChunkInv'
<1>1. /\ Left /\ Skipped(tree[next]) /\ next' = next + 1
      /\ UNCHANGED <<tree, segments, joined, parts, chunks>>
  BY DEF SkipNode
<1>2. ChunkTypeOK /\ SegmentsAreOfNode /\ ChunksAreBounded /\ PartsAreLeft /\ AllIsHeld
  BY DEF ChunkInv
<1>3. segments = <<>> /\ joined = 0 /\ segments' = <<>> /\ joined' = 0
  <2>1. segments = <<>>
    BY <1>1, <1>2 DEF SegmentsAreOfNode
  <2>2. Len(segments) = 0
    BY <2>1
  <2> QED
    BY <1>1, <1>2, <2>1, <2>2 DEF ChunkTypeOK
<1>4. ChunkTypeOK'
  BY <1>1, <1>2, NodesAre DEF ChunkTypeOK
<1>5. SegmentsAreOfNode' /\ SegmentsCover'
  BY <1>3 DEF SegmentsAreOfNode, SegmentsCover
<1>6. SegmentsAdvance'
  BY <1>3, AdvanceAfter DEF SegmentAdvances
<1>7. ChunksAreBounded'
  BY <1>1, <1>2 DEF ChunksAreBounded, Joined, ClosedFor
<1>8. PartsAreLeft'
  BY <1>1, <1>2 DEF PartsAreLeft, Left
<1>9. AllIsHeld'
  <2> SUFFICES ASSUME NEW n \in DOMAIN tree, NEW i \in Nat
               PROVE  Holds(n, i)' <=> Due(n, i)'
    BY <1>1 DEF AllIsHeld
  <2>1. Holds(n, i) <=> Due(n, i)
    BY <1>2 DEF AllIsHeld
  <2>2. Holds(n, i)' <=> Holds(n, i)
    BY <1>1 DEF Holds
  <2>3. ~(\E j \in 1..joined : Covers(segments[j], n, i))
        /\ ~(\E j \in 1..joined' : Covers(segments'[j], n, i))
    BY <1>3
  <2>4. n \in Nat /\ next \in Nat
    BY <1>1, <1>2, NodesAre DEF ChunkTypeOK
  <2>5. (n < next /\ ~Skipped(tree[n])) <=> (n < next + 1 /\ ~Skipped(tree[n]))
    BY <1>1, <2>4
  <2>6. Due(n, i) <=> n < next /\ ~Skipped(tree[n]) /\ i \in DOMAIN tree[n].text
    BY <2>3, Zenon DEF Due
  <2>7. Due(n, i)' <=> n < next + 1 /\ ~Skipped(tree[n]) /\ i \in DOMAIN tree[n].text
    BY <1>1, <2>3 DEF Due, Skipped
  <2> QED
    BY <2>1, <2>2, <2>5, <2>6, <2>7
<1> QED
  BY <1>4, <1>5, <1>6, <1>7, <1>8, <1>9 DEF ChunkInv

(* The next segment goes on where the last one ended.                      *)
LEMMA InvSplits ==
    ASSUME ChunkInv, SplitText
    PROVE  ChunkInv'
<1> DEFINE text == tree[next].text
           s == NextSegment(text, segments)
           n == Len(segments)
<1>1. /\ Left /\ ~Skipped(tree[next]) /\ ~SplitWhole
      /\ segments' = Append(segments, s)
      /\ UNCHANGED <<tree, joined, parts, chunks, next>>
  BY DEF SplitText
<1>2. /\ ChunkTypeOK /\ SegmentsAreOfNode /\ SegmentsAdvance /\ SegmentsCover
      /\ ChunksAreBounded /\ PartsAreLeft /\ AllIsHeld
  BY DEF ChunkInv
<1>3. IsText(text) /\ text # <<>> /\ next \in Nat /\ Len(text) \in Nat
  BY <1>1, <1>2, NodesAre DEF IsText
<1>4. n \in Nat /\ segments \in Seq(Slice) /\ (segments # <<>> => n \in DOMAIN segments)
  BY <1>2 DEF ChunkTypeOK
<1>5. segments # <<>> => segments[n].to < Len(text)
  <2> SUFFICES ASSUME segments # <<>> PROVE segments[n].to < Len(text)
    OBVIOUS
  <2>1. segments[n].to <= Len(text) /\ segments[n].to # Len(text)
    BY <1>1, <1>2, <1>4 DEF SegmentsAreOfNode, SplitWhole
  <2>2. segments[n].to \in Nat
    BY <1>4 DEF Slice
  <2> QED
    BY <1>3, <2>1, <2>2
<1> HIDE DEF text, s
<1>6. /\ SegmentOf(text, s) /\ (segments = <<>> => s.from = 0)
      /\ segments # <<>> => Follows(s, segments[n])
  BY <1>3, <1>4, <1>5, NextSegmentIs DEF s
<1>7. s \in Slice /\ s.node = next /\ s.to <= Len(text) /\ s.from \in Nat /\ s.to \in Nat
      /\ s.from < s.to
  BY <1>6 DEF SegmentOf, Slice
<1>8. /\ segments' \in Seq(Slice) /\ Len(segments') = n + 1 /\ segments' # <<>>
      /\ DOMAIN segments' = 1..(n + 1)
      /\ \A i \in 1..n : segments'[i] = segments[i]
      /\ segments'[n + 1] = s
  BY <1>1, <1>4, <1>7
<1>9. DOMAIN segments = 1..n /\ tree[next].text = text
  BY <1>4 DEF text
<1> HIDE DEF n
<1>10. ChunkTypeOK'
  <2>1. joined \in 0..Len(segments')
    BY <1>2, <1>4, <1>8 DEF ChunkTypeOK, n
  <2> QED
    BY <1>1, <1>2, <1>8, <2>1 DEF ChunkTypeOK
<1>11. SegmentsAreOfNode'
  <2>1. ASSUME NEW i \in 1..(n + 1)
        PROVE  segments'[i].node = next /\ segments'[i].to <= Len(text)
    <3>1. CASE i \in 1..n
      BY <1>2, <1>8, <1>9, <3>1 DEF SegmentsAreOfNode
    <3>2. CASE i = n + 1
      BY <1>7, <1>8, <3>2
    <3> QED
      BY <1>4, <3>1, <3>2
  <2> QED
    BY <1>1, <1>8, <1>9, <2>1 DEF SegmentsAreOfNode, Left, Skipped
<1>12. SegmentsAdvance'
  <2>1. SegmentAdvances(segments, text)
    BY <1>2, <1>9, AdvanceIs
  <2>2. Lone(text, s)
    BY <1>6, <1>7 DEF SegmentOf, Lone
  <2>3. ASSUME segments # <<>> PROVE Chained(s, segments[n])
    <3>1. segments[n] \in Slice
      BY <1>4, <2>3
    <3>2. Follows(s, segments[n]) /\ segments[n].to < Len(text)
      BY <1>5, <1>6, <2>3
    <3> QED
      BY <1>3, <1>6, <3>1, <3>2, SegmentGoesOn DEF Chained
  <2>4. ASSUME NEW i \in 1..(n + 1)
        PROVE  /\ Lone(text, segments'[i]) /\ (i = 1 => segments'[i].from = 0)
               /\ i > 1 => Chained(segments'[i], segments'[i - 1])
    <3>1. CASE i \in 1..n
      <4>1. segments'[i] = segments[i] /\ (i > 1 => segments'[i - 1] = segments[i - 1])
        BY <1>4, <1>8, <3>1
      <4> QED
        BY <1>9, <2>1, <3>1, <4>1 DEF SegmentAdvances
    <3>2. CASE i = n + 1
      <4>1. i = 1 <=> segments = <<>>
        BY <1>4, <3>2 DEF n
      <4>2. i > 1 => n \in 1..n /\ i - 1 = n
        BY <1>4, <3>2
      <4>3. i > 1 => segments'[i - 1] = segments[n]
        BY <1>8, <4>2
      <4> QED
        BY <1>4, <1>6, <1>8, <2>2, <2>3, <3>2, <4>1, <4>3
    <3> QED
      BY <1>4, <3>1, <3>2
  <2>5. SegmentAdvances(segments', text)
    BY <1>8, <2>4 DEF SegmentAdvances
  <2>6. tree'[next'].text = text
    BY <1>1, <1>9
  <2> QED
    BY <2>5, <2>6, AdvanceAfter
<1>13. SegmentsCover'
  <2> SUFFICES ASSUME NEW i \in 1..s.to
               PROVE  \E j \in 1..(n + 1) : segments'[j].from < i /\ i <= segments'[j].to
    BY <1>8 DEF SegmentsCover
  <2>1. CASE s.from < i
    <3>1. n + 1 \in 1..(n + 1)
      BY <1>4
    <3> QED
      BY <1>7, <1>8, <2>1, <3>1
  <2>2. CASE ~(s.from < i)
    <3>1. segments # <<>>
      BY <1>6, <1>7, <2>2
    <3>2. segments[n].to \in Nat
      BY <1>4, <3>1 DEF Slice
    <3>3. i \in 1..segments[n].to
      BY <1>6, <1>7, <2>2, <3>1, <3>2 DEF Follows
    <3>4. PICK j \in 1..n : segments[j].from < i /\ i <= segments[j].to
      BY <1>2, <1>9, <3>1, <3>3 DEF SegmentsCover, n
    <3>5. j \in 1..(n + 1) /\ segments'[j] = segments[j]
      BY <1>4, <1>8
    <3> QED
      BY <3>4, <3>5
  <2> QED
    BY <2>1, <2>2
<1>14. ChunksAreBounded'
  BY <1>1, <1>2 DEF ChunksAreBounded, Joined, ClosedFor
<1>15. PartsAreLeft'
  BY <1>1, <1>2 DEF PartsAreLeft, Left
<1>16. AllIsHeld'
  <2> SUFFICES ASSUME NEW m \in DOMAIN tree, NEW i \in Nat
               PROVE  Holds(m, i)' <=> Due(m, i)'
    BY <1>1 DEF AllIsHeld
  <2>1. Holds(m, i) <=> Due(m, i)
    BY <1>2 DEF AllIsHeld
  <2>2. Holds(m, i)' <=> Holds(m, i)
    BY <1>1 DEF Holds
  <2>3. \A j \in 1..joined : segments'[j] = segments[j]
    BY <1>2, <1>4, <1>8 DEF ChunkTypeOK, n
  <2>4. (\E j \in 1..joined : Covers(segments'[j], m, i))
        <=> (\E j \in 1..joined : Covers(segments[j], m, i))
    BY <2>3
  <2>5. Due(m, i)' <=> Due(m, i)
    BY <1>1, <2>4 DEF Due, Skipped, Covers
  <2> QED
    BY <2>1, <2>2, <2>5
<1> QED
  BY <1>10, <1>11, <1>12, <1>13, <1>14, <1>15, <1>16 DEF ChunkInv

(* A longer text has no fewer tokens.                                      *)
LEMMA EstimateGrows ==
    ASSUME NEW a \in Nat, NEW b \in Nat, a <= b
    PROVE  Estimate(a) <= Estimate(b)
<1>1. Estimate(a) \in Nat /\ Estimate(b) \in Nat
  BY EstimateIs
<1>2. CASE b = 0
  <2>1. a = b
    BY <1>2
  <2> QED
    BY <1>1, <2>1
<1>3. CASE b # 0
  <2> DEFINE t == Estimate(b)
  <2>1. t \in Nat \ {0}
    BY <1>1, <1>3, EstimateIs
  <2>2. Longest(t) \in Int
    BY <2>1, ChunkSettings DEF Longest
  <2> HIDE DEF t
  <2>3. b <= Longest(t)
    <3>1. Estimate(b) <= t
      BY <1>1 DEF t
    <3> QED
      BY <2>1, <3>1, EstimateIs
  <2>4. a <= Longest(t)
    BY <2>2, <2>3
  <2>5. Estimate(a) <= t
    BY <2>1, <2>4, EstimateIs
  <2> QED
    BY <2>5 DEF t
<1> QED
  BY <1>2, <1>3

(* Two parts that are too long when they are weighed alone are too long    *)
(* when they are joined, or fill the budget and one is below a token.      *)
LEMMA Weighed ==
    ASSUME NEW a \in Nat \ {0}, NEW b \in Nat \ {0}, Estimate(a) + Estimate(b) > MaxTokens
    PROVE  \/ Estimate(a + 2 + b) > MaxTokens
           \/ Estimate(a + 2 + b) = MaxTokens /\ (a < CharsPerToken \/ b < CharsPerToken)
<1> DEFINE joint == a + 2 + b
           c == CharsPerToken
           qa == a \div c
           qb == b \div c
<1>1. c \in Nat \ {0} /\ MaxTokens \in Nat /\ joint \in Nat /\ a \in Nat /\ b \in Nat
      /\ a <= joint /\ b <= joint
  BY ChunkSettings
<1>2. /\ qa \in Nat /\ c * qa <= a /\ a < c * qa + c
      /\ qb \in Nat /\ c * qb <= b /\ b < c * qb + c
  BY <1>1, Quotient
<1>3. /\ Estimate(a) = IF 1 >= qa THEN 1 ELSE qa
      /\ Estimate(b) = IF 1 >= qb THEN 1 ELSE qb
  BY <1>2, OfTwo DEF Estimate
<1>4. Estimate(joint) \in Nat /\ Estimate(a) <= Estimate(joint) /\ Estimate(b) <= Estimate(joint)
  BY <1>1, EstimateIs, EstimateGrows
<1> HIDE DEF joint, c, qa, qb
<1>5. /\ a < c => qa = 0
      /\ b < c => qb = 0
  <2>1. ASSUME NEW q \in Nat, NEW k \in Nat, c * q <= k, k < c PROVE q = 0
    <3>1. q >= 1 => c * 1 <= c * q
      BY <1>1, TimesGrows
    <3>2. c * 1 = c /\ c * q \in Nat
      BY <1>1
    <3> QED
      BY <1>1, <2>1, <3>1, <3>2
  <2> QED
    BY <1>1, <1>2, <2>1
<1>6. CASE a < c \/ b < c
  <2>1. Estimate(joint) >= MaxTokens
    <3>1. CASE a < c
      <4>1. Estimate(a) = 1
        BY <1>3, <1>5, <3>1
      <4>2. Estimate(b) \in Nat
        BY <1>1, EstimateIs
      <4> QED
        BY <1>1, <1>4, <4>1, <4>2
    <3>2. CASE b < c
      <4>1. Estimate(b) = 1
        BY <1>3, <1>5, <3>2
      <4>2. Estimate(a) \in Nat
        BY <1>1, EstimateIs
      <4> QED
        BY <1>1, <1>4, <4>1, <4>2
    <3> QED
      BY <1>6, <3>1, <3>2
  <2> QED
    BY <1>1, <1>4, <1>6, <2>1 DEF joint, c
<1>7. CASE ~(a < c) /\ ~(b < c)
  <2>1. qa >= 1 /\ qb >= 1
    <3>1. ASSUME NEW q \in Nat, NEW k \in Nat, k < c * q + c, ~(k < c) PROVE q >= 1
      <4>1. q = 0 => c * q = 0
        BY <1>1
      <4>2. c * q \in Nat
        BY <1>1
      <4> QED
        BY <1>1, <3>1, <4>1, <4>2
    <3> QED
      BY <1>1, <1>2, <1>7, <3>1
  <2>2. qa + qb >= MaxTokens + 1
    BY <1>1, <1>2, <1>3, <2>1
  <2>3. c * (MaxTokens + 1) <= c * (qa + qb)
    BY <1>1, <1>2, <2>2, TimesGrows
  <2>4. c * (qa + qb) = c * qa + c * qb /\ c * qa \in Nat /\ c * qb \in Nat
        /\ c * (MaxTokens + 1) \in Nat
    BY <1>1, <1>2
  <2>5. ~(joint <= c * (MaxTokens + 1) - 1)
    BY <1>1, <1>2, <2>3, <2>4 DEF joint
  <2>6. MaxTokens # 0 /\ Longest(MaxTokens) = c * (MaxTokens + 1) - 1
    BY ChunkSettings DEF Longest, c
  <2>7. ~(Estimate(joint) <= MaxTokens)
    BY <1>1, <2>5, <2>6, EstimateIs
  <2> QED
    BY <1>1, <1>4, <2>7 DEF joint
<1> QED
  BY <1>6, <1>7

(* A chunk that is closed before a part is closed for it.                  *)
LEMMA ClosedRightly ==
    ASSUME ChunkTypeOK, NEW part \in Slice, parts # <<>>, Exceeds(part) \/ ShouldSplit(part)
    PROVE  ClosedFor(parts, part)
<1> DEFINE a == Length(parts)
           b == Size(part)
<1>1. parts \in Seq(Slice)
  BY DEF ChunkTypeOK
<1>2. a \in Nat \ {0} /\ b \in Nat \ {0} /\ Length(Append(parts, part)) = a + 2 + b
  BY <1>1, LengthIs, LengthAppended
<1>3. part.to \in Nat /\ part.from \in Nat /\ b = part.to - part.from
  BY DEF Slice, Size
<1>4. a + 2 + part.to - part.from = a + 2 + b
  BY <1>2, <1>3
<1> HIDE DEF b
<1>5. ClosedFor(parts, part) <=>
        \/ tree[part.node].boundary /\ Estimate(a) >= MinTokens
        \/ Estimate(a + 2 + b) > MaxTokens
        \/ Estimate(a + 2 + b) = MaxTokens /\ (a < CharsPerToken \/ b < CharsPerToken)
  BY <1>3, <1>4, Zenon DEF ClosedFor
<1>6. CASE Exceeds(part)
  BY <1>2, <1>5, <1>6 DEF Exceeds
<1>7. CASE ShouldSplit(part)
  <2>1. \/ Estimate(a) > 0 /\ Estimate(a) + Estimate(b) > MaxTokens
        \/ tree[part.node].boundary /\ Estimate(a) >= MinTokens
    BY <1>3, <1>7, Zenon DEF ShouldSplit
  <2> HIDE DEF a
  <2>2. CASE Estimate(a) + Estimate(b) > MaxTokens
    <3>1. \/ Estimate(a + 2 + b) > MaxTokens
          \/ Estimate(a + 2 + b) = MaxTokens /\ (a < CharsPerToken \/ b < CharsPerToken)
      BY <1>2, <2>2, Weighed
    <3> QED
      BY <1>5, <3>1
  <2> QED
    BY <1>5, <2>1, <2>2
<1> QED
  BY <1>6, <1>7

(* What a list holds with an element more.                                 *)
LEMMA AppendedHas ==
    ASSUME NEW S, NEW list \in Seq(S), NEW x \in S
    PROVE  /\ Append(list, x) \in Seq(S) /\ Append(list, x) # <<>>
           /\ DOMAIN Append(list, x) = DOMAIN list \cup {Len(list) + 1}
           /\ \A p \in DOMAIN list : Append(list, x)[p] = list[p]
           /\ Append(list, x)[Len(list) + 1] = x
<1>1. Append(list, x) \in Seq(S) /\ Len(Append(list, x)) = Len(list) + 1 /\ Len(list) \in Nat
      /\ DOMAIN list = 1..Len(list) /\ Len(<<>>) = 0
  OBVIOUS
<1>2. Append(list, x) # <<>>
  BY <1>1
<1>3. DOMAIN Append(list, x) = 1..(Len(list) + 1)
  BY <1>1
<1>4. 1..(Len(list) + 1) = 1..Len(list) \cup {Len(list) + 1}
  BY <1>1
<1>5. \A p \in DOMAIN list : Append(list, x)[p] = list[p]
  OBVIOUS
<1>6. Append(list, x)[Len(list) + 1] = x
  OBVIOUS
<1> QED
  BY <1>1, <1>2, <1>3, <1>4, <1>5, <1>6

(* A part is added to the chunk, or begins the next one.                   *)
LEMMA InvAdds ==
    ASSUME ChunkInv, AddSegment
    PROVE  ChunkInv'
<1> DEFINE part == segments[joined + 1]
           flush == parts # <<>> /\ (Exceeds(part) \/ ShouldSplit(part))
<1>1. /\ Left /\ joined < Len(segments) /\ joined' = joined + 1
      /\ chunks' = IF flush THEN Append(chunks, parts) ELSE chunks
      /\ parts' = IF flush THEN <<part>> ELSE Append(parts, part)
      /\ UNCHANGED <<tree, segments, next>>
  BY DEF AddSegment
<1>2. /\ ChunkTypeOK /\ SegmentsAreOfNode /\ SegmentsAdvance /\ SegmentsCover
      /\ ChunksAreBounded /\ PartsAreLeft /\ AllIsHeld
  BY DEF ChunkInv
<1>3. /\ joined \in Nat /\ joined + 1 \in 1..Len(segments) /\ joined + 1 \in DOMAIN segments
      /\ parts \in Seq(Slice) /\ chunks \in Seq(Seq(Slice)) /\ segments \in Seq(Slice)
  BY <1>1, <1>2 DEF ChunkTypeOK
<1>4. part \in Slice
  BY <1>3
<1>5. WithinBudget(part.from, part.to)
  BY <1>2, <1>3 DEF SegmentsAdvance
<1>6. flush => ClosedFor(parts, part)
  BY <1>2, <1>4, ClosedRightly
<1>7. ~flush /\ parts # <<>> => Estimate(Length(Append(parts, part))) <= MaxTokens
  <2>1. Append(parts, part) \in Seq(Slice)
    BY <1>3, <1>4
  <2>2. Length(Append(parts, part)) \in Nat
    BY <2>1, LengthIs
  <2>3. Estimate(Length(Append(parts, part))) \in Nat /\ MaxTokens \in Nat
    BY <2>2, EstimateIs, ChunkSettings
  <2> QED
    BY <2>3 DEF Exceeds
<1>8. Estimate(Length(<<part>>)) <= MaxTokens
  BY <1>4, <1>5, LengthOfOne DEF Size, WithinBudget
<1>9. ~flush /\ parts = <<>> => Append(parts, part) = <<part>>
  OBVIOUS
<1> HIDE DEF part, flush
<1>10. parts' \in Seq(Slice) /\ chunks' \in Seq(Seq(Slice)) /\ parts' # <<>>
  <2>1. <<part>> \in Seq(Slice) /\ <<part>> # <<>>
    BY <1>4
  <2>2. Append(parts, part) \in Seq(Slice) /\ Append(parts, part) # <<>>
    BY <1>3, <1>4, AppendedHas
  <2>3. Append(chunks, parts) \in Seq(Seq(Slice))
    BY <1>3
  <2> QED
    BY <1>1, <1>3, <2>1, <2>2, <2>3
<1>11. ChunkTypeOK'
  BY <1>1, <1>2, <1>3, <1>10 DEF ChunkTypeOK
<1>12. SegmentsAreOfNode' /\ SegmentsAdvance' /\ SegmentsCover' /\ PartsAreLeft'
  <2>1. SegmentsAreOfNode'
    BY <1>1, <1>2 DEF SegmentsAreOfNode, Left, Skipped
  <2>2. SegmentsAdvance'
    BY <1>1, <1>2 DEF SegmentsAdvance
  <2>3. SegmentsCover' /\ PartsAreLeft'
    BY <1>1, <1>2, <1>10 DEF SegmentsCover, PartsAreLeft
  <2> QED
    BY <2>1, <2>2, <2>3
<1>13. Estimate(Length(parts')) <= MaxTokens
  BY <1>1, <1>7, <1>8, <1>9
<1>14. ChunksAreBounded'
  <2> DEFINE N == Len(chunks)
             Rightly(k) ==
                /\ chunks'[k] # <<>> /\ Estimate(Length(chunks'[k])) <= MaxTokens
                /\ Joined(k)' # <<>> => ClosedFor(chunks'[k], Joined(k)'[1])
  <2>1. N \in Nat /\ DOMAIN chunks = 1..N /\ DOMAIN chunks' = 1..Len(chunks')
    BY <1>3, <1>10
  <2>2. ASSUME NEW k \in 1..N
        PROVE  /\ chunks[k] # <<>> /\ Estimate(Length(chunks[k])) <= MaxTokens
               /\ Joined(k) # <<>> => ClosedFor(chunks[k], Joined(k)[1])
    BY <1>2, <2>1 DEF ChunksAreBounded
  <2>3. Estimate(Length(parts)) <= MaxTokens
    BY <1>2 DEF ChunksAreBounded
  <2>4. \A k \in 1..N : chunks'[k] = chunks[k]
    BY <1>1, <1>3
  <2>5. CASE flush
    <3>1. Len(chunks') = N + 1 /\ chunks'[N + 1] = parts /\ parts' = <<part>>
      BY <1>1, <1>3, <2>5
    <3>2. ASSUME NEW k \in 1..(N + 1) PROVE Rightly(k)
      <4>1. CASE k \in 1..N
        <5>1. Joined(k)' = Joined(k)
          <6>1. Joined(k)' = chunks'[k + 1]
            BY <2>1, <3>1, <4>1 DEF Joined
          <6>2. CASE k < N
            <7>1. k + 1 \in 1..N
              BY <2>1, <4>1, <6>2
            <7> QED
              BY <2>4, <6>1, <6>2, <7>1 DEF Joined
          <6>3. CASE k = N
            BY <2>1, <3>1, <6>1, <6>3 DEF Joined
          <6>4. k < N \/ k = N
            <7>1. N \in Nat /\ k \in 1..N
              BY <2>1, <4>1
            <7> HIDE DEF N
            <7> QED
              BY <7>1
          <6> QED
            BY <6>2, <6>3, <6>4, Zenon
        <5> QED
          BY <2>2, <2>4, <4>1, <5>1
      <4>2. CASE k = N + 1
        <5>1. Joined(k)' = <<part>>
          BY <2>1, <3>1, <4>2 DEF Joined
        <5>2. Joined(k)'[1] = part
          BY <5>1
        <5> QED
          BY <1>6, <2>3, <2>5, <3>1, <4>2, <5>2 DEF flush
      <4> QED
        BY <2>1, <4>1, <4>2
    <3> QED
      BY <1>1, <1>13, <2>1, <3>1, <3>2 DEF ChunksAreBounded, ClosedFor
  <2>6. CASE ~flush
    <3>1. chunks' = chunks /\ parts' = Append(parts, part)
      BY <1>1, <2>6
    <3>2. ASSUME NEW k \in 1..N PROVE Rightly(k)
      <4>1. parts # <<>>
        BY <1>1, <1>2, <2>1, <3>2 DEF PartsAreLeft
      <4>2. parts'[1] = parts[1]
        BY <1>3, <1>4, <3>1, <4>1
      <4>3. CASE k < N
        <5>1. Joined(k)' = Joined(k)
          BY <3>1, <4>3 DEF Joined
        <5> QED
          BY <2>2, <3>1, <5>1
      <4>4. CASE ~(k < N)
        <5>1. Joined(k)' = parts' /\ Joined(k) = parts
          BY <3>1, <4>4 DEF Joined
        <5> QED
          BY <2>2, <3>1, <4>1, <4>2, <5>1
      <4> QED
        BY <4>3, <4>4
    <3> QED
      BY <1>1, <1>13, <2>1, <3>1, <3>2 DEF ChunksAreBounded, ClosedFor
  <2> QED
    BY <2>5, <2>6
<1>15. AllIsHeld'
  <2> SUFFICES ASSUME NEW n \in DOMAIN tree, NEW i \in Nat
               PROVE  Holds(n, i)' <=> Due(n, i)'
    BY <1>1 DEF AllIsHeld
  <2> DEFINE InParts(list) == \E p \in DOMAIN list : Covers(list[p], n, i)
             InChunks(list) == \E k \in DOMAIN list : InParts(list[k])
  <2>1. Holds(n, i) <=> Due(n, i)
    BY <1>2 DEF AllIsHeld
  <2>2. Holds(n, i) <=> InParts(parts) \/ InChunks(chunks)
    BY DEF Holds
  <2>3. Holds(n, i)' <=> InParts(parts') \/ InChunks(chunks')
    BY DEF Holds, Covers
  <2>4. InParts(Append(parts, part)) <=> InParts(parts) \/ Covers(part, n, i)
    <3> DEFINE more == Append(parts, part)
               N == Len(parts)
    <3>1. /\ DOMAIN more = DOMAIN parts \cup {N + 1} /\ more[N + 1] = part
          /\ \A p \in DOMAIN parts : more[p] = parts[p]
      BY <1>3, <1>4, AppendedHas
    <3> HIDE DEF more, N
    <3>2. InParts(more) <=> InParts(parts) \/ Covers(part, n, i)
      BY <3>1, Zenon
    <3> QED
      BY <3>2 DEF more
  <2>5. InParts(<<part>>) <=> Covers(part, n, i)
    <3>1. DOMAIN <<part>> = {1} /\ <<part>>[1] = part
      OBVIOUS
    <3> QED
      BY <3>1
  <2>6. InChunks(Append(chunks, parts)) <=> InChunks(chunks) \/ InParts(parts)
    <3> DEFINE more == Append(chunks, parts)
               N == Len(chunks)
    <3>1. /\ DOMAIN more = DOMAIN chunks \cup {N + 1} /\ more[N + 1] = parts
          /\ \A k \in DOMAIN chunks : more[k] = chunks[k]
      BY <1>3, AppendedHas
    <3> HIDE DEF more, N, InParts
    <3>2. InChunks(more) <=> InChunks(chunks) \/ InParts(parts)
      BY <3>1, Zenon
    <3> QED
      BY <3>2 DEF more
  <2> HIDE DEF InParts, InChunks
  <2>7. Holds(n, i)' <=> Holds(n, i) \/ Covers(part, n, i)
    BY <1>1, <2>2, <2>3, <2>4, <2>5, <2>6
  <2>8. (\E j \in 1..(joined + 1) : Covers(segments[j], n, i))
        <=> (\E j \in 1..joined : Covers(segments[j], n, i)) \/ Covers(part, n, i)
    <3>1. \A j : j \in 1..(joined + 1) <=> (j \in 1..joined \/ j = joined + 1)
      BY <1>3
    <3> QED
      BY <3>1 DEF part
  <2>9. Due(n, i)' <=> Due(n, i) \/ Covers(part, n, i)
    BY <1>1, <2>8 DEF Due, Skipped, Covers
  <2> QED
    BY <2>1, <2>7, <2>9
<1> QED
  BY <1>11, <1>12, <1>14, <1>15 DEF ChunkInv

(* A node that is done holds its whole text.                               *)
LEMMA InvGoesOn ==
    ASSUME ChunkInv, NextNode
    PROVE  ChunkInv'
<1> DEFINE text == tree[next].text
           n == Len(segments)
<1>1. /\ Left /\ SplitWhole /\ joined = n
      /\ next' = next + 1 /\ segments' = <<>> /\ joined' = 0
      /\ UNCHANGED <<tree, parts, chunks>>
  BY DEF NextNode
<1>2. /\ ChunkTypeOK /\ SegmentsAreOfNode /\ SegmentsCover
      /\ ChunksAreBounded /\ PartsAreLeft /\ AllIsHeld
  BY DEF ChunkInv
<1>3. segments # <<>> /\ segments[n].to = Len(text) /\ ~Skipped(tree[next])
  BY <1>1, <1>2 DEF SplitWhole, SegmentsAreOfNode
<1>4. /\ next \in DOMAIN tree /\ next \in Nat /\ next + 1 \in 1..(Len(tree) + 1)
      /\ IsText(text)
  BY <1>1, <1>2, NodesAre
<1>5. n \in Nat /\ segments \in Seq(Slice) /\ DOMAIN segments = 1..n
      /\ DOMAIN text = 1..Len(text)
  BY <1>2, <1>4 DEF ChunkTypeOK, IsText
<1>6. ChunkTypeOK'
  <2>1. <<>> \in Seq(Slice) /\ 0 \in 0..Len(<<>>)
    OBVIOUS
  <2> QED
    BY <1>1, <1>2, <1>4, <2>1 DEF ChunkTypeOK
<1>7. SegmentsAreOfNode' /\ SegmentsCover'
  BY <1>1 DEF SegmentsAreOfNode, SegmentsCover
<1>8. SegmentsAdvance'
  BY <1>1, AdvanceAfter DEF SegmentAdvances
<1>9. ChunksAreBounded' /\ PartsAreLeft'
  BY <1>1, <1>2 DEF ChunksAreBounded, Joined, ClosedFor, PartsAreLeft, Left
<1>10. ASSUME NEW m \in DOMAIN tree, NEW i \in Nat
       PROVE  (\E j \in 1..joined : Covers(segments[j], m, i)) <=> m = next /\ i \in DOMAIN text
  <2>1. ASSUME NEW j \in 1..n, Covers(segments[j], m, i) PROVE m = next /\ i \in DOMAIN text
    <3>1. segments[j].node = next /\ segments[j].to <= Len(text)
      BY <1>2, <1>5 DEF SegmentsAreOfNode
    <3>3. segments[j].from \in Nat /\ segments[j].to \in Nat
      <4>1. segments[j] \in Slice
        BY <1>5
      <4> QED
        BY <4>1 DEF Slice
    <3>2. Len(text) \in Nat
      BY <1>4 DEF IsText
    <3> HIDE DEF text
    <3> QED
      BY <1>5, <2>1, <3>1, <3>2, <3>3 DEF Covers
  <2>2. ASSUME m = next, i \in DOMAIN text
        PROVE  \E j \in 1..n : Covers(segments[j], m, i)
    <3>1. i \in 1..segments[n].to
      BY <1>3, <1>5, <2>2
    <3>2. PICK j \in 1..n : segments[j].from < i /\ i <= segments[j].to
      BY <1>2, <1>3, <1>5, <3>1 DEF SegmentsCover
    <3>3. segments[j].node = next
      BY <1>2, <1>5 DEF SegmentsAreOfNode
    <3> QED
      BY <2>2, <3>2, <3>3 DEF Covers
  <2> HIDE DEF n, text
  <2> QED
    BY <1>1, <2>1, <2>2
<1>11. AllIsHeld'
  <2> SUFFICES ASSUME NEW m \in DOMAIN tree, NEW i \in Nat
               PROVE  Holds(m, i)' <=> Due(m, i)'
    BY <1>1 DEF AllIsHeld
  <2>1. Holds(m, i) <=> Due(m, i)
    BY <1>2 DEF AllIsHeld
  <2>2. Holds(m, i)' <=> Holds(m, i)
    BY <1>1 DEF Holds, Covers
  <2>3. Due(m, i) <=> \/ m < next /\ ~Skipped(tree[m]) /\ i \in DOMAIN tree[m].text
                      \/ m = next /\ i \in DOMAIN text
    BY <1>10, Zenon DEF Due
  <2>4. Due(m, i)' <=> m < next + 1 /\ ~Skipped(tree[m]) /\ i \in DOMAIN tree[m].text
    <3>1. 1..joined' = {}
      BY <1>1
    <3> QED
      BY <1>1, <3>1 DEF Due, Skipped
  <2>5. m \in Nat
    BY <1>2 DEF ChunkTypeOK
  <2>6. m < next + 1 <=> m < next \/ m = next
    BY <1>4, <2>5
  <2> QED
    BY <1>3, <2>1, <2>2, <2>3, <2>4, <2>6, Zenon
<1> QED
  BY <1>6, <1>7, <1>8, <1>9, <1>11 DEF ChunkInv

(* When no node is left there is no segment.                               *)
LEMMA NothingLeft ==
    ASSUME ChunkTypeOK, SegmentsAreOfNode, ~Left
    PROVE  segments = <<>> /\ joined = 0 /\ next = Len(tree) + 1 /\ Len(tree) \in Nat
<1>1. segments = <<>>
  BY DEF SegmentsAreOfNode
<1>2. Len(segments) = 0
  BY <1>1
<1> QED
  BY <1>1, <1>2 DEF ChunkTypeOK, Left

(* The last chunk.                                                         *)
LEMMA InvFlushes ==
    ASSUME ChunkInv, FlushLast
    PROVE  ChunkInv'
<1>1. /\ ~Left /\ parts # <<>> /\ chunks' = Append(chunks, parts) /\ parts' = <<>>
      /\ UNCHANGED <<tree, segments, joined, next>>
  BY DEF FlushLast
<1>2. /\ ChunkTypeOK /\ SegmentsAreOfNode /\ SegmentsAdvance /\ SegmentsCover
      /\ ChunksAreBounded /\ AllIsHeld
  BY DEF ChunkInv
<1>3. parts \in Seq(Slice) /\ chunks \in Seq(Seq(Slice))
  BY <1>2 DEF ChunkTypeOK
<1>4. chunks' \in Seq(Seq(Slice)) /\ parts' \in Seq(Slice)
  BY <1>1, <1>3
<1>5. ChunkTypeOK'
  BY <1>1, <1>2, <1>4 DEF ChunkTypeOK
<1>6. SegmentsAreOfNode' /\ SegmentsAdvance' /\ SegmentsCover' /\ PartsAreLeft'
  <2>1. SegmentsAreOfNode' /\ PartsAreLeft'
    BY <1>1, <1>2 DEF SegmentsAreOfNode, PartsAreLeft, Left, Skipped
  <2>2. SegmentsAdvance' /\ SegmentsCover'
    BY <1>1, <1>2 DEF SegmentsAdvance, SegmentsCover
  <2> QED
    BY <2>1, <2>2
<1>7. ChunksAreBounded'
  <2> DEFINE N == Len(chunks)
  <2>1. /\ N \in Nat /\ DOMAIN chunks = 1..N /\ DOMAIN chunks' = 1..(N + 1)
        /\ Len(chunks') = N + 1 /\ chunks'[N + 1] = parts
        /\ \A k \in 1..N : chunks'[k] = chunks[k]
    BY <1>1, <1>3
  <2>2. ASSUME NEW k \in 1..N
        PROVE  /\ chunks[k] # <<>> /\ Estimate(Length(chunks[k])) <= MaxTokens
               /\ Joined(k) # <<>> => ClosedFor(chunks[k], Joined(k)[1])
    BY <1>2, <2>1 DEF ChunksAreBounded
  <2>3. Estimate(Length(parts)) <= MaxTokens
    BY <1>2 DEF ChunksAreBounded
  <2>4. Estimate(Length(parts')) <= MaxTokens
    <3>1. Length(<<>>) = 0
      <4>1. [node |-> 0, from |-> 0, to |-> 1] \in Slice
        BY DEF Slice
      <4> QED
        BY <4>1, LengthOfOne
    <3>2. Estimate(0) = 0
      BY EstimateIs
    <3> QED
      BY <1>1, <3>1, <3>2, ChunkSettings
  <2>5. ASSUME NEW k \in 1..(N + 1)
        PROVE  /\ chunks'[k] # <<>> /\ Estimate(Length(chunks'[k])) <= MaxTokens
               /\ Joined(k)' # <<>> => ClosedFor(chunks'[k], Joined(k)'[1])
    <3>1. CASE k \in 1..N
      <4>1. Joined(k)' = Joined(k)
        <5>1. Joined(k)' = chunks'[k + 1]
          BY <2>1, <3>1 DEF Joined
        <5>2. CASE k < N
          <6>1. k + 1 \in 1..N
            BY <2>1, <3>1, <5>2
          <6> QED
            BY <2>1, <5>1, <5>2, <6>1 DEF Joined
        <5>3. CASE k = N
          BY <2>1, <5>1, <5>3 DEF Joined
        <5>4. k < N \/ k = N
          <6>1. N \in Nat /\ k \in 1..N
            BY <2>1, <3>1
          <6> HIDE DEF N
          <6> QED
            BY <6>1
        <5> QED
          BY <5>2, <5>3, <5>4, Zenon
      <4> QED
        BY <2>1, <2>2, <3>1, <4>1
    <3>2. CASE k = N + 1
      <4>1. Joined(k)' = <<>>
        BY <1>1, <2>1, <3>2 DEF Joined
      <4> QED
        BY <1>1, <2>1, <2>3, <3>2, <4>1
    <3> QED
      BY <2>1, <3>1, <3>2
  <2> HIDE DEF N
  <2> QED
    BY <1>1, <2>1, <2>4, <2>5 DEF ChunksAreBounded, ClosedFor
<1>8. AllIsHeld'
  <2> SUFFICES ASSUME NEW n \in DOMAIN tree, NEW i \in Nat
               PROVE  Holds(n, i)' <=> Due(n, i)'
    BY <1>1 DEF AllIsHeld
  <2> DEFINE InParts(list) == \E p \in DOMAIN list : Covers(list[p], n, i)
             InChunks(list) == \E k \in DOMAIN list : InParts(list[k])
             more == Append(chunks, parts)
             N == Len(chunks)
  <2>1. Holds(n, i) <=> Due(n, i)
    BY <1>2 DEF AllIsHeld
  <2>2. Holds(n, i) <=> InParts(parts) \/ InChunks(chunks)
    BY DEF Holds
  <2>3. Holds(n, i)' <=> InParts(parts') \/ InChunks(chunks')
    BY DEF Holds, Covers
  <2>4. ~InParts(<<>>)
    <3>1. DOMAIN <<>> = {}
      OBVIOUS
    <3> QED
      BY <3>1
  <2>5. InChunks(more) <=> InChunks(chunks) \/ InParts(parts)
    <3>1. /\ DOMAIN more = DOMAIN chunks \cup {N + 1} /\ more[N + 1] = parts
          /\ \A k \in DOMAIN chunks : more[k] = chunks[k]
      BY <1>3, AppendedHas
    <3> HIDE DEF more, N, InParts
    <3> QED
      BY <3>1, Zenon
  <2> HIDE DEF InParts, InChunks, more
  <2>6. Holds(n, i)' <=> Holds(n, i)
    BY <1>1, <2>2, <2>3, <2>4, <2>5 DEF more
  <2>7. Due(n, i)' <=> Due(n, i)
    BY <1>1 DEF Due, Skipped, Covers
  <2> QED
    BY <2>1, <2>6, <2>7
<1> QED
  BY <1>5, <1>6, <1>7, <1>8 DEF ChunkInv

(* No document is open.                                                    *)
LEMMA InvStores ==
    ASSUME ChunkInv, StoreChunks
    PROVE  ChunkInv'
<1>1. /\ ~Left /\ parts = <<>> /\ tree' = <<>> /\ chunks' = <<>> /\ next' = 1
      /\ UNCHANGED <<segments, joined, parts>>
  BY DEF StoreChunks
<1>2. ChunkTypeOK /\ SegmentsAreOfNode /\ ChunksAreBounded
  BY DEF ChunkInv
<1>3. segments' = <<>> /\ joined' = 0
  BY <1>1, <1>2, NothingLeft
<1>4. DOMAIN <<>> = {} /\ Len(<<>>) = 0
  OBVIOUS
<1>5. ChunkTypeOK'
  BY <1>1, <1>3, <1>4 DEF ChunkTypeOK
<1>6. SegmentsAreOfNode' /\ SegmentsCover' /\ PartsAreLeft'
  BY <1>1, <1>3, <1>4 DEF SegmentsAreOfNode, SegmentsCover, PartsAreLeft
<1>7. SegmentsAdvance'
  BY <1>3, AdvanceAfter DEF SegmentAdvances
<1>8. ChunksAreBounded'
  BY <1>1, <1>2, <1>4 DEF ChunksAreBounded
<1>9. AllIsHeld'
  BY <1>1, <1>4 DEF AllIsHeld
<1> QED
  BY <1>5, <1>6, <1>7, <1>8, <1>9 DEF ChunkInv

(* Nothing is joined at first.                                             *)
LEMMA InvBegins ==
    ASSUME ChunkInit
    PROVE  ChunkInv
<1>1. /\ tree \in Seq(Node) /\ segments = <<>> /\ joined = 0 /\ parts = <<>> /\ chunks = <<>>
      /\ next = 1
  BY ChunkSettings DEF ChunkInit
<1>2. DOMAIN <<>> = {} /\ Len(<<>>) = 0
  OBVIOUS
<1>3. ChunkTypeOK
  BY <1>1, <1>2 DEF ChunkTypeOK
<1>4. SegmentsAreOfNode /\ SegmentsCover /\ PartsAreLeft /\ SegmentsAdvance
  BY <1>1, <1>2 DEF SegmentsAreOfNode, SegmentsCover, PartsAreLeft, SegmentsAdvance
<1>5. ChunksAreBounded
  <2>1. [node |-> 0, from |-> 0, to |-> 1] \in Slice
    BY DEF Slice
  <2>2. Length(<<>>) = 0
    BY <2>1, LengthOfOne
  <2>3. Estimate(0) = 0
    BY EstimateIs
  <2> QED
    BY <1>1, <1>2, <2>2, <2>3, ChunkSettings DEF ChunksAreBounded
<1>6. AllIsHeld
  <2> SUFFICES ASSUME NEW n \in DOMAIN tree, NEW i \in Nat
               PROVE  ~Holds(n, i) /\ ~Due(n, i)
    BY DEF AllIsHeld
  <2>1. ~(n < next)
    BY <1>1
  <2> QED
    BY <1>1, <1>2, <2>1 DEF Holds, Due
<1> QED
  BY <1>3, <1>4, <1>5, <1>6 DEF ChunkInv

(* When the document is done everything is in a chunk.                     *)
LEMMA DoneIsWhole ==
    ASSUME ChunkInv
    PROVE  NothingIsLost
<1> SUFFICES ASSUME ~Left, parts = <<>>, NEW n \in DOMAIN tree
             PROVE  {i \in DOMAIN tree[n].text :
                        \E k \in DOMAIN chunks : \E p \in DOMAIN chunks[k] :
                            chunks[k][p].node = n /\ chunks[k][p].from < i /\ i <= chunks[k][p].to}
                    = IF Skipped(tree[n]) THEN {} ELSE DOMAIN tree[n].text
  BY DEF NothingIsLost
<1>1. ChunkTypeOK /\ SegmentsAreOfNode /\ AllIsHeld
  BY DEF ChunkInv
<1>2. joined = 0 /\ next = Len(tree) + 1 /\ n < next
  BY <1>1, NothingLeft DEF ChunkTypeOK
<1>3. \A i \in DOMAIN tree[n].text : i \in Nat
  <2>1. tree[n] \in Node
    BY <1>1 DEF ChunkTypeOK
  <2>2. tree[n].text \in Seq(Letters)
    BY <2>1 DEF Node
  <2> QED
    BY <2>2
<1>4. ASSUME NEW i \in DOMAIN tree[n].text
      PROVE  (\E k \in DOMAIN chunks : \E p \in DOMAIN chunks[k] :
                  chunks[k][p].node = n /\ chunks[k][p].from < i /\ i <= chunks[k][p].to)
             <=> ~Skipped(tree[n])
  <2>1. Holds(n, i) <=> Due(n, i)
    BY <1>1, <1>3 DEF AllIsHeld
  <2>2. Due(n, i) <=> ~Skipped(tree[n])
    <3>1. 1..joined = {}
      BY <1>2
    <3> QED
      BY <1>2, <3>1, Zenon DEF Due
  <2>3. DOMAIN parts = {}
    OBVIOUS
  <2> QED
    BY <2>1, <2>2, <2>3, Zenon DEF Holds, Covers
<1> QED
  BY <1>4

(* ChunksAreSound for any documents and any budget: whatever the texts,    *)
(* the segments and chunks that SEGMENT makes of them (split_text,         *)
(* build_document_chunks) are within the budget, repeat no more than the   *)
(* overlap and lose no place of a node.                                    *)
THEOREM ChunksStaySound == ChunkSpec => []ChunksAreSound
<1>1. ChunkInit => ChunkInv
  BY InvBegins
<1>2. ASSUME ChunkInv, [ChunkNext]_chunkVars PROVE ChunkInv'
  <2>1. CASE UNCHANGED chunkVars
    BY <1>2, <2>1 DEF ChunkInv, chunkVars, ChunkTypeOK, SegmentsAreOfNode, SegmentsAdvance,
       SegmentsCover, ChunksAreBounded, PartsAreLeft, AllIsHeld, Joined, ClosedFor, Left,
       Holds, Due, Covers
  <2>2. CASE ChunkNext
    BY <1>2, <2>2, InvSkipsNode, InvSplits, InvAdds, InvGoesOn, InvFlushes, InvStores
       DEF ChunkNext
  <2> QED
    BY <1>2, <2>1, <2>2
<1>3. ChunkInv => ChunksAreSound
  BY DoneIsWhole DEF ChunkInv, ChunksAreSound
<1> QED
  BY <1>1, <1>2, <1>3, PTL DEF ChunkSpec
=============================================================================
