-------------------------- MODULE RepoSearchProofs --------------------------
(***************************************************************************)
(* Proofs about RepoSearch, for any sources, contents, edits and           *)
(* questions: what is shown of a generation is what is indexed in it,      *)
(* a ranking is fair to the sources of its hits, and an answer cut to a    *)
(* budget keeps the best of it.                                            *)
(***************************************************************************)
EXTENDS RepoSearch, ListTheorems


-----------------------------------------------------------------------------
(* Best elements, and lists whose elements differ.                         *)

(* A strict partial order leaves every set of a finite set a minimal one.  *)
StrictOrder(R, S) ==
    /\ \A x \in S : <<x, x>> \notin R
    /\ \A x, y, z \in S : <<x, y>> \in R /\ <<y, z>> \in R => <<x, z>> \in R

(* In a strict partial order of a finite set every subset has an element   *)
(* that none is before.                                                    *)
LEMMA OrderIsGrounded ==
    ASSUME NEW S, IsFiniteSet(S), NEW R, StrictOrder(R, S)
    PROVE  Grounded(S, R)
<1> SUFFICES ASSUME NEW T \in SUBSET S, T # {}
             PROVE  \E x \in T : \A y \in T : <<y, x>> \notin R
  BY DEF Grounded
<1> DEFINE below(x) == {y \in T : <<y, x>> \in R}
           Ranks == {Cardinality(below(x)) : x \in T}
<1>1. IsFiniteSet(T)
  BY FS_Subset
<1>2. \A x \in T : below(x) \in SUBSET T
  OBVIOUS
<1>3. \A x \in T : IsFiniteSet(below(x)) /\ Cardinality(below(x)) \in Nat
  <2> HIDE DEF below
  <2> QED
    BY <1>1, <1>2, FS_Subset, FS_CardinalityType
<1>4. Ranks \in SUBSET Nat /\ Ranks # {}
  <2> HIDE DEF below
  <2> QED
    BY <1>3
<1>5. PICK m \in Ranks : \A k \in Ranks : m <= k
  <2> HIDE DEF Ranks
  <2> QED
    BY <1>4, LeastNumber
<1>6. PICK x \in T : m = Cardinality(below(x))
  BY <1>5
<1>7. ASSUME NEW y \in T, <<y, x>> \in R PROVE FALSE
  <2>1. below(y) \in SUBSET below(x) /\ y \in below(x) /\ y \notin below(y)
    BY <1>7 DEF StrictOrder
  <2>2. m <= Cardinality(below(y))
    BY <1>5
  <2> HIDE DEF below
  <2>3. Cardinality(below(y)) <= Cardinality(below(x))
    BY <1>3, <2>1, FS_Subset
  <2>4. Cardinality(below(y)) # Cardinality(below(x))
    BY <1>3, <2>1, FS_Subset
  <2>5. Cardinality(below(y)) \in Nat /\ Cardinality(below(x)) \in Nat
    BY <1>3
  <2> QED
    BY <1>6, <2>2, <2>3, <2>4, <2>5
<1> QED
  BY <1>7

(* The elements of a finite set, listed in a strict partial order.         *)
LEMMA SortedByOrder ==
    ASSUME NEW S, IsFiniteSet(S), NEW R, StrictOrder(R, S)
    PROVE  Listing(Sorted(S, R), S) /\ Ordered(Sorted(S, R), Cardinality(S), S, R)
<1>1. Grounded(S, R)
  BY OrderIsGrounded
<1>2. Ordered(Sorted(S, R), Cardinality(S), S, R)
  BY <1>1, SortedLists
<1>3. Sorted(S, R) \in Seq(S) /\ Len(Sorted(S, R)) = Cardinality(S)
  BY <1>2 DEF Ordered
<1>4. Cardinality(S) \in Nat /\ \A x \in S : \E i \in 1..Cardinality(S) : Sorted(S, R)[i] = x
  BY <1>1, SortedLists
<1> QED
  BY <1>2, <1>3, <1>4 DEF Listing

(* A list of n different values has n values.                              *)
LEMMA AllDiffer ==
    ASSUME NEW n \in Nat, NEW f, DOMAIN f = 1..n,
           \A i, j \in 1..n : f[i] = f[j] => i = j
    PROVE  IsFiniteSet({f[i] : i \in 1..n}) /\ Cardinality({f[i] : i \in 1..n}) = n
<1> DEFINE R == {f[i] : i \in 1..n}
           g == [i \in 1..n |-> f[i]]
<1>1. g \in Bijection(1..n, R)
  <2>1. g \in [1..n -> R] /\ \A y \in R : \E i \in 1..n : g[i] = y
    OBVIOUS
  <2>2. \A i, j \in 1..n : g[i] = g[j] => i = j
    OBVIOUS
  <2> HIDE DEF g, R
  <2> QED
    BY <2>1, <2>2 DEF Bijection, Injection, Surjection, IsInjective
<1>2. IsFiniteSet(1..n) /\ Cardinality(1..n) = n
  BY FS_Interval
<1>3. ExistsBijection(1..n, R)
  BY <1>1 DEF ExistsBijection
<1>4. IsFiniteSet(R) /\ Cardinality(R) = n
  <2> HIDE DEF R
  <2> QED
    BY <1>2, <1>3, FS_Bijection
<1> QED
  BY <1>4

(* Of finitely many numbers one is the greatest.                           *)
LEMMA GreatestExists ==
    ASSUME NEW S, IsFiniteSet(S), S # {}, NEW f, \A x \in S : f[x] \in Int
    PROVE  \E x \in S : \A y \in S : f[y] <= f[x]
<1> DEFINE R == {p \in S \X S : f[p[1]] > f[p[2]]}
<1>1. StrictOrder(R, S)
  <2>1. \A x \in S : <<x, x>> \notin R
    OBVIOUS
  <2>2. \A x, y \in S : <<x, y>> \in R <=> f[x] > f[y]
    OBVIOUS
  <2> HIDE DEF R
  <2>3. \A x, y, z \in S : <<x, y>> \in R /\ <<y, z>> \in R => <<x, z>> \in R
    BY <2>2
  <2> QED
    BY <2>1, <2>3 DEF StrictOrder
<1>2. \A x, y \in S : <<x, y>> \in R <=> f[x] > f[y]
  OBVIOUS
<1> HIDE DEF R
<1>3. Grounded(S, R)
  BY <1>1, OrderIsGrounded
<1>4. PICK x \in S : \A y \in S : <<y, x>> \notin R
  BY <1>3 DEF Grounded
<1>5. ASSUME NEW y \in S PROVE f[y] <= f[x]
  <2>1. ~(f[y] > f[x])
    BY <1>2, <1>4
  <2>2. f[y] \in Int /\ f[x] \in Int
    OBVIOUS
  <2> QED
    BY <2>1, <2>2
<1> QED
  BY <1>5

(* Comparing the ratios of numbers, by products.                           *)
LEMMA Multiplied ==
    ASSUME NEW a \in Int, NEW b \in Int, NEW k \in Nat, a >= b
    PROVE  a * k >= b * k
<1>1. a - b \in Nat
  OBVIOUS
<1>2. (a - b) * k >= 0
  BY <1>1
<1> QED
  BY <1>2

(* A common factor that is not zero may be left out.                       *)
LEMMA Divided ==
    ASSUME NEW a \in Int, NEW b \in Int, NEW k \in Nat, k > 0
    PROVE  /\ a * k >= b * k => a >= b
           /\ a * k > b * k => a > b
<1>1. ASSUME a < b PROVE a * k < b * k
  <2>1. b - a >= 1
    BY <1>1
  <2>2. (b - a) * k >= 1 * k
    BY <2>1, Multiplied
  <2> QED
    BY <2>2
<1>2. a = b => a * k = b * k
  OBVIOUS
<1>3. a * k \in Int /\ b * k \in Int
  OBVIOUS
<1> QED
  BY <1>1, <1>2, <1>3

(* Ratios are ordered.                                                     *)
LEMMA RatiosAreOrdered ==
    ASSUME NEW a \in Int, NEW b \in Int, NEW c \in Int,
           NEW x \in Nat, NEW y \in Nat, NEW z \in Nat, x > 0, y > 0, z > 0,
           a * y >= b * x, b * z >= c * y
    PROVE  /\ a * z >= c * x
           /\ a * y > b * x \/ b * z > c * y => a * z > c * x
<1>1. (a * y) * z >= (b * x) * z /\ (b * z) * x >= (c * y) * x
  <2>1. a * y \in Int /\ b * x \in Int /\ b * z \in Int /\ c * y \in Int
    OBVIOUS
  <2> QED
    BY <2>1, Multiplied
<1>2. (a * y) * z = (a * z) * y /\ (b * x) * z = (b * z) * x /\ (c * y) * x = (c * x) * y
  OBVIOUS
<1>3. (a * z) * y \in Int /\ (c * x) * y \in Int /\ (b * z) * x \in Int
  OBVIOUS
<1>4. (a * z) * y >= (c * x) * y
  BY <1>1, <1>2, <1>3
<1>5. a * z \in Int /\ c * x \in Int
  OBVIOUS
<1>6. a * z >= c * x
  BY <1>4, <1>5, Divided
<1>7. ASSUME a * y > b * x PROVE (a * y) * z > (b * x) * z
  <2>1. a * y \in Int /\ b * x \in Int
    OBVIOUS
  <2>2. ~((b * x) * z >= (a * y) * z)
    BY <1>7, <2>1, Divided
  <2> QED
    BY <2>1, <2>2
<1>8. ASSUME b * z > c * y PROVE (b * z) * x > (c * y) * x
  <2>1. b * z \in Int /\ c * y \in Int
    OBVIOUS
  <2>2. ~((c * y) * x >= (b * z) * x)
    BY <1>8, <2>1, Divided
  <2> QED
    BY <2>1, <2>2
<1>9. a * y > b * x \/ b * z > c * y => (a * z) * y > (c * x) * y
  BY <1>1, <1>2, <1>3, <1>7, <1>8
<1> QED
  BY <1>5, <1>6, <1>9, Divided

-----------------------------------------------------------------------------
(* What a lexical search finds.                                            *)

(* The files of a generation, as the index holds them.                     *)
FilesOK(files) ==
    /\ files \in [SitePaths -> Indexed]
    /\ \A p \in SitePaths :
          /\ IsFiniteSet(files[p].rows)
          /\ files[p].hash = 0 => files[p].rows = {} /\ files[p].times = 0

(* A hit says what the generation holds of its file.                       *)
HitsIn(files) ==
    {h \in [kind : Range(Kinds), path : SitePaths, line : Nat, to : Nat,
            hash : Nat, score : Int, exact : BOOLEAN] :
        /\ h.hash = files[h.path].hash /\ h.hash # 0
        /\ \E row \in files[h.path].rows \cup {[kind |-> "file"]} : row.kind = h.kind}

(* A question has finitely many words.                                     *)
Asks(words) == words \in Words /\ IsFiniteSet(words) /\ words # {}

(* The share of a question's words that is found is a number.              *)
LEMMA ShareIsNumber ==
    ASSUME NEW words, IsFiniteSet(words), words # {}, NEW part
    PROVE  Share(part, words) \in Int
<1>1. IsFiniteSet(part \cap words)
  BY FS_Subset
<1>2. Cardinality(part \cap words) \in Nat /\ Cardinality(words) \in Nat
  BY <1>1, FS_CardinalityType
<1>3. Cardinality(words) # 0
  BY FS_EmptySet
<1>4. \A a, b \in Nat : b # 0 => (a * 100) \div b \in Int
  OBVIOUS
<1> QED
  BY <1>2, <1>3, <1>4 DEF Share

(* The score of a row is a number.                                         *)
LEMMA ScoreIsNumber ==
    ASSUME SearchRepoAssumption, NEW words, Asks(words), NEW p \in SitePaths,
           NEW row \in RowOf, NEW strategy
    PROVE  RowScore(words, p, row, strategy) \in Int
<1>1. \A part : Share(part, words) \in Int
  BY ShareIsNumber DEF Asks
<1>2. ExactBoost(words, p, row) \in Int
  BY DEF ExactBoost
<1>3. TestPenalty(words, p) \in Int
  BY DEF TestPenalty
<1>4. row.bm25 \in Int /\ Site[p].bonus \in Int
  BY DEF RowOf, SearchRepoAssumption
<1> DEFINE strict == IF strategy = "all_terms" THEN 100 ELSE 0
           kind   == CASE row.kind = "symbol" -> 40 [] row.kind = "chunk" -> 20 [] OTHER -> 0
           s1 == Share(WordsOf(p, row), words)
           s2 == Share(Site[p].words, words)
           s3 == Share(row.name, words)
<1>5. strict \in Int
  OBVIOUS
<1>6. kind \in Int
  OBVIOUS
<1>7. RowScore(words, p, row, strategy) =
        ExactBoost(words, p, row) + 4 * s1 + 8 * s2 + 4 * s3 + row.bm25 + strict + kind
        + TestPenalty(words, p) + Site[p].bonus
  BY DEF RowScore
<1>8. s1 \in Int /\ s2 \in Int /\ s3 \in Int
  BY <1>1
<1> HIDE DEF strict, kind, s1, s2, s3
<1> QED
  BY <1>2, <1>3, <1>4, <1>5, <1>6, <1>7, <1>8

(* Rows and files that match are hits of the generation.                   *)
LEMMA MatchesAreHits ==
    ASSUME SearchRepoAssumption, NEW files, FilesOK(files), NEW words, Asks(words)
    PROVE  /\ FtsHits(words, files) \in SUBSET HitsIn(files)
           /\ LiteralHits(words, files) \in SUBSET HitsIn(files)
<1>1. ASSUME NEW p \in SitePaths, NEW row \in files[p].rows, NEW s, NEW b \in BOOLEAN
      PROVE  Found(p, row, files[p].hash, RowScore(words, p, row, s), b) \in HitsIn(files)
  <2>1. files[p] \in Indexed /\ files[p].hash # 0
    BY DEF FilesOK
  <2>2. row \in RowOf /\ files[p].hash \in Nat
    BY <2>1 DEF Indexed
  <2>3. RowScore(words, p, row, s) \in Int
    BY <2>2, ScoreIsNumber
  <2>4. row.kind \in Range(Kinds) /\ row.line \in Nat /\ row.to \in Nat
    BY <2>2 DEF RowOf
  <2> DEFINE score == RowScore(words, p, row, s)
  <2> HIDE DEF score
  <2>5. score \in Int
    BY <2>3 DEF score
  <2>6. Found(p, row, files[p].hash, score, b) \in HitsIn(files)
    BY <2>1, <2>2, <2>4, <2>5 DEF Found, HitsIn
  <2> QED
    BY <2>6 DEF score
<1>2. DOMAIN files = SitePaths
  BY DEF FilesOK
<1>3. FtsHits(words, files) \in SUBSET HitsIn(files)
  <2> SUFFICES ASSUME NEW h \in FtsHits(words, files) PROVE h \in HitsIn(files)
    OBVIOUS
  <2>1. PICK p \in SitePaths, s \in Strategies(words) :
           h \in {Found(p, row, files[p].hash, RowScore(words, p, row, s),
                        ExactBoost(words, p, row) > 0) :
                    row \in {r \in files[p].rows : Matching(words, p, r, s)}}
    BY <1>2 DEF FtsHits
  <2>2. PICK row \in files[p].rows :
           h = Found(p, row, files[p].hash, RowScore(words, p, row, s), ExactBoost(words, p, row) > 0)
    BY <2>1
  <2>3. (ExactBoost(words, p, row) > 0) \in BOOLEAN
    OBVIOUS
  <2> QED
    BY <1>1, <2>2, <2>3
<1>4. LiteralHits(words, files) \in SUBSET HitsIn(files)
  <2> SUFFICES ASSUME NEW h \in LiteralHits(words, files) PROVE h \in HitsIn(files)
    OBVIOUS
  <2>1. PICK p \in SitePaths :
          /\ files[p].times > 0
          /\ h = Found(p, [kind |-> "file", line |-> files[p].at, to |-> files[p].at], files[p].hash,
                       500 + 5 * Min({files[p].times, 20}), TRUE)
    BY <1>2 DEF LiteralHits
  <2>2. files[p] \in Indexed
    BY DEF FilesOK
  <2>3. files[p].hash \in Nat /\ files[p].at \in Nat /\ files[p].times \in Nat
    BY <2>2 DEF Indexed
  <2>4. files[p].hash # 0
    BY <2>1, <2>3 DEF FilesOK
  <2> DEFINE score == 500 + 5 * Min({files[p].times, 20})
  <2>5. score \in Int
    <3>1. \E b \in Int : b = 20
      OBVIOUS
    <3>2. PICK b \in Int : b = 20
      BY <3>1
    <3>3. files[p].times \in Int
      BY <2>3
    <3>4. Min({files[p].times, b}) = IF files[p].times <= b THEN files[p].times ELSE b
      BY <3>3, OfTwo
    <3>5. Min({files[p].times, b}) \in Int
      BY <3>3, <3>4
    <3> QED
      BY <3>2, <3>5
  <2>6. "file" \in Range(Kinds)
    BY DEF Range, Kinds
  <2> HIDE DEF score
  <2>7. h = Found(p, [kind |-> "file", line |-> files[p].at, to |-> files[p].at], files[p].hash, score, TRUE)
    BY <2>1 DEF score
  <2>8. h = [kind |-> "file", path |-> p, line |-> files[p].at, to |-> files[p].at,
             hash |-> files[p].hash, score |-> score, exact |-> TRUE]
    BY <2>7 DEF Found
  <2>9. h \in [kind : Range(Kinds), path : SitePaths, line : Nat, to : Nat,
               hash : Nat, score : Int, exact : BOOLEAN]
    BY <2>3, <2>5, <2>6, <2>8
  <2>10. h.path = p /\ h.hash = files[p].hash /\ h.kind = "file"
    BY <2>8
  <2>11. \E row \in files[p].rows \cup {[kind |-> "file"]} : row.kind = h.kind
    <3> DEFINE whole == [kind |-> "file"]
    <3>1. whole.kind = h.kind
      BY <2>10
    <3>2. whole \in files[p].rows \cup {[kind |-> "file"]}
      OBVIOUS
    <3> HIDE DEF whole
    <3> QED
      BY <3>1, <3>2, Zenon
  <2> QED
    BY <2>4, <2>9, <2>10, <2>11 DEF HitsIn
<1> QED
  BY <1>3, <1>4

(* A generation has finitely many rows.                                    *)
LEMMA RowsAreFinite ==
    ASSUME SearchRepoAssumption, NEW files, FilesOK(files)
    PROVE  IsFiniteSet(UNION {files[p].rows : p \in SitePaths})
<1> DEFINE rows == [p \in SitePaths |-> files[p].rows]
           Family == {files[p].rows : p \in SitePaths}
<1>1. IsFiniteSet(SitePaths)
  BY DEF SearchRepoAssumption
<1>2. Family = {rows[p] : p \in SitePaths} /\ DOMAIN rows = SitePaths
  OBVIOUS
<1>3. \A S \in Family : IsFiniteSet(S)
  BY DEF FilesOK
<1> HIDE DEF rows, Family
<1>4. IsFiniteSet(Family)
  <2> DEFINE I == SitePaths
  <2>1. IsFiniteSet(I) /\ Family = {rows[p] : p \in I} /\ DOMAIN rows = I
    BY <1>1, <1>2
  <2> HIDE DEF I
  <2> QED
    BY <2>1, ImageIsFinite
<1>5. IsFiniteSet(UNION Family)
  BY <1>3, <1>4, FS_UNION
<1> QED
  BY <1>5 DEF Family

(* There are finitely many hits.                                           *)
LEMMA HitsAreFinite ==
    ASSUME SearchRepoAssumption, NEW files, FilesOK(files), NEW words
    PROVE  IsFiniteSet(FtsHits(words, files) \cup LiteralHits(words, files))
<1> DEFINE RowsIn == UNION {files[p].rows : p \in SitePaths}
           Plans  == {"all_terms", "any_term"}
           Triples == (SitePaths \X RowsIn) \X Plans
           Of(t)  == Found(t[1][1], t[1][2], files[t[1][1]].hash,
                           RowScore(words, t[1][1], t[1][2], t[2]),
                           ExactBoost(words, t[1][1], t[1][2]) > 0)
           f == [t \in Triples |-> Of(t)]
           At(p)  == Found(p, [kind |-> "file", line |-> files[p].at, to |-> files[p].at],
                           files[p].hash, 500 + 5 * Min({files[p].times, 20}), TRUE)
           g == [p \in SitePaths |-> At(p)]
<1>1. IsFiniteSet(SitePaths) /\ DOMAIN files = SitePaths
  BY DEF SearchRepoAssumption, FilesOK
<1>2. IsFiniteSet(RowsIn)
  BY RowsAreFinite
<1>3. IsFiniteSet(Plans)
  <2>1. IsFiniteSet({"all_terms"}) /\ Plans = {"all_terms"} \cup {"any_term"}
    BY FS_Singleton
  <2> QED
    BY <2>1, FS_AddElement
<1>4. IsFiniteSet(Triples)
  <2> HIDE DEF RowsIn, Plans
  <2>1. IsFiniteSet(SitePaths \X RowsIn)
    BY <1>1, <1>2, FS_Product
  <2> QED
    BY <1>3, <2>1, FS_Product
<1>5. FtsHits(words, files) \subseteq {f[t] : t \in Triples}
  <2> SUFFICES ASSUME NEW h \in FtsHits(words, files) PROVE \E t \in Triples : h = f[t]
    OBVIOUS
  <2>1. PICK p \in SitePaths, s \in Strategies(words) :
           h \in {Found(p, row, files[p].hash, RowScore(words, p, row, s),
                        ExactBoost(words, p, row) > 0) :
                    row \in {r \in files[p].rows : Matching(words, p, r, s)}}
    BY <1>1 DEF FtsHits
  <2>2. PICK row \in files[p].rows :
           h = Found(p, row, files[p].hash, RowScore(words, p, row, s), ExactBoost(words, p, row) > 0)
    BY <2>1
  <2> DEFINE t == <<<<p, row>>, s>>
  <2>3. row \in RowsIn /\ s \in Plans
    <3>1. row \in RowsIn
      OBVIOUS
    <3>2. Strategies(words) \subseteq Plans
      BY DEF Strategies
    <3> HIDE DEF RowsIn, Plans
    <3> QED
      BY <3>1, <3>2
  <2>4. t \in Triples /\ t[1][1] = p /\ t[1][2] = row /\ t[2] = s
    BY <2>3
  <2>5. f[t] = Of(t)
    BY <2>4
  <2>6. Of(t) = h
    BY <2>2, <2>4
  <2> HIDE DEF t, f, Triples
  <2> QED
    BY <2>4, <2>5, <2>6
<1>6. LiteralHits(words, files) \subseteq {g[p] : p \in SitePaths}
  BY <1>1 DEF LiteralHits
<1>7. IsFiniteSet({f[t] : t \in Triples})
  <2>1. DOMAIN f = Triples
    OBVIOUS
  <2> HIDE DEF f, Triples
  <2> QED
    BY <1>4, <2>1, ImageIsFinite
<1>8. IsFiniteSet({g[p] : p \in SitePaths})
  <2> DEFINE Image == {g[p] : p \in SitePaths}
  <2>1. DOMAIN g = SitePaths
    OBVIOUS
  <2> HIDE DEF g, f, Triples, RowsIn, Plans
  <2>2. Image = {g[p] : p \in SitePaths}
    OBVIOUS
  <2> HIDE DEF Image
  <2>3. IsFiniteSet(SitePaths)
    BY <1>1
  <2>4. IsFiniteSet(Image)
    BY ONLY <2>1, <2>2, <2>3, ImageIsFinite
  <2> QED
    BY <2>2, <2>4, Zenon
<1> HIDE DEF f, g
<1>9. IsFiniteSet(FtsHits(words, files)) /\ IsFiniteSet(LiteralHits(words, files))
  BY <1>5, <1>6, <1>7, <1>8, FS_Subset
<1> QED
  BY <1>9, FS_Union

(* Of the hits at each place one is kept, the best.                        *)
LEMMA OneHitPerPlace ==
    ASSUME NEW H, IsFiniteSet(H), \A h \in H : h.score \in Int
    PROVE  /\ Unique(H) \in SUBSET H
           /\ \A a, b \in Unique(H) : Place(a) = Place(b) => a = b
           /\ IsFiniteSet(Unique(H))
<1> DEFINE At(place)   == {h \in H : Place(h) = place}
           Best(there) == CHOOSE h \in there : \A other \in there : other.score <= h.score
<1>1. Unique(H) = {Best(At(Place(h))) : h \in H}
  BY DEF Unique
<1>2. ASSUME NEW h \in H PROVE Best(At(Place(h))) \in At(Place(h))
  <2> DEFINE S == At(Place(h))
             f == [x \in S |-> x.score]
  <2>1. S \in SUBSET H /\ S # {}
    OBVIOUS
  <2>2. IsFiniteSet(S)
    <3> HIDE DEF S
    <3> QED
      BY <2>1, FS_Subset
  <2>3. \A x \in S : f[x] = x.score /\ f[x] \in Int
    OBVIOUS
  <2> HIDE DEF f, S
  <2>4. PICK x \in S : \A y \in S : f[y] <= f[x]
    BY <2>1, <2>2, <2>3, GreatestExists
  <2>5. \A y \in S : y.score <= x.score
    BY <2>3, <2>4
  <2>6. Best(S) \in S
    BY <2>5
  <2> QED
    BY <2>6 DEF S
<1> HIDE DEF Best
<1>3. \A u \in Unique(H) : \E h \in H : u = Best(At(Place(h))) /\ u \in H /\ Place(u) = Place(h)
  BY <1>1, <1>2
<1>4. Unique(H) \in SUBSET H
  BY <1>3
<1>5. ASSUME NEW a \in Unique(H), NEW b \in Unique(H), Place(a) = Place(b) PROVE a = b
  <2> HIDE DEF At
  <2>1. PICK h \in H : a = Best(At(Place(h))) /\ Place(a) = Place(h)
    BY <1>3
  <2>2. PICK k \in H : b = Best(At(Place(k))) /\ Place(b) = Place(k)
    BY <1>3
  <2>3. Place(h) = Place(k)
    BY <1>5, <2>1, <2>2
  <2> QED
    BY <2>1, <2>2, <2>3, Zenon
<1> QED
  BY <1>4, <1>5, FS_Subset

(* Elements ordered by a ratio, and at equal ratios by another order.      *)
ByRatio(R, S, sc, w, F) ==
    /\ sc \in [S -> Int] /\ w \in [S -> Nat] /\ \A x \in S : w[x] > 0
    /\ \A a, b \in S : <<a, b>> \in R <=>
               \/ sc[a] * w[b] > sc[b] * w[a]
               \/ sc[a] * w[b] = sc[b] * w[a] /\ <<a, b>> \in F

(* Such an order is strict.                                                *)
LEMMA RatioOrder ==
    ASSUME NEW S, NEW F, StrictOrder(F, S), NEW R, NEW sc, NEW w, ByRatio(R, S, sc, w, F)
    PROVE  StrictOrder(R, S)
<1>0. /\ sc \in [S -> Int] /\ w \in [S -> Nat] /\ \A x \in S : w[x] > 0
      /\ \A a, b \in S : <<a, b>> \in R <=>
               \/ sc[a] * w[b] > sc[b] * w[a]
               \/ sc[a] * w[b] = sc[b] * w[a] /\ <<a, b>> \in F
  BY DEF ByRatio
<1>1. ASSUME NEW a \in S PROVE <<a, a>> \notin R
  <2>1. <<a, a>> \notin F
    BY DEF StrictOrder
  <2>2. sc[a] * w[a] \in Int
    BY <1>0
  <2> QED
    BY <1>0, <2>1, <2>2
<1>2. ASSUME NEW a \in S, NEW b \in S, NEW c \in S, <<a, b>> \in R, <<b, c>> \in R
      PROVE  <<a, c>> \in R
  <2>1. /\ sc[a] * w[b] \in Int /\ sc[b] * w[a] \in Int /\ sc[b] * w[c] \in Int
        /\ sc[c] * w[b] \in Int /\ sc[a] * w[c] \in Int /\ sc[c] * w[a] \in Int
    BY <1>0
  <2>2. sc[a] * w[b] >= sc[b] * w[a] /\ sc[b] * w[c] >= sc[c] * w[b]
    BY <1>0, <1>2, <2>1
  <2>3. /\ sc[a] \in Int /\ sc[b] \in Int /\ sc[c] \in Int
        /\ w[a] \in Nat /\ w[b] \in Nat /\ w[c] \in Nat /\ w[a] > 0 /\ w[b] > 0 /\ w[c] > 0
    BY <1>0
  <2>4. /\ sc[a] * w[c] >= sc[c] * w[a]
        /\ sc[a] * w[b] > sc[b] * w[a] \/ sc[b] * w[c] > sc[c] * w[b] => sc[a] * w[c] > sc[c] * w[a]
    BY <2>2, <2>3, RatiosAreOrdered
  <2>5. CASE sc[a] * w[b] > sc[b] * w[a] \/ sc[b] * w[c] > sc[c] * w[b]
    BY <1>0, <2>4, <2>5
  <2>6. CASE ~(sc[a] * w[b] > sc[b] * w[a] \/ sc[b] * w[c] > sc[c] * w[b])
    <3>1. sc[c] * w[b] >= sc[b] * w[c] /\ sc[b] * w[a] >= sc[a] * w[b]
      BY <2>1, <2>6
    <3>2. sc[c] * w[a] >= sc[a] * w[c]
      BY <2>3, <3>1, RatiosAreOrdered
    <3>3. <<a, b>> \in F /\ <<b, c>> \in F
      BY <1>0, <1>2, <2>6
    <3>4. <<a, c>> \in F
      BY <3>3 DEF StrictOrder
    <3>5. sc[a] * w[c] = sc[c] * w[a]
      BY <2>1, <2>4, <3>2
    <3> QED
      BY <1>0, <3>4, <3>5
  <2> QED
    BY <2>5, <2>6
<1> QED
  BY <1>1, <1>2 DEF StrictOrder

(* Places of hits are ordered.                                             *)
LEMMA EarlierIsAnOrder ==
    ASSUME NEW S, \A h \in S : h.path \in Nat /\ h.line \in Nat /\ h.kind \in Range(Kinds),
           NEW R, \A a, b \in S : <<a, b>> \in R <=> Earlier(a, b)
    PROVE  StrictOrder(R, S)
<1>1. ASSUME NEW h \in S PROVE KindRank(h.kind) \in Int
  <2>1. h.kind \in Range(Kinds)
    OBVIOUS
  <2>2. \E k \in DOMAIN Kinds : Kinds[k] = h.kind
    BY <2>1 DEF Range
  <2>3. KindRank(h.kind) \in DOMAIN Kinds
    BY <2>2 DEF KindRank
  <2>4. DOMAIN Kinds \subseteq Int
    BY DEF Kinds
  <2> QED
    BY <2>3, <2>4
<1>2. \A h \in S : h.path \in Int /\ h.line \in Int
  OBVIOUS
<1>3. ASSUME NEW a \in S PROVE ~Earlier(a, a)
  BY <1>1, <1>2 DEF Earlier
<1>4. ASSUME NEW a \in S, NEW b \in S, NEW c \in S, Earlier(a, b), Earlier(b, c)
      PROVE  Earlier(a, c)
  BY <1>1, <1>2, <1>4 DEF Earlier
<1> QED
  BY <1>3, <1>4 DEF StrictOrder

(* What hits must be to be ranked.                                         *)
Ranked(H) == \A h \in H : /\ h.score \in Int /\ h.path \in Nat /\ h.line \in Nat
                          /\ h.kind \in Range(Kinds)

(* Of several hits one can be taken next.                                  *)
LEMMA NextExists ==
    ASSUME NEW C, IsFiniteSet(C), C # {}, Ranked(C), NEW H, NEW taken \in Seq(H)
    PROVE  \E h \in C : \A o \in C : ~Better(o, h, taken)
<1> DEFINE R == {p \in C \X C : Better(p[1], p[2], taken)}
           F == {p \in C \X C : Earlier(p[1], p[2])}
           sc == [h \in C |-> h.score]
           w  == [h \in C |-> 100 + 8 * InBucket(h.path, taken)]
<1>1. \A path : InBucket(path, taken) \in Nat
  <2> TAKE path
  <2> DEFINE I == {i \in DOMAIN taken : Site[taken[i].path].bucket = Site[path].bucket}
  <2>1. IsFiniteSet(DOMAIN taken)
    <3>1. DOMAIN taken = 1..Len(taken) /\ Len(taken) \in Nat
      OBVIOUS
    <3> QED
      BY <3>1, FS_Interval
  <2>2. I \in SUBSET (DOMAIN taken)
    OBVIOUS
  <2>3. InBucket(path, taken) = Cardinality(I)
    BY DEF InBucket
  <2> HIDE DEF I
  <2>4. IsFiniteSet(I)
    BY <2>1, <2>2, FS_Subset
  <2> QED
    BY <2>3, <2>4, FS_CardinalityType
<1>2. \A a, b \in C : <<a, b>> \in R <=>
               \/ sc[a] * w[b] > sc[b] * w[a]
               \/ sc[a] * w[b] = sc[b] * w[a] /\ <<a, b>> \in F
  BY DEF Better
<1>3. sc \in [C -> Int] /\ w \in [C -> Nat]
  <2>1. \A h \in C : h.score \in Int
    BY DEF Ranked
  <2> QED
    BY <1>1, <2>1
<1>4. \A h \in C : w[h] > 0
  BY <1>1
<1>5. \A a, b \in C : <<a, b>> \in F <=> Earlier(a, b)
  OBVIOUS
<1>6. \A a, b \in C : <<a, b>> \in R <=> Better(a, b, taken)
  OBVIOUS
<1> HIDE DEF R, F, sc, w
<1>7. StrictOrder(F, C)
  <2>1. \A h \in C : h.path \in Nat /\ h.line \in Nat /\ h.kind \in Range(Kinds)
    BY DEF Ranked
  <2> QED
    BY <1>5, <2>1, EarlierIsAnOrder
<1>8. StrictOrder(R, C)
  <2>1. ByRatio(R, C, sc, w, F)
    BY <1>2, <1>3, <1>4, Zenon DEF ByRatio
  <2> QED
    BY <1>7, <2>1, RatioOrder
<1>9. Grounded(C, R)
  BY <1>8, OrderIsGrounded
<1>10. \E h \in C : \A o \in C : <<o, h>> \notin R
  BY <1>9 DEF Grounded
<1> QED
  BY <1>6, <1>10

(* A page while it is filled from the hits H: what was taken and what is   *)
(* left; no file has more than three, and a second one only when no hit is *)
(* left of a file without any.                                             *)
PageOK(page, H) ==
    /\ page \in [taken : Seq(H), left : SUBSET H]
    /\ \A h \in H : h \in page.left <=> \A i \in DOMAIN page.taken : page.taken[i] # h
    /\ \A i, j \in DOMAIN page.taken : page.taken[i] = page.taken[j] => i = j
    /\ \A path : TakenOf(path, page.taken) <= 3
    /\ (\E path : TakenOf(path, page.taken) > 1) =>
            \A h \in page.left : TakenOf(h.path, page.taken) > 0

(* How often a file is on a page.                                          *)
LEMMA TakenIsNumber ==
    ASSUME NEW H, NEW taken \in Seq(H), NEW path
    PROVE  /\ TakenOf(path, taken) \in Nat
           /\ TakenOf(path, taken) > 0 <=> \E i \in DOMAIN taken : taken[i].path = path
<1> DEFINE I == {i \in DOMAIN taken : taken[i].path = path}
<1>1. IsFiniteSet(DOMAIN taken)
  <2>1. DOMAIN taken = 1..Len(taken) /\ Len(taken) \in Nat
    OBVIOUS
  <2> QED
    BY <2>1, FS_Interval
<1>2. I \in SUBSET (DOMAIN taken)
  OBVIOUS
<1>3. TakenOf(path, taken) = Cardinality(I)
  BY DEF TakenOf
<1>4. I # {} <=> \E i \in DOMAIN taken : taken[i].path = path
  OBVIOUS
<1> HIDE DEF I
<1>5. IsFiniteSet(I)
  BY <1>1, <1>2, FS_Subset
<1>6. Cardinality(I) \in Nat /\ (Cardinality(I) = 0 <=> I = {})
  BY <1>5, FS_CardinalityType, FS_EmptySet
<1> QED
  BY <1>3, <1>4, <1>6

(* One more hit of a file.                                                 *)
LEMMA TakenMore ==
    ASSUME NEW H, NEW taken \in Seq(H), NEW h \in H, NEW path
    PROVE  TakenOf(path, Append(taken, h)) =
               IF h.path = path THEN TakenOf(path, taken) + 1 ELSE TakenOf(path, taken)
<1> DEFINE n == Len(taken)
           more == Append(taken, h)
           I == {i \in DOMAIN taken : taken[i].path = path}
           J == {i \in DOMAIN more : more[i].path = path}
<1>1. /\ more \in Seq(H) /\ DOMAIN taken = 1..n /\ n \in Nat /\ DOMAIN more = 1..(n + 1)
      /\ more[n + 1] = h /\ \A i \in 1..n : more[i] = taken[i]
  BY AppendProperties
<1> HIDE DEF n, more
<1>2. J = IF h.path = path THEN I \cup {n + 1} ELSE I
  <2>1. \A i \in 1..(n + 1) : i = n + 1 \/ i \in 1..n
    BY <1>1
  <2> QED
    BY <1>1, <2>1
<1>3. n + 1 \notin I /\ I \in SUBSET (1..n)
  BY <1>1
<1>4. TakenOf(path, taken) = Cardinality(I) /\ TakenOf(path, more) = Cardinality(J)
  BY DEF TakenOf
<1> HIDE DEF I, J
<1>5. IsFiniteSet(I)
  <2>1. IsFiniteSet(1..n)
    BY <1>1, FS_Interval
  <2> QED
    BY <1>3, <2>1, FS_Subset
<1>6. Cardinality(I \cup {n + 1}) = Cardinality(I) + 1
  BY <1>3, <1>5, FS_AddElement
<1> QED
  BY <1>2, <1>4, <1>6 DEF more

(* The candidates are hits that are left, of files that may have one more. *)
LEMMA CandidatesAre ==
    ASSUME NEW H, NEW page, PageOK(page, H), NEW h \in Candidates(page.left, page.taken)
    PROVE  /\ h \in page.left /\ TakenOf(h.path, page.taken) < 3
           /\ TakenOf(h.path, page.taken) # 0 => \A o \in page.left : TakenOf(o.path, page.taken) > 0
<1> DEFINE new == {o \in page.left : TakenOf(o.path, page.taken) = 0}
<1>1. page.taken \in Seq(H)
  BY DEF PageOK
<1>2. \A path : TakenOf(path, page.taken) \in Nat
  BY <1>1, TakenIsNumber
<1>3. h \in IF new # {} THEN new ELSE {o \in page.left : TakenOf(o.path, page.taken) < 3}
  BY DEF Candidates
<1>4. CASE new # {}
  <2>1. h \in page.left /\ TakenOf(h.path, page.taken) = 0
    BY <1>3, <1>4
  <2> QED
    BY <2>1
<1>5. CASE new = {}
  <2>1. h \in page.left /\ TakenOf(h.path, page.taken) < 3
    BY <1>3, <1>5
  <2>2. \A o \in page.left : TakenOf(o.path, page.taken) # 0
    BY <1>5
  <2> QED
    BY <1>2, <2>1, <2>2
<1> QED
  BY <1>4, <1>5

(* What one turn of the loop makes of a page.                              *)
TakesOne(next, page, h) ==
    next = [taken |-> Append(page.taken, h), left |-> page.left \ {h}]

(* A turn takes a candidate, if there is one.                              *)
LEMMA TurnTakes ==
    ASSUME NEW H, IsFiniteSet(H), Ranked(H), NEW page, PageOK(page, H)
    PROVE  \/ Candidates(page.left, page.taken) = {} /\ TakeNext(page) = page
           \/ \E h \in Candidates(page.left, page.taken) : TakesOne(TakeNext(page), page, h)
<1> DEFINE C == Candidates(page.left, page.taken)
           next == CHOOSE h \in C : \A o \in C : ~Better(o, h, page.taken)
<1>1. TakeNext(page) = IF C = {} THEN page
                       ELSE [taken |-> Append(page.taken, next), left |-> page.left \ {next}]
  BY DEF TakeNext
<1>2. ASSUME C # {} PROVE next \in C
  <2>1. page.left \in SUBSET H /\ page.taken \in Seq(H)
    BY DEF PageOK
  <2>2. C \in SUBSET page.left
    BY CandidatesAre
  <2>3. C \in SUBSET H
    BY <2>1, <2>2
  <2> HIDE DEF C
  <2>4. IsFiniteSet(C)
    BY <2>3, FS_Subset
  <2>5. Ranked(C)
    BY <2>3 DEF Ranked
  <2>6. \E h \in C : \A o \in C : ~Better(o, h, page.taken)
    BY <1>2, <2>1, <2>4, <2>5, NextExists
  <2> QED
    BY <2>6
<1> HIDE DEF next, C
<1> QED
  BY <1>1, <1>2 DEF C, TakesOne

(* A turn keeps the page in order.                                         *)
LEMMA TurnKeepsPage ==
    ASSUME NEW H, NEW page, PageOK(page, H), NEW h \in Candidates(page.left, page.taken),
           NEW next, TakesOne(next, page, h)
    PROVE  PageOK(next, H)
<1> DEFINE taken == page.taken
           n == Len(taken)
<1>1. page \in [taken : Seq(H), left : SUBSET H]
  BY DEF PageOK
<1>2. taken \in Seq(H) /\ n \in Nat /\ DOMAIN taken = 1..n /\ page.left \in SUBSET H
  BY <1>1
<1>3. /\ h \in page.left /\ TakenOf(h.path, taken) < 3
      /\ TakenOf(h.path, taken) # 0 => \A o \in page.left : TakenOf(o.path, taken) > 0
  BY CandidatesAre
<1>4. h \in H
  BY <1>2, <1>3
<1>5. /\ next.taken = Append(taken, h) /\ next.left = page.left \ {h}
      /\ next = [taken |-> next.taken, left |-> next.left]
  BY DEF TakesOne
<1>6. /\ next.taken \in Seq(H) /\ DOMAIN next.taken = 1..(n + 1)
      /\ next.taken[n + 1] = h /\ \A i \in 1..n : next.taken[i] = taken[i]
  BY <1>2, <1>4, <1>5, AppendProperties
<1>7. next \in [taken : Seq(H), left : SUBSET H]
  BY <1>2, <1>5, <1>6
<1>8. \A path : /\ TakenOf(path, taken) \in Nat
                /\ TakenOf(path, next.taken) =
                     IF h.path = path THEN TakenOf(path, taken) + 1 ELSE TakenOf(path, taken)
  BY <1>2, <1>4, <1>5, TakenIsNumber, TakenMore
<1>9. /\ \A o \in H : o \in page.left <=> \A i \in 1..n : taken[i] # o
      /\ \A i, j \in 1..n : taken[i] = taken[j] => i = j
      /\ \A path : TakenOf(path, taken) <= 3
      /\ (\E path : TakenOf(path, taken) > 1) => \A o \in page.left : TakenOf(o.path, taken) > 0
  BY <1>2 DEF PageOK
<1> HIDE DEF n, taken
<1>10. \A i \in 1..(n + 1) : i = n + 1 \/ i \in 1..n
  BY <1>2
<1>11. 1..n \subseteq 1..(n + 1) /\ n + 1 \in 1..(n + 1)
  BY <1>2
<1>12. ASSUME NEW o \in H
       PROVE  o \in next.left <=> \A i \in 1..(n + 1) : next.taken[i] # o
  BY <1>5, <1>6, <1>9, <1>10, <1>11
<1>13. \A i, j \in 1..(n + 1) : next.taken[i] = next.taken[j] => i = j
  <2>1. \A i \in 1..n : taken[i] # h
    BY <1>3, <1>4, <1>9
  <2> QED
    BY <1>6, <1>9, <1>10, <2>1
<1>14. \A path : TakenOf(path, next.taken) <= 3
  BY <1>3, <1>8, <1>9
<1>15. ASSUME NEW path, TakenOf(path, next.taken) > 1, NEW o \in next.left
       PROVE  TakenOf(o.path, next.taken) > 0
  <2>1. TakenOf(o.path, taken) > 0
    <3>1. o \in page.left
      BY <1>5
    <3>2. TakenOf(path, taken) > 1 \/ TakenOf(h.path, taken) # 0
      BY <1>8, <1>15
    <3> QED
      BY <1>3, <1>9, <3>1, <3>2
  <2> QED
    BY <1>8, <2>1
<1> QED
  BY <1>6, <1>7, <1>12, <1>13, <1>14, <1>15 DEF PageOK

(* A function that steps n times from a value.                             *)
Iterates(f, n, start, F) == f = [k \in 0..n |-> IF k = 0 THEN start ELSE F[f[k - 1]]]

(* There is one.                                                           *)
LEMMA IterationExists ==
    ASSUME NEW A, NEW start \in A, NEW n \in Nat, NEW F \in [A -> A]
    PROVE  \E f \in [0..n -> A] : Iterates(f, n, start, F)
<1> DEFINE step == [x \in A \X (1..n) |-> F[x[1]]]
<1>1. step \in [A \X (1..n) -> A]
  OBVIOUS
<1>2. \A k \in 1..n : \A v \in A : step[<<v, k>>] = F[v]
  OBVIOUS
<1> HIDE DEF step
<1>3. PICK f \in [0..n -> A] : Obeys(f, n, start, step)
  BY <1>1, RecursionExists
<1>4. ASSUME NEW k \in 0..n PROVE f[k] = IF k = 0 THEN start ELSE F[f[k - 1]]
  <2>1. f[k] = IF k = 0 THEN start ELSE step[<<f[k - 1], k>>]
    BY <1>3 DEF Obeys
  <2>2. k # 0 => k \in 1..n /\ f[k - 1] \in A
    BY <1>3
  <2> QED
    BY <1>2, <2>1, <2>2
<1>5. f = [k \in 0..n |-> f[k]]
  BY <1>3
<1>6. f = [k \in 0..n |-> IF k = 0 THEN start ELSE F[f[k - 1]]]
  BY <1>4, <1>5, Zenon
<1> QED
  BY <1>3, <1>6 DEF Iterates

(* The page is full, or there is no candidate.                             *)
PageDone(page, n) == Len(page.taken) = n \/ Candidates(page.left, page.taken) = {}

(* The empty page.                                                         *)
LEMMA PageStarts ==
    ASSUME NEW H
    PROVE  PageOK([taken |-> <<>>, left |-> H], H)
<1> DEFINE page == [taken |-> <<>>, left |-> H]
<1>1. page.taken = <<>> /\ page.left = H /\ page \in [taken : Seq(H), left : SUBSET H]
  OBVIOUS
<1>2. \A path : TakenOf(path, <<>>) \in Nat /\ ~(TakenOf(path, <<>>) > 0)
  <2>1. <<>> \in Seq(H) /\ DOMAIN <<>> = {}
    OBVIOUS
  <2> QED
    BY <2>1, TakenIsNumber
<1> HIDE DEF page
<1>3. \A path : TakenOf(path, page.taken) = 0
  BY <1>1, <1>2
<1>4. DOMAIN page.taken = {}
  BY <1>1
<1>5. PageOK(page, H)
  BY <1>1, <1>3, <1>4 DEF PageOK
<1> QED
  BY <1>5 DEF page

(* The page that the loop fills.                                           *)
LEMMA PageIsFilled ==
    ASSUME NEW H, IsFiniteSet(H), Ranked(H), NEW n \in Nat
    PROVE  PageOK(PageAfter(H, n), H) /\ PageDone(PageAfter(H, n), n)
<1> DEFINE start == [taken |-> <<>>, left |-> H]
           A == {page \in [taken : Seq(H), left : SUBSET H] : PageOK(page, H)}
           F == [page \in A |-> TakeNext(page)]
           Page == CHOOSE Page : Page = [i \in 0..n |-> IF i = 0 THEN start ELSE TakeNext(Page[i - 1])]
<1>1. PageAfter(H, n) = Page[n]
  BY DEF PageAfter
<1>2. start \in A
  BY PageStarts
<1>3. ASSUME NEW page \in A
      PROVE  \/ Candidates(page.left, page.taken) = {} /\ TakeNext(page) = page
             \/ \E h \in Candidates(page.left, page.taken) : TakesOne(TakeNext(page), page, h)
  BY TurnTakes
<1>4. ASSUME NEW page \in A PROVE TakeNext(page) \in A
  <2>1. ASSUME NEW h \in Candidates(page.left, page.taken), TakesOne(TakeNext(page), page, h)
        PROVE  TakeNext(page) \in A
    <3>1. PageOK(TakeNext(page), H)
      BY <2>1, TurnKeepsPage
    <3> QED
      BY <3>1 DEF PageOK
  <2> QED
    BY <1>3, <2>1
<1>5. F \in [A -> A]
  BY <1>4
<1>20. \A page \in A : F[page] = TakeNext(page)
  OBVIOUS
<1>6. \A page : page \in A => PageOK(page, H)
  OBVIOUS
<1>7. start.taken = <<>>
  OBVIOUS
<1> HIDE DEF A, F, start
<1>8. PICK f \in [0..n -> A] : Iterates(f, n, start, F)
  BY <1>2, <1>5, IterationExists
<1>21. \A k \in 0..n : f[k] = IF k = 0 THEN start ELSE F[f[k - 1]]
  BY <1>8, Zenon DEF Iterates
<1>9. ASSUME NEW k \in 0..n PROVE f[k] = IF k = 0 THEN start ELSE TakeNext(f[k - 1])
  <2>1. f \in [0..n -> A]
    BY <1>8
  <2>2. k # 0 => f[k - 1] \in A
    BY <2>1
  <2> QED
    BY <1>20, <1>21, <2>2
<1>10. f = [k \in 0..n |-> f[k]]
  BY <1>8, Zenon DEF Iterates
<1>11. f = [k \in 0..n |-> IF k = 0 THEN start ELSE TakeNext(f[k - 1])]
  BY <1>9, <1>10, Zenon
<1>12. Page = [k \in 0..n |-> IF k = 0 THEN start ELSE TakeNext(Page[k - 1])]
  BY <1>11, Zenon
<1> HIDE DEF Page
<1>13. \A k \in 0..n : Page[k] = IF k = 0 THEN start ELSE TakeNext(Page[k - 1])
  BY <1>12, Zenon
<1>14. 0 \in 0..n /\ n \in 0..n /\ \A k \in 1..n : k \in 0..n /\ k # 0
  OBVIOUS
<1>15. Page[0] = start /\ \A k \in 1..n : Page[k] = TakeNext(Page[k - 1])
  BY <1>13, <1>14, Zenon
<1> DEFINE T == {k \in 0..n : Page[k] \in A /\ PageDone(Page[k], k)}
<1>16. 0 \in T
  BY <1>2, <1>7, <1>14, <1>15 DEF PageDone
<1>17. ASSUME NEW k \in 1..n, k - 1 \in T PROVE k \in T
  <2> DEFINE page == Page[k - 1]
             next == Page[k]
  <2>1. page \in A /\ PageDone(page, k - 1)
    BY <1>17
  <2>2. next = TakeNext(page) /\ k \in 0..n
    BY <1>15, <1>14
  <2>3. next \in A
    BY <1>4, <2>1, <2>2
  <2>4. PageOK(page, H)
    BY <1>6, <2>1
  <2> HIDE DEF page, next
  <2>5. PageDone(next, k)
    <3>1. CASE Candidates(page.left, page.taken) = {} /\ TakeNext(page) = page
      BY <2>2, <3>1 DEF PageDone
    <3>2. ASSUME NEW h \in Candidates(page.left, page.taken), TakesOne(TakeNext(page), page, h)
          PROVE  PageDone(next, k)
      <4>1. Len(page.taken) = k - 1 /\ page.taken \in Seq(H)
        BY <2>1, <2>4 DEF PageDone, PageOK
      <4>2. next.taken = Append(page.taken, h)
        BY <2>2, <3>2 DEF TakesOne
      <4>3. Len(next.taken) = k
        BY <4>1, <4>2
      <4> QED
        BY <4>3 DEF PageDone
    <3> QED
      BY <1>3, <2>1, <3>1, <3>2
  <2> QED
    BY <2>2, <2>3, <2>5 DEF next
<1>18. 0..n \subseteq T
  <2> HIDE DEF T
  <2> QED
    BY <1>16, <1>17, UpTo
<1>19. Page[n] \in A /\ PageDone(Page[n], n)
  BY <1>14, <1>18
<1> QED
  BY <1>1, <1>6, <1>19

-----------------------------------------------------------------------------
(* A page of lexical hits is well spread.                                  *)

(* The image of a finite set under a function that is one to one.          *)
LEMMA SameSize ==
    ASSUME NEW I, IsFiniteSet(I), NEW f, DOMAIN f = I, \A i, j \in I : f[i] = f[j] => i = j,
           NEW T, T = {f[i] : i \in I}
    PROVE  IsFiniteSet(T) /\ Cardinality(T) = Cardinality(I)
<1>1. \E g \in [I -> T] : \A i \in I : g[i] = f[i]
  <2> DEFINE g == [i \in I |-> f[i]]
  <2>1. g \in [I -> T] /\ \A i \in I : g[i] = f[i]
    OBVIOUS
  <2> QED
    BY <2>1
<1>2. PICK g \in [I -> T] : \A i \in I : g[i] = f[i]
  BY <1>1
<1>3. g \in Bijection(I, T)
  BY <1>2 DEF Bijection, Injection, Surjection, IsInjective
<1>4. ExistsBijection(I, T)
  BY <1>3 DEF ExistsBijection
<1> QED
  BY <1>4, FS_Bijection

(* A question, or none.                                                    *)
MayAsk(words) == words \in Words /\ IsFiniteSet(words)

(* What a search finds: hits of the generation, one for each place.        *)
LEMMA LexicalHitsAre ==
    ASSUME SearchRepoAssumption, NEW files, FilesOK(files), NEW words, MayAsk(words)
    PROVE  /\ LexicalHits(words, files) \in SUBSET HitsIn(files)
           /\ IsFiniteSet(LexicalHits(words, files))
           /\ \A a, b \in LexicalHits(words, files) : Place(a) = Place(b) => a = b
           /\ Ranked(LexicalHits(words, files))
<1> DEFINE all == FtsHits(words, files) \cup LiteralHits(words, files)
<1>1. CASE words = {}
  <2>1. LexicalHits(words, files) = {}
    BY <1>1 DEF LexicalHits
  <2> QED
    BY <2>1, FS_EmptySet DEF Ranked
<1>2. CASE words # {}
  <2>1. Asks(words)
    BY <1>2 DEF Asks, MayAsk
  <2>2. all \in SUBSET HitsIn(files) /\ IsFiniteSet(all)
    BY <2>1, MatchesAreHits, HitsAreFinite
  <2>3. \A h \in HitsIn(files) : h.score \in Int /\ h.path \in SitePaths /\ h.line \in Nat
                                 /\ h.kind \in Range(Kinds)
    BY DEF HitsIn
  <2>4. SitePaths \subseteq Nat
    BY DEF SearchRepoAssumption
  <2>5. LexicalHits(words, files) = Unique(all)
    BY <1>2 DEF LexicalHits
  <2> HIDE DEF all
  <2>6. \A h \in all : h.score \in Int
    BY <2>2, <2>3
  <2>7. /\ Unique(all) \in SUBSET all /\ IsFiniteSet(Unique(all))
        /\ \A a, b \in Unique(all) : Place(a) = Place(b) => a = b
    BY <2>2, <2>6, OneHitPerPlace
  <2>8. Ranked(Unique(all))
    BY <2>2, <2>3, <2>4, <2>7 DEF Ranked
  <2> QED
    BY <2>2, <2>5, <2>7, <2>8
<1> QED
  BY <1>1, <1>2

(* The page that a search returns.                                         *)
LEMMA SearchFillsPage ==
    ASSUME SearchRepoAssumption, NEW files, FilesOK(files), NEW words, MayAsk(words),
           NEW top \in Nat
    PROVE  \E page : /\ PageOK(page, LexicalHits(words, files))
                     /\ Len(page.taken) >= top \/ Candidates(page.left, page.taken) = {}
                     /\ LexicalSearch(words, files, top) = page.taken
<1> DEFINE H == LexicalHits(words, files)
           size == Cardinality(H)
           n == Min({top, size})
           page == PageAfter(H, n)
<1>1. IsFiniteSet(H) /\ Ranked(H)
  BY LexicalHitsAre
<1>2. LexicalSearch(words, files, top) = page.taken
  BY DEF LexicalSearch
<1> HIDE DEF H
<1>3. size \in Nat
  BY <1>1, FS_CardinalityType
<1>4. n = (IF top <= size THEN top ELSE size) /\ n \in Nat
  <2> HIDE DEF size
  <2>1. top \in Int /\ size \in Int
    BY <1>3
  <2>2. Min({top, size}) = IF top <= size THEN top ELSE size
    BY <2>1, OfTwo
  <2> QED
    BY <1>3, <2>2
<1> HIDE DEF n
<1>5. PageOK(page, H) /\ PageDone(page, n)
  BY <1>1, <1>4, PageIsFilled
<1> HIDE DEF page
<1>6. ASSUME Len(page.taken) = size PROVE Candidates(page.left, page.taken) = {}
  <2> DEFINE taken == page.taken
             T == {taken[i] : i \in 1..size}
  <2>1. /\ taken \in Seq(H) /\ DOMAIN taken = 1..size /\ page.left \in SUBSET H
        /\ \A h \in H : h \in page.left <=> \A i \in DOMAIN taken : taken[i] # h
        /\ \A i, j \in DOMAIN taken : taken[i] = taken[j] => i = j
    <3>1. page \in [taken : Seq(H), left : SUBSET H]
      BY <1>5 DEF PageOK
    <3>2. taken \in Seq(H) /\ page.left \in SUBSET H
      BY <3>1
    <3>3. DOMAIN taken = 1..size
      BY <1>6, <3>2
    <3> QED
      BY <1>5, <3>2, <3>3 DEF PageOK
  <2> HIDE DEF taken, size
  <2>2. T \in SUBSET H
    <3>0. taken \in Seq(H)
      BY <2>1
    <3>1. \A i \in DOMAIN taken : taken[i] \in H
      BY <3>0
    <3> QED
      BY <2>1, <3>1
  <2>3. IsFiniteSet(T) /\ Cardinality(T) = size
    <3>0. size \in Nat
      BY <1>3 DEF size
    <3>1. \A i, j \in 1..size : taken[i] = taken[j] => i = j
      BY <2>1
    <3>2. DOMAIN taken = 1..size
      BY <2>1
    <3> QED
      BY <3>0, <3>1, <3>2, AllDiffer
  <2> HIDE DEF T
  <2>4. T = H
    BY <1>1, <2>2, <2>3, FS_Subset DEF size
  <2>5. page.left = {}
    BY <2>1, <2>4 DEF T
  <2> QED
    BY <2>5 DEF Candidates
<1>7. Len(page.taken) >= top \/ Candidates(page.left, page.taken) = {}
  <2>1. CASE n = size
    BY <1>5, <1>6, <2>1 DEF PageDone
  <2>2. CASE n = top
    BY <1>5, <2>2 DEF PageDone
  <2> QED
    BY <1>4, <2>1, <2>2
<1> QED
  BY <1>2, <1>5, <1>7 DEF H

(* A page shows all hits of a file, or some.                               *)
ShowsOf(path, page, H) ==
    LET M == {h \in H : h.path = path}
    IN  /\ Cardinality(M) \in Nat
        /\ Cardinality(M) >= TakenOf(path, page.taken)
        /\ (\A h \in page.left : h.path # path) => Cardinality(M) = TakenOf(path, page.taken)
        /\ Cardinality(M) > 0 => \E h \in H : h.path = path

(* How many of a file's hits there are and how many a page shows.          *)
LEMMA ShownOfMatching ==
    ASSUME NEW H, IsFiniteSet(H), NEW page, PageOK(page, H), NEW path
    PROVE  ShowsOf(path, page, H)
<1> DEFINE taken == page.taken
           I == {i \in DOMAIN taken : taken[i].path = path}
           f == [i \in I |-> taken[i]]
           T == {f[i] : i \in I}
           M == {h \in H : h.path = path}
<1>1. page \in [taken : Seq(H), left : SUBSET H]
  BY DEF PageOK
<1>2. taken \in Seq(H) /\ DOMAIN taken = 1..Len(taken) /\ Len(taken) \in Nat
  BY <1>1
<1>3. /\ \A h \in H : h \in page.left <=> \A i \in DOMAIN taken : taken[i] # h
      /\ \A i, j \in DOMAIN taken : taken[i] = taken[j] => i = j
  BY DEF PageOK
<1>4. TakenOf(path, taken) = Cardinality(I)
  BY DEF TakenOf
<1> HIDE DEF taken
<1>5. I \in SUBSET (1..Len(taken)) /\ DOMAIN f = I /\ \A i \in I : f[i] = taken[i]
  BY <1>2
<1>6. \A i, j \in I : f[i] = f[j] => i = j
  BY <1>3
<1>7. T \in SUBSET M
  <2>1. \A i \in I : f[i] \in H /\ f[i].path = path
    BY <1>2
  <2> HIDE DEF I, f
  <2> QED
    BY <2>1
<1>8. (\A h \in page.left : h.path # path) => M \in SUBSET T
  BY <1>3
<1>9. M \in SUBSET H /\ (M # {} => \E h \in H : h.path = path)
  OBVIOUS
<1> HIDE DEF I, f, M
<1>10. IsFiniteSet(I)
  <2>1. IsFiniteSet(1..Len(taken))
    BY <1>2, FS_Interval
  <2> QED
    BY <1>5, <2>1, FS_Subset
<1>11. IsFiniteSet(T) /\ Cardinality(T) = Cardinality(I)
  <2>1. T = {f[i] : i \in I} /\ DOMAIN f = I
    BY <1>5
  <2> HIDE DEF T
  <2> QED
    BY <1>6, <1>10, <2>1, SameSize
<1> HIDE DEF T
<1>12. IsFiniteSet(M)
  BY <1>9, FS_Subset
<1>13. Cardinality(M) \in Nat /\ Cardinality(T) \in Nat /\ Cardinality(T) <= Cardinality(M)
  BY <1>7, <1>11, <1>12, FS_Subset, FS_CardinalityType
<1>14. (\A h \in page.left : h.path # path) => Cardinality(M) = Cardinality(T)
  <2>1. ASSUME \A h \in page.left : h.path # path PROVE M = T
    BY <1>7, <1>8, <2>1
  <2> QED
    BY <2>1
<1>15. Cardinality(M) > 0 => \E h \in H : h.path = path
  BY <1>9, FS_EmptySet
<1>16. /\ Cardinality(M) \in Nat /\ Cardinality(M) >= TakenOf(path, taken)
       /\ (\A h \in page.left : h.path # path) => Cardinality(M) = TakenOf(path, taken)
       /\ Cardinality(M) > 0 => \E h \in H : h.path = path
  BY <1>4, <1>11, <1>13, <1>14, <1>15
<1> QED
  BY <1>16, Zenon DEF ShowsOf, M, taken

(* The hits of a search, each once.                                        *)
LEMMA PageHasNoPlaceTwice ==
    ASSUME NEW H, \A a, b \in H : Place(a) = Place(b) => a = b, NEW page, PageOK(page, H)
    PROVE  Cardinality({Place(h) : h \in Range(page.taken)}) = Len(page.taken)
<1> DEFINE taken == page.taken
           n == Len(taken)
           f == [i \in 1..n |-> Place(taken[i])]
           T == {f[i] : i \in 1..n}
<1>1. page \in [taken : Seq(H), left : SUBSET H]
  BY DEF PageOK
<1>2. taken \in Seq(H) /\ DOMAIN taken = 1..n /\ n \in Nat
  BY <1>1
<1>3. \A i, j \in DOMAIN taken : taken[i] = taken[j] => i = j
  BY DEF PageOK
<1> HIDE DEF taken
<1>4. \A i \in DOMAIN taken : taken[i] \in H
  BY <1>2
<1> HIDE DEF n
<1>5. DOMAIN f = 1..n /\ \A i, j \in 1..n : f[i] = f[j] => i = j
  BY <1>2, <1>3, <1>4
<1>6. T = {Place(h) : h \in Range(taken)}
  <2>1. Range(taken) = {taken[i] : i \in 1..n}
    BY <1>2 DEF Range
  <2>2. \A i \in 1..n : f[i] = Place(taken[i])
    OBVIOUS
  <2> HIDE DEF f
  <2> QED
    BY <2>1, <2>2
<1> HIDE DEF f
<1>7. Cardinality(T) = n
  <2> DEFINE I == 1..n
  <2>1. T = {f[i] : i \in I} /\ DOMAIN f = I /\ \A i, j \in I : f[i] = f[j] => i = j
    BY <1>5
  <2>2. IsFiniteSet(I) /\ Cardinality(I) = n
    BY <1>2, FS_Interval
  <2> HIDE DEF T, I
  <2>3. Cardinality(T) = Cardinality(I)
    BY <2>1, <2>2, SameSize
  <2> QED
    BY <2>2, <2>3
<1> QED
  BY <1>6, <1>7 DEF taken, n

(* A file shows at most three, and all it has if the page is not full.     *)
LEMMA SearchIsSpread ==
    ASSUME SearchRepoAssumption, NEW files, FilesOK(files), NEW words, MayAsk(words),
           NEW top \in Nat
    PROVE  WellSpread(LexicalSearch(words, files, top), words, files, top)
<1> DEFINE H == LexicalHits(words, files)
           Matches(p) == Cardinality({h \in H : h.path = p})
<1>1. PICK page : /\ PageOK(page, H)
                  /\ Len(page.taken) >= top \/ Candidates(page.left, page.taken) = {}
                  /\ LexicalSearch(words, files, top) = page.taken
  BY SearchFillsPage
<1> DEFINE Shows(p) == TakenOf(p, page.taken)
<1>2. IsFiniteSet(H) /\ \A a, b \in H : Place(a) = Place(b) => a = b
  BY LexicalHitsAre
<1> HIDE DEF H
<1>3. Cardinality({Place(h) : h \in Range(page.taken)}) = Len(page.taken)
  BY <1>1, <1>2, PageHasNoPlaceTwice
<1>4. page \in [taken : Seq(H), left : SUBSET H]
  BY <1>1 DEF PageOK
<1>5. /\ page.taken \in Seq(H) /\ page.left \in SUBSET H /\ Len(page.taken) \in Nat
      /\ DOMAIN page.taken = 1..Len(page.taken)
  BY <1>4
<1>6. /\ \A h \in H : h \in page.left <=> \A i \in DOMAIN page.taken : page.taken[i] # h
      /\ \A p : Shows(p) <= 3
      /\ (\E p : Shows(p) > 1) => \A h \in page.left : Shows(h.path) > 0
  BY <1>1 DEF PageOK
<1>7. \A p : Shows(p) \in Nat /\ (Shows(p) > 0 <=> \E i \in DOMAIN page.taken : page.taken[i].path = p)
  BY <1>5, TakenIsNumber
<1>8. \A p : /\ Matches(p) \in Nat /\ Matches(p) >= Shows(p)
             /\ (\A h \in page.left : h.path # p) => Matches(p) = Shows(p)
             /\ Matches(p) > 0 => \E h \in H : h.path = p
  <2> TAKE p
  <2>1. PageOK(page, H)
    BY <1>1
  <2>2. IsFiniteSet(H)
    BY <1>2
  <2>3. ShowsOf(p, page, H)
    BY <2>1, <2>2, ShownOfMatching
  <2> QED
    BY <2>3, Zenon DEF ShowsOf
<1> HIDE DEF Matches
<1>9. ASSUME NEW p, Shows(p) > 1, NEW q, Matches(q) > 0 PROVE Shows(q) > 0
  <2>1. PICK h \in H : h.path = q
    BY <1>8, <1>9
  <2>2. CASE h \in page.left
    BY <1>6, <1>9, <2>1, <2>2
  <2>3. CASE h \notin page.left
    BY <1>6, <1>7, <2>1, <2>3
  <2> QED
    BY <2>2, <2>3
<1>10. ASSUME Candidates(page.left, page.taken) = {}, NEW p
       PROVE  Shows(p) = Min({3, Matches(p)})
  <2> HIDE DEF Shows
  <2>1. \E b \in Int : b = 3
    OBVIOUS
  <2>2. PICK b \in Int : b = 3
    BY <2>1
  <2>3. Matches(p) \in Int
    BY <1>8
  <2>4. Min({b, Matches(p)}) = IF b <= Matches(p) THEN b ELSE Matches(p)
    BY <2>3, OfTwo
  <2>5. \A h \in page.left : Shows(h.path) # 0 /\ ~(Shows(h.path) < 3)
    <3>1. {h \in page.left : TakenOf(h.path, page.taken) = 0} = {}
      BY <1>10 DEF Candidates
    <3>2. {h \in page.left : TakenOf(h.path, page.taken) < 3} = {}
      BY <1>10, <3>1 DEF Candidates
    <3> QED
      BY <3>1, <3>2 DEF Shows
  <2>6. CASE \E h \in page.left : h.path = p
    <3>1. Shows(p) \in Nat /\ Shows(p) <= 3 /\ Matches(p) >= Shows(p) /\ Matches(p) \in Nat
      BY <1>6, <1>7, <1>8 DEF Shows
    <3>2. ~(Shows(p) < 3)
      BY <2>5, <2>6
    <3>3. Shows(p) = b /\ b <= Matches(p)
      BY <2>2, <3>1, <3>2
    <3> QED
      BY <2>2, <2>4, <3>3
  <2>7. CASE \A h \in page.left : h.path # p
    <3>1. Matches(p) = Shows(p) /\ Shows(p) \in Nat /\ Shows(p) <= 3
      BY <1>6, <1>7, <1>8, <2>7 DEF Shows
    <3>2. Shows(p) = IF b <= Matches(p) THEN b ELSE Matches(p)
      BY <2>2, <3>1
    <3> QED
      BY <2>2, <2>4, <3>2
  <2> QED
    BY <2>6, <2>7
<1>11. ASSUME Len(page.taken) < top, NEW p PROVE Shows(p) = Min({3, Matches(p)})
  <2>1. ~(Len(page.taken) >= top)
    BY <1>5, <1>11
  <2> QED
    BY <1>1, <1>10, <2>1
<1> HIDE DEF Shows
<1>12. /\ Cardinality({Place(h) : h \in Range(page.taken)}) = Len(page.taken)
       /\ \A p \in SitePaths : Shows(p) <= 3
       /\ (\E p \in SitePaths : Shows(p) > 1) => \A p \in SitePaths : Matches(p) > 0 => Shows(p) > 0
       /\ Len(page.taken) < top => \A p \in SitePaths : Shows(p) = Min({3, Matches(p)})
  BY <1>3, <1>6, <1>9, <1>11 DEF Shows
<1>13. WellSpread(page.taken, words, files, top)
  BY <1>12, Zenon DEF WellSpread, Shows, Matches, H
<1> QED
  BY <1>1, <1>13

(* A search returns hits of the generation.                                *)
LEMMA SearchFindsHits ==
    ASSUME SearchRepoAssumption, NEW files, FilesOK(files), NEW words, MayAsk(words),
           NEW top \in Nat
    PROVE  LexicalSearch(words, files, top) \in Seq(HitsIn(files))
<1>1. PICK page : /\ PageOK(page, LexicalHits(words, files))
                  /\ LexicalSearch(words, files, top) = page.taken
  BY SearchFillsPage
<1>2. page.taken \in Seq(LexicalHits(words, files))
  BY <1>1 DEF PageOK
<1>3. LexicalHits(words, files) \in SUBSET HitsIn(files)
  BY LexicalHitsAre
<1> QED
  BY <1>1, <1>2, <1>3

-----------------------------------------------------------------------------
(* Semantic hits, their fusion with the lexical ones and definitions.      *)

(* The beginning of a list.                                                *)
LEMMA FirstOfList ==
    ASSUME NEW S, NEW list \in Seq(S), NEW n \in Nat
    PROVE  /\ FirstOf(list, n) \in Seq(S)
           /\ Len(FirstOf(list, n)) = IF n <= Len(list) THEN n ELSE Len(list)
           /\ \A i \in 1..Len(FirstOf(list, n)) : i \in 1..Len(list) /\ FirstOf(list, n)[i] = list[i]
<1> DEFINE m == Min({n, Len(list)})
<1>1. n \in Int /\ Len(list) \in Int
  OBVIOUS
<1>2. m = IF n <= Len(list) THEN n ELSE Len(list)
  <2> DEFINE size == Len(list)
  <2>1. size \in Int
    OBVIOUS
  <2> HIDE DEF size
  <2>2. Min({n, size}) = IF n <= size THEN n ELSE size
    BY <1>1, <2>1, OfTwo
  <2> QED
    BY <2>2 DEF size
<1>3. m \in 0..Len(list)
  BY <1>2
<1>4. FirstOf(list, n) = SubSeq(list, 1, m)
  BY DEF FirstOf
<1> HIDE DEF m
<1>5. /\ SubSeq(list, 1, m) \in Seq(S) /\ Len(SubSeq(list, 1, m)) = m
      /\ \A i \in 1..m : SubSeq(list, 1, m)[i] = list[i]
  BY <1>3
<1> QED
  BY <1>2, <1>3, <1>4, <1>5

(* The elements of a list are finitely many.                               *)
LEMMA ListedIsFinite ==
    ASSUME NEW S, NEW list \in Seq(S)
    PROVE  IsFiniteSet(Range(list)) /\ Range(list) \in SUBSET S
<1> DEFINE I == 1..Len(list)
           T == Range(list)
<1>1. T = {list[i] : i \in I} /\ DOMAIN list = I /\ Len(list) \in Nat
  BY DEF Range
<1>2. IsFiniteSet(I)
  BY <1>1, FS_Interval
<1>3. T \in SUBSET S
  <2>1. \A i \in I : list[i] \in S
    OBVIOUS
  <2> QED
    BY <1>1, <2>1
<1> HIDE DEF I, T
<1>4. IsFiniteSet(T)
  BY <1>1, <1>2, ImageIsFinite
<1> QED
  BY <1>3, <1>4 DEF T

(* Chunks in the order of their places.                                    *)
LEMMA PlacedChunks ==
    ASSUME NEW S, IsFiniteSet(S), \A x \in S : x[1] \in Nat /\ x[2].line \in Nat
    PROVE  ByPlace(S) \in Seq(S)
<1> DEFINE R == {p \in S \X S : p[1][1] < p[2][1] \/ (p[1][1] = p[2][1] /\ p[1][2].line < p[2][2].line)}
           a == [x \in S |-> x[1]]
           b == [x \in S |-> x[2].line]
<1>1. ByPlace(S) = Sorted(S, R)
  BY DEF ByPlace, InOrder
<1>2. a \in [S -> Nat] /\ b \in [S -> Nat]
  OBVIOUS
<1>3. \A x, y \in S : <<x, y>> \in R => a[x] < a[y] \/ (a[x] = a[y] /\ b[x] < b[y])
  OBVIOUS
<1> HIDE DEF R, a, b
<1>4. Listing(Sorted(S, R), S)
  BY <1>2, <1>3, SortedByTwo
<1> QED
  BY <1>1, <1>4 DEF Listing

(* The chunks of a generation.                                             *)
LEMMA ChunksAre ==
    ASSUME SearchRepoAssumption, NEW files, FilesOK(files)
    PROVE  /\ IsFiniteSet(ChunksOf(files))
           /\ \A id \in ChunksOf(files) : /\ id[1] \in SitePaths /\ id[2] \in files[id[1]].rows
                                          /\ id[2] \in RowOf /\ id[2].kind = "chunk"
                                          /\ id[1] \in Nat /\ id[2].line \in Nat
<1> DEFINE RowsIn == UNION {files[p].rows : p \in SitePaths}
<1>1. IsFiniteSet(SitePaths) /\ SitePaths \subseteq Nat
  BY DEF SearchRepoAssumption
<1>2. IsFiniteSet(RowsIn)
  BY RowsAreFinite
<1>3. ASSUME NEW id \in ChunksOf(files)
      PROVE  /\ id \in SitePaths \X RowsIn
             /\ id[1] \in SitePaths /\ id[2] \in files[id[1]].rows
             /\ id[2] \in RowOf /\ id[2].kind = "chunk"
  <2>1. PICK p \in SitePaths : id \in {<<p, row>> : row \in {r \in files[p].rows : r.kind = "chunk"}}
    BY DEF ChunksOf
  <2>2. PICK row \in files[p].rows : row.kind = "chunk" /\ id = <<p, row>>
    BY <2>1
  <2>3. files[p] \in Indexed
    BY DEF FilesOK
  <2>4. row \in RowOf
    BY <2>3 DEF Indexed
  <2>5. row \in RowsIn
    OBVIOUS
  <2> HIDE DEF RowsIn
  <2> QED
    BY <2>2, <2>4, <2>5
<1> HIDE DEF RowsIn
<1>4. IsFiniteSet(SitePaths \X RowsIn)
  BY <1>1, <1>2, FS_Product
<1>5. ChunksOf(files) \in SUBSET (SitePaths \X RowsIn)
  BY <1>3
<1>6. \A row \in RowOf : row.line \in Nat
  BY DEF RowOf
<1> QED
  BY <1>1, <1>3, <1>4, <1>5, <1>6, FS_Subset

(* A chunk with the hash of its file is a hit of the generation.           *)
LEMMA ChunkIsHit ==
    ASSUME SearchRepoAssumption, NEW files, FilesOK(files), NEW id \in ChunksOf(files)
    PROVE  Found(id[1], id[2], files[id[1]].hash, 0, FALSE) \in HitsIn(files)
<1> DEFINE p == id[1]
           row == id[2]
<1>1. p \in SitePaths /\ row \in files[p].rows /\ row \in RowOf /\ row.kind = "chunk"
  BY ChunksAre
<1> HIDE DEF p, row
<1>2. row.line \in Nat /\ row.to \in Nat /\ row.kind \in Range(Kinds)
  BY <1>1 DEF RowOf
<1>3. files[p] \in Indexed
  BY <1>1 DEF FilesOK
<1>4. files[p].hash \in Nat /\ files[p].hash # 0
  BY <1>1, <1>3 DEF FilesOK, Indexed
<1>5. 0 \in Int /\ FALSE \in BOOLEAN
  OBVIOUS
<1>6. Found(p, row, files[p].hash, 0, FALSE) \in HitsIn(files)
  BY <1>1, <1>2, <1>4, <1>5 DEF Found, HitsIn
<1> QED
  BY <1>6 DEF p, row

(* An order by up to four numbers.                                         *)
ByNumbers(R, S, a, b, c, d) ==
    /\ a \in [S -> Int] /\ b \in [S -> Int] /\ c \in [S -> Int] /\ d \in [S -> Int]
    /\ \A x, y \in S : <<x, y>> \in R <=>
           \/ a[x] < a[y]
           \/ a[x] = a[y] /\ b[x] < b[y]
           \/ a[x] = a[y] /\ b[x] = b[y] /\ c[x] < c[y]
           \/ a[x] = a[y] /\ b[x] = b[y] /\ c[x] = c[y] /\ d[x] < d[y]

(* Such an order is strict.                                                *)
LEMMA NumbersAreStrict ==
    ASSUME NEW S, NEW R, NEW a, NEW b, NEW c, NEW d, ByNumbers(R, S, a, b, c, d)
    PROVE  StrictOrder(R, S)
<1>1. \A x \in S : a[x] \in Int /\ b[x] \in Int /\ c[x] \in Int /\ d[x] \in Int
  BY DEF ByNumbers
<1>2. ASSUME NEW x \in S PROVE <<x, x>> \notin R
  BY <1>1 DEF ByNumbers
<1>3. ASSUME NEW x \in S, NEW y \in S, NEW z \in S, <<x, y>> \in R, <<y, z>> \in R
      PROVE  <<x, z>> \in R
  BY <1>1, <1>3 DEF ByNumbers
<1> QED
  BY <1>2, <1>3 DEF StrictOrder

(* The elements of a finite set, listed in such an order.                  *)
LEMMA SortedByNumbers ==
    ASSUME NEW S, IsFiniteSet(S), NEW R, NEW a, NEW b, NEW c, NEW d, ByNumbers(R, S, a, b, c, d)
    PROVE  Listing(Sorted(S, R), S) /\ Ordered(Sorted(S, R), Cardinality(S), S, R)
BY NumbersAreStrict, SortedByOrder

(* The rank of a hit in a list is a number.                                *)
LEMMA RankIsNumber ==
    ASSUME NEW S, NEW list \in Seq(S), NEW place
    PROVE  RankIn(list, place) \in Nat /\ Reciprocal(RankIn(list, place)) \in Nat
<1>1. RankIn(list, place) \in Nat
  <2>1. \A i \in DOMAIN list : i \in Nat
    OBVIOUS
  <2>2. CASE \E i \in DOMAIN list : Place(list[i]) = place
    <3>1. RankIn(list, place) \in DOMAIN list
      BY <2>2 DEF RankIn
    <3> QED
      BY <2>1, <3>1
  <2>3. CASE ~\E i \in DOMAIN list : Place(list[i]) = place
    BY <2>3 DEF RankIn
  <2> QED
    BY <2>2, <2>3
<1>2. \A r \in Nat : Reciprocal(r) \in Nat
  <2> TAKE r \in Nat
  <2>1. 60 + r \in Nat /\ 60 + r > 0
    OBVIOUS
  <2>2. 1000000 \div (60 + r) \in Nat
    BY <2>1
  <2> QED
    BY <2>2 DEF Reciprocal
<1> QED
  BY <1>1, <1>2

(* The fusion has hits of both lists.                                      *)
LEMMA FusedAreHits ==
    ASSUME NEW H, NEW lexical \in Seq(H), NEW semantic \in Seq(H)
    PROVE  Fused(lexical, semantic) \in Seq(H)
<1> DEFINE only   == {h \in Range(semantic) : RankIn(lexical, Place(h)) = 0}
           Rrf(h) == Reciprocal(RankIn(lexical, Place(h))) + Reciprocal(RankIn(semantic, Place(h)))
           Seen(h) == FirstSeen(lexical, semantic, h)
           S == Range(lexical) \cup only
           R == {p \in S \X S : \/ Rrf(p[1]) > Rrf(p[2])
                                \/ Rrf(p[1]) = Rrf(p[2]) /\ Seen(p[1]) < Seen(p[2])}
           a == [h \in S |-> 0 - Rrf(h)]
           b == [h \in S |-> Seen(h)]
           z == [h \in S |-> 0]
<1>1. Fused(lexical, semantic) = Sorted(S, R)
  BY DEF Fused, InOrder
<1>2. IsFiniteSet(S) /\ S \in SUBSET H
  <2>1. IsFiniteSet(Range(lexical)) /\ Range(lexical) \in SUBSET H
    BY ListedIsFinite
  <2>2. IsFiniteSet(Range(semantic)) /\ Range(semantic) \in SUBSET H
    BY ListedIsFinite
  <2>3. only \in SUBSET Range(semantic)
    OBVIOUS
  <2> HIDE DEF only
  <2>4. IsFiniteSet(only)
    BY <2>2, <2>3, FS_Subset
  <2> QED
    BY <2>1, <2>2, <2>3, <2>4, FS_Union
<1>3. \A h : Rrf(h) \in Int /\ Seen(h) \in Int
  <2> TAKE h
  <2>1. RankIn(lexical, Place(h)) \in Nat /\ Reciprocal(RankIn(lexical, Place(h))) \in Nat
    BY RankIsNumber
  <2>2. RankIn(semantic, Place(h)) \in Nat /\ Reciprocal(RankIn(semantic, Place(h))) \in Nat
    BY RankIsNumber
  <2>3. Rrf(h) \in Int
    BY <2>1, <2>2
  <2>4. Seen(h) \in Int
    BY <2>1, <2>2 DEF FirstSeen
  <2> QED
    BY <2>3, <2>4
<1> HIDE DEF only, Rrf, Seen, S
<1>4. a \in [S -> Int] /\ b \in [S -> Int] /\ z \in [S -> Int]
  BY <1>3
<1>5. \A x, y \in S : <<x, y>> \in R <=> a[x] < a[y] \/ (a[x] = a[y] /\ b[x] < b[y])
  BY <1>3
<1>6. \A x \in S : z[x] = 0
  OBVIOUS
<1> HIDE DEF R, a, b, z
<1>7. ByNumbers(R, S, a, b, z, z)
  BY <1>4, <1>5, <1>6 DEF ByNumbers
<1>8. Listing(Sorted(S, R), S)
  BY <1>2, <1>7, SortedByNumbers
<1>9. Sorted(S, R) \in Seq(S)
  BY <1>8 DEF Listing
<1> QED
  BY <1>1, <1>2, <1>9

(* The cross-encoder orders the hits of the shortlist.                     *)
LEMMA RerankedAreHits ==
    ASSUME NEW H, \A h \in H : h.path \in Int /\ h.line \in Int,
           NEW shortlist \in Seq(H), NEW marks \in [DOMAIN shortlist -> Int]
    PROVE  Reranked(shortlist, marks) \in Seq(H)
<1> DEFINE S == DOMAIN shortlist
           R == {p \in S \X S :
                  \/ marks[p[1]] > marks[p[2]]
                  \/ /\ marks[p[1]] = marks[p[2]]
                     /\ \/ shortlist[p[1]].path < shortlist[p[2]].path
                        \/ /\ shortlist[p[1]].path = shortlist[p[2]].path
                           /\ \/ shortlist[p[1]].line < shortlist[p[2]].line
                              \/ shortlist[p[1]].line = shortlist[p[2]].line /\ p[1] < p[2]}
           order == Sorted(S, R)
           a == [i \in S |-> 0 - marks[i]]
           b == [i \in S |-> shortlist[i].path]
           c == [i \in S |-> shortlist[i].line]
           d == [i \in S |-> i]
<1>1. Reranked(shortlist, marks) = [k \in DOMAIN order |-> shortlist[order[k]]]
  BY DEF Reranked, InOrder
<1>2. S = 1..Len(shortlist) /\ Len(shortlist) \in Nat /\ \A i \in S : shortlist[i] \in H
  OBVIOUS
<1>3. IsFiniteSet(S)
  BY <1>2, FS_Interval
<1>4. \A i \in S : marks[i] \in Int /\ shortlist[i].path \in Int /\ shortlist[i].line \in Int /\ i \in Int
  BY <1>2
<1> HIDE DEF S
<1>5. a \in [S -> Int] /\ b \in [S -> Int] /\ c \in [S -> Int] /\ d \in [S -> Int]
  BY <1>4
<1>6. \A x, y \in S : <<x, y>> \in R <=>
           \/ a[x] < a[y]
           \/ a[x] = a[y] /\ b[x] < b[y]
           \/ a[x] = a[y] /\ b[x] = b[y] /\ c[x] < c[y]
           \/ a[x] = a[y] /\ b[x] = b[y] /\ c[x] = c[y] /\ d[x] < d[y]
  BY <1>4
<1> HIDE DEF R, a, b, c, d
<1>7. ByNumbers(R, S, a, b, c, d)
  BY <1>5, <1>6 DEF ByNumbers
<1>8. Listing(Sorted(S, R), S)
  BY <1>3, <1>7, SortedByNumbers
<1>9. order \in Seq(S)
  BY <1>8 DEF Listing
<1> HIDE DEF order
<1>10. \A k \in DOMAIN order : order[k] \in S
  BY <1>9
<1>11. \A k \in DOMAIN order : shortlist[order[k]] \in H
  BY <1>2, <1>10
<1>12. DOMAIN order = 1..Len(order) /\ Len(order) \in Nat
  BY <1>9
<1>13. [k \in DOMAIN order |-> shortlist[order[k]]] \in Seq(H)
  BY <1>11, <1>12
<1> QED
  BY <1>1, <1>13

(* The definitions of a name.                                              *)
LEMMA DefinitionsAreHits ==
    ASSUME SearchRepoAssumption, NEW files, FilesOK(files), NEW words
    PROVE  Definitions(words, files) \in Seq(HitsIn(files))
<1> DEFINE RowsIn == UNION {files[p].rows : p \in SitePaths}
           Of(t) == Found(t[1], t[2], files[t[1]].hash, 0, TRUE)
           f == [t \in SitePaths \X RowsIn |-> Of(t)]
           All == {f[t] : t \in SitePaths \X RowsIn}
           S == UNION {{Found(p, row, files[p].hash, 0, TRUE) :
                            row \in {r \in files[p].rows : r.kind = "symbol" /\ r.name = words}} :
                        p \in SitePaths}
           R == {p \in S \X S : Earlier(p[1], p[2])}
<1>1. Definitions(words, files) = Sorted(S, R)
  BY DEF Definitions, InOrder
<1>2. ASSUME NEW h \in S PROVE h \in HitsIn(files) /\ h \in All
  <2>1. PICK p \in SitePaths :
           h \in {Found(p, row, files[p].hash, 0, TRUE) :
                    row \in {r \in files[p].rows : r.kind = "symbol" /\ r.name = words}}
    OBVIOUS
  <2>2. PICK row \in files[p].rows : h = Found(p, row, files[p].hash, 0, TRUE)
    BY <2>1
  <2>3. files[p] \in Indexed
    BY DEF FilesOK
  <2>4. row \in RowOf /\ files[p].hash \in Nat /\ files[p].hash # 0
    BY <2>3 DEF Indexed, FilesOK
  <2>5. row.line \in Nat /\ row.to \in Nat /\ row.kind \in Range(Kinds)
    BY <2>4 DEF RowOf
  <2>6. 0 \in Int /\ TRUE \in BOOLEAN
    OBVIOUS
  <2>7. h \in HitsIn(files)
    BY <2>2, <2>4, <2>5, <2>6 DEF Found, HitsIn
  <2>8. row \in RowsIn
    OBVIOUS
  <2> HIDE DEF RowsIn
  <2>9. h = f[<<p, row>>] /\ <<p, row>> \in SitePaths \X RowsIn
    BY <2>2, <2>8
  <2> HIDE DEF f
  <2>10. h \in All
    BY <2>9
  <2> QED
    BY <2>7, <2>10
<1>3. IsFiniteSet(All)
  <2> DEFINE I == SitePaths \X RowsIn
  <2>1. IsFiniteSet(SitePaths) /\ IsFiniteSet(RowsIn)
    BY RowsAreFinite DEF SearchRepoAssumption
  <2> HIDE DEF RowsIn
  <2>2. IsFiniteSet(I)
    BY <2>1, FS_Product
  <2>3. DOMAIN f = I /\ All = {f[t] : t \in I}
    OBVIOUS
  <2> HIDE DEF I, f, All
  <2> QED
    BY <2>2, <2>3, ImageIsFinite
<1> HIDE DEF All, S
<1>4. IsFiniteSet(S) /\ S \in SUBSET HitsIn(files)
  BY <1>2, <1>3, FS_Subset
<1>5. \A h \in S : h.path \in Nat /\ h.line \in Nat /\ h.kind \in Range(Kinds)
  <2>1. SitePaths \subseteq Nat
    BY DEF SearchRepoAssumption
  <2> QED
    BY <1>4, <2>1 DEF HitsIn
<1>6. \A x, y \in S : <<x, y>> \in R <=> Earlier(x, y)
  OBVIOUS
<1> HIDE DEF R
<1>7. StrictOrder(R, S)
  BY <1>5, <1>6, EarlierIsAnOrder
<1>8. Listing(Sorted(S, R), S)
  BY <1>4, <1>7, SortedByOrder
<1>9. Sorted(S, R) \in Seq(S)
  BY <1>8 DEF Listing
<1> QED
  BY <1>1, <1>4, <1>9

-----------------------------------------------------------------------------
(* Compaction.                                                             *)

(* A sum of natural numbers is at least each of them, and 0 if all are.    *)
LEMMA TotalCovers ==
    ASSUME NEW s \in Seq(Nat)
    PROVE  /\ Total(s) \in Nat /\ \A i \in 1..Len(s) : s[i] <= Total(s)
           /\ (\A i \in 1..Len(s) : s[i] = 0) => Total(s) = 0
<1> DEFINE n == Len(s)
<1>1. s \in Seq(Int) /\ n \in Nat /\ \A k \in 1..n : s[k] \in Nat
  OBVIOUS
<1>2. PICK f \in [0..n -> Int] : /\ f[0] = 0 /\ Total(s) = f[n]
                                 /\ \A k \in 1..n : f[k] = f[k - 1] + s[k]
  BY <1>1, TotalObeys
<1> HIDE DEF n
<1> DEFINE T == {k \in 0..n : f[k] \in Nat /\ \A i \in 1..k : s[i] <= f[k]}
<1>3. 0 \in T
  BY <1>1, <1>2
<1>4. \A k \in 1..n : k - 1 \in T => k \in T
  <2> SUFFICES ASSUME NEW k \in 1..n, k - 1 \in T PROVE k \in T
    OBVIOUS
  <2>1. s[k] \in Nat /\ f[k - 1] \in Nat /\ k \in 0..n /\ f[k] = f[k - 1] + s[k]
    BY <1>1, <1>2
  <2>2. \A i \in 1..(k - 1) : s[i] \in Nat /\ s[i] <= f[k - 1]
    BY <1>1
  <2>3. \A i \in 1..k : i = k \/ i \in 1..(k - 1)
    BY <1>1
  <2> QED
    BY <2>1, <2>2, <2>3
<1>5. 0..n \subseteq T
  <2> HIDE DEF T
  <2> QED
    BY <1>1, <1>3, <1>4, UpTo
<1> DEFINE Z == {k \in 0..n : (\A i \in 1..n : s[i] = 0) => f[k] = 0}
<1>6. 0 \in Z
  BY <1>1, <1>2
<1>7. \A k \in 1..n : k - 1 \in Z => k \in Z
  <2> SUFFICES ASSUME NEW k \in 1..n, k - 1 \in Z, \A i \in 1..n : s[i] = 0 PROVE f[k] = 0
    BY <1>1
  <2>1. f[k - 1] = 0 /\ f[k] = f[k - 1] + s[k] /\ s[k] = 0
    BY <1>2
  <2> QED
    BY <2>1
<1>8. 0..n \subseteq Z
  <2> HIDE DEF Z
  <2> QED
    BY <1>1, <1>6, <1>7, UpTo
<1>9. n \in T /\ n \in Z
  BY <1>1, <1>5, <1>8
<1> QED
  BY <1>1, <1>2, <1>9 DEF n

(* Of numbers.                                                             *)
LEMMA AddedLater ==
    \A a, b, c, more \in Int : (a + more) + c = (a + c) + more /\ a + (c + more) = (a + c) + more
OBVIOUS

(* A sum in which one number changes.                                      *)
LEMMA TotalChanged ==
    ASSUME NEW s \in Seq(Nat), NEW t \in Seq(Nat), Len(t) = Len(s), NEW i \in 1..Len(s),
           \A k \in 1..Len(s) : k # i => t[k] = s[k]
    PROVE  Total(t) = Total(s) + t[i] - s[i]
<1> DEFINE n == Len(s)
<1>0. t[i] \in Int /\ s[i] \in Int
  OBVIOUS
<1>10. PICK more \in Int : more = t[i] - s[i]
  BY <1>0
<1>1. /\ s \in Seq(Int) /\ t \in Seq(Int) /\ n \in Nat /\ i \in 1..n
      /\ \A k \in 1..n : s[k] \in Int /\ t[k] \in Int
  OBVIOUS
<1>2. PICK f \in [0..n -> Int] : /\ f[0] = 0 /\ Total(s) = f[n]
                                 /\ \A k \in 1..n : f[k] = f[k - 1] + s[k]
  BY <1>1, TotalObeys
<1>3. PICK g \in [0..Len(t) -> Int] : /\ g[0] = 0 /\ Total(t) = g[Len(t)]
                                      /\ \A k \in 1..Len(t) : g[k] = g[k - 1] + t[k]
  BY <1>1, TotalObeys
<1>4. Len(t) = n /\ t[i] = s[i] + more
  BY <1>0, <1>10
<1> DEFINE T == {k \in 0..n : g[k] = f[k] + (IF k < i THEN 0 ELSE more)}
<1>5. 0 \in T
  BY <1>1, <1>2, <1>3
<1> HIDE DEF n
<1>6. \A k \in 1..n : k - 1 \in T => k \in T
  <2> SUFFICES ASSUME NEW k \in 1..n, k - 1 \in T PROVE k \in T
    OBVIOUS
  <2>6. k \in 0..n /\ k - 1 \in 0..n /\ k \in 1..Len(t) /\ k \in Int /\ i \in Int
    BY <1>1, <1>4
  <2>7. f[k] = f[k - 1] + s[k] /\ g[k] = g[k - 1] + t[k]
    BY <1>2, <1>3, <2>6
  <2>8. f[k] \in Int /\ f[k - 1] \in Int /\ g[k] \in Int /\ g[k - 1] \in Int
    BY <1>2, <1>3, <1>4, <2>6
  <2>9. s[k] \in Int /\ t[k] \in Int /\ s[i] \in Int
    BY <1>1
  <2>2. g[k - 1] = f[k - 1] + (IF k - 1 < i THEN 0 ELSE more)
    OBVIOUS
  <2> HIDE DEF T
  <2>1. g[k] = f[k] + (IF k < i THEN 0 ELSE more) => k \in T
    BY <2>6 DEF T
  <2>3. CASE k < i
    <3>1. t[k] = s[k] /\ k - 1 < i
      BY <2>3, <2>6 DEF n
    <3>2. g[k - 1] = f[k - 1] + 0
      BY <2>2, <3>1
    <3>3. g[k] = f[k] + 0
      BY <2>7, <2>8, <2>9, <3>1, <3>2
    <3> QED
      BY <2>1, <2>3, <3>3
  <2>4. CASE k = i
    <3>1. k - 1 < i /\ ~(k < i)
      BY <2>4, <2>6
    <3>2. g[k - 1] = f[k - 1] + 0
      BY <2>2, <3>1
    <3>3. t[k] = s[k] + more
      BY <1>4, <2>4
    <3>4. g[k] = f[k] + more
      <4>1. g[k] = f[k - 1] + (s[k] + more)
        BY <2>7, <2>8, <3>2, <3>3
      <4>2. f[k - 1] + (s[k] + more) = (f[k - 1] + s[k]) + more
        <5>1. f[k - 1] \in Int
          BY <2>8
        <5>2. s[k] \in Int
          BY <2>9
        <5>3. more \in Int
          BY <1>10
        <5> QED
          BY <5>1, <5>2, <5>3, AddedLater, Zenon
      <4> QED
        BY <2>7, <4>1, <4>2
    <3> QED
      BY <2>1, <3>1, <3>4
  <2>5. CASE k > i
    <3>1. t[k] = s[k] /\ ~(k - 1 < i)
      <4>1. k # i /\ ~(k - 1 < i)
        BY <2>5, <2>6
      <4> QED
        BY <4>1 DEF n
    <3>2. g[k - 1] = f[k - 1] + more /\ ~(k < i)
      BY <2>2, <2>5, <2>6, <3>1
    <3>3. g[k] = f[k] + more
      <4>1. g[k] = (f[k - 1] + more) + s[k]
        BY <2>7, <3>1, <3>2
      <4>2. (f[k - 1] + more) + s[k] = (f[k - 1] + s[k]) + more
        <5>1. f[k - 1] \in Int
          BY <2>8
        <5>2. s[k] \in Int
          BY <2>9
        <5>3. more \in Int
          BY <1>10
        <5> QED
          BY <5>1, <5>2, <5>3, AddedLater, Zenon
      <4> QED
        BY <2>7, <4>1, <4>2
    <3> QED
      BY <2>1, <3>2, <3>3
  <2> QED
    BY <2>3, <2>4, <2>5, <2>6
<1>7. 0..n \subseteq T
  <2> HIDE DEF T
  <2> QED
    BY <1>1, <1>5, <1>6, UpTo
<1>8. g[n] = f[n] + more
  BY <1>1, <1>7
<1> QED
  BY <1>1, <1>2, <1>3, <1>4, <1>8, <1>10

(* Answers whose items have a size and a text that can be emptied.         *)
Sized(I) == \A x \in I : x.size \in Nat /\ x.text \in Nat /\ [x EXCEPT !.text = 0] \in I

AnswerCodes == {"FILE_CHANGED", "NO_RESULTS", "SYMBOL_AMBIGUOUS", "INDEX_STALE",
                "FRESHNESS_CHECK_FAILED", "RESULT_TRUNCATED"}

ListNames == {"results", "candidates", "focus_results", "landmarks", "principal_directories",
              "languages", "entries"}

Preferences == ListNames \cup {""}

NamedLists(I) == [name : ListNames, items : Seq(I)]

AnswersOf(I) ==
    [lists : Seq(NamedLists(I)), preferred : Preferences, body : Nat, source : Nat,
     rendered : Nat, truncated : BOOLEAN, diagnostics : Seq(AnswerCodes)]

(* The size of items is a number.                                          *)
LEMMA SizeIsNumber ==
    ASSUME NEW I, Sized(I), NEW items \in Seq(I)
    PROVE  SizeOf(items) \in Nat
<1> DEFINE Of(k) == items[k].size + items[k].text
<1>1. ASSUME NEW k \in DOMAIN items PROVE Of(k) \in Nat
  <2>1. items[k] \in I
    OBVIOUS
  <2>2. items[k].size \in Nat /\ items[k].text \in Nat
    BY <2>1 DEF Sized
  <2> QED
    BY <2>2
<1>2. SizeOf(items) = Total([k \in DOMAIN items |-> Of(k)])
  BY DEF SizeOf
<1>3. DOMAIN items = 1..Len(items) /\ Len(items) \in Nat
  OBVIOUS
<1> HIDE DEF Of
<1>4. [k \in DOMAIN items |-> Of(k)] \in Seq(Nat)
  BY <1>1, <1>3
<1> QED
  BY <1>2, <1>4, TotalIsNat

(* The tokens and the lengths of an answer.                                *)
LEMMA AnswerMeasures ==
    ASSUME NEW I, Sized(I), NEW a \in AnswersOf(I)
    PROVE  /\ Tokens(a) \in Nat /\ Lengths(a) \in Nat
           /\ \A i \in DOMAIN a.lists : Len(a.lists[i].items) <= Lengths(a)
           /\ (\A i \in DOMAIN a.lists : a.lists[i].items = <<>>) => Lengths(a) = 0
<1> DEFINE lists == a.lists
           Size(i) == SizeOf(lists[i].items)
           Long(i) == Len(lists[i].items)
           sizes == [i \in DOMAIN lists |-> Size(i)]
           longs == [i \in DOMAIN lists |-> Long(i)]
<1>1. lists \in Seq(NamedLists(I)) /\ Len(a.diagnostics) \in Nat /\ a.body \in Nat
      /\ a.source \in Nat /\ a.rendered \in Nat
  BY DEF AnswersOf
<1>11. \A l \in NamedLists(I) : l.items \in Seq(I)
  BY DEF NamedLists
<1>2. DOMAIN lists = 1..Len(lists) /\ Len(lists) \in Nat
      /\ \A i \in DOMAIN lists : lists[i].items \in Seq(I)
  BY <1>1, <1>11
<1>3. \A i \in DOMAIN lists : Size(i) \in Nat /\ Long(i) \in Nat
  BY <1>2, SizeIsNumber
<1>4. /\ Tokens(a) = BaseSize + a.body + a.source + a.rendered + Len(a.diagnostics) + Total(sizes)
      /\ Lengths(a) = Total(longs)
  BY DEF Tokens, Lengths
<1>5. \A i \in DOMAIN lists : lists[i].items = <<>> => Long(i) = 0
  OBVIOUS
<1> HIDE DEF lists, Size, Long
<1>6. sizes \in Seq(Nat) /\ longs \in Seq(Nat) /\ Len(longs) = Len(lists)
      /\ \A i \in 1..Len(lists) : longs[i] = Long(i)
  BY <1>2, <1>3
<1> HIDE DEF sizes, longs
<1>7. Total(sizes) \in Nat /\ Total(longs) \in Nat
  BY <1>6, TotalIsNat
<1>8. \A i \in DOMAIN lists : Long(i) <= Total(longs)
  BY <1>2, <1>6, TotalCovers
<1>9. (\A i \in DOMAIN lists : lists[i].items = <<>>) => Total(longs) = 0
  <2> SUFFICES ASSUME \A i \in DOMAIN lists : lists[i].items = <<>> PROVE Total(longs) = 0
    OBVIOUS
  <2>1. \A i \in 1..Len(longs) : longs[i] = 0
    BY <1>2, <1>5, <1>6
  <2> QED
    BY <1>6, <2>1, TotalCovers
<1> DEFINE n == Len(a.diagnostics)
           total == Total(sizes)
<1>12. n \in Nat /\ total \in Nat /\ Tokens(a) = BaseSize + a.body + a.source + a.rendered + n + total
  BY <1>1, <1>4, <1>7
<1> HIDE DEF n, total
<1>10. Tokens(a) \in Nat
  BY <1>1, <1>12 DEF BaseSize
<1> QED
  BY <1>4, <1>7, <1>8, <1>9, <1>10 DEF lists, Long

(* An answer cut: of each list a beginning.                                *)
CutOf(b, a) ==
    /\ b.preferred = a.preferred /\ b.truncated = a.truncated /\ b.source = a.source
    /\ DOMAIN b.lists = DOMAIN a.lists
    /\ \A i \in DOMAIN a.lists :
          /\ b.lists[i].name = a.lists[i].name
          /\ Len(b.lists[i].items) <= Len(a.lists[i].items)
          /\ \A k \in 1..Len(b.lists[i].items) : b.lists[i].items[k] = a.lists[i].items[k]

(* A list loses its last item.                                             *)
LEMMA PopTakes ==
    ASSUME NEW I, Sized(I), NEW a \in AnswersOf(I), NEW i \in DOMAIN a.lists, a.lists[i].items # <<>>
    PROVE  /\ Pop(a, i) \in AnswersOf(I) /\ CutOf(Pop(a, i), a) /\ Lengths(Pop(a, i)) = Lengths(a) - 1
           /\ \A j \in DOMAIN a.lists : j # i => Pop(a, i).lists[j] = a.lists[j]
<1> DEFINE lists == a.lists
           items == lists[i].items
           front == Front(items)
           list  == [lists[i] EXCEPT !.items = front]
           after == [lists EXCEPT ![i] = list]
           b == Pop(a, i)
<1>1. lists \in Seq(NamedLists(I)) /\ DOMAIN lists = 1..Len(lists) /\ Len(lists) \in Nat
  BY DEF AnswersOf
<1>11. \A l \in NamedLists(I) : l.items \in Seq(I)
  BY DEF NamedLists
<1>2. \A j \in DOMAIN lists : lists[j] \in NamedLists(I) /\ lists[j].items \in Seq(I)
  BY <1>1, <1>11
<1>3. items \in Seq(I) /\ items # <<>> /\ Len(items) \in Nat /\ Len(items) >= 1
  BY <1>2
<1>4. front \in Seq(I) /\ Len(front) = Len(items) - 1 /\ \A k \in 1..Len(front) : front[k] = items[k]
  BY <1>3 DEF Front
<1>5. b = [a EXCEPT !.lists = after]
  BY DEF Pop
<1> HIDE DEF front
<1>6. list \in NamedLists(I) /\ list.name = lists[i].name /\ list.items = front
  BY <1>2, <1>4 DEF NamedLists
<1> HIDE DEF list
<1>7. /\ after \in Seq(NamedLists(I)) /\ DOMAIN after = DOMAIN lists /\ after[i] = list
      /\ \A j \in DOMAIN lists : j # i => after[j] = lists[j]
  BY <1>1, <1>6
<1> HIDE DEF after, b
<1>8. /\ b \in AnswersOf(I) /\ b.lists = after /\ b.preferred = a.preferred
      /\ b.truncated = a.truncated /\ b.source = a.source
  BY <1>5, <1>7 DEF AnswersOf
<1>9. CutOf(b, a)
  <2>1. ASSUME NEW j \in DOMAIN lists
        PROVE  /\ after[j].name = lists[j].name /\ Len(after[j].items) <= Len(lists[j].items)
               /\ \A k \in 1..Len(after[j].items) : after[j].items[k] = lists[j].items[k]
    <3>1. CASE j = i
      BY <1>3, <1>4, <1>6, <1>7, <3>1
    <3>2. CASE j # i
      <4>1. after[j] = lists[j] /\ Len(lists[j].items) \in Nat
        BY <1>2, <1>7, <3>2
      <4> QED
        BY <4>1
    <3> QED
      BY <3>1, <3>2
  <2> QED
    BY <1>7, <1>8, <2>1 DEF CutOf
<1>10. Lengths(b) = Lengths(a) - 1
  <2> DEFINE Was(j) == Len(lists[j].items)
             Is(j) == Len(after[j].items)
             s == [j \in DOMAIN lists |-> Was(j)]
             t == [j \in DOMAIN lists |-> Is(j)]
  <2>1. Lengths(a) = Total(s) /\ Lengths(b) = Total(t)
    BY <1>7, <1>8 DEF Lengths
  <2>2. \A j \in DOMAIN lists : after[j] \in NamedLists(I)
    BY <1>2, <1>6, <1>7
  <2>3. \A j \in DOMAIN lists : Was(j) \in Nat /\ Is(j) \in Nat /\ (j # i => Is(j) = Was(j))
    BY <1>2, <1>7, <2>2 DEF NamedLists
  <2>4. Is(i) = Was(i) - 1
    BY <1>4, <1>6, <1>7
  <2> HIDE DEF Was, Is
  <2>5. /\ s \in Seq(Nat) /\ t \in Seq(Nat) /\ Len(s) = Len(lists) /\ Len(t) = Len(lists)
        /\ \A j \in 1..Len(lists) : s[j] = Was(j) /\ t[j] = Is(j)
    BY <1>1, <2>3
  <2>6. i \in 1..Len(s) /\ \A k \in 1..Len(s) : k # i => t[k] = s[k]
    BY <1>1, <2>3, <2>5
  <2> HIDE DEF s, t
  <2>7. Total(t) = Total(s) + t[i] - s[i]
    BY <2>5, <2>6, TotalChanged
  <2>8. t[i] = s[i] - 1 /\ s[i] \in Nat
    BY <1>1, <2>3, <2>4, <2>5
  <2>9. Total(s) \in Nat
    BY <2>5, TotalIsNat
  <2> QED
    BY <2>1, <2>7, <2>8, <2>9
<1> QED
  BY <1>7, <1>8, <1>9, <1>10 DEF b

(* One of the lists is the first of the longest.                           *)
LEMMA LongestIsPopped ==
    ASSUME NEW I, NEW a \in AnswersOf(I), NEW from \in SUBSET (DOMAIN a.lists), from # {}
    PROVE  \E i \in from : PopLongest(a, from) = Pop(a, i)
<1> DEFINE Long(i) == Len(a.lists[i].items)
           First(i) == \A j \in from : Long(i) > Long(j) \/ (Long(i) = Long(j) /\ i <= j)
           longs == [i \in from |-> Long(i)]
<1>1. PopLongest(a, from) = Pop(a, CHOOSE i \in from : First(i))
  BY DEF PopLongest
<1>2. a.lists \in Seq(NamedLists(I))
  BY DEF AnswersOf
<1>3. \A l \in NamedLists(I) : l.items \in Seq(I)
  BY DEF NamedLists
<1>4. DOMAIN a.lists = 1..Len(a.lists) /\ Len(a.lists) \in Nat
  BY <1>2
<1>5. \A i \in from : i \in Nat /\ Long(i) \in Nat
  <2> SUFFICES ASSUME NEW i \in from PROVE i \in Nat /\ Long(i) \in Nat
    OBVIOUS
  <2>1. a.lists[i].items \in Seq(I)
    BY <1>2, <1>3, <1>4
  <2> QED
    BY <1>4, <2>1
<1>6. IsFiniteSet(from)
  <2>1. IsFiniteSet(DOMAIN a.lists)
    BY <1>4, FS_Interval
  <2> QED
    BY <2>1, FS_Subset
<1> HIDE DEF Long
<1>7. \A i \in from : longs[i] = Long(i) /\ longs[i] \in Int
  BY <1>5
<1> HIDE DEF longs
<1>8. PICK m \in from : \A j \in from : longs[j] <= longs[m]
  BY <1>6, <1>7, GreatestExists
<1>9. PICK i \in {j \in from : Long(j) = Long(m)} : \A k \in {j \in from : Long(j) = Long(m)} : i <= k
  <2> DEFINE S == {j \in from : Long(j) = Long(m)}
  <2>1. S \in SUBSET Nat /\ m \in S
    BY <1>5
  <2> HIDE DEF S
  <2>2. \E i \in S : \A k \in S : i <= k
    BY <2>1, LeastNumber
  <2> QED
    BY <2>2 DEF S
<1>10. First(i)
  <2> SUFFICES ASSUME NEW j \in from PROVE Long(i) > Long(j) \/ (Long(i) = Long(j) /\ i <= j)
    OBVIOUS
  <2>1. Long(j) <= Long(m) /\ Long(i) = Long(m) /\ Long(j) \in Nat /\ Long(m) \in Nat
    BY <1>5, <1>7, <1>8, <1>9
  <2>2. Long(j) = Long(m) => i <= j
    BY <1>9
  <2> QED
    BY <2>1, <2>2
<1>11. \E k \in from : First(k)
  BY <1>9, <1>10
<1> HIDE DEF First
<1>12. (CHOOSE k \in from : First(k)) \in from
  BY <1>11
<1> QED
  BY <1>1, <1>12

(* The lists that may be shortened hold something.                         *)
LEMMA TrimmableHoldItems ==
    ASSUME NEW I, NEW a \in AnswersOf(I), NEW part \in {"lower", "preferred", "all"},
           NEW i \in Trimmable(a, part)
    PROVE  /\ i \in DOMAIN a.lists /\ a.lists[i].items # <<>>
           /\ part = "lower" => i \in Lower(a)
<1>1. CASE part = "lower"
  <2>1. Trimmable(a, part) = NotEmpty(a, Lower(a))
    BY <1>1 DEF Trimmable
  <2> QED
    BY <2>1 DEF NotEmpty, Lower
<1>2. CASE part = "preferred"
  <2>1. Trimmable(a, part) = {k \in PreferredOf(a) : Len(a.lists[k].items) > 3}
    BY <1>2 DEF Trimmable
  <2>2. i \in DOMAIN a.lists /\ Len(a.lists[i].items) > 3
    BY <2>1 DEF PreferredOf
  <2> QED
    BY <1>2, <2>2
<1>3. CASE part = "all"
  <2>1. Trimmable(a, part) = NotEmpty(a, DOMAIN a.lists)
    BY <1>3 DEF Trimmable
  <2> QED
    BY <1>3, <2>1 DEF NotEmpty
<1> QED
  BY <1>1, <1>2, <1>3

(* A turn of a loop that shortens.                                         *)
Turn(b, budget, part) ==
    IF Tokens(b) > budget /\ Trimmable(b, part) # {} THEN PopLongest(b, Trimmable(b, part)) ELSE b

Spared(b, a) == \A i \in PreferredOf(a) : b.lists[i].items = a.lists[i].items

ShortEnough(b, budget, part) == Tokens(b) <= budget \/ Trimmable(b, part) = {}

(* What the loop has made of an answer, with so many items left.           *)
Shortened(b, a, I, budget, part, items) ==
    /\ b \in AnswersOf(I) /\ CutOf(b, a)
    /\ part = "lower" => Spared(b, a)
    /\ Tokens(a) <= budget => b = a
    /\ ShortEnough(b, budget, part) \/ Lengths(b) = items

(* Of numbers.                                                             *)
LEMMA NoMore == \A x, y, z \in Nat : x <= y /\ y <= z => x <= z
OBVIOUS

(* A cut of a cut is a cut.                                                *)
LEMMA CutFurther ==
    ASSUME NEW I, NEW a \in AnswersOf(I), NEW b \in AnswersOf(I), NEW c \in AnswersOf(I),
           CutOf(b, a), CutOf(c, b)
    PROVE  CutOf(c, a)
<1>1. \A x \in AnswersOf(I) : \A i \in DOMAIN x.lists : Len(x.lists[i].items) \in Nat
  <2> SUFFICES ASSUME NEW x \in AnswersOf(I), NEW i \in DOMAIN x.lists
               PROVE  Len(x.lists[i].items) \in Nat
    OBVIOUS
  <2>1. x.lists \in Seq(NamedLists(I))
    BY DEF AnswersOf
  <2>2. x.lists[i] \in NamedLists(I)
    BY <2>1
  <2>3. x.lists[i].items \in Seq(I)
    BY <2>2 DEF NamedLists
  <2> QED
    BY <2>3
<1>2. ASSUME NEW i \in DOMAIN a.lists
      PROVE  /\ c.lists[i].name = a.lists[i].name
             /\ Len(c.lists[i].items) <= Len(a.lists[i].items)
             /\ \A k \in 1..Len(c.lists[i].items) : c.lists[i].items[k] = a.lists[i].items[k]
  <2>1. i \in DOMAIN b.lists /\ i \in DOMAIN c.lists
    BY DEF CutOf
  <2>2. /\ b.lists[i].name = a.lists[i].name /\ c.lists[i].name = b.lists[i].name
        /\ Len(b.lists[i].items) <= Len(a.lists[i].items)
        /\ Len(c.lists[i].items) <= Len(b.lists[i].items)
        /\ \A k \in 1..Len(b.lists[i].items) : b.lists[i].items[k] = a.lists[i].items[k]
        /\ \A k \in 1..Len(c.lists[i].items) : c.lists[i].items[k] = b.lists[i].items[k]
    BY <2>1 DEF CutOf
  <2>3. /\ Len(a.lists[i].items) \in Nat /\ Len(b.lists[i].items) \in Nat
        /\ Len(c.lists[i].items) \in Nat
    BY <1>1, <2>1
  <2>4. 1..Len(c.lists[i].items) \subseteq 1..Len(b.lists[i].items)
    BY <2>2, <2>3
  <2>5. ASSUME NEW k \in 1..Len(c.lists[i].items) PROVE c.lists[i].items[k] = a.lists[i].items[k]
    <3>1. c.lists[i].items[k] = b.lists[i].items[k]
      BY <2>2
    <3>2. b.lists[i].items[k] = a.lists[i].items[k]
      BY <2>2, <2>4
    <3> QED
      BY <3>1, <3>2
  <2>8. Len(b.lists[i].items) <= Len(a.lists[i].items)
    BY <2>2
  <2>9. Len(c.lists[i].items) <= Len(b.lists[i].items)
    BY <2>2
  <2>6. Len(c.lists[i].items) <= Len(a.lists[i].items)
    BY <2>3, <2>8, <2>9, NoMore, Zenon
  <2>7. c.lists[i].name = a.lists[i].name
    BY <2>2
  <2> QED
    BY <2>5, <2>6, <2>7
<1> QED
  BY <1>2 DEF CutOf

(* An answer is a cut of itself.                                           *)
LEMMA CutOfItself ==
    ASSUME NEW I, NEW a \in AnswersOf(I)
    PROVE  CutOf(a, a)
<1>1. \A i \in DOMAIN a.lists : Len(a.lists[i].items) \in Nat
  <2> SUFFICES ASSUME NEW i \in DOMAIN a.lists PROVE Len(a.lists[i].items) \in Nat
    OBVIOUS
  <2>1. a.lists \in Seq(NamedLists(I))
    BY DEF AnswersOf
  <2>2. a.lists[i] \in NamedLists(I)
    BY <2>1
  <2>3. a.lists[i].items \in Seq(I)
    BY <2>2 DEF NamedLists
  <2> QED
    BY <2>3
<1> QED
  BY <1>1 DEF CutOf

(* A turn cuts an item, or the loop is at its end.                         *)
LEMMA TurnShortens ==
    ASSUME NEW I, Sized(I), NEW a \in AnswersOf(I), NEW budget \in Nat,
           NEW part \in {"lower", "preferred", "all"}, NEW items \in Int, NEW b,
           Shortened(b, a, I, budget, part, items)
    PROVE  Shortened(Turn(b, budget, part), a, I, budget, part, items - 1)
<1> DEFINE c == Turn(b, budget, part)
<1>1. b \in AnswersOf(I) /\ CutOf(b, a) /\ Tokens(b) \in Nat /\ Lengths(b) \in Nat
  BY AnswerMeasures DEF Shortened
<1>2. CASE ShortEnough(b, budget, part)
  <2>1. ~(Tokens(b) > budget /\ Trimmable(b, part) # {})
    BY <1>1, <1>2 DEF ShortEnough
  <2>2. c = b
    BY <2>1 DEF Turn
  <2> QED
    BY <1>2, <2>2 DEF Shortened
<1>3. CASE ~ShortEnough(b, budget, part)
  <2> DEFINE from == Trimmable(b, part)
  <2>1. Tokens(b) > budget /\ from # {} /\ Lengths(b) = items
    BY <1>1, <1>3 DEF ShortEnough, Shortened
  <2>2. c = PopLongest(b, from)
    BY <2>1 DEF Turn
  <2>3. from \in SUBSET (DOMAIN b.lists)
    BY <1>1, TrimmableHoldItems
  <2> HIDE DEF from
  <2>4. PICK i \in from : PopLongest(b, from) = Pop(b, i)
    BY <1>1, <2>1, <2>3, LongestIsPopped
  <2>5. i \in DOMAIN b.lists /\ b.lists[i].items # <<>> /\ (part = "lower" => i \in Lower(b))
    BY <1>1, TrimmableHoldItems DEF from
  <2>6. /\ c \in AnswersOf(I) /\ CutOf(c, b) /\ Lengths(c) = Lengths(b) - 1
        /\ \A j \in DOMAIN b.lists : j # i => c.lists[j] = b.lists[j]
    BY <1>1, <2>2, <2>4, <2>5, PopTakes
  <2> HIDE DEF c
  <2>7. CutOf(c, a)
    BY <1>1, <2>6, CutFurther
  <2>8. part = "lower" => Spared(c, a)
    <3> SUFFICES ASSUME part = "lower", NEW j \in PreferredOf(a)
                 PROVE  c.lists[j].items = a.lists[j].items
      BY DEF Spared
    <3>1. b.lists[j].items = a.lists[j].items
      BY DEF Shortened, Spared
    <3>2. j \in DOMAIN b.lists /\ b.lists[j].name = b.preferred
      BY <1>1 DEF PreferredOf, CutOf
    <3>3. i # j
      BY <2>5, <3>2 DEF Lower
    <3> QED
      BY <2>6, <3>1, <3>2, <3>3
  <2>9. ~(Tokens(a) <= budget)
    <3>1. ASSUME Tokens(a) <= budget PROVE FALSE
      <4>1. b = a
        BY <3>1 DEF Shortened
      <4> QED
        BY <1>1, <2>1, <3>1, <4>1
    <3> QED
      BY <3>1
  <2>10. Lengths(c) = items - 1
    BY <2>1, <2>6
  <2>11. Shortened(c, a, I, budget, part, items - 1)
    BY <2>6, <2>7, <2>8, <2>9, <2>10 DEF Shortened
  <2> QED
    BY <2>11 DEF c
<1> QED
  BY <1>2, <1>3

(* The loop shortens the answer until it is short enough.                  *)
LEMMA ShortenWorks ==
    ASSUME NEW I, Sized(I), NEW a \in AnswersOf(I), NEW budget \in Nat,
           NEW part \in {"lower", "preferred", "all"}
    PROVE  /\ Shortened(Shorten(a, budget, part), a, I, budget, part, 0)
           /\ ShortEnough(Shorten(a, budget, part), budget, part)
<1> DEFINE n == Lengths(a)
           A == AnswersOf(I)
           F == [b \in A |-> Turn(b, budget, part)]
           Answer == CHOOSE Answer : Answer =
                       [k \in 0..n |-> IF k = 0 THEN a ELSE Turn(Answer[k - 1], budget, part)]
<1>1. Shorten(a, budget, part) = Answer[n]
  BY DEF Shorten, Turn
<1>2. n \in Nat
  BY AnswerMeasures
<1>3. Shortened(a, a, I, budget, part, n)
  <2>1. CutOf(a, a)
    BY CutOfItself
  <2> QED
    BY <2>1 DEF Shortened, Spared
<1>4. ASSUME NEW b \in A PROVE Turn(b, budget, part) \in A
  <2> DEFINE m == Lengths(b)
  <2>1. m \in Int
    BY AnswerMeasures
  <2>2. CutOf(b, b)
    BY CutOfItself
  <2>3. Shortened(b, b, I, budget, part, m)
    BY <2>2 DEF Shortened, Spared
  <2> HIDE DEF m
  <2>4. Shortened(Turn(b, budget, part), b, I, budget, part, m - 1)
    BY <2>1, <2>3, TurnShortens
  <2> QED
    BY <2>4 DEF Shortened
<1>5. F \in [A -> A] /\ \A b \in A : F[b] = Turn(b, budget, part)
  BY <1>4
<1>6. a \in A
  OBVIOUS
<1> HIDE DEF A, F, n
<1>7. PICK f \in [0..n -> A] : Iterates(f, n, a, F)
  BY <1>2, <1>5, <1>6, IterationExists
<1>8. \A k \in 0..n : f[k] = IF k = 0 THEN a ELSE F[f[k - 1]]
  BY <1>7, Zenon DEF Iterates
<1>9. ASSUME NEW k \in 0..n PROVE f[k] = IF k = 0 THEN a ELSE Turn(f[k - 1], budget, part)
  <2>1. k # 0 => f[k - 1] \in A
    BY <1>2, <1>7
  <2> QED
    BY <1>5, <1>8, <2>1
<1>10. f = [k \in 0..n |-> f[k]]
  BY <1>7, Zenon DEF Iterates
<1>11. f = [k \in 0..n |-> IF k = 0 THEN a ELSE Turn(f[k - 1], budget, part)]
  BY <1>9, <1>10, Zenon
<1>12. Answer = [k \in 0..n |-> IF k = 0 THEN a ELSE Turn(Answer[k - 1], budget, part)]
  BY <1>11, Zenon
<1> HIDE DEF Answer
<1>13. \A k \in 0..n : Answer[k] = IF k = 0 THEN a ELSE Turn(Answer[k - 1], budget, part)
  BY <1>12, Zenon
<1>14. 0 \in 0..n /\ n \in 0..n /\ \A k \in 1..n : k \in 0..n /\ k # 0 /\ k - 1 \in 0..n /\ n - k \in Int
  BY <1>2
<1>15. Answer[0] = a /\ \A k \in 1..n : Answer[k] = Turn(Answer[k - 1], budget, part)
  BY <1>13, <1>14, Zenon
<1> DEFINE T == {k \in 0..n : Shortened(Answer[k], a, I, budget, part, n - k)}
<1>16. 0 \in T
  <2>1. n - 0 = n
    BY <1>2
  <2> QED
    BY <1>3, <1>14, <1>15, <2>1
<1>17. ASSUME NEW k \in 1..n, k - 1 \in T PROVE k \in T
  <2> DEFINE items == n - (k - 1)
             b == Answer[k - 1]
  <2>1. items \in Int /\ items - 1 = n - k
    BY <1>2
  <2>2. Shortened(b, a, I, budget, part, items)
    BY <1>17
  <2> HIDE DEF items, b
  <2>3. Shortened(Turn(b, budget, part), a, I, budget, part, items - 1)
    BY <2>1, <2>2, TurnShortens
  <2>4. Shortened(Answer[k], a, I, budget, part, n - k)
    BY <1>15, <2>1, <2>3 DEF b
  <2> QED
    BY <1>14, <2>4
<1>18. 0..n \subseteq T
  <2> HIDE DEF T
  <2> QED
    BY <1>2, <1>16, <1>17, UpTo
<1>19. Shortened(Answer[n], a, I, budget, part, 0)
  <2>1. n - n = 0
    BY <1>2
  <2>2. Shortened(Answer[n], a, I, budget, part, n - n)
    BY <1>14, <1>18
  <2> QED
    BY <2>1, <2>2
<1> DEFINE z == Answer[n]
<1>20. ShortEnough(z, budget, part)
  <2> HIDE DEF z
  <2>1. Shortened(z, a, I, budget, part, 0)
    BY <1>19 DEF z
  <2>2. z \in AnswersOf(I)
    BY <2>1 DEF Shortened
  <2>3. CASE Lengths(z) = 0
    <3>1. ASSUME NEW i \in Trimmable(z, part) PROVE FALSE
      <4>1. i \in DOMAIN z.lists /\ z.lists[i].items # <<>>
        BY <2>2, TrimmableHoldItems
      <4>2. Len(z.lists[i].items) <= 0
        BY <2>2, <2>3, <4>1, AnswerMeasures
      <4>3. z.lists \in Seq(NamedLists(I))
        BY <2>2 DEF AnswersOf
      <4>4. z.lists[i] \in NamedLists(I)
        BY <4>1, <4>3
      <4>5. z.lists[i].items \in Seq(I)
        BY <4>4 DEF NamedLists
      <4> QED
        BY <4>1, <4>2, <4>5
    <3> QED
      BY <3>1 DEF ShortEnough
  <2> QED
    BY <2>1, <2>3 DEF Shortened
<1> QED
  BY <1>1, <1>19, <1>20

(* Without texts.                                                          *)
Emptied(b, a) ==
    /\ b.preferred = a.preferred /\ b.truncated = a.truncated /\ b.source = 0
    /\ DOMAIN b.lists = DOMAIN a.lists
    /\ \A i \in DOMAIN a.lists :
          /\ b.lists[i].name = a.lists[i].name
          /\ DOMAIN b.lists[i].items = DOMAIN a.lists[i].items
          /\ Len(b.lists[i].items) = Len(a.lists[i].items)
          /\ \A k \in DOMAIN a.lists[i].items :
                b.lists[i].items[k] = [a.lists[i].items[k] EXCEPT !.text = 0]

(* _compact_envelope without the texts: the same hits, each bare.          *)
LEMMA StrippedIsEmptied ==
    ASSUME NEW I, Sized(I), NEW a \in AnswersOf(I)
    PROVE  Stripped(a) \in AnswersOf(I) /\ Emptied(Stripped(a), a)
<1> DEFINE lists == a.lists
           Of(i) == WithoutTexts(lists[i])
           after == [i \in DOMAIN lists |-> Of(i)]
           b == Stripped(a)
<1>1. b = [a EXCEPT !.source = 0, !.lists = after]
  BY DEF Stripped
<1>2. lists \in Seq(NamedLists(I))
  BY DEF AnswersOf
<1>3. \A x \in I : [x EXCEPT !.text = 0] \in I
  BY DEF Sized
<1>4. ASSUME NEW i \in DOMAIN lists
      PROVE  /\ Of(i) \in NamedLists(I) /\ Of(i).name = lists[i].name
             /\ DOMAIN Of(i).items = DOMAIN lists[i].items
             /\ Len(Of(i).items) = Len(lists[i].items)
             /\ \A k \in DOMAIN lists[i].items : Of(i).items[k] = [lists[i].items[k] EXCEPT !.text = 0]
  <2> DEFINE items == lists[i].items
             empty == [k \in DOMAIN items |-> [items[k] EXCEPT !.text = 0]]
             Item(k) == [items[k] EXCEPT !.text = 0]
  <2>1. lists[i] \in NamedLists(I)
    BY <1>2
  <2>2. items \in Seq(I) /\ DOMAIN items = 1..Len(items) /\ Len(items) \in Nat
    BY <2>1 DEF NamedLists
  <2>3. \A k \in DOMAIN items : Item(k) \in I
    BY <1>3, <2>2
  <2>4. empty = [k \in DOMAIN items |-> Item(k)]
    OBVIOUS
  <2> HIDE DEF Item
  <2>5. /\ empty \in Seq(I) /\ DOMAIN empty = DOMAIN items /\ Len(empty) = Len(items)
        /\ \A k \in DOMAIN items : empty[k] = Item(k)
    BY <2>2, <2>3, <2>4
  <2>6. Of(i) = [lists[i] EXCEPT !.items = empty]
    BY DEF WithoutTexts
  <2> HIDE DEF empty, Of
  <2>7. Of(i) \in NamedLists(I) /\ Of(i).name = lists[i].name /\ Of(i).items = empty
    BY <2>1, <2>5, <2>6 DEF NamedLists
  <2> QED
    BY <2>5, <2>7 DEF Item
<1>5. DOMAIN lists = 1..Len(lists) /\ Len(lists) \in Nat
  BY <1>2
<1> HIDE DEF Of, b
<1>6. after \in Seq(NamedLists(I)) /\ DOMAIN after = DOMAIN lists /\ \A i \in DOMAIN lists : after[i] = Of(i)
  BY <1>4, <1>5
<1> HIDE DEF after, lists
<1>7. /\ b \in AnswersOf(I) /\ b.lists = after /\ b.source = 0 /\ b.preferred = a.preferred
      /\ b.truncated = a.truncated
  BY <1>1, <1>6 DEF AnswersOf
<1>8. Emptied(b, a)
  <2> DEFINE Alike(x, y) ==
               /\ DOMAIN y = DOMAIN x
               /\ \A i \in DOMAIN x : /\ y[i].name = x[i].name
                                     /\ DOMAIN y[i].items = DOMAIN x[i].items
                                     /\ Len(y[i].items) = Len(x[i].items)
                                     /\ \A k \in DOMAIN x[i].items :
                                           y[i].items[k] = [x[i].items[k] EXCEPT !.text = 0]
  <2>1. a.lists = lists
    BY DEF lists
  <2>2. \A i \in DOMAIN lists : /\ after[i].name = lists[i].name
                                /\ DOMAIN after[i].items = DOMAIN lists[i].items
                                /\ Len(after[i].items) = Len(lists[i].items)
                                /\ \A k \in DOMAIN lists[i].items :
                                      after[i].items[k] = [lists[i].items[k] EXCEPT !.text = 0]
    BY <1>4, <1>6, Zenon
  <2>3. DOMAIN b.lists = DOMAIN a.lists /\ \A i \in DOMAIN a.lists : b.lists[i] = after[i]
    BY <2>1, <1>6, <1>7
  <2>4. Alike(a.lists, b.lists)
    <3> HIDE DEF b
    <3>1. SUFFICES ASSUME NEW i \in DOMAIN a.lists
                   PROVE  /\ b.lists[i].name = a.lists[i].name
                          /\ DOMAIN b.lists[i].items = DOMAIN a.lists[i].items
                          /\ Len(b.lists[i].items) = Len(a.lists[i].items)
                          /\ \A k \in DOMAIN a.lists[i].items :
                                b.lists[i].items[k] = [a.lists[i].items[k] EXCEPT !.text = 0]
      BY <2>3
    <3>2. b.lists[i] = after[i] /\ a.lists[i] = lists[i]
      BY <2>1, <2>3
    <3>3. /\ after[i].name = lists[i].name
          /\ DOMAIN after[i].items = DOMAIN lists[i].items
          /\ Len(after[i].items) = Len(lists[i].items)
          /\ \A k \in DOMAIN lists[i].items :
                after[i].items[k] = [lists[i].items[k] EXCEPT !.text = 0]
      BY <2>1, <2>2
    <3> QED
      BY <3>2, <3>3
  <2>5. /\ b.preferred = a.preferred /\ b.truncated = a.truncated /\ b.source = 0
    BY <1>7
  <2> HIDE DEF b
  <2> QED
    BY <2>4, <2>5, Zenon DEF Emptied
<1> QED
  BY <1>7, <1>8 DEF b

(* The sizes of the lists of an answer sum up to a number.                 *)
LEMMA SizesSumUp ==
    ASSUME NEW I, Sized(I), NEW a \in AnswersOf(I)
    PROVE  Total([i \in DOMAIN a.lists |-> SizeOf(a.lists[i].items)]) \in Nat
<1> DEFINE Size(i) == SizeOf(a.lists[i].items)
           sizes == [i \in DOMAIN a.lists |-> Size(i)]
<1>1. a.lists \in Seq(NamedLists(I))
  BY DEF AnswersOf
<1>2. \A l \in NamedLists(I) : l.items \in Seq(I)
  BY DEF NamedLists
<1>3. DOMAIN a.lists = 1..Len(a.lists) /\ Len(a.lists) \in Nat
  BY <1>1
<1>4. \A i \in DOMAIN a.lists : Size(i) \in Nat
  BY <1>1, <1>2, <1>3, SizeIsNumber
<1>5. [i \in DOMAIN a.lists |-> SizeOf(a.lists[i].items)] = sizes
  OBVIOUS
<1> HIDE DEF Size
<1>6. sizes \in Seq(Nat)
  BY <1>3, <1>4
<1> HIDE DEF sizes
<1> QED
  BY <1>5, <1>6, TotalIsNat

(* Fewer diagnostics, as far as the answer is over the budget.             *)
LEMMA DiagnosticsGo ==
    ASSUME NEW I, Sized(I), NEW a \in AnswersOf(I), NEW budget \in Nat
    PROVE  LET b == FewerDiagnostics(a, budget)
           IN  /\ b.lists = a.lists /\ b.truncated = a.truncated /\ b.source = a.source
               /\ Lengths(b) = Lengths(a)
               /\ Tokens(b) > budget => ~(Tokens(a) <= budget) /\ Len(b.diagnostics) <= 1
<1> DEFINE list == a.diagnostics
           n    == Len(list)
           over == Max({0, Tokens(a) - budget})
           some == Min({1, n})
           m    == Max({some, n - over})
           left == FirstOf(list, m)
           b    == FewerDiagnostics(a, budget)
           total == Total([i \in DOMAIN a.lists |-> SizeOf(a.lists[i].items)])
           size == BaseSize + a.body + a.source + a.rendered + total
<1>1. b = [a EXCEPT !.diagnostics = left]
  BY DEF FewerDiagnostics
<1>2. list \in Seq(AnswerCodes) /\ n \in Nat
  BY DEF AnswersOf
<1>3. Tokens(a) \in Nat
  BY AnswerMeasures
<1> DEFINE much == Tokens(a) - budget
<1>4. much \in Int
  BY <1>3
<1>5. over = IF 0 >= much THEN 0 ELSE much
  <2> HIDE DEF much
  <2>1. 0 \in Int
    OBVIOUS
  <2>2. Max({0, much}) = IF 0 >= much THEN 0 ELSE much
    BY <1>4, <2>1, OfTwo
  <2> QED
    BY <2>2 DEF much
<1>6. some = IF 1 <= n THEN 1 ELSE n
  <2>1. 1 \in Int /\ n \in Int
    BY <1>2
  <2> HIDE DEF n
  <2> QED
    BY <2>1, OfTwo
<1> HIDE DEF over, some
<1>7. over \in Nat /\ some \in Nat /\ some <= n /\ some <= 1
  BY <1>2, <1>4, <1>5, <1>6
<1>8. m = IF some >= n - over THEN some ELSE n - over
  <2> DEFINE rest == n - over
  <2>1. some \in Int /\ rest \in Int
    BY <1>2, <1>7
  <2> HIDE DEF rest
  <2>2. Max({some, rest}) = IF some >= rest THEN some ELSE rest
    BY <2>1, OfTwo
  <2> QED
    BY <2>2 DEF rest
<1> HIDE DEF m
<1>9. m \in Nat /\ m <= n /\ (m <= 1 \/ m = n - over)
  BY <1>2, <1>7, <1>8
<1>10. left \in Seq(AnswerCodes) /\ Len(left) = m
  BY <1>2, <1>9, FirstOfList
<1> HIDE DEF left, b
<1>11. /\ b.lists = a.lists /\ b.truncated = a.truncated /\ b.source = a.source
       /\ b.body = a.body /\ b.rendered = a.rendered /\ b.diagnostics = left
  BY <1>1 DEF AnswersOf
<1>12. Lengths(b) = Lengths(a)
  BY <1>11 DEF Lengths
<1>13. size \in Nat
  <2>1. a.body \in Nat /\ a.source \in Nat /\ a.rendered \in Nat
    BY DEF AnswersOf
  <2>2. total \in Nat
    BY SizesSumUp
  <2> HIDE DEF total
  <2> QED
    BY <2>1, <2>2 DEF BaseSize
<1>14. Tokens(a) = size + n /\ Tokens(b) = size + m
  <2>1. Tokens(a) = BaseSize + a.body + a.source + a.rendered + Len(a.diagnostics) + total
    BY DEF Tokens
  <2>2. Tokens(b) = BaseSize + a.body + a.source + a.rendered + Len(left) + total
    BY <1>11 DEF Tokens
  <2>5. a.body \in Nat /\ a.source \in Nat /\ a.rendered \in Nat
    BY DEF AnswersOf
  <2>3. total \in Nat
    BY SizesSumUp
  <2> HIDE DEF total, n
  <2>4. n \in Int /\ m \in Int /\ Len(left) = m /\ Len(a.diagnostics) = n
    BY <1>2, <1>9, <1>10 DEF n
  <2> QED
    BY <2>1, <2>2, <2>3, <2>4, <2>5 DEF BaseSize
<1> HIDE DEF size, n
<1>15. ASSUME Tokens(b) > budget PROVE ~(Tokens(a) <= budget) /\ m <= 1
  <2>1. size + m > budget
    BY <1>14, <1>15
  <2>6. Tokens(a) = size + n
    BY <1>14
  <2>2. Tokens(a) = size + n /\ much = size + n - budget
    BY <1>2, <1>13, <2>6
  <2>3. ~(size + n <= budget)
    BY <1>2, <1>9, <1>13, <2>1
  <2>4. over = size + n - budget
    BY <1>2, <1>5, <1>13, <2>2, <2>3
  <2>5. m # n - over
    BY <1>2, <1>9, <1>13, <2>1, <2>4
  <2> QED
    BY <1>9, <2>2, <2>3, <2>5
<1> QED
  BY <1>10, <1>11, <1>12, <1>15 DEF b

(* The stages of a compaction.                                             *)
Compaction(w, f, g, h, l, budget, I) ==
    /\ w \in AnswersOf(I) /\ f \in AnswersOf(I) /\ g \in AnswersOf(I) /\ h \in AnswersOf(I)
    /\ l \in AnswersOf(I)
    /\ CutOf(f, w) /\ Spared(f, w) /\ ShortEnough(f, budget, "lower")
    /\ CutOf(g, f) /\ (Tokens(f) <= budget => g = f) /\ ShortEnough(g, budget, "preferred")
    /\ \/ Tokens(g) <= budget /\ h = g
       \/ ~(Tokens(g) <= budget) /\ Emptied(h, g)
    /\ CutOf(l, h) /\ (Tokens(h) <= budget => l = h) /\ ShortEnough(l, budget, "all")

(* An answer over the budget goes through them.                            *)
LEMMA CompactionExists ==
    ASSUME NEW I, Sized(I), NEW a \in AnswersOf(I), NEW budget \in Nat, ~(Tokens(a) <= budget)
    PROVE  \E w, f, g, h, l :
              /\ Compaction(w, f, g, h, l, budget, I)
              /\ w.lists = a.lists /\ w.preferred = a.preferred /\ w.truncated
              /\ Compacted(a, budget) = FewerDiagnostics(l, budget)
<1> DEFINE notes == Append(a.diagnostics, "RESULT_TRUNCATED")
           w == [a EXCEPT !.truncated = TRUE, !.rendered = 0, !.diagnostics = notes]
           f == Shorten(w, budget, "lower")
           g == Shorten(f, budget, "preferred")
           h == IF Tokens(g) > budget THEN Stripped(g) ELSE g
           l == Shorten(h, budget, "all")
<1>1. notes \in Seq(AnswerCodes)
  <2>1. a.diagnostics \in Seq(AnswerCodes)
    BY DEF AnswersOf
  <2>2. "RESULT_TRUNCATED" \in AnswerCodes
    BY DEF AnswerCodes
  <2> QED
    BY <2>1, <2>2
<1>2. w = [a EXCEPT !.truncated = TRUE, !.rendered = 0, !.diagnostics = Append(@, "RESULT_TRUNCATED")]
  BY DEF AnswersOf
<1>3. Compacted(a, budget) = FewerDiagnostics(l, budget)
  BY <1>2 DEF Compacted
<1> HIDE DEF notes
<1>4. w \in AnswersOf(I) /\ w.lists = a.lists /\ w.preferred = a.preferred /\ w.truncated
  BY <1>1 DEF AnswersOf
<1> HIDE DEF w
<1>5. Shortened(f, w, I, budget, "lower", 0) /\ ShortEnough(f, budget, "lower")
  <2> DEFINE part == "lower"
  <2>1. part \in {"lower", "preferred", "all"}
    OBVIOUS
  <2> HIDE DEF part
  <2>2. Shortened(Shorten(w, budget, part), w, I, budget, part, 0) /\ ShortEnough(Shorten(w, budget, part), budget, part)
    BY <1>4, <2>1, ShortenWorks
  <2> QED
    BY <2>2 DEF part
<1> HIDE DEF f
<1>6. f \in AnswersOf(I) /\ CutOf(f, w) /\ Spared(f, w)
  BY <1>5 DEF Shortened
<1>7. Shortened(g, f, I, budget, "preferred", 0) /\ ShortEnough(g, budget, "preferred")
  <2> DEFINE part == "preferred"
  <2>1. part \in {"lower", "preferred", "all"}
    OBVIOUS
  <2> HIDE DEF part
  <2>2. Shortened(Shorten(f, budget, part), f, I, budget, part, 0) /\ ShortEnough(Shorten(f, budget, part), budget, part)
    BY <1>6, <2>1, ShortenWorks
  <2> QED
    BY <2>2 DEF part
<1> HIDE DEF g
<1>8. g \in AnswersOf(I) /\ CutOf(g, f) /\ (Tokens(f) <= budget => g = f)
  BY <1>7 DEF Shortened
<1>9. Tokens(g) \in Nat /\ Stripped(g) \in AnswersOf(I) /\ Emptied(Stripped(g), g)
  BY <1>8, AnswerMeasures, StrippedIsEmptied
<1>10. /\ h \in AnswersOf(I)
       /\ \/ Tokens(g) <= budget /\ h = g
          \/ ~(Tokens(g) <= budget) /\ Emptied(h, g)
  <2>1. CASE Tokens(g) > budget
    <3>1. h = Stripped(g) /\ ~(Tokens(g) <= budget)
      BY <1>9, <2>1
    <3> HIDE DEF h
    <3> QED
      BY <1>9, <3>1
  <2>2. CASE ~(Tokens(g) > budget)
    <3>1. h = g /\ Tokens(g) <= budget
      BY <1>9, <2>2
    <3> HIDE DEF h
    <3>2. h \in AnswersOf(I)
      BY <1>8, <3>1
    <3>3. Tokens(g) <= budget /\ h = g
      BY <3>1
    <3> QED
      BY <3>2, <3>3, Zenon
  <2> QED
    BY <2>1, <2>2
<1> HIDE DEF h
<1>11. Shortened(l, h, I, budget, "all", 0) /\ ShortEnough(l, budget, "all")
  <2> DEFINE part == "all"
  <2>1. part \in {"lower", "preferred", "all"}
    OBVIOUS
  <2> HIDE DEF part
  <2>2. Shortened(Shorten(h, budget, part), h, I, budget, part, 0) /\ ShortEnough(Shorten(h, budget, part), budget, part)
    BY <1>10, <2>1, ShortenWorks
  <2> QED
    BY <2>2 DEF part
<1> HIDE DEF l
<1>12. l \in AnswersOf(I) /\ CutOf(l, h) /\ (Tokens(h) <= budget => l = h)
  BY <1>11 DEF Shortened
<1>13. Compaction(w, f, g, h, l, budget, I)
  BY <1>4, <1>5, <1>6, <1>7, <1>8, <1>10, <1>11, <1>12 DEF Compaction
<1> QED
  BY <1>3, <1>4, <1>13

(* The lists of an answer.                                                 *)
LEMMA ItemsAreListed ==
    ASSUME NEW I, NEW a \in AnswersOf(I), NEW i \in DOMAIN a.lists
    PROVE  a.lists[i].items \in Seq(I) /\ Len(a.lists[i].items) \in Nat
           /\ DOMAIN a.lists[i].items = 1..Len(a.lists[i].items)
<1>1. a.lists \in Seq(NamedLists(I))
  BY DEF AnswersOf
<1>2. a.lists[i] \in NamedLists(I)
  BY <1>1
<1>3. a.lists[i].items \in Seq(I)
  BY <1>2 DEF NamedLists
<1> QED
  BY <1>3

(* What is left of a list.                                                 *)
LeftOf(l, w) ==
    /\ DOMAIN l.lists = DOMAIN w.lists
    /\ \A i \in DOMAIN w.lists : \A k \in DOMAIN l.lists[i].items :
          l.lists[i].items[k] \in {w.lists[i].items[k], [w.lists[i].items[k] EXCEPT !.text = 0]}

(* Every hit of a compacted answer is one of the whole answer at its place *)
(* in the list, with or without its text.                                  *)
LEMMA CompactionLeaves ==
    ASSUME NEW I, NEW w, NEW f, NEW g, NEW h, NEW l, NEW budget,
           Compaction(w, f, g, h, l, budget, I)
    PROVE  LeftOf(l, w)
<1>1. /\ w \in AnswersOf(I) /\ f \in AnswersOf(I) /\ g \in AnswersOf(I) /\ h \in AnswersOf(I)
      /\ l \in AnswersOf(I) /\ CutOf(f, w) /\ CutOf(g, f) /\ CutOf(l, h)
      /\ h = g \/ Emptied(h, g)
  BY DEF Compaction
<1>2. CutOf(g, w)
  BY <1>1, CutFurther
<1>3. DOMAIN g.lists = DOMAIN w.lists /\ DOMAIN h.lists = DOMAIN g.lists /\ DOMAIN l.lists = DOMAIN h.lists
  BY <1>1, <1>2 DEF CutOf, Emptied
<1>4. ASSUME NEW i \in DOMAIN w.lists, NEW k \in DOMAIN l.lists[i].items
      PROVE  l.lists[i].items[k] \in {w.lists[i].items[k], [w.lists[i].items[k] EXCEPT !.text = 0]}
  <2> DEFINE wi == w.lists[i].items
             gi == g.lists[i].items
             hi == h.lists[i].items
             li == l.lists[i].items
  <2>1. /\ gi \in Seq(I) /\ DOMAIN gi = 1..Len(gi) /\ hi \in Seq(I) /\ DOMAIN hi = 1..Len(hi)
        /\ li \in Seq(I) /\ DOMAIN li = 1..Len(li)
    BY <1>1, <1>3, ItemsAreListed
  <2>2. Len(li) <= Len(hi) /\ \A n \in 1..Len(li) : li[n] = hi[n]
    BY <1>1, <1>3 DEF CutOf
  <2>3. \A n \in 1..Len(gi) : gi[n] = wi[n]
    BY <1>2 DEF CutOf
  <2>4. \/ h = g
        \/ DOMAIN hi = DOMAIN gi /\ \A n \in DOMAIN gi : hi[n] = [gi[n] EXCEPT !.text = 0]
    BY <1>1, <1>3 DEF Emptied
  <2>5. h = g => hi = gi
    OBVIOUS
  <2> HIDE DEF wi, gi, hi, li
  <2>6. k \in 1..Len(li) /\ k \in 1..Len(hi)
    <3>1. k \in DOMAIN li
      BY DEF li
    <3>2. Len(li) \in Nat /\ Len(hi) \in Nat
      BY <2>1
    <3> QED
      BY <2>1, <2>2, <3>1, <3>2
  <2>7. k \in DOMAIN gi
    BY <2>1, <2>4, <2>5, <2>6
  <2>8. li[k] = hi[k] /\ gi[k] = wi[k]
    BY <2>1, <2>2, <2>3, <2>6, <2>7
  <2>9. hi[k] = gi[k] \/ hi[k] = [gi[k] EXCEPT !.text = 0]
    BY <2>4, <2>5, <2>7
  <2>10. li[k] \in {wi[k], [wi[k] EXCEPT !.text = 0]}
    BY <2>8, <2>9
  <2> QED
    BY <2>10 DEF li, wi
<1> QED
  BY <1>3, <1>4 DEF LeftOf

(* An answer that still is over the budget has no items.                   *)
LEMMA CompactionEnds ==
    ASSUME NEW I, Sized(I), NEW w, NEW f, NEW g, NEW h, NEW l, NEW budget \in Nat,
           Compaction(w, f, g, h, l, budget, I), ~(Tokens(l) <= budget)
    PROVE  Lengths(l) = 0 /\ l.source = 0
<1>1. l \in AnswersOf(I) /\ ShortEnough(l, budget, "all")
  BY DEF Compaction
<1>2. NotEmpty(l, DOMAIN l.lists) = {}
  BY <1>1 DEF ShortEnough, Trimmable
<1>3. \A i \in DOMAIN l.lists : l.lists[i].items = <<>>
  BY <1>2 DEF NotEmpty
<1>4. Lengths(l) = 0
  BY <1>1, <1>3, AnswerMeasures
<1>5. ~(Tokens(h) <= budget)
  BY DEF Compaction
<1>6. Emptied(h, g)
  BY <1>5 DEF Compaction
<1>7. l.source = h.source
  BY DEF Compaction, CutOf
<1> QED
  BY <1>4, <1>6, <1>7 DEF Emptied

(* The preferred list is cut last.                                         *)
PreferredKept(l, w) ==
    \A i \in PreferredOf(w) :
        LET li == l.lists[i].items
            wi == w.lists[i].items
        IN  /\ li = wi \/ \A j \in Lower(w) : l.lists[j].items = <<>>
            /\ Len(li) <= 3 \/ \A k \in DOMAIN li : li[k] = wi[k]

(* The preferred list loses a hit only when the others have none left, and *)
(* keeps the texts of its hits while more than three are left.             *)
LEMMA PreferredIsKept ==
    ASSUME NEW I, NEW w, NEW f, NEW g, NEW h, NEW l, NEW budget,
           Compaction(w, f, g, h, l, budget, I)
    PROVE  PreferredKept(l, w)
<1>1. /\ w \in AnswersOf(I) /\ f \in AnswersOf(I) /\ g \in AnswersOf(I) /\ h \in AnswersOf(I)
      /\ l \in AnswersOf(I) /\ CutOf(f, w) /\ CutOf(g, f) /\ CutOf(l, h) /\ Spared(f, w)
      /\ h = g \/ Emptied(h, g)
  BY DEF Compaction
<1>2. CutOf(g, w)
  BY <1>1, CutFurther
<1>3. /\ DOMAIN f.lists = DOMAIN w.lists /\ DOMAIN g.lists = DOMAIN w.lists
      /\ DOMAIN h.lists = DOMAIN w.lists /\ DOMAIN l.lists = DOMAIN w.lists
      /\ f.preferred = w.preferred /\ g.preferred = w.preferred
      /\ \A i \in DOMAIN w.lists : f.lists[i].name = w.lists[i].name /\ g.lists[i].name = w.lists[i].name
  BY <1>1, <1>2 DEF CutOf, Emptied
<1>4. PreferredOf(f) = PreferredOf(w) /\ Lower(f) = Lower(w) /\ PreferredOf(g) = PreferredOf(w)
  BY <1>3 DEF PreferredOf, Lower
<1>5. \A j \in DOMAIN w.lists :
         /\ Len(l.lists[j].items) <= Len(h.lists[j].items)
         /\ Len(h.lists[j].items) = Len(g.lists[j].items)
         /\ Len(g.lists[j].items) <= Len(f.lists[j].items)
  BY <1>1, <1>3 DEF CutOf, Emptied
<1>6. \A j \in DOMAIN w.lists :
         /\ f.lists[j].items \in Seq(I) /\ Len(f.lists[j].items) \in Nat
         /\ g.lists[j].items \in Seq(I) /\ Len(g.lists[j].items) \in Nat
         /\ h.lists[j].items \in Seq(I) /\ Len(h.lists[j].items) \in Nat
         /\ l.lists[j].items \in Seq(I) /\ Len(l.lists[j].items) \in Nat
         /\ DOMAIN l.lists[j].items = 1..Len(l.lists[j].items)
  BY <1>1, <1>3, ItemsAreListed
<1>7. ASSUME NEW i \in PreferredOf(w)
      PROVE  l.lists[i].items = w.lists[i].items \/ \A j \in Lower(w) : l.lists[j].items = <<>>
  <2>1. CASE Tokens(f) <= budget
    <3>1. g = f
      BY <2>1 DEF Compaction
    <3>2. h = g
      BY <2>1, <3>1 DEF Compaction
    <3>3. l = h
      BY <2>1, <3>1, <3>2 DEF Compaction
    <3>4. f.lists[i].items = w.lists[i].items
      BY <1>1 DEF Spared
    <3> QED
      BY <3>1, <3>2, <3>3, <3>4
  <2>2. CASE ~(Tokens(f) <= budget)
    <3>1. ShortEnough(f, budget, "lower")
      BY DEF Compaction
    <3>2. NotEmpty(f, Lower(f)) = {}
      BY <2>2, <3>1 DEF ShortEnough, Trimmable
    <3>3. ASSUME NEW j \in Lower(w) PROVE l.lists[j].items = <<>>
      <4>1. j \in DOMAIN w.lists
        BY DEF Lower
      <4>2. f.lists[j].items = <<>>
        BY <1>4, <3>2 DEF NotEmpty
      <4> DEFINE lj == l.lists[j].items
                 gj == g.lists[j].items
                 hj == h.lists[j].items
                 fj == f.lists[j].items
      <4>3. /\ lj \in Seq(I) /\ Len(lj) \in Nat /\ Len(hj) \in Nat /\ Len(gj) \in Nat
            /\ Len(lj) <= Len(hj) /\ Len(hj) = Len(gj) /\ Len(gj) <= Len(fj) /\ fj = <<>>
        BY <1>5, <1>6, <4>1, <4>2
      <4> HIDE DEF lj, gj, hj, fj
      <4>4. Len(fj) = 0
        BY <4>3
      <4>5. Len(lj) = 0
        BY <4>3, <4>4
      <4>6. lj = <<>>
        BY <4>3, <4>5
      <4> QED
        BY <4>6 DEF lj
    <3> QED
      BY <3>3
  <2> QED
    BY <2>1, <2>2
<1>8. ASSUME NEW i \in PreferredOf(w)
      PROVE  \/ Len(l.lists[i].items) <= 3
             \/ \A k \in DOMAIN l.lists[i].items : l.lists[i].items[k] = w.lists[i].items[k]
  <2>1. i \in DOMAIN w.lists
    BY DEF PreferredOf
  <2> DEFINE wi == w.lists[i].items
             gi == g.lists[i].items
             hi == h.lists[i].items
             li == l.lists[i].items
  <2>2. /\ Len(li) \in Nat /\ Len(hi) \in Nat /\ Len(gi) \in Nat /\ DOMAIN li = 1..Len(li)
        /\ Len(li) <= Len(hi) /\ Len(hi) = Len(gi)
    BY <1>5, <1>6, <2>1
  <2>3. CASE Tokens(g) <= budget
    <3>1. h = g
      BY <2>3 DEF Compaction
    <3>2. l = h
      BY <2>3, <3>1 DEF Compaction
    <3>3. \A k \in 1..Len(gi) : gi[k] = wi[k]
      BY <1>2, <2>1 DEF CutOf
    <3>4. li = gi
      BY <3>1, <3>2
    <3> HIDE DEF li, gi, wi
    <3>5. \A k \in DOMAIN li : li[k] = wi[k]
      BY <2>2, <3>3, <3>4
    <3> QED
      BY <3>5 DEF li, wi
  <2>4. CASE ~(Tokens(g) <= budget)
    <3>1. ShortEnough(g, budget, "preferred")
      BY DEF Compaction
    <3>2. {k \in PreferredOf(g) : Len(g.lists[k].items) > 3} = {}
      BY <2>4, <3>1 DEF ShortEnough, Trimmable
    <3>3. ~(Len(gi) > 3)
      BY <1>4, <3>2
    <3> HIDE DEF li, hi, gi
    <3>4. Len(li) <= 3
      BY <2>2, <3>3
    <3> QED
      BY <3>4 DEF li
  <2> QED
    BY <2>3, <2>4
<1> QED
  BY <1>7, <1>8 DEF PreferredKept

(* A compacted answer keeps the best.                                      *)
LEMMA CompactedKeepsBest ==
    ASSUME NEW I, Sized(I), NEW a \in AnswersOf(I), NEW budget \in Nat
    PROVE  KeepsBest(Compacted(a, budget), a, budget)
<1> DEFINE b == Compacted(a, budget)
           Kept(i) == b.lists[i].items
           Was(i)  == a.lists[i].items
           Intact(i) == \A k \in DOMAIN Kept(i) : Kept(i)[k] = Was(i)[k]
<1>1. Tokens(a) \in Nat
  BY AnswerMeasures
<1>2. \A i \in DOMAIN a.lists : Len(Was(i)) \in Nat /\ ~(Len(Was(i)) < Min({3, Len(Was(i))}))
  <2> SUFFICES ASSUME NEW i \in DOMAIN a.lists
               PROVE  Len(Was(i)) \in Nat /\ ~(Len(Was(i)) < Min({3, Len(Was(i))}))
    OBVIOUS
  <2> DEFINE n == Len(Was(i))
  <2>1. n \in Nat
    BY ItemsAreListed
  <2> HIDE DEF n
  <2>2. 3 \in Int /\ n \in Int
    BY <2>1
  <2>3. Min({3, n}) = IF 3 <= n THEN 3 ELSE n
    BY <2>2, OfTwo
  <2>4. ~(n < Min({3, n}))
    BY <2>1, <2>3
  <2> QED
    BY <2>1, <2>4 DEF n
<1>3. CASE Tokens(a) <= budget
  <2>1. b = a
    BY <1>3 DEF Compacted
  <2>2. \A i \in DOMAIN a.lists : Kept(i) = Was(i) /\ Intact(i)
    BY <2>1
  <2>3. \A i \in PreferredOf(a) : i \in DOMAIN a.lists
    BY DEF PreferredOf
  <2>4. ~(Tokens(b) > budget) /\ ~(Tokens(a) > budget)
    BY <1>1, <1>3, <2>1
  <2> HIDE DEF b
  <2>5. \A i \in DOMAIN a.lists : \A k \in DOMAIN Kept(i) :
           Kept(i)[k] \in {Was(i)[k], [Was(i)[k] EXCEPT !.text = 0]}
    BY <2>2
  <2>6. \A i \in PreferredOf(a) : ~(Len(Kept(i)) < Min({3, Len(Was(i))})) /\ Intact(i)
    BY <1>2, <2>2, <2>3
  <2>7. KeepsBest(b, a, budget)
    BY <2>1, <2>4, <2>5, <2>6 DEF KeepsBest
  <2> QED
    BY <2>7 DEF b
<1>4. CASE ~(Tokens(a) <= budget)
  <2>1. PICK w, f, g, h, l :
           /\ Compaction(w, f, g, h, l, budget, I)
           /\ w.lists = a.lists /\ w.preferred = a.preferred /\ w.truncated
           /\ b = FewerDiagnostics(l, budget)
    BY <1>4, CompactionExists
  <2>2. l \in AnswersOf(I)
    BY <2>1 DEF Compaction
  <2> HIDE DEF b
  <2>3. /\ b.lists = l.lists /\ b.truncated = l.truncated /\ b.source = l.source
        /\ Lengths(b) = Lengths(l)
        /\ Tokens(b) > budget => ~(Tokens(l) <= budget) /\ Len(b.diagnostics) <= 1
    BY <2>1, <2>2, DiagnosticsGo
  <2>4. Tokens(b) > budget => Lengths(l) = 0 /\ l.source = 0
    BY <2>1, <2>3, CompactionEnds
  <2>5. l.truncated = w.truncated
    BY <2>1 DEF Compaction, CutOf, Emptied
  <2>6. LeftOf(l, w) /\ PreferredKept(l, w)
    BY <2>1, CompactionLeaves, PreferredIsKept
  <2>7. PreferredOf(a) = PreferredOf(w) /\ Lower(a) = Lower(w)
    BY <2>1 DEF PreferredOf, Lower
  <2>8. \A i \in DOMAIN a.lists : \A k \in DOMAIN Kept(i) :
           Kept(i)[k] \in {Was(i)[k], [Was(i)[k] EXCEPT !.text = 0]}
    BY <2>1, <2>3, <2>6 DEF LeftOf
  <2>9. ASSUME NEW i \in PreferredOf(a)
        PROVE  /\ Len(Kept(i)) < Min({3, Len(Was(i))}) \/ ~Intact(i) =>
                      \A j \in Lower(a) : Kept(j) = <<>>
               /\ ~Intact(i) => Len(Kept(i)) <= 3
    <3>1. i \in DOMAIN a.lists
      BY DEF PreferredOf
    <3>2. Kept(i) = Was(i) \/ \A j \in Lower(a) : Kept(j) = <<>>
      BY <2>1, <2>3, <2>6, <2>7 DEF PreferredKept
    <3>3. Len(Kept(i)) <= 3 \/ Intact(i)
      BY <2>1, <2>3, <2>6, <2>7 DEF PreferredKept
    <3>4. Kept(i) = Was(i) => ~(Len(Kept(i)) < Min({3, Len(Was(i))})) /\ Intact(i)
      BY <1>2, <3>1
    <3> QED
      BY <3>2, <3>3, <3>4
  <2>10. ~(Tokens(a) <= budget) /\ b.truncated
    BY <1>4, <2>1, <2>3, <2>5
  <2>11. Tokens(b) > budget => Lengths(b) = 0 /\ b.source = 0 /\ Len(b.diagnostics) <= 1
    BY <2>3, <2>4
  <2>12. KeepsBest(b, a, budget)
    BY <2>8, <2>9, <2>10, <2>11 DEF KeepsBest
  <2> QED
    BY <2>12 DEF b
<1> QED
  BY <1>3, <1>4

-----------------------------------------------------------------------------
(* The map of the repository.                                              *)

(* Of several numbers one square is the last not above another.            *)
LEMMA RootIsNumber ==
    ASSUME NEW rank \in Nat, rank >= 1
    PROVE  RootOf(rank) \in Int
<1> DEFINE S == {n \in Nat : (n + 1) * (n + 1) * rank > 2400 * 2400}
<1>1. \A k \in Nat : k * rank \in Nat /\ k * rank >= k
  <2> TAKE k \in Nat
  <2>1. rank * k >= 1 * k
    BY Multiplied
  <2>2. rank * k = k * rank /\ k * rank \in Nat
    OBVIOUS
  <2> QED
    BY <2>1, <2>2
<1>2. 2400 \in S
  <2>1. PICK k \in Nat : k = 2401 * 2401
    OBVIOUS
  <2>2. k * rank >= k /\ k > 2400 * 2400 /\ k * rank \in Nat
    BY <1>1, <2>1
  <2>3. k * rank > 2400 * 2400
    BY <2>1, <2>2
  <2> QED
    BY <2>1, <2>3
<1>3. S \in SUBSET Nat /\ S # {}
  BY <1>2
<1>4. \A n \in Nat : n \in S <=> (n + 1) * (n + 1) * rank > 2400 * 2400
  OBVIOUS
<1> HIDE DEF S
<1>5. PICK m \in S : \A n \in S : m <= n
  BY <1>3, LeastNumber
<1>6. m \in 0..2400 /\ m \in Nat
  BY <1>2, <1>3, <1>5
<1>7. (m + 1) * (m + 1) * rank > 2400 * 2400
  BY <1>4, <1>5, <1>6
<1>8. m * m * rank <= 2400 * 2400
  <2>1. CASE m = 0
    <3>1. m * m * rank = 0
      BY <2>1
    <3> QED
      BY <3>1
  <2>2. CASE m # 0
    <3>1. PICK n \in Nat : n + 1 = m
      BY <1>6, <2>2
    <3>2. n \notin S
      BY <1>5, <1>6, <3>1
    <3>3. ~((n + 1) * (n + 1) * rank > 2400 * 2400)
      BY <1>4, <3>2
    <3>4. m * m * rank \in Int /\ ~(m * m * rank > 2400 * 2400)
      BY <1>6, <3>1, <3>3
    <3> QED
      BY <3>4
  <2> QED
    BY <2>1, <2>2
<1> DEFINE D == 0..2400
           IsLast(n) == n * n * rank <= 2400 * 2400 /\ (n + 1) * (n + 1) * rank > 2400 * 2400
<1>9. m \in D /\ IsLast(m)
  BY <1>6, <1>7, <1>8
<1>10. RootOf(rank) = CHOOSE n \in D : IsLast(n)
  BY DEF RootOf
<1>11. D \subseteq Int
  OBVIOUS
<1> HIDE DEF D, IsLast
<1>12. RootOf(rank) \in D
  BY <1>9, <1>10
<1> QED
  BY <1>11, <1>12

(* The entries of a map.                                                   *)
MapEntries == [path : Nat, score : Int, tokens : Nat]

(* What is listed in a map, and what may be.                               *)
MapsOf(E) == [left : SUBSET E, taken : Seq(MapEntries), used : Nat]

(* An entry of a file.                                                     *)
LEMMA EntryOfFile ==
    ASSUME SearchRepoAssumption, NEW files, FilesOK(files), NEW p \in SitePaths,
           NEW S, NEW focus \in Seq(S)
    PROVE  MapEntry(p, files, focus) \in MapEntries
<1> DEFINE n == Cardinality(SymbolsIn(files[p]))
           focused == FocusScore(p, focus)
           ranks == {i \in DOMAIN focus : focus[i].path = p}
<1>1. n \in Nat
  <2>1. IsFiniteSet(files[p].rows)
    BY DEF FilesOK
  <2>2. SymbolsIn(files[p]) \in SUBSET files[p].rows
    BY DEF SymbolsIn
  <2>3. IsFiniteSet(SymbolsIn(files[p]))
    BY <2>1, <2>2, FS_Subset
  <2> QED
    BY <2>3, FS_CardinalityType
<1>2. focused \in Int
  <2>1. ranks \in SUBSET Nat /\ \A i \in ranks : i >= 1
    OBVIOUS
  <2>2. focused = IF ranks = {} THEN 0 ELSE RootOf(Min(ranks))
    BY DEF FocusScore
  <2> HIDE DEF ranks, focused
  <2>3. CASE ranks = {}
    BY <2>2, <2>3
  <2>4. CASE ranks # {}
    <3>1. PICK m \in ranks : \A k \in ranks : m <= k
      BY <2>1, <2>4, LeastNumber
    <3>2. Min(ranks) \in ranks
      BY <3>1 DEF Min
    <3>3. RootOf(Min(ranks)) \in Int
      BY <2>1, <3>2, RootIsNumber
    <3> QED
      BY <2>2, <2>4, <3>3
  <2> QED
    BY <2>3, <2>4
<1>3. p \in Nat
  BY DEF SearchRepoAssumption
<1>4. MapEntry(p, files, focus) = [path |-> p, score |-> 100 * (1 + n) + focused, tokens |-> 1 + n]
  BY DEF MapEntry
<1> HIDE DEF n, focused
<1>5. 100 * (1 + n) + focused \in Int /\ 1 + n \in Nat
  BY <1>1, <1>2
<1> QED
  BY <1>3, <1>4, <1>5 DEF MapEntries

(* Of several entries one is next.                                         *)
LEMMA EntryIsNext ==
    ASSUME NEW E \in SUBSET MapEntries, IsFiniteSet(E), E # {}, NEW map,
           map.taken \in Seq(MapEntries), NEW focused
    PROVE  \E e \in E : \A o \in E : ~Ahead(o, e, map, focused)
<1> DEFINE R == {p \in E \X E : Ahead(p[1], p[2], map, focused)}
           F == {p \in E \X E : p[1].path < p[2].path}
           sc == [e \in E |-> e.score]
           w  == [e \in E |-> Spread(e.path, map, focused)]
<1>1. ASSUME NEW path PROVE Spread(path, map, focused) \in Nat /\ Spread(path, map, focused) > 0
  <2> DEFINE S == {e \in Range(map.taken) : Region(e.path, focused) = Region(path, focused)}
             k == IF focused THEN 1 ELSE 4
             n == Cardinality(S)
  <2>1. IsFiniteSet(Range(map.taken))
    BY ListedIsFinite
  <2>2. S \in SUBSET Range(map.taken) /\ k \in Nat /\ Spread(path, map, focused) = 10 + k * n
    BY DEF Spread
  <2> HIDE DEF S, k
  <2>3. IsFiniteSet(S)
    BY <2>1, <2>2, FS_Subset
  <2>4. n \in Nat
    BY <2>3, FS_CardinalityType
  <2> HIDE DEF n
  <2>5. k * n \in Nat
    BY <2>2, <2>4
  <2> QED
    BY <2>2, <2>5
<1>2. \A a, b \in E : <<a, b>> \in R <=>
               \/ sc[a] * w[b] > sc[b] * w[a]
               \/ sc[a] * w[b] = sc[b] * w[a] /\ <<a, b>> \in F
  BY DEF Ahead
<1>3. \A e \in E : e.score \in Int /\ e.path \in Nat
  BY DEF MapEntries
<1>4. sc \in [E -> Int] /\ w \in [E -> Nat] /\ \A e \in E : w[e] > 0
  BY <1>1, <1>3
<1>5. StrictOrder(F, E)
  <2>1. \A a, b \in E : <<a, b>> \in F <=> a.path < b.path
    OBVIOUS
  <2> HIDE DEF F
  <2> QED
    BY <1>3, <2>1 DEF StrictOrder
<1>6. \A a, b \in E : <<a, b>> \in R <=> Ahead(a, b, map, focused)
  OBVIOUS
<1> HIDE DEF R, F, sc, w
<1>7. ByRatio(R, E, sc, w, F)
  BY <1>2, <1>4, Zenon DEF ByRatio
<1>8. StrictOrder(R, E)
  BY <1>5, <1>7, RatioOrder
<1>9. Grounded(E, R)
  BY <1>8, OrderIsGrounded
<1>10. \E e \in E : \A o \in E : <<o, e>> \notin R
  BY <1>9 DEF Grounded
<1> QED
  BY <1>6, <1>10

(* An entry is taken, or left out.                                         *)
LEMMA EntryIsTaken ==
    ASSUME NEW E \in SUBSET MapEntries, IsFiniteSet(E), NEW map \in MapsOf(E), NEW budget, NEW focused
    PROVE  NextEntry(map, budget, focused) \in MapsOf(E)
<1> DEFINE next == CHOOSE e \in map.left : \A o \in map.left : ~Ahead(o, e, map, focused)
           used == map.used + IF map.taken = <<>> THEN 0 ELSE 1
           left == map.left \ {next}
           Take(tokens) == [left |-> left, used |-> used + tokens,
                            taken |-> Append(map.taken, [next EXCEPT !.tokens = tokens])]
           none == [map EXCEPT !.left = left]
<1>1. map.left \in SUBSET E /\ map.taken \in Seq(MapEntries) /\ map.used \in Nat
  BY DEF MapsOf
<1>2. NextEntry(map, budget, focused) =
        IF map.left = {} THEN map
        ELSE IF used + next.tokens <= budget THEN Take(next.tokens)
        ELSE IF used + 1 <= budget THEN Take(1)
        ELSE none
  BY DEF NextEntry
<1>3. CASE map.left = {}
  BY <1>2, <1>3
<1>4. CASE map.left # {}
  <2>1. map.left \in SUBSET MapEntries /\ IsFiniteSet(map.left)
    BY <1>1, FS_Subset
  <2>2. \E e \in map.left : \A o \in map.left : ~Ahead(o, e, map, focused)
    <3> DEFINE rest == map.left
    <3>1. rest \in SUBSET MapEntries /\ IsFiniteSet(rest) /\ rest # {}
      BY <1>4, <2>1
    <3> HIDE DEF rest
    <3>2. \E e \in rest : \A o \in rest : ~Ahead(o, e, map, focused)
      BY <1>1, <3>1, EntryIsNext
    <3> QED
      BY <3>2 DEF rest
  <2>3. next \in map.left
    BY <2>2
  <2> HIDE DEF next
  <2>4. next \in MapEntries /\ next.tokens \in Nat
    BY <2>1, <2>3 DEF MapEntries
  <2>5. used \in Nat /\ left \in SUBSET E
    BY <1>1
  <2> HIDE DEF used, left
  <2>6. ASSUME NEW tokens \in Nat PROVE Take(tokens) \in MapsOf(E)
    <3>1. [next EXCEPT !.tokens = tokens] \in MapEntries
      BY <2>4 DEF MapEntries
    <3> DEFINE more == Append(map.taken, [next EXCEPT !.tokens = tokens])
    <3>2. more \in Seq(MapEntries)
      BY <1>1, <3>1
    <3> HIDE DEF more
    <3>3. [left |-> left, used |-> used + tokens, taken |-> more] \in MapsOf(E)
      BY <2>5, <3>2 DEF MapsOf
    <3> QED
      BY <3>3 DEF more
  <2>7. none \in MapsOf(E)
    BY <2>5 DEF MapsOf
  <2>8. Take(1) \in MapsOf(E) /\ Take(next.tokens) \in MapsOf(E)
    BY <2>4, <2>6
  <2> HIDE DEF Take, none
  <2> QED
    BY <1>2, <1>4, <2>7, <2>8
<1> QED
  BY <1>3, <1>4

(* A map lists entries.                                                    *)
LEMMA MapIsListed ==
    ASSUME SearchRepoAssumption, NEW files, FilesOK(files), NEW S, NEW focus \in Seq(S), NEW budget
    PROVE  RepoMap(files, focus, budget).taken \in Seq(MapEntries)
<1> DEFINE paths == {p \in DOMAIN files : files[p].rows # {}}
           E == {MapEntry(p, files, focus) : p \in paths}
           n == Cardinality(paths)
           focused == focus # <<>>
           start == [left |-> E, taken |-> <<>>, used |-> 0]
           A == MapsOf(E)
           F == [map \in A |-> NextEntry(map, budget, focused)]
           Map == CHOOSE Map : Map = [i \in 0..n |-> IF i = 0 THEN start ELSE NextEntry(Map[i - 1], budget, focused)]
<1>1. RepoMap(files, focus, budget) = Map[n]
  BY DEF RepoMap
<1>2. paths \in SUBSET SitePaths /\ IsFiniteSet(paths)
  <2>1. paths \in SUBSET SitePaths /\ IsFiniteSet(SitePaths)
    BY DEF FilesOK, SearchRepoAssumption
  <2> HIDE DEF paths
  <2> QED
    BY <2>1, FS_Subset
<1>3. n \in Nat
  BY <1>2, FS_CardinalityType
<1>4. E \in SUBSET MapEntries
  <2>1. ASSUME NEW p \in paths PROVE MapEntry(p, files, focus) \in MapEntries
    <3>1. p \in SitePaths
      BY <1>2
    <3> QED
      BY <3>1, EntryOfFile
  <2> QED
    BY <2>1
<1>5. IsFiniteSet(E)
  <2> DEFINE EntryOf(p) == MapEntry(p, files, focus)
             entry == [p \in paths |-> EntryOf(p)]
  <2>0. E = {EntryOf(p) : p \in paths}
    OBVIOUS
  <2> HIDE DEF EntryOf, E
  <2>4. \A p \in paths : entry[p] = EntryOf(p)
    OBVIOUS
  <2>5. DOMAIN entry = paths
    OBVIOUS
  <2> HIDE DEF paths, entry
  <2>1. E = {entry[p] : p \in paths}
    BY <2>0, <2>4
  <2>2. IsFiniteSet(paths)
    BY <1>2 DEF paths
  <2>3. IsFiniteSet(E)
    BY <2>1, <2>2, <2>5, ImageIsFinite
  <2> QED
    BY <2>3
<1> HIDE DEF E, n, focused
<1>6. start \in A
  BY DEF MapsOf
<1>7. F \in [A -> A]
  BY <1>4, <1>5, EntryIsTaken
<1>8. \A map \in A : F[map] = NextEntry(map, budget, focused)
  OBVIOUS
<1>9. \A map \in A : map.taken \in Seq(MapEntries)
  BY DEF MapsOf
<1> HIDE DEF A, F, start
<1>10. PICK f \in [0..n -> A] : Iterates(f, n, start, F)
  BY <1>3, <1>6, <1>7, IterationExists
<1>11. \A k \in 0..n : f[k] = IF k = 0 THEN start ELSE F[f[k - 1]]
  BY <1>10, Zenon DEF Iterates
<1>12. ASSUME NEW k \in 0..n PROVE f[k] = IF k = 0 THEN start ELSE NextEntry(f[k - 1], budget, focused)
  <2>1. k # 0 => f[k - 1] \in A
    BY <1>3, <1>10
  <2> QED
    BY <1>8, <1>11, <2>1
<1>13. f = [k \in 0..n |-> f[k]]
  BY <1>10, Zenon DEF Iterates
<1>14. f = [k \in 0..n |-> IF k = 0 THEN start ELSE NextEntry(f[k - 1], budget, focused)]
  BY <1>12, <1>13, Zenon
<1>15. Map = [k \in 0..n |-> IF k = 0 THEN start ELSE NextEntry(Map[k - 1], budget, focused)]
  BY <1>14, Zenon
<1> HIDE DEF Map
<1>16. \A k \in 0..n : Map[k] = IF k = 0 THEN start ELSE NextEntry(Map[k - 1], budget, focused)
  BY <1>15, Zenon
<1>17. 0 \in 0..n /\ n \in 0..n /\ \A k \in 1..n : k \in 0..n /\ k # 0
  BY <1>3
<1>18. Map[0] = start /\ \A k \in 1..n : Map[k] = NextEntry(Map[k - 1], budget, focused)
  BY <1>16, <1>17, Zenon
<1> DEFINE T == {k \in 0..n : Map[k] \in A}
<1>19. 0 \in T
  BY <1>6, <1>17, <1>18
<1>20. ASSUME NEW k \in 1..n, k - 1 \in T PROVE k \in T
  <2>1. Map[k] = NextEntry(Map[k - 1], budget, focused) /\ Map[k - 1] \in A /\ k \in 0..n
    BY <1>17, <1>18, <1>20
  <2>2. Map[k] \in A
    BY <1>4, <1>5, <2>1, EntryIsTaken DEF A
  <2> QED
    BY <2>1, <2>2
<1>21. 0..n \subseteq T
  <2> HIDE DEF T
  <2> QED
    BY <1>3, <1>19, <1>20, UpTo
<1> QED
  BY <1>1, <1>9, <1>17, <1>21

-----------------------------------------------------------------------------
(* The invariant of a question to the index.                               *)

(* Which version of each file there is, or a generation holds.             *)
VersionMaps == {d \in [SitePaths -> Nat] : \A p \in SitePaths : d[p] \in Versions(p)}

Stages == {"none", "asked", "semantic", "chunks", "hashes", "fuse", "verify", "envelope", "answered"}

Fields == {"stage", "ask", "words", "top", "budget", "semantic", "gen", "hits", "ids", "near",
           "results", "changed", "whole", "answer"}

(* A result shows nothing or the text of the generation.                   *)
ResultsIn(files) ==
    {r \in [size : Nat, text : Nat, hit : HitsIn(files), shows : Nat] :
        r.shows \in {0, files[r.hit.path].hash}}

(* A question is about a generation that was published.                    *)
QuestionOK(q, latest) ==
    /\ DOMAIN q = Fields /\ q.stage \in Stages
    /\ q.stage # "none" =>
          /\ q.ask \in {"search", "symbol", "tests", "overview"}
          /\ MayAsk(q.words) /\ q.top \in Nat /\ q.budget \in Nat /\ q.semantic \in BOOLEAN
          /\ q.gen \in 1..latest

(* What a question has found in the files of its generation.               *)
FoundOK(q, files) ==
    /\ q.hits \in Seq(HitsIn(files)) /\ q.results \in Seq(ResultsIn(files))
    /\ q.changed \in Seq(SitePaths)
    /\ q.stage = "chunks" => q.ids \in Seq(ChunksOf(files))
    /\ q.stage = "hashes" => q.near \in Seq(ChunksOf(files))
    /\ q.stage = "fuse" => q.near \in Seq(HitsIn(files))
    /\ q.stage \in {"semantic", "chunks", "hashes", "fuse"} => q.semantic /\ q.ask = "search"
    /\ q.stage = "verify" => /\ q.ask = "search" \/ (q.ask = "symbol" /\ Len(q.hits) = 1)
                             /\ q.ask = "search" /\ ~q.semantic =>
                                    WellSpread(q.hits, q.words, files, q.top)
    /\ q.stage = "envelope" => q.ask = "symbol" /\ Len(q.hits) # 1

(* An answer keeps the best; what it tells of tests is what is found.      *)
AnswerOK(q, files) ==
    /\ KeepsBest(q.answer, q.whole, q.budget)
    /\ q.ask = "tests" => q.whole.lists[1].items = Bare(RelatedTests(q.words, files, q.top))

SearchInv ==
    /\ disk \in VersionMaps /\ published \in Seq(VersionMaps) /\ Latest >= 1
    /\ QuestionOK(inquiry, Latest)
    /\ inquiry.stage # "none" /\ StillActive => FoundOK(inquiry, FilesOf(Latest))
    /\ Answered => StillActive /\ AnswerOK(inquiry, FilesOf(Latest))

(* The files of a published generation.                                    *)
LEMMA PublishedFiles ==
    ASSUME SearchRepoAssumption, SearchInv
    PROVE  /\ FilesOK(FilesOf(Latest)) /\ Latest \in Nat /\ published[Latest] \in VersionMaps
           /\ \A p \in SitePaths : FilesOf(Latest)[p].hash = published[Latest][p]
<1>1. Latest \in Nat /\ published[Latest] \in VersionMaps
  BY DEF SearchInv, Latest
<1>2. ASSUME NEW p \in SitePaths
      PROVE  /\ FilesOf(Latest)[p] \in Indexed /\ IsFiniteSet(FilesOf(Latest)[p].rows)
             /\ FilesOf(Latest)[p].hash = published[Latest][p]
             /\ FilesOf(Latest)[p].hash = 0 =>
                    FilesOf(Latest)[p].rows = {} /\ FilesOf(Latest)[p].times = 0
  <2> DEFINE v == published[Latest][p]
  <2>1. v \in Versions(p)
    BY <1>1 DEF VersionMaps
  <2>2. FilesOf(Latest)[p] = Content[p][v]
    BY DEF FilesOf
  <2> HIDE DEF v
  <2>3. /\ Content[p][v] \in Indexed /\ Content[p][v].hash = v /\ IsFiniteSet(Content[p][v].rows)
        /\ v = 0 => Content[p][v].rows = {} /\ Content[p][v].times = 0
    BY <2>1 DEF SearchRepoAssumption
  <2> QED
    BY <2>2, <2>3 DEF v
<1>3. FilesOf(Latest) \in [SitePaths -> Indexed]
  <2>1. FilesOf(Latest) = [p \in SitePaths |-> FilesOf(Latest)[p]]
    BY DEF FilesOf
  <2> QED
    BY <1>2, <2>1
<1> QED
  BY <1>1, <1>2, <1>3 DEF FilesOK

(* A step of the question leaves the files and the generations alone.      *)
LEMMA ContinueKeeps ==
    ASSUME SearchInv, NEW next, Continue(next), QuestionOK(next, Latest),
           next.stage # "none" /\ next.gen = Latest => FoundOK(next, FilesOf(Latest)),
           next.stage = "answered" => next.gen = Latest /\ AnswerOK(next, FilesOf(Latest))
    PROVE  SearchInv'
<1>1. inquiry' = next /\ disk' = disk /\ published' = published
  BY DEF Continue
<1>2. Latest' = Latest
  BY <1>1 DEF Latest
<1>3. FilesOf(Latest)' = FilesOf(Latest)
  BY <1>1, <1>2 DEF FilesOf
<1> QED
  BY <1>1, <1>2, <1>3 DEF SearchInv, StillActive, Answered

(* No question.                                                            *)
LEMMA NoQuestionIsOK ==
    ASSUME NEW latest
    PROVE  QuestionOK(NoInquiry, latest) /\ NoInquiry.stage = "none" /\ DOMAIN NoInquiry = Fields
BY DEF QuestionOK, NoInquiry, Fields, Stages

(* An edit and a publication by another process.                           *)
LEMMA OthersKeep ==
    ASSUME SearchRepoAssumption, SearchInv,
           (\E p \in SitePaths : Touch(p)) \/ PublishAgain
    PROVE  SearchInv'
<1>1. ASSUME NEW p \in SitePaths, Touch(p) PROVE SearchInv'
  <2>1. PICK v \in Versions(p) : disk' = [disk EXCEPT ![p] = v]
    BY <1>1 DEF Touch
  <2>2. inquiry' = inquiry /\ published' = published
    BY <1>1 DEF Touch
  <2>3. Latest' = Latest
    BY <2>2 DEF Latest
  <2>4. FilesOf(Latest)' = FilesOf(Latest)
    BY <2>2, <2>3 DEF FilesOf
  <2>5. v \in Nat
    BY <2>1 DEF SearchRepoAssumption
  <2>6. disk' \in VersionMaps
    BY <2>1, <2>5 DEF SearchInv, VersionMaps
  <2> QED
    BY <2>2, <2>3, <2>4, <2>6 DEF SearchInv, StillActive, Answered
<1>2. ASSUME PublishAgain PROVE SearchInv'
  <2>1. inquiry' = inquiry /\ disk' = disk /\ published' = Append(published, disk) /\ ~Answered
    BY <1>2 DEF PublishAgain, Unanswered, Answered
  <2>2. disk \in VersionMaps /\ published \in Seq(VersionMaps) /\ QuestionOK(inquiry, Latest)
    BY DEF SearchInv
  <2>3. published' \in Seq(VersionMaps) /\ Latest' = Latest + 1 /\ Latest \in Nat /\ Latest >= 1
    BY <2>1, <2>2 DEF Latest, SearchInv
  <2>4. inquiry.stage # "none" => inquiry.gen \in 1..Latest
    BY <2>2 DEF QuestionOK
  <2>5. inquiry.stage # "none" => ~(StillActive')
    BY <2>1, <2>3, <2>4 DEF StillActive
  <2>6. QuestionOK(inquiry, Latest + 1)
    BY <2>2, <2>3, <2>4 DEF QuestionOK
  <2>7. ~(Answered')
    BY <2>1 DEF Answered
  <2> QED
    BY <2>1, <2>2, <2>3, <2>5, <2>6, <2>7 DEF SearchInv
<1> QED
  BY <1>1, <1>2

(* A question that ends leaves no question.                                *)
LEMMA RefuseKeeps ==
    ASSUME SearchInv, Refuse
    PROVE  SearchInv'
<1>1. Continue(NoInquiry)
  BY DEF Refuse
<1>2. QuestionOK(NoInquiry, Latest) /\ NoInquiry.stage = "none"
  BY NoQuestionIsOK
<1> DEFINE next == NoInquiry
<1>3. QuestionOK(next, Latest) /\ next.stage = "none" /\ Continue(next)
  BY <1>1, <1>2
<1> HIDE DEF next
<1> QED
  BY <1>3, ContinueKeeps

(* A question begins.                                                      *)
LEMMA AskKeeps ==
    ASSUME SearchRepoAssumption, SearchInv, AskRepo
    PROVE  SearchInv'
<1>1. PICK q \in Inquiries : \E semantic \in IF q.ask = "search" THEN Semantic ELSE {FALSE} :
         Continue([NoInquiry EXCEPT !.stage = "asked", !.ask = q.ask, !.words = q.words,
                                    !.top = q.top, !.budget = q.budget, !.semantic = semantic,
                                    !.gen = Latest])
  BY DEF AskRepo
<1>2. PICK semantic \in IF q.ask = "search" THEN Semantic ELSE {FALSE} :
         Continue([NoInquiry EXCEPT !.stage = "asked", !.ask = q.ask, !.words = q.words,
                                    !.top = q.top, !.budget = q.budget, !.semantic = semantic,
                                    !.gen = Latest])
  BY <1>1
<1> DEFINE next == [NoInquiry EXCEPT !.stage = "asked", !.ask = q.ask, !.words = q.words,
                                     !.top = q.top, !.budget = q.budget, !.semantic = semantic,
                                     !.gen = Latest]
<1>3. /\ q.ask \in {"search", "symbol", "tests", "overview"}
      /\ q.words \in Words /\ IsFiniteSet(q.words) /\ q.top \in Nat /\ q.budget \in Nat
      /\ semantic \in BOOLEAN
  BY DEF SearchRepoAssumption
<1>4. DOMAIN NoInquiry = Fields /\ NoInquiry.hits = <<>> /\ NoInquiry.results = <<>>
      /\ NoInquiry.changed = <<>>
  BY DEF NoInquiry, Fields
<1>5. /\ DOMAIN next = Fields /\ next.stage = "asked" /\ next.ask = q.ask /\ next.words = q.words
      /\ next.top = q.top /\ next.budget = q.budget /\ next.semantic = semantic /\ next.gen = Latest
      /\ next.hits = <<>> /\ next.results = <<>> /\ next.changed = <<>>
  BY <1>4 DEF Fields
<1>6. Continue(next)
  BY <1>2
<1> HIDE DEF next
<1>7. QuestionOK(next, Latest)
  <2>1. Latest \in 1..Latest
    BY PublishedFiles DEF SearchInv
  <2> QED
    BY <1>3, <1>5, <2>1 DEF QuestionOK, MayAsk, Stages
<1>8. FoundOK(next, FilesOf(Latest))
  <2>1. \A S : <<>> \in Seq(S)
    OBVIOUS
  <2> QED
    BY <1>5, <2>1 DEF FoundOK
<1> QED
  BY <1>5, <1>6, <1>7, <1>8, ContinueKeeps

(* A question goes on: it is the same question and not answered.           *)
GoesOn(next, q) ==
    /\ DOMAIN next = Fields /\ next.stage \in Stages \ {"none", "answered"}
    /\ next.ask = q.ask /\ next.words = q.words /\ next.top = q.top /\ next.budget = q.budget
    /\ next.semantic = q.semantic /\ next.gen = q.gen

(* Then what it has found is what matters.                                 *)
LEMMA GoesOnKeeps ==
    ASSUME SearchInv, inquiry.stage # "none", NEW next, Continue(next), GoesOn(next, inquiry),
           inquiry.gen = Latest /\ FoundOK(inquiry, FilesOf(Latest)) => FoundOK(next, FilesOf(Latest))
    PROVE  SearchInv'
<1>1. QuestionOK(inquiry, Latest)
  BY DEF SearchInv
<1>2. QuestionOK(next, Latest)
  BY <1>1 DEF QuestionOK, GoesOn
<1>3. next.gen = Latest => FoundOK(next, FilesOf(Latest))
  BY DEF SearchInv, StillActive, GoesOn
<1>4. next.stage # "answered"
  BY DEF GoesOn
<1> QED
  BY <1>2, <1>3, <1>4, ContinueKeeps

(* The lexical pass.                                                       *)
LEMMA LexicalKeeps ==
    ASSUME SearchRepoAssumption, SearchInv, Lexical
    PROVE  SearchInv'
<1> DEFINE q == inquiry
           files == FilesOf(Latest)
           found == LexicalSearch(q.words, files, q.top)
           stage == IF q.semantic THEN "semantic" ELSE "verify"
           next == [q EXCEPT !.hits = found, !.stage = stage]
<1>1. q.stage = "asked" /\ q.ask = "search" /\ Continue(next)
  BY DEF Lexical
<1>2. QuestionOK(q, Latest)
  BY DEF SearchInv
<1>3. FilesOK(files)
  BY PublishedFiles
<1>4. MayAsk(q.words) /\ q.top \in Nat /\ q.semantic \in BOOLEAN /\ DOMAIN q = Fields
  BY <1>1, <1>2 DEF QuestionOK
<1> HIDE DEF q, files
<1>5. found \in Seq(HitsIn(files)) /\ WellSpread(found, q.words, files, q.top)
  BY <1>3, <1>4, SearchFindsHits, SearchIsSpread
<1> HIDE DEF found
<1>6. /\ GoesOn(next, q) /\ next.hits = found /\ next.stage = stage
      /\ next.results = q.results /\ next.changed = q.changed
  BY <1>4 DEF GoesOn, Fields, Stages
<1> HIDE DEF next
<1>7. FoundOK(q, files) => FoundOK(next, files)
  BY <1>1, <1>4, <1>5, <1>6 DEF FoundOK, GoesOn
<1>8. Continue(next) /\ inquiry.stage # "none"
  BY <1>1 DEF q
<1> QED
  BY <1>6, <1>7, <1>8, GoesOnKeeps DEF q, files

(* The nearest chunks.                                                     *)
LEMMA NearestKeeps ==
    ASSUME SearchRepoAssumption, SearchInv, Nearest
    PROVE  SearchInv'
<1> DEFINE q == inquiry
           files == FilesOf(Latest)
           chunks == ChunksOf(FilesOf(q.gen))
<1>1. PICK alike \in {{}} \cup {{id} : id \in chunks} :
         Continue([q EXCEPT !.stage = "chunks",
                            !.ids = FirstOf(ByPlace(alike) \o ByPlace(chunks \ alike), 3 * q.top)])
  BY DEF Nearest
<1> DEFINE list == FirstOf(ByPlace(alike) \o ByPlace(chunks \ alike), 3 * q.top)
           next == [q EXCEPT !.stage = "chunks", !.ids = list]
<1>2. q.stage = "semantic" /\ Continue(next)
  BY <1>1 DEF Nearest
<1>3. QuestionOK(q, Latest)
  BY DEF SearchInv
<1>4. FilesOK(files)
  BY PublishedFiles
<1>5. q.top \in Nat /\ DOMAIN q = Fields
  BY <1>2, <1>3 DEF QuestionOK
<1>6. q.gen = Latest => chunks = ChunksOf(files)
  OBVIOUS
<1>7. alike \in SUBSET chunks
  OBVIOUS
<1> HIDE DEF files, chunks
<1>8. q.gen = Latest => list \in Seq(ChunksOf(files))
  <2> SUFFICES ASSUME q.gen = Latest PROVE list \in Seq(ChunksOf(files))
    OBVIOUS
  <2>1. chunks = ChunksOf(files) /\ IsFiniteSet(chunks)
    BY <1>4, <1>6, ChunksAre
  <2>2. \A x \in chunks : x[1] \in Nat /\ x[2].line \in Nat
    BY <1>4, <2>1, ChunksAre
  <2>3. ASSUME NEW S \in SUBSET chunks PROVE ByPlace(S) \in Seq(chunks)
    <3>1. IsFiniteSet(S) /\ \A x \in S : x[1] \in Nat /\ x[2].line \in Nat
      BY <2>1, <2>2, FS_Subset
    <3>2. ByPlace(S) \in Seq(S)
      BY <3>1, PlacedChunks
    <3> QED
      BY <3>2
  <2>4. ByPlace(alike) \o ByPlace(chunks \ alike) \in Seq(chunks)
    <3>1. ByPlace(alike) \in Seq(chunks) /\ ByPlace(chunks \ alike) \in Seq(chunks)
      BY <1>7, <2>3
    <3> QED
      BY <3>1
  <2>5. 3 * q.top \in Nat
    BY <1>5
  <2> QED
    BY <2>1, <2>4, <2>5, FirstOfList
<1> HIDE DEF list
<1>9. /\ GoesOn(next, q) /\ next.stage = "chunks" /\ next.ids = list /\ next.hits = q.hits
      /\ next.results = q.results /\ next.changed = q.changed
  BY <1>5 DEF GoesOn, Fields, Stages
<1>10. q.stage # "none"
  BY <1>2
<1> HIDE DEF next
<1>11. ASSUME q.gen = Latest, FoundOK(q, files) PROVE FoundOK(next, files)
  BY <1>2, <1>8, <1>9, <1>11 DEF FoundOK, GoesOn
<1> QED
  BY <1>2, <1>9, <1>10, <1>11, GoesOnKeeps DEF files

(* The chunks that the generation still has.                               *)
LEMMA ChunksKeeps ==
    ASSUME SearchRepoAssumption, SearchInv, Chunks
    PROVE  SearchInv'
<1> DEFINE q == inquiry
           files == FilesOf(Latest)
           set  == {i \in DOMAIN q.ids : q.ids[i] \in ChunksOf(files)}
           list == Places(q.ids, set)
           next == [q EXCEPT !.stage = "hashes", !.ids = <<>>, !.near = list]
<1>1. q.stage = "chunks" /\ Continue(next)
  BY DEF Chunks, Filter
<1>2. QuestionOK(q, Latest)
  BY DEF SearchInv
<1>3. DOMAIN q = Fields
  BY <1>2 DEF QuestionOK
<1>4. set \in SUBSET (DOMAIN q.ids)
  OBVIOUS
<1> HIDE DEF q, files, set
<1>5. ASSUME FoundOK(q, files) PROVE list \in Seq(ChunksOf(files))
  <2>1. q.ids \in Seq(ChunksOf(files))
    BY <1>1, <1>5 DEF FoundOK
  <2> QED
    BY <1>4, <2>1, PlacesOf
<1> HIDE DEF list
<1>6. /\ GoesOn(next, q) /\ next.stage = "hashes" /\ next.near = list /\ next.hits = q.hits
      /\ next.results = q.results /\ next.changed = q.changed
  BY <1>3 DEF GoesOn, Fields, Stages
<1>7. q.stage # "none"
  BY <1>1
<1> HIDE DEF next
<1>8. ASSUME FoundOK(q, files) PROVE FoundOK(next, files)
  BY <1>1, <1>5, <1>6, <1>8 DEF FoundOK, GoesOn
<1> QED
  BY <1>1, <1>6, <1>7, <1>8, GoesOnKeeps DEF q, files

(* The hashes of the chunks.                                               *)
LEMMA HashesKeeps ==
    ASSUME SearchRepoAssumption, SearchInv, Hashes
    PROVE  SearchInv'
<1> DEFINE q == inquiry
           files == FilesOf(Latest)
           near == q.near
           list == [i \in DOMAIN near |-> Found(near[i][1], near[i][2], HashOf(near[i]), 0, FALSE)]
           next == [q EXCEPT !.stage = "fuse", !.near = list]
<1>1. q.stage = "hashes"
  BY DEF Hashes
<1>2. QuestionOK(q, Latest)
  BY DEF SearchInv
<1>3. DOMAIN q = Fields
  BY <1>2 DEF QuestionOK
<1>4. Continue(next)
  <2>1. Continue([inquiry EXCEPT !.stage = "fuse",
                    !.near = [i \in DOMAIN @ |-> Found(@[i][1], @[i][2], HashOf(@[i]), 0, FALSE)]])
    BY DEF Hashes
  <2> QED
    BY <2>1
<1>5. FilesOK(files)
  BY PublishedFiles
<1>6. \A id \in ChunksOf(files) : HashOf(id) = files[id[1]].hash
  BY DEF HashOf
<1> HIDE DEF q, files, near
<1>7. ASSUME FoundOK(q, files) PROVE list \in Seq(HitsIn(files))
  <2>1. near \in Seq(ChunksOf(files))
    BY <1>1, <1>7 DEF FoundOK, near
  <2>2. DOMAIN near = 1..Len(near) /\ Len(near) \in Nat /\ \A i \in DOMAIN near : near[i] \in ChunksOf(files)
    BY <2>1
  <2>3. \A id \in ChunksOf(files) : Found(id[1], id[2], HashOf(id), 0, FALSE) \in HitsIn(files)
    BY <1>5, <1>6, ChunkIsHit
  <2> DEFINE Of(i) == Found(near[i][1], near[i][2], HashOf(near[i]), 0, FALSE)
  <2>4. \A i \in DOMAIN near : Of(i) \in HitsIn(files)
    BY <2>2, <2>3
  <2>5. list = [i \in DOMAIN near |-> Of(i)]
    OBVIOUS
  <2> HIDE DEF Of
  <2>6. [i \in DOMAIN near |-> Of(i)] \in Seq(HitsIn(files))
    BY <2>2, <2>4
  <2> QED
    BY <2>5, <2>6
<1> HIDE DEF list
<1>8. /\ GoesOn(next, q) /\ next.stage = "fuse" /\ next.near = list /\ next.hits = q.hits
      /\ next.results = q.results /\ next.changed = q.changed
  BY <1>3 DEF GoesOn, Fields, Stages
<1>9. q.stage # "none"
  BY <1>1
<1> HIDE DEF next
<1>10. ASSUME FoundOK(q, files) PROVE FoundOK(next, files)
  BY <1>1, <1>7, <1>8, <1>10 DEF FoundOK, GoesOn
<1> QED
  BY <1>4, <1>8, <1>9, <1>10, GoesOnKeeps DEF q, files

(* A page of fused hits.                                                   *)
LEMMA PageOfFused ==
    ASSUME SearchInv, inquiry.stage = "fuse", NEW list,
           FoundOK(inquiry, FilesOf(Latest)) => list \in Seq(HitsIn(FilesOf(Latest))),
           Continue([inquiry EXCEPT !.stage = "verify", !.near = <<>>,
                                    !.hits = FirstOf(list, inquiry.top)])
    PROVE  SearchInv'
<1> DEFINE q == inquiry
           files == FilesOf(Latest)
           page == FirstOf(list, q.top)
           next == [q EXCEPT !.stage = "verify", !.near = <<>>, !.hits = page]
<1>1. QuestionOK(q, Latest) /\ q.stage = "fuse" /\ Continue(next)
  BY DEF SearchInv
<1>2. DOMAIN q = Fields /\ q.top \in Nat
  BY <1>1 DEF QuestionOK
<1>3. FoundOK(q, files) => list \in Seq(HitsIn(files))
  OBVIOUS
<1> HIDE DEF q, files
<1>4. ASSUME FoundOK(q, files) PROVE page \in Seq(HitsIn(files))
  BY <1>2, <1>3, <1>4, FirstOfList
<1> HIDE DEF page
<1>5. /\ GoesOn(next, q) /\ next.stage = "verify" /\ next.hits = page
      /\ next.results = q.results /\ next.changed = q.changed
  BY <1>2 DEF GoesOn, Fields, Stages
<1>6. q.stage # "none"
  BY <1>1
<1> HIDE DEF next
<1>7. ASSUME FoundOK(q, files) PROVE FoundOK(next, files)
  BY <1>1, <1>4, <1>5, <1>7 DEF FoundOK, GoesOn
<1> QED
  BY <1>1, <1>5, <1>6, <1>7, GoesOnKeeps DEF q, files

(* The fusion, with a cross-encoder or without.                            *)
LEMMA FuseKeeps ==
    ASSUME SearchRepoAssumption, SearchInv, Fuse
    PROVE  SearchInv'
<1> DEFINE q == inquiry
           files == FilesOf(Latest)
           fused == Fused(q.hits, q.near)
           short == Shortlist(fused, q.top)
           Marks(best) == [i \in DOMAIN short |-> IF i = best THEN 1 ELSE 0]
           Page(hits) == Continue([q EXCEPT !.stage = "verify", !.near = <<>>,
                                            !.hits = FirstOf(hits, q.top)])
<1>1. q.stage = "fuse" /\ (Page(fused) \/ \E best \in 0..Len(short) : Page(Reranked(short, Marks(best))))
  BY DEF Fuse
<1>2. QuestionOK(q, Latest)
  BY DEF SearchInv
<1>3. q.top \in Nat
  BY <1>1, <1>2 DEF QuestionOK
<1>4. SitePaths \subseteq Nat
  BY DEF SearchRepoAssumption
<1>5. ASSUME FoundOK(q, files) PROVE fused \in Seq(HitsIn(files))
  <2>1. q.hits \in Seq(HitsIn(files)) /\ q.near \in Seq(HitsIn(files))
    BY <1>1, <1>5 DEF FoundOK
  <2> HIDE DEF q, files
  <2> QED
    BY <2>1, FusedAreHits
<1>6. ASSUME FoundOK(q, files), NEW best PROVE Reranked(short, Marks(best)) \in Seq(HitsIn(files))
  <2> HIDE DEF q, files, fused
  <2>1. \A h \in HitsIn(files) : h.path \in Int /\ h.line \in Int
    <3> TAKE h \in HitsIn(files)
    <3>1. h.path \in SitePaths /\ h.line \in Nat
      BY DEF HitsIn
    <3>2. h.path \in Nat
      BY <1>4, <3>1
    <3> QED
      BY <3>1, <3>2
  <2>2. 2 * q.top \in Nat
    BY <1>3
  <2>3. short \in Seq(HitsIn(files))
    BY <1>5, <1>6, <2>2, FirstOfList DEF Shortlist
  <2> HIDE DEF short
  <2>4. Marks(best) \in [DOMAIN short -> Int]
    OBVIOUS
  <2> HIDE DEF Marks
  <2> QED
    BY <2>1, <2>3, <2>4, RerankedAreHits
<1> HIDE DEF fused, short, Marks
<1>7. CASE Page(fused)
  BY <1>1, <1>5, <1>7, PageOfFused
<1>8. ASSUME NEW best \in 0..Len(short), Page(Reranked(short, Marks(best))) PROVE SearchInv'
  BY <1>1, <1>6, <1>8, PageOfFused
<1> QED
  BY <1>1, <1>7, <1>8

(* The definitions of a name.                                              *)
LEMMA DefineKeeps ==
    ASSUME SearchRepoAssumption, SearchInv, Define
    PROVE  SearchInv'
<1> DEFINE q == inquiry
           files == FilesOf(Latest)
           found == Definitions(q.words, files)
           stage == IF Len(found) = 1 THEN "verify" ELSE "envelope"
           next == [q EXCEPT !.stage = stage, !.hits = found]
<1>1. q.stage = "asked" /\ q.ask = "symbol"
  BY DEF Define
<1>2. Refuse \/ Continue(next)
  BY DEF Define
<1>3. QuestionOK(q, Latest)
  BY DEF SearchInv
<1>4. FilesOK(files)
  BY PublishedFiles
<1>5. DOMAIN q = Fields
  BY <1>3 DEF QuestionOK
<1> HIDE DEF q, files
<1>6. found \in Seq(HitsIn(files))
  BY <1>4, DefinitionsAreHits
<1> HIDE DEF found
<1>7. /\ GoesOn(next, q) /\ next.stage = stage /\ next.hits = found
      /\ next.results = q.results /\ next.changed = q.changed
  BY <1>5 DEF GoesOn, Fields, Stages
<1>8. q.stage # "none"
  BY <1>1
<1> HIDE DEF next
<1>9. ASSUME FoundOK(q, files) PROVE FoundOK(next, files)
  BY <1>1, <1>6, <1>7, <1>9 DEF FoundOK, GoesOn
<1>10. CASE Refuse
  BY <1>10, RefuseKeeps
<1>11. CASE Continue(next)
  BY <1>7, <1>8, <1>9, <1>11, GoesOnKeeps DEF q, files
<1> QED
  BY <1>2, <1>10, <1>11

(* An excerpt is read and compared.                                        *)
LEMMA VerifyKeeps ==
    ASSUME SearchRepoAssumption, SearchInv, Verify
    PROVE  SearchInv'
<1> DEFINE q == inquiry
           files == FilesOf(Latest)
           hit  == q.hits[Len(q.results) + 1]
           show == Verified(hit)
           result == [size |-> 2, text |-> IF show THEN 2 ELSE 0, hit |-> hit,
                      shows |-> IF show THEN disk[hit.path] ELSE 0]
           changed == IF show \/ hit.path \in Range(q.changed) THEN q.changed ELSE Append(q.changed, hit.path)
           results == Append(q.results, result)
           next == [q EXCEPT !.results = results, !.changed = changed]
<1>1. q.stage = "verify" /\ Len(q.results) < Len(q.hits)
  BY DEF Verify
<1>2. QuestionOK(q, Latest) /\ disk \in VersionMaps
  BY DEF SearchInv
<1>3. DOMAIN q = Fields
  BY <1>2 DEF QuestionOK
<1>4. Continue(next)
  <2>1. Continue([inquiry EXCEPT
               !.results = Append(@, [size |-> 2, text |-> IF show THEN 2 ELSE 0, hit |-> hit,
                                      shows |-> IF show THEN disk[hit.path] ELSE 0]),
               !.changed = IF show \/ hit.path \in Range(@) THEN @ ELSE Append(@, hit.path)])
    BY DEF Verify
  <2> QED
    BY <2>1
<1>5. FilesOK(files)
  BY PublishedFiles
<1>6. show => hit.hash \in {0, disk[hit.path]} /\ disk[hit.path] # 0
  BY DEF Verified
<1> HIDE DEF q, files, show
<1>7. ASSUME FoundOK(q, files) PROVE results \in Seq(ResultsIn(files)) /\ changed \in Seq(SitePaths)
  <2>1. /\ q.hits \in Seq(HitsIn(files)) /\ q.results \in Seq(ResultsIn(files))
        /\ q.changed \in Seq(SitePaths)
    BY <1>7 DEF FoundOK
  <2>2. hit \in HitsIn(files)
    <3>1. Len(q.results) + 1 \in 1..Len(q.hits)
      BY <1>1, <2>1
    <3> QED
      BY <2>1, <3>1
  <2> HIDE DEF hit
  <2>3. hit.path \in SitePaths /\ hit.hash = files[hit.path].hash /\ hit.hash # 0 /\ hit.hash \in Nat
    BY <2>2 DEF HitsIn
  <2>4. result \in ResultsIn(files)
    <3> DEFINE shows == IF show THEN disk[hit.path] ELSE 0
               text  == IF show THEN 2 ELSE 0
    <3>1. shows \in Nat /\ shows \in {0, files[hit.path].hash}
      BY <1>6, <2>3
    <3>2. text \in Nat /\ 2 \in Nat
      OBVIOUS
    <3> HIDE DEF shows, text
    <3>3. [size |-> 2, text |-> text, hit |-> hit, shows |-> shows] \in ResultsIn(files)
      BY <2>2, <3>1, <3>2 DEF ResultsIn
    <3> QED
      BY <3>3 DEF shows, text
  <2> HIDE DEF result
  <2> QED
    BY <2>1, <2>3, <2>4
<1> HIDE DEF results, changed
<1>8. /\ GoesOn(next, q) /\ next.stage = "verify" /\ next.hits = q.hits
      /\ next.results = results /\ next.changed = changed
  BY <1>1, <1>3 DEF GoesOn, Fields, Stages
<1>9. q.stage # "none"
  BY <1>1
<1> HIDE DEF next
<1>10. ASSUME FoundOK(q, files) PROVE FoundOK(next, files)
  BY <1>1, <1>7, <1>8, <1>10 DEF FoundOK, GoesOn
<1> QED
  BY <1>4, <1>8, <1>9, <1>10, GoesOnKeeps DEF q, files

-----------------------------------------------------------------------------
(* Tests related to a symbol.                                              *)

Related == [path : SitePaths, line : Nat, basis : {"graph", "lexical", "name"}, conf : Nat]

(* A test of some confidence.                                              *)
LEMMA ARelatedTest ==
    ASSUME NEW p \in SitePaths, NEW n \in Nat, NEW b \in {"graph", "lexical", "name"}, NEW c \in Nat,
           NEW t, t = [path |-> p, line |-> n, basis |-> b, conf |-> c]
    PROVE  t \in Related /\ t.conf = c
BY DEF Related

(* Tests found one way: finitely many, one for each line of a file.        *)
FoundTests(T) ==
    /\ T \in SUBSET Related /\ IsFiniteSet(T)
    /\ \A t, u \in T : t.path = u.path /\ t.line = u.line => t = u

(* The tests that relations of the graph lead to.                          *)
LEMMA GraphFinds ==
    ASSUME SearchRepoAssumption, NEW files, FilesOK(files), NEW words
    PROVE  /\ FoundTests(RelatedByGraph(words, files))
           /\ \A t \in RelatedByGraph(words, files) : t.conf >= 90
<1> DEFINE Conf(p, line) == IF Last(EdgesAt(words, files[p], line)).rel = "tests" THEN 100 ELSE 90
           Of(p, line) == [path |-> p, line |-> line, basis |-> "graph", conf |-> Conf(p, line)]
           LinesOf(p) == {e.line : e \in Range(files[p].refs)}
           G == RelatedByGraph(words, files)
           lines == [p \in SitePaths |-> LinesOf(p)]
           Family == {lines[p] : p \in SitePaths}
           Lines == UNION Family
           I == SitePaths \X Lines
           f == [x \in I |-> Of(x[1], x[2])]
           All == {f[x] : x \in I}
<1>1. DOMAIN files = SitePaths
  BY DEF FilesOK
<1>2. ASSUME NEW t \in G
      PROVE  \E p \in SitePaths : \E line \in LinesOf(p) : t = Of(p, line)
  <2>1. G = UNION {{Of(p, e.line) : e \in {x \in Range(files[p].refs) : x.to = words}} : p \in Tests(files)}
    BY DEF RelatedByGraph
  <2>2. PICK p \in Tests(files) : t \in {Of(p, e.line) : e \in {x \in Range(files[p].refs) : x.to = words}}
    BY <2>1
  <2>3. PICK e \in Range(files[p].refs) : t = Of(p, e.line)
    BY <2>2
  <2>4. p \in SitePaths
    BY <1>1 DEF Tests
  <2>5. e.line \in LinesOf(p)
    OBVIOUS
  <2> HIDE DEF LinesOf, Of
  <2> QED
    BY <2>3, <2>4, <2>5
<1>3. \A p, line : Conf(p, line) \in Nat /\ Conf(p, line) >= 90
  OBVIOUS
<1>4. ASSUME NEW p \in SitePaths PROVE IsFiniteSet(LinesOf(p)) /\ LinesOf(p) \in SUBSET Nat
  <2> DEFINE S == [rel : STRING, line : Nat, to : Words]
             refs == files[p].refs
             J == Range(refs)
             g == [e \in J |-> e.line]
  <2>1. files[p] \in Indexed
    BY DEF FilesOK
  <2>2. refs \in Seq(S)
    BY <2>1 DEF Indexed
  <2> HIDE DEF S, refs
  <2>3. IsFiniteSet(J) /\ J \in SUBSET S
    BY <2>2, ListedIsFinite
  <2>4. \A e \in S : e.line \in Nat
    BY DEF S
  <2>5. LinesOf(p) = {g[e] : e \in J} /\ DOMAIN g = J
    BY DEF refs
  <2>6. LinesOf(p) \in SUBSET Nat
    BY <2>3, <2>4 DEF refs
  <2> HIDE DEF J, g, LinesOf
  <2>7. IsFiniteSet(LinesOf(p))
    BY <2>3, <2>5, ImageIsFinite
  <2> QED
    BY <2>6, <2>7
<1> HIDE DEF Conf, LinesOf, G
<1>5. G \in SUBSET Related /\ \A t \in G : t.conf >= 90
  <2> SUFFICES ASSUME NEW t \in G PROVE t \in Related /\ t.conf >= 90
    OBVIOUS
  <2>1. PICK p \in SitePaths : \E line \in LinesOf(p) : t = Of(p, line)
    BY <1>2
  <2>2. PICK line \in LinesOf(p) : t = Of(p, line)
    BY <2>1
  <2>3. line \in Nat
    BY <1>4
  <2>4. \E c \in Nat : c >= 90 /\ t = [path |-> p, line |-> line, basis |-> "graph", conf |-> c]
    BY <1>3, <2>2
  <2>5. PICK c \in Nat : c >= 90 /\ t = [path |-> p, line |-> line, basis |-> "graph", conf |-> c]
    BY <2>4
  <2>6. t \in Related /\ t.conf = c
    BY <2>3, <2>5, ARelatedTest
  <2> QED
    BY <2>5, <2>6
<1>6. \A t, u \in G : t.path = u.path /\ t.line = u.line => t = u
  <2> SUFFICES ASSUME NEW t \in G, NEW u \in G, t.path = u.path, t.line = u.line PROVE t = u
    OBVIOUS
  <2>1. \E p, line : t = Of(p, line)
    BY <1>2
  <2>2. \E p, line : u = Of(p, line)
    BY <1>2
  <2>3. PICK p, line : t = Of(p, line)
    BY <2>1
  <2>4. PICK q, l : u = Of(q, l)
    BY <2>2
  <2>5. p = q /\ line = l
    BY <2>3, <2>4
  <2> QED
    BY <2>3, <2>4, <2>5
<1>7. IsFiniteSet(G)
  <2>1. \A p \in SitePaths : LinesOf(p) \in SUBSET Lines
    OBVIOUS
  <2>2. IsFiniteSet(Lines)
    <3> DEFINE P == SitePaths
    <3>1. IsFiniteSet(P) /\ DOMAIN lines = P /\ Family = {lines[p] : p \in P}
      BY DEF SearchRepoAssumption
    <3>2. \A L \in Family : IsFiniteSet(L)
      BY <1>4
    <3> HIDE DEF P, lines, Family
    <3>3. IsFiniteSet(Family)
      BY <3>1, ImageIsFinite
    <3> QED
      BY <3>2, <3>3, FS_UNION
  <2> HIDE DEF Lines
  <2>3. IsFiniteSet(I)
    <3>1. IsFiniteSet(SitePaths)
      BY DEF SearchRepoAssumption
    <3> QED
      BY <2>2, <3>1, FS_Product
  <2>4. DOMAIN f = I /\ All = {f[x] : x \in I}
    OBVIOUS
  <2>5. G \in SUBSET All
    <3> SUFFICES ASSUME NEW t \in G PROVE \E x \in I : t = f[x]
      OBVIOUS
    <3>1. PICK p \in SitePaths : \E line \in LinesOf(p) : t = Of(p, line)
      BY <1>2
    <3>2. PICK line \in LinesOf(p) : t = Of(p, line)
      BY <3>1
    <3>3. <<p, line>> \in I
      BY <2>1
    <3>4. f[<<p, line>>] = Of(p, line)
      BY <3>3
    <3> HIDE DEF f, I
    <3> QED
      BY <3>2, <3>3, <3>4
  <2> HIDE DEF I, f, All
  <2>6. IsFiniteSet(All)
    BY <2>3, <2>4, ImageIsFinite
  <2> QED
    BY <2>5, <2>6, FS_Subset
<1> QED
  BY <1>5, <1>6, <1>7 DEF FoundTests, G

(* The tests that mention the symbol.                                      *)
LEMMA MentionFinds ==
    ASSUME SearchRepoAssumption, NEW files, FilesOK(files), NEW words, MayAsk(words)
    PROVE  /\ FoundTests(RelatedByMention(words, files))
           /\ \A t \in RelatedByMention(words, files) : t.conf <= 80
<1> DEFINE hits == LexicalSearch(words, files, 500)
           Of(i) == [path |-> hits[i].path, line |-> hits[i].line, basis |-> "lexical",
                     conf |-> IF hits[i].exact THEN 80 ELSE 65]
           First(i) == \A j \in 1..(i - 1) : hits[j].path # hits[i].path \/ hits[j].line # hits[i].line
           M == RelatedByMention(words, files)
           I == DOMAIN hits
           f == [i \in I |-> Of(i)]
           All == {f[i] : i \in I}
<1>1. M = {Of(i) : i \in {j \in I : Site[hits[j].path].test /\ First(j)}}
  BY DEF RelatedByMention
<1>2. hits \in Seq(HitsIn(files))
  <2> DEFINE n == 500
  <2>1. n \in Nat
    OBVIOUS
  <2> HIDE DEF n
  <2>2. LexicalSearch(words, files, n) \in Seq(HitsIn(files))
    BY <2>1, SearchFindsHits
  <2> QED
    BY <2>2 DEF n
<1>3. \A h \in HitsIn(files) : h.path \in SitePaths /\ h.line \in Nat
  BY DEF HitsIn
<1> HIDE DEF hits
<1>4. I = 1..Len(hits) /\ Len(hits) \in Nat /\ \A i \in I : hits[i] \in HitsIn(files)
  BY <1>2
<1>5. \A i \in I : hits[i].path \in SitePaths /\ hits[i].line \in Nat
  BY <1>3, <1>4
<1> HIDE DEF M, I
<1>6. \A t \in M : \E i \in I : First(i) /\ t = Of(i)
  BY <1>1
<1>7. M \in SUBSET Related /\ \A t \in M : t.conf <= 80
  <2> SUFFICES ASSUME NEW t \in M PROVE t \in Related /\ t.conf <= 80
    OBVIOUS
  <2>1. PICK i \in I : t = Of(i)
    BY <1>6
  <2>2. \E c \in Nat : /\ c <= 80
                       /\ t = [path |-> hits[i].path, line |-> hits[i].line, basis |-> "lexical", conf |-> c]
    BY <2>1
  <2>3. PICK c \in Nat : /\ c <= 80
                         /\ t = [path |-> hits[i].path, line |-> hits[i].line, basis |-> "lexical", conf |-> c]
    BY <2>2
  <2> DEFINE p == hits[i].path
             n == hits[i].line
  <2>4. p \in SitePaths /\ n \in Nat
    BY <1>5
  <2>5. t = [path |-> p, line |-> n, basis |-> "lexical", conf |-> c]
    BY <2>3
  <2> HIDE DEF p, n
  <2>6. t \in Related /\ t.conf = c
    BY <2>4, <2>5, ARelatedTest
  <2> QED
    BY <2>3, <2>6
<1>8. \A t, u \in M : t.path = u.path /\ t.line = u.line => t = u
  <2> SUFFICES ASSUME NEW t \in M, NEW u \in M, t.path = u.path, t.line = u.line PROVE t = u
    OBVIOUS
  <2>1. PICK i \in I : First(i) /\ t = Of(i)
    BY <1>6
  <2>2. PICK j \in I : First(j) /\ u = Of(j)
    BY <1>6
  <2>3. hits[i].path = hits[j].path /\ hits[i].line = hits[j].line
    BY <2>1, <2>2
  <2>4. i = j
    <3>1. ~(i < j) /\ ~(j < i)
      BY <1>4, <2>1, <2>2, <2>3
    <3> QED
      BY <1>4, <3>1
  <2> QED
    BY <2>1, <2>2, <2>4
<1>9. IsFiniteSet(M)
  <2>1. IsFiniteSet(I)
    BY <1>4, FS_Interval
  <2>2. DOMAIN f = I /\ All = {f[i] : i \in I}
    OBVIOUS
  <2>3. M \in SUBSET All
    <3>1. \A i \in I : f[i] = Of(i)
      OBVIOUS
    <3> HIDE DEF f, Of, First
    <3> QED
      BY <1>6, <3>1
  <2> HIDE DEF f, All
  <2>4. IsFiniteSet(All)
    BY <2>1, <2>2, ImageIsFinite
  <2> QED
    BY <2>3, <2>4, FS_Subset
<1> QED
  BY <1>7, <1>8, <1>9 DEF FoundTests, M

(* The tests that are named like its files.                                *)
LEMMA NameFinds ==
    ASSUME SearchRepoAssumption, NEW files, FilesOK(files), NEW words
    PROVE  /\ FoundTests(RelatedByName(words, files))
           /\ \A t \in RelatedByName(words, files) : t.conf <= 80
<1> DEFINE Of(p) == [path |-> p, line |-> 1, basis |-> "name", conf |-> 55]
           N == RelatedByName(words, files)
           f == [p \in SitePaths |-> Of(p)]
           All == {f[p] : p \in SitePaths}
<1>1. \A t \in N : \E p \in SitePaths : t = Of(p)
  <2> DEFINE stems == {Site[p].stem : p \in TargetsOf(words, files)}
             T == {t \in Tests(files) : stems = {} \/ Site[t].stem \in stems}
  <2>1. N = {Of(p) : p \in T}
    BY DEF RelatedByName
  <2>2. T \subseteq SitePaths
    BY DEF Tests, FilesOK
  <2> HIDE DEF T, N
  <2> QED
    BY <2>1, <2>2
<1> HIDE DEF N
<1>2. N \in SUBSET Related /\ \A t \in N : t.conf <= 80
  <2> SUFFICES ASSUME NEW t \in N PROVE t \in Related /\ t.conf <= 80
    OBVIOUS
  <2>1. PICK p \in SitePaths : t = Of(p)
    BY <1>1
  <2>2. PICK c \in Nat : c = 55
    OBVIOUS
  <2>3. t = [path |-> p, line |-> 1, basis |-> "name", conf |-> c] /\ 1 \in Nat
    BY <2>1, <2>2
  <2>4. t \in Related /\ t.conf = c
    BY <2>3, ARelatedTest
  <2> QED
    BY <2>2, <2>4
<1>3. \A t, u \in N : t.path = u.path /\ t.line = u.line => t = u
  BY <1>1
<1>4. N \in SUBSET All
  BY <1>1
<1>5. IsFiniteSet(All)
  <2> DEFINE P == SitePaths
  <2>1. IsFiniteSet(P) /\ DOMAIN f = P /\ All = {f[p] : p \in P}
    BY DEF SearchRepoAssumption
  <2> HIDE DEF P, f, All
  <2> QED
    BY <2>1, ImageIsFinite
<1>6. IsFiniteSet(N)
  BY <1>4, <1>5, FS_Subset
<1> QED
  BY <1>2, <1>3, <1>6 DEF FoundTests, N

(* Tests found in another way are added where none is known.               *)
LEMMA MoreTests ==
    ASSUME NEW T, NEW U, FoundTests(T), FoundTests(U)
    PROVE  FoundTests(Unranked(T, U)) /\ T \subseteq Unranked(T, U)
           /\ \A t \in Unranked(T, U) : t \in T \/ t \in U
<1> DEFINE V == {u \in U : \A t \in T : t.path # u.path \/ t.line # u.line}
<1>1. Unranked(T, U) = T \cup V
  BY DEF Unranked
<1>2. V \in SUBSET U /\ \A v \in V : \A t \in T : t.path # v.path \/ t.line # v.line
  OBVIOUS
<1> HIDE DEF V
<1>3. IsFiniteSet(T) /\ IsFiniteSet(U) /\ T \in SUBSET Related /\ U \in SUBSET Related
  BY DEF FoundTests
<1>4. IsFiniteSet(V)
  BY <1>2, <1>3, FS_Subset
<1>5. IsFiniteSet(T \cup V)
  BY <1>3, <1>4, FS_Union
<1>6. \A t, u \in T \cup V : t.path = u.path /\ t.line = u.line => t = u
  BY <1>2 DEF FoundTests
<1>7. FoundTests(T \cup V)
  BY <1>2, <1>3, <1>5, <1>6 DEF FoundTests
<1> QED
  BY <1>1, <1>2, <1>7

(* The better founded test of a file: surer, or as sure and earlier.       *)
Surer(t, u) == u.conf < t.conf \/ (u.conf = t.conf /\ u.line > t.line)

(* Tests in the order of their confidence.                                 *)
ByConfidence(T) ==
    {p \in T \X T : \/ p[1].conf > p[2].conf
                    \/ p[1].conf = p[2].conf /\ p[1].path < p[2].path
                    \/ p[1].conf = p[2].conf /\ p[1].path = p[2].path /\ p[1].line < p[2].line}

(* The best of each file, in this order.                                   *)
BestTests(T) ==
    LET list == Sorted(T, ByConfidence(T))
    IN  Places(list, {i \in DOMAIN list : \A u \in T : u.path = list[i].path /\ u # list[i] => Surer(list[i], u)})

(* What orders tests are numbers.                                          *)
LEMMA TestsHaveNumbers ==
    ASSUME SearchRepoAssumption, NEW T, FoundTests(T)
    PROVE  \A t \in T : t.conf \in Int /\ t.path \in Int /\ t.line \in Int
<1>1. T \in SUBSET Related
  BY DEF FoundTests
<1>2. SitePaths \subseteq Nat
  BY DEF SearchRepoAssumption
<1> TAKE t \in T
<1>3. t.conf \in Nat /\ t.path \in SitePaths /\ t.line \in Nat
  BY <1>1 DEF Related
<1>4. t.path \in Nat
  BY <1>2, <1>3
<1> QED
  BY <1>3, <1>4

(* Tests are listed by confidence.                                         *)
LEMMA TestsAreListed ==
    ASSUME SearchRepoAssumption, NEW T, FoundTests(T)
    PROVE  /\ StrictOrder(ByConfidence(T), T)
           /\ Listing(Sorted(T, ByConfidence(T)), T)
           /\ Ordered(Sorted(T, ByConfidence(T)), Cardinality(T), T, ByConfidence(T))
<1> DEFINE R == ByConfidence(T)
           a == [t \in T |-> 0 - t.conf]
           b == [t \in T |-> t.path]
           c == [t \in T |-> t.line]
           z == [t \in T |-> 0]
<1>1. IsFiniteSet(T) /\ T \in SUBSET Related
  BY DEF FoundTests
<1>3. \A t \in T : t.conf \in Int /\ t.path \in Int /\ t.line \in Int
  BY TestsHaveNumbers
<1>4. a \in [T -> Int] /\ b \in [T -> Int] /\ c \in [T -> Int] /\ z \in [T -> Int]
  BY <1>3
<1>5. \A x, y \in T : <<x, y>> \in R <=>
           \/ a[x] < a[y]
           \/ a[x] = a[y] /\ b[x] < b[y]
           \/ a[x] = a[y] /\ b[x] = b[y] /\ c[x] < c[y]
  BY <1>3 DEF ByConfidence
<1>6. \A x \in T : z[x] = 0
  OBVIOUS
<1> HIDE DEF R, a, b, c, z
<1>7. ByNumbers(R, T, a, b, c, z)
  BY <1>4, <1>5, <1>6 DEF ByNumbers
<1>8. Listing(Sorted(T, R), T) /\ Ordered(Sorted(T, R), Cardinality(T), T, R)
  BY <1>1, <1>7, SortedByNumbers
<1>9. StrictOrder(R, T)
  BY <1>1, <1>7, NumbersAreStrict
<1> QED
  BY <1>8, <1>9 DEF R

(* Of each file one test is best.                                          *)
LEMMA BestExists ==
    ASSUME SearchRepoAssumption, NEW T, FoundTests(T), NEW t \in T
    PROVE  \E x \in T : /\ x.path = t.path /\ x.conf >= t.conf
                        /\ \A u \in T : u.path = x.path /\ u # x => Surer(x, u)
<1> DEFINE R == ByConfidence(T)
           S == {u \in T : u.path = t.path}
<1>1. IsFiniteSet(T) /\ T \in SUBSET Related
  BY DEF FoundTests
<1>2. \A u \in T : u.conf \in Int /\ u.path \in Int /\ u.line \in Int
  BY TestsHaveNumbers
<1>3. S \in SUBSET T /\ S # {} /\ t \in S /\ \A u \in S : u.path = t.path
  OBVIOUS
<1>4. StrictOrder(R, T)
  BY TestsAreListed
<1>5. \A x, y \in T : x.path = y.path =>
          (<<x, y>> \in R <=> x.conf > y.conf \/ (x.conf = y.conf /\ x.line < y.line))
  <2> TAKE x \in T, y \in T
  <2>1. ~(x.path < x.path) /\ x.path \in Int /\ y.path \in Int
    BY <1>2
  <2>3. x.conf \in Int /\ y.conf \in Int /\ x.line \in Int /\ y.line \in Int
    BY <1>2
  <2>2. <<x, y>> \in R <=>
            \/ x.conf > y.conf
            \/ x.conf = y.conf /\ x.path < y.path
            \/ x.conf = y.conf /\ x.path = y.path /\ x.line < y.line
    BY <2>1, <2>3 DEF ByConfidence
  <2> QED
    BY <2>1, <2>2, <2>3
<1>6. \A u \in T : u.path = t.path => u \in S
  OBVIOUS
<1> HIDE DEF R, S
<1>7. Grounded(T, R)
  BY <1>1, <1>4, OrderIsGrounded
<1>8. PICK x \in S : \A y \in S : <<y, x>> \notin R
  BY <1>3, <1>7 DEF Grounded
<1>9. x \in T /\ x.path = t.path
  BY <1>3, <1>8
<1>10. \A y \in S : y.conf <= x.conf /\ (y.conf = x.conf => y.line >= x.line)
  <2> TAKE y \in S
  <2>1. y \in T /\ y.path = x.path /\ <<y, x>> \notin R
    BY <1>3, <1>8, <1>9
  <2>2. y.conf \in Int /\ x.conf \in Int /\ y.line \in Int /\ x.line \in Int
    BY <1>2, <1>9, <2>1
  <2>3. ~(y.conf > x.conf \/ (y.conf = x.conf /\ y.line < x.line))
    BY <1>5, <1>9, <2>1
  <2> QED
    BY <2>2, <2>3
<1>11. ASSUME NEW u \in T, u.path = x.path, u # x PROVE Surer(x, u)
  <2>1. u \in S
    BY <1>6, <1>9, <1>11
  <2>2. u.line # x.line
    BY <1>9, <1>11 DEF FoundTests
  <2> QED
    BY <1>2, <1>9, <1>10, <2>1, <2>2 DEF Surer
<1>12. x.conf >= t.conf
  BY <1>2, <1>3, <1>9, <1>10
<1> QED
  BY <1>9, <1>11, <1>12

(* A list of tests: of each file one, and those the graph leads to before  *)
(* the files it does not lead to.                                          *)
TestsInOrder(list, G) ==
    /\ list \in Seq(Related)
    /\ \A m, n \in DOMAIN list : list[m].path = list[n].path => m = n
    /\ \A n \in DOMAIN list : list[n].path \notin {t.path : t \in G} =>
           \A t \in G : \E m \in 1..(n - 1) : list[m].path = t.path

(* A list that holds, in their order, the elements at some places.         *)
Picks(list, whole, K, S) ==
    /\ list \in Seq(S)
    /\ \A n \in DOMAIN list : \E i \in K : list[n] = whole[i]
    /\ \A i \in K : \E n \in DOMAIN list : list[n] = whole[i]
    /\ \A m, n \in DOMAIN list : m < n =>
           \E i, j \in K : i < j /\ list[m] = whole[i] /\ list[n] = whole[j]

(* The elements at some places of a list.                                  *)
LEMMA PlacesPick ==
    ASSUME NEW S, NEW whole \in Seq(S), NEW K \in SUBSET (DOMAIN whole)
    PROVE  Picks(Places(whole, K), whole, K, S)
<1> QED
  BY PlacesOf, Zenon DEF Picks

(* The best tests are such a list.                                         *)
LEMMA BestAreInOrder ==
    ASSUME SearchRepoAssumption, NEW T, FoundTests(T), NEW G \in SUBSET T,
           \A t \in G : t.conf >= 90, \A t \in T : t \in G \/ t.conf <= 80
    PROVE  TestsInOrder(BestTests(T), G)
<1> DEFINE R == ByConfidence(T)
           ordered == Sorted(T, R)
           size == Cardinality(T)
           K == {i \in DOMAIN ordered : \A u \in T : u.path = ordered[i].path /\ u # ordered[i] => Surer(ordered[i], u)}
           list == Places(ordered, K)
<1>1. BestTests(T) = list
  BY DEF BestTests
<1>2. Listing(ordered, T) /\ Ordered(ordered, size, T, R)
  BY TestsAreListed
<1>3. \A t \in T : t.conf \in Int /\ t.path \in Int /\ t.line \in Int
  BY TestsHaveNumbers
<1>4. \A t, u \in T : t.conf > u.conf => <<t, u>> \in R
  BY <1>3 DEF ByConfidence
<1> HIDE DEF R, ordered, size
<1>5. /\ ordered \in Seq(T) /\ Len(ordered) = size /\ size \in Nat
      /\ \A t \in T : \E i \in 1..size : ordered[i] = t
  BY <1>2 DEF Listing, size
<1>6. \A i, j \in 1..size : i < j => ordered[i] # ordered[j] /\ <<ordered[j], ordered[i]>> \notin R
  BY <1>2 DEF Ordered
<1>7. DOMAIN ordered = 1..size /\ \A i \in 1..size : ordered[i] \in T
  BY <1>5
<1>8. K \in SUBSET (DOMAIN ordered)
  OBVIOUS
<1>9. ASSUME NEW i \in K, NEW j \in K, i # j PROVE ordered[i].path # ordered[j].path
  <2>1. i \in 1..size /\ j \in 1..size /\ ordered[i] \in T /\ ordered[j] \in T
    BY <1>7, <1>8
  <2>2. ordered[i] # ordered[j]
    <3>1. i < j \/ j < i
      BY <1>9, <2>1
    <3> QED
      BY <1>6, <2>1, <3>1
  <2>3. ASSUME ordered[i].path = ordered[j].path PROVE FALSE
    <3>1. Surer(ordered[i], ordered[j]) /\ Surer(ordered[j], ordered[i])
      BY <2>1, <2>2, <2>3
    <3> QED
      BY <1>3, <2>1, <3>1 DEF Surer
  <2> QED
    BY <2>3
<1>10. ASSUME NEW t \in T PROVE \E i \in K : ordered[i].path = t.path /\ ordered[i].conf >= t.conf
  <2>1. PICK x \in T : /\ x.path = t.path /\ x.conf >= t.conf
                       /\ \A u \in T : u.path = x.path /\ u # x => Surer(x, u)
    BY BestExists
  <2>2. PICK i \in 1..size : ordered[i] = x
    BY <1>5
  <2>3. i \in K
    BY <1>7, <2>1, <2>2
  <2> QED
    BY <2>1, <2>2, <2>3
<1> HIDE DEF K
<1>11. /\ list \in Seq(T)
       /\ \A n \in DOMAIN list : \E i \in K : list[n] = ordered[i]
       /\ \A i \in K : \E n \in DOMAIN list : list[n] = ordered[i]
       /\ \A m, n \in DOMAIN list : m < n =>
              \E i, j \in K : i < j /\ list[m] = ordered[i] /\ list[n] = ordered[j]
  <2>1. ordered \in Seq(T) /\ K \in SUBSET (DOMAIN ordered)
    BY <1>5, <1>8
  <2>2. Picks(list, ordered, K, T)
    BY <2>1, PlacesPick
  <2> QED
    BY <2>2 DEF Picks
<1> HIDE DEF list
<1>12. DOMAIN list = 1..Len(list) /\ Len(list) \in Nat /\ \A n \in DOMAIN list : list[n] \in T
  BY <1>11
<1>13. ASSUME NEW m \in DOMAIN list, NEW n \in DOMAIN list, m < n PROVE list[m].path # list[n].path
  <2>1. PICK i \in K, j \in K : i < j /\ list[m] = ordered[i] /\ list[n] = ordered[j]
    BY <1>11, <1>13
  <2>2. i # j
    BY <1>7, <1>8, <2>1
  <2> QED
    BY <1>9, <2>1, <2>2
<1>14. \A m, n \in DOMAIN list : list[m].path = list[n].path => m = n
  <2> SUFFICES ASSUME NEW m \in DOMAIN list, NEW n \in DOMAIN list, m # n
               PROVE  list[m].path # list[n].path
    OBVIOUS
  <2>1. m < n \/ n < m
    BY <1>12
  <2> QED
    BY <1>13, <2>1
<1>15. ASSUME NEW n \in DOMAIN list, list[n].path \notin {t.path : t \in G}, NEW t \in G
       PROVE  \E m \in 1..(n - 1) : list[m].path = t.path
  <2>1. PICK i \in K : ordered[i].path = t.path /\ ordered[i].conf >= t.conf
    BY <1>10
  <2>2. PICK m \in DOMAIN list : list[m] = ordered[i]
    BY <1>11
  <2>3. list[n] \in T /\ list[m] \in T /\ list[n] \notin G /\ t \in T
    BY <1>12, <1>15
  <2>4. list[m].conf > list[n].conf
    <3>1. list[m].conf >= t.conf /\ t.conf >= 90 /\ list[n].conf <= 80
      BY <2>1, <2>2, <2>3
    <3>2. list[m].conf \in Int /\ t.conf \in Int /\ list[n].conf \in Int
      BY <1>3, <2>3
    <3> QED
      BY <3>1, <3>2
  <2>5. <<list[m], list[n]>> \in R
    BY <1>4, <2>3, <2>4
  <2>6. ~(n < m)
    <3> SUFFICES ASSUME n < m PROVE FALSE
      OBVIOUS
    <3>1. PICK k \in K, j \in K : k < j /\ list[n] = ordered[k] /\ list[m] = ordered[j]
      BY <1>11
    <3>2. k \in 1..size /\ j \in 1..size
      BY <1>7, <1>8
    <3> QED
      BY <1>6, <2>5, <3>1, <3>2
  <2>7. m # n
    BY <1>15, <2>1, <2>2
  <2>8. m \in 1..(n - 1)
    BY <1>12, <2>6, <2>7
  <2> QED
    BY <2>1, <2>2, <2>8
<1>16. list \in Seq(Related)
  <2>1. T \in SUBSET Related
    BY DEF FoundTests
  <2> QED
    BY <1>11, <2>1
<1> QED
  BY <1>1, <1>14, <1>15, <1>16 DEF TestsInOrder

(* The tests related to a symbol are such a list.                          *)
LEMMA RelatedAreInOrder ==
    ASSUME SearchRepoAssumption, NEW files, FilesOK(files), NEW words, MayAsk(words), NEW top \in Nat
    PROVE  TestsInOrder(RelatedTests(words, files, top), RelatedByGraph(words, files))
<1> DEFINE G == RelatedByGraph(words, files)
           M == RelatedByMention(words, files)
           N == RelatedByName(words, files)
           T == Unranked(Unranked(G, M), N)
           best == BestTests(T)
           list == FirstOf(best, top)
<1>1. RelatedTests(words, files, top) = list
  BY DEF RelatedTests, BestTests, ByConfidence, InOrder, Filter, Surer
<1>2. /\ FoundTests(G) /\ \A t \in G : t.conf >= 90
      /\ FoundTests(M) /\ \A t \in M : t.conf <= 80
      /\ FoundTests(N) /\ \A t \in N : t.conf <= 80
  BY GraphFinds, MentionFinds, NameFinds
<1> HIDE DEF G, M, N
<1>3. /\ FoundTests(Unranked(G, M)) /\ G \subseteq Unranked(G, M)
      /\ \A t \in Unranked(G, M) : t \in G \/ t \in M
  BY <1>2, MoreTests
<1>4. /\ FoundTests(T) /\ Unranked(G, M) \subseteq T
      /\ \A t \in T : t \in Unranked(G, M) \/ t \in N
  BY <1>2, <1>3, MoreTests
<1> HIDE DEF T
<1>5. G \in SUBSET T /\ \A t \in T : t \in G \/ t.conf <= 80
  BY <1>2, <1>3, <1>4
<1>6. TestsInOrder(best, G)
  BY <1>2, <1>4, <1>5, BestAreInOrder
<1> HIDE DEF best
<1>7. best \in Seq(Related)
  BY <1>6 DEF TestsInOrder
<1>8. /\ list \in Seq(Related)
      /\ \A i \in 1..Len(list) : i \in 1..Len(best) /\ list[i] = best[i]
  BY <1>7, FirstOfList
<1> HIDE DEF list
<1>9. DOMAIN best = 1..Len(best) /\ DOMAIN list = 1..Len(list) /\ Len(list) \in Nat
  BY <1>7, <1>8
<1>10. \A m, n \in DOMAIN list : list[m].path = list[n].path => m = n
  BY <1>6, <1>8, <1>9 DEF TestsInOrder
<1>11. ASSUME NEW n \in DOMAIN list, list[n].path \notin {t.path : t \in G}, NEW t \in G
       PROVE  \E m \in 1..(n - 1) : list[m].path = t.path
  <2>1. n \in DOMAIN best /\ best[n] = list[n] /\ n \in 1..Len(list)
    BY <1>8, <1>9
  <2>2. PICK m \in 1..(n - 1) : best[m].path = t.path
    BY <1>6, <1>11, <2>1 DEF TestsInOrder
  <2>3. m \in 1..Len(list)
    BY <1>9, <2>1
  <2> QED
    BY <1>8, <2>2, <2>3
<1> QED
  BY <1>1, <1>8, <1>10, <1>11 DEF TestsInOrder, G

-----------------------------------------------------------------------------
(* What an answer holds.                                                   *)

(* Items of lists: with what they show of S, or counted only.              *)
ItemsFor(S) ==
    [size : Nat, text : Nat, hit : S, shows : Nat] \cup [size : Nat, text : Nat]

(* Items have a size, and a text that can be emptied.                      *)
LEMMA ItemsAreSized ==
    ASSUME NEW S
    PROVE  Sized(ItemsFor(S))
<1> SUFFICES ASSUME NEW x \in ItemsFor(S)
             PROVE  x.size \in Nat /\ x.text \in Nat /\ [x EXCEPT !.text = 0] \in ItemsFor(S)
  BY DEF Sized
<1>1. CASE x \in [size : Nat, text : Nat, hit : S, shows : Nat]
  <2>1. [x EXCEPT !.text = 0] \in [size : Nat, text : Nat, hit : S, shows : Nat]
    BY <1>1
  <2> QED
    BY <1>1, <2>1 DEF ItemsFor
<1>2. CASE x \in [size : Nat, text : Nat]
  <2>1. [x EXCEPT !.text = 0] \in [size : Nat, text : Nat]
    BY <1>2
  <2> QED
    BY <1>2, <2>1 DEF ItemsFor
<1> QED
  BY <1>1, <1>2 DEF ItemsFor

(* Bare items and counted ones.                                            *)
LEMMA BareItems ==
    ASSUME NEW S, NEW T, T \in SUBSET S, NEW list \in Seq(T)
    PROVE  Bare(list) \in Seq(ItemsFor(S))
<1> DEFINE Of(i) == [size |-> 2, text |-> 0, hit |-> list[i], shows |-> 0]
<1>1. DOMAIN list = 1..Len(list) /\ Len(list) \in Nat
  OBVIOUS
<1>2. ASSUME NEW i \in 1..Len(list) PROVE Of(i) \in ItemsFor(S)
  <2> DEFINE hit == list[i]
  <2>1. hit \in S
    BY <1>1
  <2> HIDE DEF hit
  <2>2. [size |-> 2, text |-> 0, hit |-> hit, shows |-> 0] \in ItemsFor(S)
    BY <2>1 DEF ItemsFor
  <2> QED
    BY <2>2 DEF hit
<1>3. Bare(list) = [i \in 1..Len(list) |-> Of(i)]
  BY <1>1 DEF Bare
<1> HIDE DEF Of
<1> QED
  BY <1>1, <1>2, <1>3

(* A list that only counts has bare items.                                 *)
LEMMA TallyItems ==
    ASSUME NEW S, NEW n \in Nat
    PROVE  Tally(n) \in Seq(ItemsFor(S))
<1> DEFINE item == [size |-> 1, text |-> 0]
<1>1. item \in ItemsFor(S)
  BY DEF ItemsFor
<1>2. Tally(n) = [i \in 1..n |-> item]
  BY DEF Tally
<1> HIDE DEF item
<1> QED
  BY <1>1, <1>2

(* A list has a name.                                                      *)
LEMMA ListIsNamed ==
    ASSUME NEW I, NEW items \in Seq(I), NEW name \in ListNames
    PROVE  ListOf(name, items) \in NamedLists(I)
BY DEF ListOf, NamedLists

(* The parts of an answer.                                                 *)
LEMMA PartsOfAnswer ==
    ASSUME NEW I, NEW lists \in Seq(NamedLists(I)), NEW preferred \in Preferences,
           NEW body \in Nat, NEW source \in Nat, NEW rendered \in Nat, NEW truncated \in BOOLEAN,
           NEW diagnostics \in Seq(AnswerCodes)
    PROVE  [NoAnswer EXCEPT !.lists = lists, !.preferred = preferred, !.body = body,
               !.source = source, !.rendered = rendered, !.truncated = truncated,
               !.diagnostics = diagnostics] \in AnswersOf(I)
BY DEF NoAnswer, AnswersOf

(* The codes of diagnostics.                                               *)
LEMMA NotesAreCodes ==
    ASSUME NEW when, NEW code \in AnswerCodes
    PROVE  Note(when, code) \in Seq(AnswerCodes)
BY DEF Note

(* One diagnostic for each changed file.                                   *)
LEMMA ChangesAreCodes ==
    ASSUME NEW S, NEW changed \in Seq(S)
    PROVE  [i \in DOMAIN changed |-> "FILE_CHANGED"] \in Seq(AnswerCodes)
<1> DEFINE code == "FILE_CHANGED"
<1>1. code \in AnswerCodes
  BY DEF AnswerCodes
<1> HIDE DEF code
<1>2. [i \in DOMAIN changed |-> code] \in Seq(AnswerCodes)
  BY <1>1
<1> QED
  BY <1>2 DEF code

(* The answer to a search.                                                 *)
LEMMA WholeOfSearch ==
    ASSUME NEW S, NEW q, NEW files, q.ask = "search", q.results \in Seq(ItemsFor(S)),
           NEW P, q.changed \in Seq(P)
    PROVE  Whole(q, files) \in AnswersOf(ItemsFor(S))
<1> DEFINE I == ItemsFor(S)
           lists == <<ListOf("results", q.results)>>
           changes == [i \in DOMAIN q.changed |-> "FILE_CHANGED"]
           diagnostics == changes \o Note(q.results = <<>>, "NO_RESULTS")
           whole == [NoAnswer EXCEPT !.lists = lists, !.preferred = "results",
                                     !.diagnostics = diagnostics]
<1>1. Whole(q, files) = whole
  BY DEF Whole
<1>2. ListOf("results", q.results) \in NamedLists(I)
  <2>1. "results" \in ListNames
    BY DEF ListNames
  <2> QED
    BY <2>1, ListIsNamed
<1>3. lists \in Seq(NamedLists(I))
  BY <1>2
<1>4. changes \in Seq(AnswerCodes)
  BY ChangesAreCodes
<1>5. Note(q.results = <<>>, "NO_RESULTS") \in Seq(AnswerCodes)
  <2>1. "NO_RESULTS" \in AnswerCodes
    BY DEF AnswerCodes
  <2> QED
    BY <2>1, NotesAreCodes
<1>6. diagnostics \in Seq(AnswerCodes)
  <2> HIDE DEF changes
  <2> QED
    BY <1>4, <1>5
<1> HIDE DEF lists, diagnostics
<1>7. "results" \in Preferences
  BY DEF Preferences, ListNames
<1>8. whole \in AnswersOf(I)
  BY <1>3, <1>6, <1>7 DEF NoAnswer, AnswersOf
<1> QED
  BY <1>1, <1>8

(* The answer about one symbol.                                            *)
LEMMA WholeOfSymbol ==
    ASSUME NEW S, NEW q, NEW files, q.ask = "symbol", Len(q.hits) = 1, q.results[1] \in ItemsFor(S),
           NEW P, q.changed \in Seq(P)
    PROVE  Whole(q, files) \in AnswersOf(ItemsFor(S))
<1> DEFINE I == ItemsFor(S)
           body == q.results[1].size
           source == q.results[1].text
           diagnostics == [i \in DOMAIN q.changed |-> "FILE_CHANGED"]
           whole == [NoAnswer EXCEPT !.body = body, !.source = source, !.diagnostics = diagnostics]
<1>1. Whole(q, files) = whole
  BY DEF Whole
<1>2. body \in Nat /\ source \in Nat
  BY ItemsAreSized DEF Sized
<1>3. diagnostics \in Seq(AnswerCodes)
  BY ChangesAreCodes
<1> HIDE DEF body, source, diagnostics
<1>4. "" \in Preferences
  BY DEF Preferences
<1>5. <<>> \in Seq(NamedLists(I))
  OBVIOUS
<1>6. whole \in AnswersOf(I)
  BY <1>2, <1>3, <1>4, <1>5 DEF NoAnswer, AnswersOf
<1> QED
  BY <1>1, <1>6

(* The answer that lists candidates, or tests.                             *)
LEMMA WholeOfCandidates ==
    ASSUME NEW S, NEW q, NEW files, q.ask = "symbol", Len(q.hits) # 1,
           NEW H, H \in SUBSET S, q.hits \in Seq(H)
    PROVE  Whole(q, files) \in AnswersOf(ItemsFor(S))
<1> DEFINE I == ItemsFor(S)
           lists == <<ListOf("candidates", Bare(q.hits))>>
           diagnostics == <<"SYMBOL_AMBIGUOUS">>
           whole == [NoAnswer EXCEPT !.lists = lists, !.preferred = "candidates",
                                     !.diagnostics = diagnostics]
<1>1. Whole(q, files) = whole
  BY DEF Whole
<1>2. Bare(q.hits) \in Seq(I)
  BY BareItems
<1>3. "candidates" \in ListNames /\ "candidates" \in Preferences /\ "SYMBOL_AMBIGUOUS" \in AnswerCodes
  BY DEF ListNames, Preferences, AnswerCodes
<1>4. ListOf("candidates", Bare(q.hits)) \in NamedLists(I)
  BY <1>2, <1>3, ListIsNamed
<1>5. lists \in Seq(NamedLists(I)) /\ diagnostics \in Seq(AnswerCodes)
  BY <1>3, <1>4
<1> HIDE DEF lists, diagnostics
<1>6. whole \in AnswersOf(I)
  BY <1>3, <1>5 DEF NoAnswer, AnswersOf
<1> QED
  BY <1>1, <1>6

(* The answer to a question for tests lists related tests.                 *)
LEMMA WholeListsTests ==
    ASSUME NEW S, NEW q, NEW files, q.ask = "tests", NEW T, T \in SUBSET S,
           RelatedTests(q.words, files, q.top) \in Seq(T)
    PROVE  Whole(q, files) \in AnswersOf(ItemsFor(S))
<1> DEFINE I == ItemsFor(S)
           tests == RelatedTests(q.words, files, q.top)
           lists == <<ListOf("results", Bare(tests))>>
           whole == [NoAnswer EXCEPT !.preferred = "results", !.lists = lists]
<1>1. Whole(q, files) = whole
  BY DEF Whole
<1>2. Bare(tests) \in Seq(I)
  BY BareItems
<1>3. "results" \in ListNames /\ "results" \in Preferences
  BY DEF ListNames, Preferences
<1>4. ListOf("results", Bare(tests)) \in NamedLists(I)
  BY <1>2, <1>3, ListIsNamed
<1>5. lists \in Seq(NamedLists(I)) /\ <<>> \in Seq(AnswerCodes)
  BY <1>4
<1> HIDE DEF lists
<1>6. whole \in AnswersOf(I)
  BY <1>3, <1>5 DEF NoAnswer, AnswersOf
<1> QED
  BY <1>1, <1>6

(* What an overview begins with: hits of the focus, and landmarks.         *)
LEMMA FocusIsListed ==
    ASSUME SearchRepoAssumption, NEW files, FilesOK(files), NEW words, MayAsk(words)
    PROVE  FocusHits(words, files) \in Seq(HitsIn(files))
<1> DEFINE n == 20
           hits == LexicalSearch(words, files, n)
           K == {i \in DOMAIN hits : \A o \in Range(hits) : o.path = hits[i].path =>
                    o = hits[i] \/ RankIn(hits, Place(hits[i])) < RankIn(hits, Place(o))}
<1>1. n \in Nat
  OBVIOUS
<1>2. FocusHits(words, files) = Places(hits, K)
  BY DEF FocusHits, Filter
<1> HIDE DEF n
<1>3. hits \in Seq(HitsIn(files))
  BY <1>1, SearchFindsHits
<1>4. K \in SUBSET (DOMAIN hits)
  OBVIOUS
<1> HIDE DEF hits, K
<1> QED
  BY <1>2, <1>3, <1>4, PlacesOf

(* The landmarks of an overview are files that have rows, in an order.     *)
LEMMA LandmarksAreListed ==
    ASSUME SearchRepoAssumption, NEW files, FilesOK(files)
    PROVE  Landmarks(files) \in Seq(SitePaths)
<1> DEFINE S == {p \in DOMAIN files : files[p].rows # {}}
           Sign(b) == IF b THEN 1 ELSE 0
           First(p) == 1 - Sign(Site[p].landmark)
           Second(p) == Sign(Site[p].test)
           R == {x \in S \X S :
                   \/ First(x[1]) < First(x[2])
                   \/ /\ First(x[1]) = First(x[2])
                      /\ \/ Second(x[1]) < Second(x[2])
                         \/ Second(x[1]) = Second(x[2]) /\ x[1] < x[2]}
           a == [p \in S |-> First(p)]
           b == [p \in S |-> Second(p)]
           c == [p \in S |-> p]
           z == [p \in S |-> 0]
<1>1. Landmarks(files) = Sorted(S, R)
  BY DEF Landmarks, InOrder
<1>2. S \in SUBSET SitePaths /\ IsFiniteSet(SitePaths) /\ SitePaths \subseteq Nat
  BY DEF FilesOK, SearchRepoAssumption
<1>3. IsFiniteSet(S)
  <2> HIDE DEF S
  <2> QED
    BY <1>2, FS_Subset
<1>4. \A p : First(p) \in Int /\ Second(p) \in Int
  OBVIOUS
<1> HIDE DEF S, First, Second
<1>5. a \in [S -> Int] /\ b \in [S -> Int] /\ c \in [S -> Int] /\ z \in [S -> Int]
  BY <1>2, <1>4
<1>6. \A x, y \in S : <<x, y>> \in R <=>
           \/ a[x] < a[y]
           \/ a[x] = a[y] /\ b[x] < b[y]
           \/ a[x] = a[y] /\ b[x] = b[y] /\ c[x] < c[y]
  OBVIOUS
<1>7. \A x \in S : z[x] = 0
  OBVIOUS
<1> HIDE DEF R, a, b, c, z
<1>8. ByNumbers(R, S, a, b, c, z)
  BY <1>5, <1>6, <1>7 DEF ByNumbers
<1>9. Listing(Sorted(S, R), S)
  BY <1>3, <1>8, SortedByNumbers
<1> QED
  BY <1>1, <1>2, <1>9 DEF Listing

(* The symbols of a map have a number of tokens.                           *)
LEMMA MapHasTokens ==
    ASSUME NEW taken \in Seq(MapEntries)
    PROVE  Total([i \in DOMAIN taken |-> taken[i].tokens]) \in Nat
<1> DEFINE Of(i) == taken[i].tokens
<1>1. DOMAIN taken = 1..Len(taken) /\ Len(taken) \in Nat
  OBVIOUS
<1>2. ASSUME NEW i \in DOMAIN taken PROVE Of(i) \in Nat
  <2>1. taken[i] \in MapEntries
    OBVIOUS
  <2> QED
    BY <2>1 DEF MapEntries
<1> HIDE DEF Of
<1>3. [i \in DOMAIN taken |-> Of(i)] \in Seq(Nat)
  BY <1>1, <1>2
<1>4. Total([i \in DOMAIN taken |-> Of(i)]) \in Nat
  BY <1>3, TotalIsNat
<1> QED
  BY <1>4 DEF Of

(* There are finitely many folders.                                        *)
LEMMA FoldersAreCounted ==
    ASSUME SearchRepoAssumption, NEW files
    PROVE  Cardinality({Site[p].folder : p \in {x \in SitePaths : files[x].rows # {}}}) \in Nat
<1> DEFINE S == {x \in SitePaths : files[x].rows # {}}
           Of(p) == Site[p].folder
           f == [p \in S |-> Of(p)]
           T == {Of(p) : p \in S}
<1>1. S \in SUBSET SitePaths /\ IsFiniteSet(SitePaths)
  BY DEF SearchRepoAssumption
<1> HIDE DEF S, Of
<1>2. IsFiniteSet(S)
  BY <1>1, FS_Subset
<1>3. DOMAIN f = S /\ T = {f[p] : p \in S}
  OBVIOUS
<1> HIDE DEF f, T
<1>4. IsFiniteSet(T)
  BY <1>2, <1>3, ImageIsFinite
<1>5. Cardinality(T) \in Nat
  BY <1>4, FS_CardinalityType
<1> QED
  BY <1>5 DEF T, S, Of

(* An overview.                                                            *)
LEMMA WholeOfOverview ==
    ASSUME SearchRepoAssumption, NEW files, FilesOK(files), NEW q, q.ask = "overview", MayAsk(q.words),
           NEW S, HitsIn(files) \in SUBSET S, SitePaths \in SUBSET S
    PROVE  Whole(q, files) \in AnswersOf(ItemsFor(S))
<1> DEFINE I == ItemsFor(S)
           focus   == FocusHits(q.words, files)
           map     == RepoMap(files, focus, (q.budget * 2) \div 5)
           folders == {Site[p].folder : p \in {x \in SitePaths : files[x].rows # {}}}
           symbols == Total([i \in DOMAIN map.taken |-> map.taken[i].tokens])
           l1 == ListOf("focus_results", Bare(FirstOf(focus, 12)))
           l2 == ListOf("landmarks", Bare(Landmarks(files)))
           l3 == ListOf("principal_directories", Tally(Cardinality(folders)))
           l4 == ListOf("languages", Tally(1))
           l5 == ListOf("entries", Tally(Len(map.taken)))
           lists == <<l1, l2, l3, l4, l5>>
           cut == \E p \in SitePaths : files[p].rows # {} /\ \A e \in Range(map.taken) : e.path # p
           whole == [NoAnswer EXCEPT !.lists = lists, !.preferred = "focus_results",
                                     !.rendered = symbols, !.truncated = cut]
<1>1. Whole(q, files) = whole
  BY DEF Whole
<1>2. focus \in Seq(HitsIn(files))
  BY FocusIsListed
<1>3. map.taken \in Seq(MapEntries)
  <2> DEFINE budget == (q.budget * 2) \div 5
  <2> HIDE DEF budget, focus
  <2>1. RepoMap(files, focus, budget).taken \in Seq(MapEntries)
    BY <1>2, MapIsListed
  <2> QED
    BY <2>1 DEF budget, focus
<1>4. symbols \in Nat
  BY <1>3, MapHasTokens
<1>5. cut \in BOOLEAN
  OBVIOUS
<1>6. Cardinality(folders) \in Nat
  BY FoldersAreCounted
<1>7. Len(map.taken) \in Nat
  BY <1>3
<1> HIDE DEF focus, map, folders, symbols, cut
<1>8. Bare(FirstOf(focus, 12)) \in Seq(I)
  <2> DEFINE n == 12
             page == FirstOf(focus, n)
  <2>1. n \in Nat
    OBVIOUS
  <2> HIDE DEF n
  <2>2. page \in Seq(HitsIn(files))
    BY <1>2, <2>1, FirstOfList
  <2> HIDE DEF page
  <2>3. Bare(page) \in Seq(I)
    BY <2>2, BareItems
  <2> QED
    BY <2>3 DEF page, n
<1>9. Bare(Landmarks(files)) \in Seq(I)
  <2> DEFINE T == SitePaths
             list == Landmarks(files)
  <2>1. list \in Seq(T) /\ T \in SUBSET S
    BY LandmarksAreListed
  <2> HIDE DEF T, list
  <2>2. Bare(list) \in Seq(I)
    BY <2>1, BareItems
  <2> QED
    BY <2>2 DEF list
<1>10. Tally(Cardinality(folders)) \in Seq(I) /\ Tally(1) \in Seq(I) /\ Tally(Len(map.taken)) \in Seq(I)
  <2>1. 1 \in Nat
    OBVIOUS
  <2> QED
    BY <1>6, <1>7, <2>1, TallyItems
<1>11. /\ "focus_results" \in ListNames /\ "landmarks" \in ListNames /\ "languages" \in ListNames
       /\ "principal_directories" \in ListNames /\ "entries" \in ListNames
       /\ "focus_results" \in Preferences
  BY DEF ListNames, Preferences
<1>12. /\ l1 \in NamedLists(I) /\ l2 \in NamedLists(I) /\ l3 \in NamedLists(I)
       /\ l4 \in NamedLists(I) /\ l5 \in NamedLists(I)
  BY <1>8, <1>9, <1>10, <1>11, ListIsNamed
<1> HIDE DEF l1, l2, l3, l4, l5
<1>13. lists \in Seq(NamedLists(I)) /\ <<>> \in Seq(AnswerCodes)
  BY <1>12
<1> HIDE DEF lists
<1>14. whole \in AnswersOf(I)
  BY <1>4, <1>5, <1>11, <1>13 DEF NoAnswer, AnswersOf
<1> QED
  BY <1>1, <1>14

(* What may be shown of the files.                                         *)
ShownOf(files) == HitsIn(files) \cup Related \cup SitePaths

(* What a question has found is an answer.                                 *)
LEMMA WholeIsAnswer ==
    ASSUME SearchRepoAssumption, NEW files, FilesOK(files), NEW q, NEW n, QuestionOK(q, n),
           q.stage # "none", FoundOK(q, files),
           q.ask = "symbol" /\ Len(q.hits) = 1 => Len(q.results) = 1
    PROVE  Whole(q, files) \in AnswersOf(ItemsFor(ShownOf(files)))
<1> DEFINE S == ShownOf(files)
<1>1. /\ HitsIn(files) \in SUBSET S /\ Related \in SUBSET S /\ SitePaths \in SUBSET S
  BY DEF ShownOf
<1>2. /\ q.hits \in Seq(HitsIn(files)) /\ q.results \in Seq(ResultsIn(files)) /\ q.changed \in Seq(SitePaths)
  BY DEF FoundOK
<1>3. ResultsIn(files) \subseteq ItemsFor(S)
  BY <1>1 DEF ResultsIn, ItemsFor
<1>4. MayAsk(q.words) /\ q.top \in Nat /\ q.ask \in {"search", "symbol", "tests", "overview"}
  BY DEF QuestionOK
<1> HIDE DEF S
<1>5. q.results \in Seq(ItemsFor(S))
  BY <1>2, <1>3
<1>6. CASE q.ask = "search"
  BY <1>2, <1>5, <1>6, WholeOfSearch DEF S
<1>7. CASE q.ask = "symbol" /\ Len(q.hits) = 1
  <2>1. q.results[1] \in ItemsFor(S)
    BY <1>5, <1>7
  <2> QED
    BY <1>2, <1>7, <2>1, WholeOfSymbol DEF S
<1>8. CASE q.ask = "symbol" /\ Len(q.hits) # 1
  BY <1>1, <1>2, <1>8, WholeOfCandidates DEF S
<1>9. CASE q.ask = "tests"
  <2>1. TestsInOrder(RelatedTests(q.words, files, q.top), RelatedByGraph(q.words, files))
    BY <1>4, RelatedAreInOrder
  <2>2. RelatedTests(q.words, files, q.top) \in Seq(Related)
    BY <2>1 DEF TestsInOrder
  <2> QED
    BY <1>1, <1>9, <2>2, WholeListsTests DEF S
<1>10. CASE q.ask = "overview"
  BY <1>1, <1>4, <1>10, WholeOfOverview DEF S
<1> QED
  BY <1>4, <1>6, <1>7, <1>8, <1>9, <1>10

(* What the answer to a question about tests holds.                        *)
LEMMA WholeOfTests ==
    ASSUME NEW q, NEW files, q.ask = "tests"
    PROVE  Whole(q, files).lists[1].items = Bare(RelatedTests(q.words, files, q.top))
<1> DEFINE items == Bare(RelatedTests(q.words, files, q.top))
           whole == [NoAnswer EXCEPT !.preferred = "results", !.lists = <<ListOf("results", items)>>]
<1>1. Whole(q, files) = whole
  BY DEF Whole
<1> HIDE DEF items
<1>2. whole.lists = <<ListOf("results", items)>>
  BY DEF NoAnswer
<1>3. whole.lists[1] = ListOf("results", items)
  BY <1>2
<1>4. whole.lists[1].items = items
  BY <1>3 DEF ListOf
<1> QED
  BY <1>1, <1>4 DEF items

(* Diagnostics are added to an answer.                                     *)
LEMMA DiagnosedAnswer ==
    ASSUME NEW I, NEW a \in AnswersOf(I), NEW freshness \in Freshness
    PROVE  [a EXCEPT !.diagnostics = @ \o freshness] \in AnswersOf(I)
<1> DEFINE codes == a.diagnostics \o freshness
<1>1. freshness \in Seq(AnswerCodes)
  <2>1. "INDEX_STALE" \in AnswerCodes /\ "FRESHNESS_CHECK_FAILED" \in AnswerCodes
    BY DEF AnswerCodes
  <2>2. <<"FRESHNESS_CHECK_FAILED", "INDEX_STALE">> \in Seq(AnswerCodes)
    BY <2>1
  <2>3. Note(disk # published[inquiry.gen], "INDEX_STALE") \in Seq(AnswerCodes)
    BY <2>1, NotesAreCodes
  <2> QED
    BY <2>2, <2>3 DEF Freshness
<1>2. a.diagnostics \in Seq(AnswerCodes)
  BY DEF AnswersOf
<1>3. codes \in Seq(AnswerCodes)
  BY <1>1, <1>2
<1>4. [a EXCEPT !.diagnostics = @ \o freshness] = [a EXCEPT !.diagnostics = codes]
  OBVIOUS
<1> HIDE DEF codes
<1>5. [a EXCEPT !.diagnostics = codes] \in AnswersOf(I)
  BY <1>3 DEF AnswersOf
<1> QED
  BY <1>4, <1>5

(* The answer.                                                             *)
LEMMA EnvelopeKeeps ==
    ASSUME SearchRepoAssumption, SearchInv, Envelope
    PROVE  SearchInv'
<1> DEFINE q == inquiry
           files == FilesOf(Latest)
           found == Whole(q, files)
<1>1. PICK freshness \in Freshness :
         LET whole == [found EXCEPT !.diagnostics = @ \o freshness]
         IN  Continue([inquiry EXCEPT !.stage = "answered", !.whole = whole,
                                      !.answer = Compacted(whole, inquiry.budget)])
  BY DEF Envelope
<1> DEFINE whole == [found EXCEPT !.diagnostics = @ \o freshness]
           answer == Compacted(whole, q.budget)
           next == [q EXCEPT !.stage = "answered", !.whole = whole, !.answer = answer]
<1>2. Continue(next)
  BY <1>1
<1>3. q.stage # "none" /\ q.gen = Latest
  BY DEF Envelope, Prepared, StillActive
<1>4. QuestionOK(q, Latest) /\ FoundOK(q, files)
  BY <1>3 DEF SearchInv, StillActive
<1>12. found \in AnswersOf(ItemsFor(ShownOf(files)))
  <2>1. q.ask = "symbol" /\ Len(q.hits) = 1 => Len(q.results) = 1
    BY <1>4 DEF Envelope, Prepared, FoundOK
  <2>2. FilesOK(files) /\ q.stage # "none"
    BY <1>3, PublishedFiles
  <2> HIDE DEF q, files
  <2> QED
    BY <1>4, <2>1, <2>2, WholeIsAnswer
<1>5. q.ask = "tests" => found.lists[1].items = Bare(RelatedTests(q.words, files, q.top))
  BY WholeOfTests
<1> HIDE DEF q, files, found
<1>6. whole.lists = found.lists
  OBVIOUS
<1>13. KeepsBest(answer, whole, q.budget)
  <2> DEFINE I == ItemsFor(ShownOf(files))
             budget == q.budget
  <2>1. budget \in Nat
    BY <1>3, <1>4 DEF QuestionOK
  <2>2. Sized(I)
    BY ItemsAreSized
  <2>3. whole \in AnswersOf(I)
    BY <1>12, DiagnosedAnswer
  <2> HIDE DEF I, whole, budget
  <2>4. KeepsBest(Compacted(whole, budget), whole, budget)
    BY <2>1, <2>2, <2>3, CompactedKeepsBest
  <2> QED
    BY <2>4 DEF budget
<1> HIDE DEF whole, answer
<1>7. DOMAIN q = Fields
  BY <1>3, <1>4 DEF QuestionOK
<1>8. /\ DOMAIN next = Fields /\ next.stage = "answered" /\ next.whole = whole /\ next.answer = answer
      /\ next.ask = q.ask /\ next.words = q.words /\ next.top = q.top /\ next.budget = q.budget
      /\ next.semantic = q.semantic /\ next.gen = q.gen
      /\ next.hits = q.hits /\ next.results = q.results /\ next.changed = q.changed
  BY <1>7 DEF Fields
<1> HIDE DEF next
<1>9. QuestionOK(next, Latest)
  BY <1>3, <1>4, <1>8 DEF QuestionOK, Stages
<1>10. FoundOK(next, files)
  BY <1>4, <1>8 DEF FoundOK
<1>11. AnswerOK(next, files)
  BY <1>5, <1>6, <1>8, <1>13 DEF AnswerOK
<1> QED
  BY <1>2, <1>3, <1>8, <1>9, <1>10, <1>11, ContinueKeeps DEF q, files

(* The initial state and the steps.                                        *)
LEMMA SearchInvHolds ==
    ASSUME SearchRepoAssumption
    PROVE  /\ SearchRepoInit => SearchInv
           /\ SearchInv /\ [SearchRepoNext]_searchRepoVars => SearchInv'
<1>1. ASSUME SearchRepoInit PROVE SearchInv
  <2>1. published = <<disk>> /\ inquiry = NoInquiry
    BY <1>1 DEF SearchRepoInit
  <2>2. disk \in VersionMaps
    <3>1. \A p \in SitePaths : disk[p] \in Versions(p)
      BY <1>1 DEF SearchRepoInit
    <3>2. \A p \in SitePaths : \A v \in Versions(p) : v \in Nat
      BY DEF SearchRepoAssumption
    <3>3. \E V : disk \in [SitePaths -> V]
      BY <1>1 DEF SearchRepoInit
    <3> QED
      BY <3>1, <3>2, <3>3 DEF VersionMaps
  <2>3. published \in Seq(VersionMaps) /\ Latest = 1
    BY <2>1, <2>2 DEF Latest
  <2>4. QuestionOK(NoInquiry, Latest) /\ NoInquiry.stage = "none"
    BY NoQuestionIsOK
  <2> QED
    BY <2>1, <2>2, <2>3, <2>4 DEF SearchInv, Answered
<1>2. ASSUME SearchInv, SearchRepoNext PROVE SearchInv'
  <2>1. CASE (\E p \in SitePaths : Touch(p)) \/ PublishAgain
    BY <1>2, <2>1, OthersKeep
  <2>2. CASE AskRepo
    BY <1>2, <2>2, AskKeeps
  <2>3. CASE Lexical
    BY <1>2, <2>3, LexicalKeeps
  <2>4. CASE Nearest
    BY <1>2, <2>4, NearestKeeps
  <2>5. CASE SemanticUnavailable \/ GenerationChanged \/ Conclude
    <3>1. Refuse
      BY <2>5 DEF SemanticUnavailable, GenerationChanged, Conclude
    <3> QED
      BY <1>2, <3>1, RefuseKeeps
  <2>6. CASE Chunks
    BY <1>2, <2>6, ChunksKeeps
  <2>7. CASE Hashes
    BY <1>2, <2>7, HashesKeeps
  <2>8. CASE Fuse
    BY <1>2, <2>8, FuseKeeps
  <2>9. CASE Define
    BY <1>2, <2>9, DefineKeeps
  <2>10. CASE Verify
    BY <1>2, <2>10, VerifyKeeps
  <2>11. CASE Envelope
    BY <1>2, <2>11, EnvelopeKeeps
  <2> QED
    BY <1>2, <2>1, <2>2, <2>3, <2>4, <2>5, <2>6, <2>7, <2>8, <2>9, <2>10, <2>11 DEF SearchRepoNext
<1>3. ASSUME SearchInv, UNCHANGED searchRepoVars PROVE SearchInv'
  <2>1. disk' = disk /\ published' = published /\ inquiry' = inquiry
    BY <1>3 DEF searchRepoVars
  <2>2. Latest' = Latest
    BY <2>1 DEF Latest
  <2>3. FilesOf(Latest)' = FilesOf(Latest)
    BY <2>1, <2>2 DEF FilesOf
  <2> QED
    BY <1>3, <2>1, <2>2, <2>3 DEF SearchInv, StillActive, Answered
<1> QED
  BY <1>1, <1>2, <1>3

(* What is shown is what is indexed.                                       *)
LEMMA ShownOfInv ==
    ASSUME SearchRepoAssumption, SearchInv
    PROVE  ShownIsIndexed
<1> SUFFICES ASSUME Answered, NEW r \in Range(inquiry.results)
             PROVE  /\ r.shows \in {0, published[inquiry.gen][r.hit.path]}
                    /\ \E row \in FilesOf(inquiry.gen)[r.hit.path].rows \cup {[kind |-> "file"]} :
                          row.kind = r.hit.kind
  BY DEF ShownIsIndexed
<1> DEFINE files == FilesOf(Latest)
<1>1. inquiry.gen = Latest /\ inquiry.stage # "none"
  BY DEF SearchInv, StillActive, Answered
<1>2. FoundOK(inquiry, files)
  BY <1>1 DEF SearchInv, StillActive
<1>3. \A p \in SitePaths : files[p].hash = published[Latest][p]
  BY PublishedFiles
<1> HIDE DEF files
<1>4. r \in ResultsIn(files)
  <2>1. inquiry.results \in Seq(ResultsIn(files))
    BY <1>2 DEF FoundOK
  <2> QED
    BY <2>1 DEF Range
<1>5. r.hit \in HitsIn(files) /\ r.shows \in {0, files[r.hit.path].hash}
  BY <1>4 DEF ResultsIn
<1> DEFINE hit == r.hit
<1>6. hit.path \in SitePaths
  BY <1>5 DEF HitsIn
<1>7. \E row \in files[hit.path].rows \cup {[kind |-> "file"]} : row.kind = hit.kind
  BY <1>5 DEF HitsIn
<1> QED
  BY <1>1, <1>3, <1>5, <1>6, <1>7 DEF files

(* Bare items are the hits.                                                *)
LEMMA BareOf ==
    ASSUME NEW S, NEW list \in Seq(S)
    PROVE  /\ DOMAIN Bare(list) = 1..Len(list) /\ Len(Bare(list)) = Len(list)
           /\ \A i \in 1..Len(list) : Bare(list)[i].hit = list[i]
<1>1. Len(list) \in Nat /\ DOMAIN list = 1..Len(list)
  OBVIOUS
<1> DEFINE Item(i) == [size |-> 2, text |-> 0, hit |-> list[i], shows |-> 0]
<1>2. \A i \in 1..Len(list) : Item(i).hit = list[i]
  OBVIOUS
<1>3. Bare(list) = [i \in 1..Len(list) |-> Item(i)]
  BY <1>1 DEF Bare
<1> HIDE DEF Item
<1> QED
  BY <1>1, <1>2, <1>3

(* Items that are tests, one for each file and those of the graph first.   *)
ItemsRanked(items, G) ==
    /\ Cardinality({items[i].hit.path : i \in DOMAIN items}) = Len(items)
    /\ \A i \in DOMAIN items : items[i].hit.path \notin {t.path : t \in G} =>
          \A p \in {t.path : t \in G} : \E j \in 1..(i - 1) : items[j].hit.path = p

(* Tests that are in order are ranked.                                     *)
LEMMA ItemsAreRanked ==
    ASSUME NEW list, NEW G, TestsInOrder(list, G)
    PROVE  ItemsRanked(Bare(list), G)
<1> DEFINE tests == Bare(list)
           n == Len(list)
           I == 1..n
           PathAt(i) == tests[i].hit.path
           f == [i \in I |-> PathAt(i)]
           P == {f[i] : i \in I}
           All == {tests[i].hit.path : i \in DOMAIN tests}
<1>1. list \in Seq(Related) /\ n \in Nat /\ DOMAIN list = I
  BY DEF TestsInOrder
<1>2. DOMAIN tests = I /\ Len(tests) = n /\ \A i \in I : tests[i].hit = list[i]
  BY <1>1, BareOf
<1>3. \A i \in I : PathAt(i) = list[i].path /\ f[i] = list[i].path
  BY <1>2
<1>4. \A i, j \in I : f[i] = f[j] => i = j
  BY <1>1, <1>3 DEF TestsInOrder
<1>5. All = P
  BY <1>2, <1>3
<1>6. IsFiniteSet(I) /\ Cardinality(I) = n
  BY <1>1, FS_Interval
<1>7. DOMAIN f = I
  OBVIOUS
<1> HIDE DEF tests, I, f
<1>8. Cardinality(P) = Cardinality(I)
  BY <1>4, <1>6, <1>7, SameSize
<1>9. ASSUME NEW i \in I, PathAt(i) \notin {t.path : t \in G}, NEW p \in {t.path : t \in G}
      PROVE  \E j \in 1..(i - 1) : PathAt(j) = p
  <2>1. PICK t \in G : t.path = p
    OBVIOUS
  <2>2. list[i].path \notin {u.path : u \in G}
    BY <1>3, <1>9
  <2>3. PICK j \in 1..(i - 1) : list[j].path = t.path
    BY <1>1, <2>2 DEF TestsInOrder
  <2>4. j \in I
    BY <1>1 DEF I
  <2> QED
    BY <1>3, <2>1, <2>3, <2>4
<1>10. Cardinality(All) = Len(tests)
  BY <1>2, <1>5, <1>6, <1>8
<1>11. \A i \in DOMAIN tests : tests[i].hit.path \notin {t.path : t \in G} =>
          \A p \in {t.path : t \in G} : \E j \in 1..(i - 1) : tests[j].hit.path = p
  BY <1>2, <1>9
<1>12. ItemsRanked(tests, G)
  BY <1>10, <1>11, Zenon DEF ItemsRanked
<1> QED
  BY <1>12 DEF tests

(* The pages and the tests are ranked fairly.                              *)
LEMMA RankingOfInv ==
    ASSUME SearchRepoAssumption, SearchInv
    PROVE  RankingIsFair
<1>1. PageIsSpread
  <2> SUFFICES ASSUME inquiry.stage = "verify", inquiry.ask = "search", ~inquiry.semantic, StillActive
               PROVE  WellSpread(inquiry.hits, inquiry.words, FilesOf(inquiry.gen), inquiry.top)
    BY DEF PageIsSpread
  <2>1. FoundOK(inquiry, FilesOf(Latest)) /\ inquiry.gen = Latest
    BY DEF SearchInv, StillActive
  <2> QED
    BY <2>1 DEF FoundOK
<1>2. TestsAreRanked
  <2> SUFFICES ASSUME Answered, inquiry.ask = "tests"
               PROVE  ItemsRanked(inquiry.whole.lists[1].items,
                                  RelatedByGraph(inquiry.words, FilesOf(inquiry.gen)))
    BY Zenon DEF TestsAreRanked, ItemsRanked
  <2> DEFINE files == FilesOf(Latest)
             list  == RelatedTests(inquiry.words, files, inquiry.top)
             G     == RelatedByGraph(inquiry.words, files)
  <2>1. inquiry.gen = Latest /\ AnswerOK(inquiry, files) /\ inquiry.stage # "none"
    BY DEF SearchInv, StillActive, Answered
  <2>2. inquiry.whole.lists[1].items = Bare(list)
    BY <2>1 DEF AnswerOK
  <2>3. QuestionOK(inquiry, Latest)
    BY DEF SearchInv
  <2>4. MayAsk(inquiry.words) /\ inquiry.top \in Nat
    BY <2>1, <2>3 DEF QuestionOK
  <2>5. FilesOK(files) /\ G = RelatedByGraph(inquiry.words, FilesOf(inquiry.gen))
    BY <2>1, PublishedFiles
  <2> HIDE DEF files
  <2>6. TestsInOrder(list, G)
    BY <2>4, <2>5, RelatedAreInOrder
  <2> HIDE DEF list, G
  <2> QED
    BY <2>2, <2>5, <2>6, ItemsAreRanked
<1> QED
  BY <1>1, <1>2 DEF RankingIsFair

(* An answer keeps the best.                                               *)
LEMMA BestOfInv ==
    ASSUME SearchInv
    PROVE  BestIsKept
<1> SUFFICES ASSUME Answered PROVE KeepsBest(inquiry.answer, inquiry.whole, inquiry.budget)
  BY DEF BestIsKept
<1> QED
  BY DEF SearchInv, AnswerOK

(* What is shown with an answer is what the generation of the answer has   *)
(* indexed, however the files are edited and published while the question  *)
(* is answered (_verified_source, _require_generation, _envelope).         *)
THEOREM ShownStaysIndexed ==
    ASSUME SearchRepoAssumption
    PROVE  SearchRepoSpec => []ShownIsIndexed
<1>1. SearchRepoInit => SearchInv
  BY SearchInvHolds
<1>2. SearchInv /\ [SearchRepoNext]_searchRepoVars => SearchInv'
  BY SearchInvHolds
<1>3. SearchInv => ShownIsIndexed
  BY ShownOfInv
<1> QED
  BY <1>1, <1>2, <1>3, PTL DEF SearchRepoSpec

(* A page of hits is spread over the files, without a place twice, and     *)
(* related tests are one for each file, those of the graph first, for every *)
(* index and every question (SqliteContextIndex.search,                    *)
(* _related_tests_payload).                                                *)
THEOREM RankingStaysFair ==
    ASSUME SearchRepoAssumption
    PROVE  SearchRepoSpec => []RankingIsFair
<1>1. SearchRepoInit => SearchInv
  BY SearchInvHolds
<1>2. SearchInv /\ [SearchRepoNext]_searchRepoVars => SearchInv'
  BY SearchInvHolds
<1>3. SearchInv => RankingIsFair
  BY RankingOfInv
<1> QED
  BY <1>1, <1>2, <1>3, PTL DEF SearchRepoSpec

(* An answer is whole or says that it is truncated, keeps a beginning of   *)
(* each list, fits its budget or has nothing left to take, and keeps the   *)
(* best of what is preferred, for every index, question and budget         *)
(* (_compact_envelope).                                                    *)
THEOREM BestStaysKept ==
    ASSUME SearchRepoAssumption
    PROVE  SearchRepoSpec => []BestIsKept
<1>1. SearchRepoInit => SearchInv
  BY SearchInvHolds
<1>2. SearchInv /\ [SearchRepoNext]_searchRepoVars => SearchInv'
  BY SearchInvHolds
<1>3. SearchInv => BestIsKept
  BY BestOfInv
<1> QED
  BY <1>1, <1>2, <1>3, PTL DEF SearchRepoSpec
=============================================================================
