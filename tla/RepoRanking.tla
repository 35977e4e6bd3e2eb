---------------------------- MODULE RepoRanking ----------------------------
(***************************************************************************)
(* How the repository index ranks what it finds and what of it fits in an  *)
(* answer: the lexical score and the selection of a page of hits, the      *)
(* fusion with semantic hits, the tests related to a symbol, the map of    *)
(* the repository and the compaction of an answer to its token budget.     *)
(*                                                                         *)
(* A path is a number, its place in the order of paths.  Words are sets of *)
(* tokens.  Scores are in hundredths.  The limits on rows read (500 and    *)
(* more) are above what an instance holds.                                 *)
(***************************************************************************)
EXTENDS Ordering, Integers, FiniteSets, SequencesExt

CONSTANTS
    Site          \* path -> [words, bucket, folder, bonus, test, stem, landmark]

Kinds == <<"chunk", "file", "symbol">>      \* in alphabetical order

KindRank(kind) == CHOOSE k \in DOMAIN Kinds : Kinds[k] = kind

Share(part, whole) == (Cardinality(part \cap whole) * 100) \div Cardinality(whole)

-----------------------------------------------------------------------------
(* Lexical search.  A row is an entry of search_fts; a file also says      *)
(* which words it holds literally, and how often.                          *)
WordsOf(path, row) == Site[path].words \cup row.name \cup row.text

ExactBoost(words, path, row) ==
    IF words = row.name THEN 800 ELSE IF words = Site[path].words THEN 650 ELSE 0

TestPenalty(words, path) == IF Site[path].test /\ "test" \notin words THEN -225 ELSE 0

RowScore(words, path, row, strategy) ==
    ExactBoost(words, path, row)
    + 4 * Share(WordsOf(path, row), words) + 8 * Share(Site[path].words, words)
    + 4 * Share(row.name, words) + row.bm25
    + (IF strategy = "all_terms" THEN 100 ELSE 0)
    + (CASE row.kind = "symbol" -> 40 [] row.kind = "chunk" -> 20 [] OTHER -> 0)
    + TestPenalty(words, path) + Site[path].bonus

Matching(words, path, row, strategy) ==
    IF strategy = "all_terms" THEN words \subseteq WordsOf(path, row)
    ELSE words \cap WordsOf(path, row) # {}

(* _fts_query_plans.                                                       *)
Strategies(words) == IF Cardinality(words) = 1 THEN {"all_terms"} ELSE {"all_terms", "any_term"}

Found(path, row, hash, score, exact) ==
    [kind |-> row.kind, path |-> path, line |-> row.line, to |-> row.to,
     hash |-> hash, score |-> score, exact |-> exact]

FtsHits(words, files) ==
    UNION {{Found(p, row, files[p].hash, RowScore(words, p, row, s), 
                  ExactBoost(words, p, row) > 0) :
                row \in {r \in files[p].rows : Matching(words, p, r, s)}} :
            p \in DOMAIN files, s \in Strategies(words)}

(* _exact_file_hits.                                                       *)
LiteralHits(words, files) ==
    {Found(p, [kind |-> "file", line |-> files[p].at, to |-> files[p].at], files[p].hash,
           500 + 5 * Min({files[p].times, 20}), TRUE) :
        p \in {q \in DOMAIN files : files[q].phrase = words /\ files[q].times > 0}}

Place(hit) == <<hit.path, hit.line, hit.to, hit.kind>>

(* Of the hits at a place, the best, or one of them.                       *)
Unique(hits) ==
    LET At(place)   == {h \in hits : Place(h) = place}
        Best(there) == CHOOSE h \in there : \A other \in there : other.score <= h.score
    IN  {Best(At(Place(h))) : h \in hits}

Earlier(a, b) ==
    \/ a.path < b.path
    \/ a.path = b.path /\ a.line < b.line
    \/ a.path = b.path /\ a.line = b.line /\ KindRank(a.kind) < KindRank(b.kind)

TakenOf(path, taken) == Cardinality({i \in DOMAIN taken : taken[i].path = path})

InBucket(path, taken) ==
    Cardinality({i \in DOMAIN taken : Site[taken[i].path].bucket = Site[path].bucket})

(* What a bucket has on the page already weighs on its next hit.           *)
Better(a, b, taken) ==
    LET left  == a.score * (100 + 8 * InBucket(b.path, taken))
        right == b.score * (100 + 8 * InBucket(a.path, taken))
    IN  left > right \/ (left = right /\ Earlier(a, b))

(* Mutant of Candidates: a file may have its second excerpt at once.       *)
AllBelowThree(left, taken) == {h \in left : TakenOf(h.path, taken) < 3}

Candidates(left, taken) ==
    LET new == {h \in left : TakenOf(h.path, taken) = 0}
    IN  IF new # {} THEN new ELSE {h \in left : TakenOf(h.path, taken) < 3}

TakeNext(page) ==
    LET candidates == Candidates(page.left, page.taken)
        next == CHOOSE h \in candidates : \A o \in candidates : ~Better(o, h, page.taken)
    IN  IF candidates = {} THEN page
        ELSE [taken |-> Append(page.taken, next), left |-> page.left \ {next}]

(* The page after n turns of the loop that fills it.                       *)
PageAfter(hits, n) ==
    LET Page[i \in 0..n] ==
            IF i = 0 THEN [taken |-> <<>>, left |-> hits]
            ELSE LET before == Page[i - 1] IN TakeNext(before)
    IN  Page[n]

LexicalHits(words, files) ==
    IF words = {} THEN {} ELSE Unique(FtsHits(words, files) \cup LiteralHits(words, files))

(* SqliteContextIndex.search over the files of a generation.               *)
LexicalSearch(words, files, top) ==
    LET hits == LexicalHits(words, files)
    IN  PageAfter(hits, Min({top, Cardinality(hits)})).taken

-----------------------------------------------------------------------------
(* Fusion with semantic hits: reciprocal ranks in millionths; at equal     *)
(* scores the hit that is first in the lexical list, then the semantic.    *)
RankIn(list, place) ==
    IF \E i \in DOMAIN list : Place(list[i]) = place
    THEN CHOOSE i \in DOMAIN list : Place(list[i]) = place ELSE 0

Reciprocal(rank) == IF rank = 0 THEN 0 ELSE 1000000 \div (60 + rank)

FirstSeen(lexical, semantic, hit) ==
    LET inLexical == RankIn(lexical, Place(hit))
    IN  IF inLexical > 0 THEN inLexical ELSE 1000 + RankIn(semantic, Place(hit))

Fused(lexical, semantic) ==
    LET only   == {h \in Range(semantic) : RankIn(lexical, Place(h)) = 0}
        Rrf(h) == Reciprocal(RankIn(lexical, Place(h))) + Reciprocal(RankIn(semantic, Place(h)))
    IN  InOrder(Range(lexical) \cup only,
            LAMBDA a, b :
                \/ Rrf(a) > Rrf(b)
                \/ /\ Rrf(a) = Rrf(b)
                   /\ FirstSeen(lexical, semantic, a) < FirstSeen(lexical, semantic, b))

FirstOf(list, n) == SubSeq(list, 1, Min({n, Len(list)}))

(* The cross-encoder sees a shortlist; what is beyond it is dropped.       *)
Shortlist(fused, top) == FirstOf(fused, 2 * top)

Reranked(shortlist, marks) ==
    LET order == InOrder(DOMAIN shortlist, LAMBDA i, j :
            \/ marks[i] > marks[j]
            \/ /\ marks[i] = marks[j]
               /\ \/ shortlist[i].path < shortlist[j].path
                  \/ /\ shortlist[i].path = shortlist[j].path
                     /\ \/ shortlist[i].line < shortlist[j].line
                        \/ shortlist[i].line = shortlist[j].line /\ i < j)
    IN  [k \in DOMAIN order |-> shortlist[order[k]]]

-----------------------------------------------------------------------------
(* _related_tests_payload.  Confidences in hundredths; a file's edges are  *)
(* in the order the index returns them, and of several at one line the     *)
(* last one counts.                                                        *)
Tests(files) == {p \in DOMAIN files : Site[p].test}

TargetsOf(words, files) ==
    {p \in DOMAIN files : \E row \in files[p].rows : row.kind = "symbol" /\ row.name = words}

EdgesAt(words, file, line) ==
    Filter(file.refs, LAMBDA e : e.to = words /\ e.line = line)

RelatedByGraph(words, files) ==
    IF TargetsOf(words, files) = {} THEN {}
    ELSE UNION {{[path |-> p, line |-> e.line, basis |-> "graph",
                  conf |-> IF Last(EdgesAt(words, files[p], e.line)).rel = "tests" THEN 100 ELSE 90] :
                    e \in {x \in Range(files[p].refs) : x.to = words}} : p \in Tests(files)}

Unranked(found, more) ==
    found \cup {m \in more : \A t \in found : t.path # m.path \/ t.line # m.line}

(* Of several hits at one line the first counts.                           *)
RelatedByMention(words, files) ==
    LET hits == LexicalSearch(words, files, 500)
        Of(i) == [path |-> hits[i].path, line |-> hits[i].line, basis |-> "lexical",
                  conf |-> IF hits[i].exact THEN 80 ELSE 65]
        First(i) == \A j \in 1..(i - 1) : hits[j].path # hits[i].path \/ hits[j].line # hits[i].line
    IN  {Of(i) : i \in {j \in DOMAIN hits : Site[hits[j].path].test /\ First(j)}}

RelatedByName(words, files) ==
    LET stems == {Site[p].stem : p \in TargetsOf(words, files)}
    IN  {[path |-> p, line |-> 1, basis |-> "name", conf |-> 55] :
            p \in {t \in Tests(files) : stems = {} \/ Site[t].stem \in stems}}

RelatedTests(words, files, top) ==
    LET ranked  == Unranked(Unranked(RelatedByGraph(words, files), RelatedByMention(words, files)),
                            RelatedByName(words, files))
        ordered == InOrder(ranked, LAMBDA a, b :
                       \/ a.conf > b.conf
                       \/ a.conf = b.conf /\ a.path < b.path
                       \/ a.conf = b.conf /\ a.path = b.path /\ a.line < b.line)
    IN  FirstOf(Filter(ordered, LAMBDA t : \A other \in ranked :
                    other.path = t.path /\ other # t =>
                        \/ other.conf < t.conf
                        \/ other.conf = t.conf /\ other.line > t.line), top)

-----------------------------------------------------------------------------
(* repo_overview: hits fused by path, landmarks and the map.  Where only   *)
(* one query is made its hits keep their order, one for each path.         *)
FocusHits(words, files) ==
    LET hits == LexicalSearch(words, files, 20)
    IN  Filter(hits, LAMBDA h : \A o \in Range(hits) : o.path = h.path =>
                                      o = h \/ RankIn(hits, Place(h)) < RankIn(hits, Place(o)))

Landmarks(files) ==
    InOrder({p \in DOMAIN files : files[p].rows # {}}, LAMBDA p, q :
        LET Sign(b) == IF b THEN 1 ELSE 0
            A == <<1 - Sign(Site[p].landmark), Sign(Site[p].test)>>
            B == <<1 - Sign(Site[q].landmark), Sign(Site[q].test)>>
        IN  A[1] < B[1] \/ (A[1] = B[1] /\ (A[2] < B[2] \/ (A[2] = B[2] /\ p < q))))

SymbolsIn(file) == {row \in file.rows : row.kind = "symbol"}

(* 2400 times the root of 1 / rank, rounded down.                          *)
RootOf(rank) == CHOOSE n \in 0..2400 :
    n * n * rank <= 2400 * 2400 /\ (n + 1) * (n + 1) * rank > 2400 * 2400

(* A file that the focus finds counts 24 times the root of 1 / its rank.   *)
FocusScore(path, focus) ==
    LET ranks == {i \in DOMAIN focus : focus[i].path = path}
    IN  IF ranks = {} THEN 0 ELSE RootOf(Min(ranks))

(* An entry shows the path and its symbols, at one token each.             *)
MapEntry(path, files, focus) ==
    [path |-> path,
     score |-> 100 * (1 + Cardinality(SymbolsIn(files[path]))) + FocusScore(path, focus),
     tokens |-> 1 + Cardinality(SymbolsIn(files[path]))]

(* Focused maps are spread over subsystems, others over folders.           *)
Region(path, focused) == IF focused THEN Site[path].bucket ELSE Site[path].folder

Spread(path, map, focused) ==
    10 + (IF focused THEN 1 ELSE 4)
         * Cardinality({e \in Range(map.taken) : Region(e.path, focused) = Region(path, focused)})

(* What a region has in the map already weighs on its next entry.          *)
Ahead(a, b, map, focused) ==
    LET left  == a.score * Spread(b.path, map, focused)
        right == b.score * Spread(a.path, map, focused)
    IN  left > right \/ (left = right /\ a.path < b.path)

(* _select_diverse: the next entry, whole or as its path alone.            *)
NextEntry(map, budget, focused) ==
    LET next == CHOOSE e \in map.left : \A o \in map.left : ~Ahead(o, e, map, focused)
        used == map.used + IF map.taken = <<>> THEN 0 ELSE 1
        Take(tokens) == [left |-> map.left \ {next}, used |-> used + tokens,
                         taken |-> Append(map.taken, [next EXCEPT !.tokens = tokens])]
    IN  IF map.left = {} THEN map
        ELSE IF used + next.tokens <= budget THEN Take(next.tokens)
        ELSE IF used + 1 <= budget THEN Take(1)
        ELSE [map EXCEPT !.left = @ \ {next}]

(* focus: the hits of the focus, or none.                                  *)
RepoMap(files, focus, budget) ==
    LET paths   == {p \in DOMAIN files : files[p].rows # {}}
        entries == {MapEntry(p, files, focus) : p \in paths}
        Map[n \in 0..Cardinality(paths)] ==
            IF n = 0 THEN [left |-> entries, taken |-> <<>>, used |-> 0]
            ELSE LET before == Map[n - 1] IN NextEntry(before, budget, focus # <<>>)
    IN  Map[Cardinality(paths)]

-----------------------------------------------------------------------------
(* Compaction.  An answer has named lists, in the order in which they are  *)
(* shortened at equal length; an item has a fixed size and a text that may *)
(* be emptied, and so has what is in no list (body and source); one list   *)
(* may be preferred.                                                       *)
SizeOf(items) == Total([k \in DOMAIN items |-> items[k].size + items[k].text])

BaseSize == 3

Tokens(answer) ==
    BaseSize + answer.body + answer.source + answer.rendered + Len(answer.diagnostics)
    + Total([i \in DOMAIN answer.lists |-> SizeOf(answer.lists[i].items)])

Lengths(answer) == Total([i \in DOMAIN answer.lists |-> Len(answer.lists[i].items)])

Pop(answer, i) == [answer EXCEPT !.lists[i].items = Front(@)]

PopLongest(answer, from) ==
    LET longest == CHOOSE i \in from :
            \A j \in from : LET a == Len(answer.lists[i].items)
                                b == Len(answer.lists[j].items)
                            IN  a > b \/ (a = b /\ i <= j)
    IN  Pop(answer, longest)

NotEmpty(answer, indices) == {i \in indices : answer.lists[i].items # <<>>}

Lower(answer) == {i \in DOMAIN answer.lists : answer.lists[i].name # answer.preferred}

PreferredOf(answer) == {i \in DOMAIN answer.lists : answer.lists[i].name = answer.preferred}

(* The lists that a loop may shorten: those of lower priority, the         *)
(* preferred one down to three items, or all of them.                      *)
Trimmable(answer, part) ==
    CASE part = "lower"     -> NotEmpty(answer, Lower(answer))
      [] part = "preferred" -> {i \in PreferredOf(answer) : Len(answer.lists[i].items) > 3}
      [] part = "all"       -> NotEmpty(answer, DOMAIN answer.lists)

(* While the answer is over the budget and something can be taken from it. *)
Shorten(answer, budget, part) ==
    LET Answer[n \in 0..Lengths(answer)] ==
            IF n = 0 THEN answer
            ELSE LET before == Answer[n - 1]
                     open   == Trimmable(before, part)
                 IN  IF Tokens(before) > budget /\ open # {} THEN PopLongest(before, open) ELSE before
    IN  Answer[Lengths(answer)]

WithoutTexts(list) == [list EXCEPT !.items = [k \in DOMAIN @ |-> [@[k] EXCEPT !.text = 0]]]

Stripped(answer) ==
    [answer EXCEPT !.source = 0, !.lists = [i \in DOMAIN @ |-> WithoutTexts(@[i])]]

FewerDiagnostics(answer, budget) ==
    LET over == Max({0, Tokens(answer) - budget})
        n    == Len(answer.diagnostics)
    IN  [answer EXCEPT !.diagnostics = FirstOf(@, Max({Min({1, n}), n - over}))]

(* Mutant of Compacted: all lists are shortened alike.                     *)
CompactedAlike(answer, budget) ==
    IF Tokens(answer) <= budget THEN answer
    ELSE FewerDiagnostics(Shorten([answer EXCEPT !.truncated = TRUE, !.rendered = 0], budget, "all"), budget)

Compacted(answer, budget) ==
    IF Tokens(answer) <= budget THEN answer
    ELSE LET marked == [answer EXCEPT !.truncated = TRUE, !.rendered = 0,
                                      !.diagnostics = Append(@, "RESULT_TRUNCATED")]
             fewer  == Shorten(Shorten(marked, budget, "lower"), budget, "preferred")
             bare   == IF Tokens(fewer) > budget THEN Stripped(fewer) ELSE fewer
         IN  FewerDiagnostics(Shorten(bare, budget, "all"), budget)
=============================================================================
