----------------------------- MODULE RepoSearch -----------------------------
(***************************************************************************)
(* A question to the repository index, step by step: search_repo,          *)
(* get_symbol, related_tests and repo_overview.  Meanwhile files are       *)
(* edited and other processes publish generations; every read of the index *)
(* asks for the active one again, and excerpts are read from the working   *)
(* tree.  How a generation is made is RepoIndex's subject: here it holds   *)
(* the version each file had.                                              *)
(***************************************************************************)
EXTENDS RepoRanking

CONSTANTS
    Content,        \* path -> version -> what the index holds of it; 0 is absent
    Inquiries,      \* the questions asked
    Semantic,       \* whether semantic retrieval is configured, or may be
    MaxTouches,     \* bound on the edits of files
    MaxPublished    \* bound on the generations

VARIABLES disk, touches, published, inquiry

searchRepoVars == <<disk, touches, published, inquiry>>

SitePaths == DOMAIN Site

Versions(p) == DOMAIN Content[p]

(* What the index holds of a file: its rows, what it literally holds, and  *)
(* the edges that start in it.                                             *)
Words   == SUBSET STRING
RowOf   == [kind : Range(Kinds), line : Nat, to : Nat, name : Words, text : Words, bm25 : Int]
Indexed == [hash : Nat, rows : SUBSET RowOf, phrase : Words, times : Nat, at : Nat,
            refs : Seq([rel : STRING, line : Nat, to : Words])]

(* A version is known by its hash, and an absent file has no rows.         *)
ASSUME SearchRepoAssumption ==
    /\ MaxTouches \in Nat /\ MaxPublished \in Nat /\ Semantic \subseteq BOOLEAN
    /\ SitePaths \subseteq Nat /\ IsFiniteSet(SitePaths) /\ DOMAIN Content = SitePaths
    /\ \A p \in SitePaths :
          /\ Site[p].test \in BOOLEAN /\ Site[p].landmark \in BOOLEAN /\ Site[p].bonus \in Int
          /\ \A v \in Versions(p) :
                /\ v \in Nat /\ Content[p][v] \in Indexed
                /\ Content[p][v].hash = v /\ IsFiniteSet(Content[p][v].rows)
                /\ v = 0 => Content[p][v].rows = {} /\ Content[p][v].times = 0
    /\ \A q \in Inquiries :
          /\ q.ask \in {"search", "symbol", "tests", "overview"}
          /\ q.words \in Words /\ IsFiniteSet(q.words) /\ q.top \in Nat /\ q.budget \in Nat

FilesOf(g) == [p \in SitePaths |-> Content[p][published[g][p]]]

Latest == Len(published)

NoAnswer == [lists |-> <<>>, preferred |-> "", body |-> 0, source |-> 0, rendered |-> 0,
             truncated |-> FALSE, diagnostics |-> <<>>]

NoInquiry == [stage |-> "none", ask |-> "", words |-> {}, top |-> 0, budget |-> 0,
              semantic |-> FALSE, gen |-> 0, hits |-> <<>>, ids |-> <<>>, near |-> <<>>,
              results |-> <<>>, changed |-> <<>>, whole |-> NoAnswer, answer |-> NoAnswer]

(* What happens after the answer does not change it.                       *)
Unanswered == inquiry.stage # "answered"

Touch(p) ==
    /\ Unanswered /\ touches < MaxTouches
    /\ touches' = touches + 1
    /\ \E v \in Versions(p) \ {disk[p]} : disk' = [disk EXCEPT ![p] = v]
    /\ UNCHANGED <<published, inquiry>>

(* Another process indexes the working tree.                               *)
PublishAgain ==
    /\ Unanswered /\ Latest < MaxPublished
    /\ published[Latest] # disk
    /\ published' = Append(published, disk)
    /\ UNCHANGED <<disk, touches, inquiry>>

Continue(next) == inquiry' = next /\ UNCHANGED <<disk, touches, published>>

(* _require_generation; what semantic retrieval finds matters to a search. *)
AskRepo ==
    /\ inquiry.stage = "none"
    /\ \E q \in Inquiries : \E semantic \in IF q.ask = "search" THEN Semantic ELSE {FALSE} :
         Continue([NoInquiry EXCEPT !.stage = "asked", !.ask = q.ask, !.words = q.words,
                                    !.top = q.top, !.budget = q.budget, !.semantic = semantic,
                                    !.gen = Latest])

Refuse == Continue(NoInquiry)

(* The lexical pass of search_repo, under the id that is active now.       *)
Lexical ==
    /\ inquiry.stage = "asked" /\ inquiry.ask = "search"
    /\ LET hits == LexicalSearch(inquiry.words, FilesOf(Latest), inquiry.top)
       IN  Continue([inquiry EXCEPT !.hits = hits,
                        !.stage = IF inquiry.semantic THEN "semantic" ELSE "verify"])

ChunksOf(files) ==
    UNION {{<<p, row>> : row \in {r \in files[p].rows : r.kind = "chunk"}} : p \in SitePaths}

ByPlace(ids) ==
    InOrder(ids, LAMBDA a, b : a[1] < b[1] \/ (a[1] = b[1] /\ a[2].line < b[2].line))

(* The nearest chunks of the generation asked.  Similarities and the marks *)
(* of the cross-encoder are bounded to one that stands out, or none.       *)
Nearest ==
    /\ inquiry.stage = "semantic"
    /\ LET chunks == ChunksOf(FilesOf(inquiry.gen)) IN
         \E alike \in {{}} \cup {{id} : id \in chunks} :
            Continue([inquiry EXCEPT !.stage = "chunks",
                                     !.ids = FirstOf(ByPlace(alike) \o ByPlace(chunks \ alike), 3 * inquiry.top)])

(* Semantic search was asked for: without it there is no answer.           *)
SemanticUnavailable == inquiry.stage = "semantic" /\ Refuse

(* chunks_by_ids: an id the active generation does not have is skipped.    *)
Chunks ==
    /\ inquiry.stage = "chunks"
    /\ Continue([inquiry EXCEPT !.stage = "hashes", !.ids = <<>>,
                    !.near = Filter(inquiry.ids, LAMBDA id : id \in ChunksOf(FilesOf(Latest)))])

(* chunk_content_hashes: a chunk that is gone by now has no hash.          *)
HashOf(id) == IF id \in ChunksOf(FilesOf(Latest)) THEN FilesOf(Latest)[id[1]].hash ELSE 0

Hashes ==
    /\ inquiry.stage = "hashes"
    /\ Continue([inquiry EXCEPT !.stage = "fuse",
                    !.near = [i \in DOMAIN @ |-> Found(@[i][1], @[i][2], HashOf(@[i]), 0, FALSE)]])

(* The fusion; a cross-encoder may follow.                                 *)
Fuse ==
    /\ inquiry.stage = "fuse"
    /\ LET fused == Fused(inquiry.hits, inquiry.near)
           short == Shortlist(fused, inquiry.top)
           Page(hits) == Continue([inquiry EXCEPT !.stage = "verify", !.near = <<>>,
                                                  !.hits = FirstOf(hits, inquiry.top)])
       IN  \/ Page(fused)
           \/ \E best \in 0..Len(short) :
                Page(Reranked(short, [i \in DOMAIN short |-> IF i = best THEN 1 ELSE 0]))

(* get_symbol: one definition with its source, or the candidates without.  *)
(* Names that only contain the words asked for are left out.               *)
Definitions(words, files) ==
    InOrder(UNION {{Found(p, row, files[p].hash, 0, TRUE) :
                            row \in {r \in files[p].rows : r.kind = "symbol" /\ r.name = words}} :
                        p \in SitePaths}, Earlier)

Define ==
    /\ inquiry.stage = "asked" /\ inquiry.ask = "symbol"
    /\ LET found == Definitions(inquiry.words, FilesOf(Latest))
       IN  CASE found = <<>>   -> Refuse
             [] Len(found) = 1 -> Continue([inquiry EXCEPT !.stage = "verify", !.hits = found])
             [] OTHER          -> Continue([inquiry EXCEPT !.stage = "envelope", !.hits = found])

(* _verified_source: the text is shown if the file still has the hash; a   *)
(* hit without a hash is not compared.                                     *)
VerifiedAlways(hit) == disk[hit.path] # 0      \* mutant of Verified

Verified(hit) == hit.hash \in {0, disk[hit.path]} /\ disk[hit.path] # 0

Verify ==
    /\ inquiry.stage = "verify" /\ Len(inquiry.results) < Len(inquiry.hits)
    /\ LET hit  == inquiry.hits[Len(inquiry.results) + 1]
           show == Verified(hit)
       IN  Continue([inquiry EXCEPT
               !.results = Append(@, [size |-> 2, text |-> IF show THEN 2 ELSE 0, hit |-> hit,
                                      shows |-> IF show THEN disk[hit.path] ELSE 0]),
               !.changed = IF show \/ hit.path \in Range(@) THEN @ ELSE Append(@, hit.path)])

-----------------------------------------------------------------------------
(* What the answer to a question holds before it is compacted.             *)
Bare(list) == [i \in DOMAIN list |-> [size |-> 2, text |-> 0, hit |-> list[i], shows |-> 0]]

Tally(n) == [i \in 1..n |-> [size |-> 1, text |-> 0]]

ListOf(name, items) == [name |-> name, items |-> items]

Note(when, code) == IF when THEN <<code>> ELSE <<>>

Whole(q, files) ==
    CASE q.ask = "search" ->
           [NoAnswer EXCEPT !.lists = <<ListOf("results", q.results)>>, !.preferred = "results",
               !.diagnostics = [i \in DOMAIN q.changed |-> "FILE_CHANGED"]
                               \o Note(q.results = <<>>, "NO_RESULTS")]
      [] q.ask = "symbol" /\ Len(q.hits) = 1 ->
           [NoAnswer EXCEPT !.body = q.results[1].size, !.source = q.results[1].text,
               !.diagnostics = [i \in DOMAIN q.changed |-> "FILE_CHANGED"]]
      [] q.ask = "symbol" /\ Len(q.hits) # 1 ->
           [NoAnswer EXCEPT !.lists = <<ListOf("candidates", Bare(q.hits))>>,
               !.preferred = "candidates", !.diagnostics = <<"SYMBOL_AMBIGUOUS">>]
      [] q.ask = "tests" ->
           [NoAnswer EXCEPT !.preferred = "results",
               !.lists = <<ListOf("results", Bare(RelatedTests(q.words, files, q.top)))>>]
      [] q.ask = "overview" ->
           LET focus   == FocusHits(q.words, files)
               map     == RepoMap(files, focus, (q.budget * 2) \div 5)
               folders == {Site[p].folder : p \in {x \in SitePaths : files[x].rows # {}}}
               symbols == Total([i \in DOMAIN map.taken |-> map.taken[i].tokens])
           IN  [NoAnswer EXCEPT
                   !.lists = <<ListOf("focus_results", Bare(FirstOf(focus, 12))),
                               ListOf("landmarks", Bare(Landmarks(files))),
                               ListOf("principal_directories", Tally(Cardinality(folders))),
                               ListOf("languages", Tally(1)),
                               ListOf("entries", Tally(Len(map.taken)))>>,
                   !.preferred = "focus_results", !.rendered = symbols,
                   !.truncated = \E p \in SitePaths : files[p].rows # {}
                                     /\ \A e \in Range(map.taken) : e.path # p]

Prepared ==
    \/ inquiry.stage = "asked" /\ inquiry.ask \in {"tests", "overview"}
    \/ inquiry.stage = "verify" /\ Len(inquiry.results) = Len(inquiry.hits)
    \/ inquiry.stage = "envelope"

(* The scan that tells whether the generation is stale may fail.           *)
Freshness ==
    {Note(disk # published[inquiry.gen], "INDEX_STALE"),
     <<"FRESHNESS_CHECK_FAILED", "INDEX_STALE">>}

StillActive == inquiry.gen = Latest

(* _envelope and _compact_envelope.                                        *)
Envelope ==
    /\ Prepared /\ StillActive
    /\ \E whole \in {[Whole(inquiry, FilesOf(Latest)) EXCEPT !.diagnostics = @ \o freshness] :
                         freshness \in Freshness} :
         Continue([inquiry EXCEPT !.stage = "answered", !.whole = whole,
                                  !.answer = Compacted(whole, inquiry.budget)])

(* The generation changed during the query.                                *)
GenerationChanged == Prepared /\ ~StillActive /\ Refuse

Conclude == inquiry.stage = "answered" /\ Refuse

SearchRepoInit ==
    /\ disk \in {d \in [SitePaths -> UNION {Versions(p) : p \in SitePaths}] :
                    \A p \in SitePaths : d[p] \in Versions(p) \ {0}}
    /\ touches = 0 /\ published = <<disk>> /\ inquiry = NoInquiry

SearchRepoNext ==
    \/ \E p \in SitePaths : Touch(p)
    \/ PublishAgain \/ AskRepo
    \/ Lexical \/ Nearest \/ SemanticUnavailable \/ Chunks \/ Hashes \/ Fuse
    \/ Define \/ Verify \/ Envelope \/ GenerationChanged \/ Conclude

SearchRepoSpec == SearchRepoInit /\ [][SearchRepoNext]_searchRepoVars

-----------------------------------------------------------------------------
(* Properties.                                                             *)

Answered == inquiry.stage = "answered"

(* An answer refers to hits of the generation it names, and the text shown *)
(* with a hit is the one that generation has indexed, although the file    *)
(* was edited, or the index published again, between the ranking, the two  *)
(* look-ups of a semantic hit and the reading of the file.                 *)
ShownIsIndexed ==
    Answered => \A r \in Range(inquiry.results) :
        /\ r.shows \in {0, published[inquiry.gen][r.hit.path]}
        /\ \E row \in FilesOf(inquiry.gen)[r.hit.path].rows \cup {[kind |-> "file"]} :
              row.kind = r.hit.kind

(* A page of lexical hits has no place twice and at most three excerpts of *)
(* a file; a second one only if every file that matches has its first, and *)
(* nothing is missing from a page that is not full.                        *)
WellSpread(hits, words, files, top) ==
    LET Matches(p) == Cardinality({h \in LexicalHits(words, files) : h.path = p})
        Shows(p)   == TakenOf(p, hits)
    IN  /\ Cardinality({Place(h) : h \in Range(hits)}) = Len(hits)
        /\ \A p \in SitePaths : Shows(p) <= 3
        /\ (\E p \in SitePaths : Shows(p) > 1) => \A p \in SitePaths : Matches(p) > 0 => Shows(p) > 0
        /\ Len(hits) < top => \A p \in SitePaths : Shows(p) = Min({3, Matches(p)})

PageIsSpread ==
    inquiry.stage = "verify" /\ inquiry.ask = "search" /\ ~inquiry.semantic /\ StillActive =>
        WellSpread(inquiry.hits, inquiry.words, FilesOf(inquiry.gen), inquiry.top)

(* Related tests are one for each file, the best founded first: a file     *)
(* with a relation in the graph is never shown, or left out, behind one    *)
(* that only mentions the symbol or is named like it.                      *)
TestsAreRanked ==
    Answered /\ inquiry.ask = "tests" =>
        LET tests == inquiry.whole.lists[1].items
            PathAt(i) == tests[i].hit.path
            Graph     == {t.path : t \in RelatedByGraph(inquiry.words, FilesOf(inquiry.gen))}
        IN  /\ Cardinality({PathAt(i) : i \in DOMAIN tests}) = Len(tests)
            /\ \A i \in DOMAIN tests : PathAt(i) \notin Graph =>
                  \A p \in Graph : \E j \in 1..(i - 1) : PathAt(j) = p

(* What is ranked is ranked fairly: PageIsSpread (search) and              *)
(* TestsAreRanked (_related_tests_payload).                                *)
RankingIsFair == PageIsSpread /\ TestsAreRanked

(* An answer within the budget is whole; another one says it is truncated, *)
(* keeps of each list a beginning and fits, or has nothing left to take;   *)
(* of the preferred list three are kept, and their texts, as long as       *)
(* another list has any, and the texts as long as there is a fourth.       *)
KeepsBest(answer, whole, budget) ==
    LET Kept(i) == answer.lists[i].items
        Was(i)  == whole.lists[i].items
        Intact(i) == \A k \in DOMAIN Kept(i) : Kept(i)[k] = Was(i)[k]
    IN  /\ Tokens(whole) <= budget => answer = whole
        /\ Tokens(whole) > budget => answer.truncated
        /\ \A i \in DOMAIN whole.lists : \A k \in DOMAIN Kept(i) :
              Kept(i)[k] \in {Was(i)[k], [Was(i)[k] EXCEPT !.text = 0]}
        /\ Tokens(answer) > budget =>
              Lengths(answer) = 0 /\ answer.source = 0 /\ Len(answer.diagnostics) <= 1
        /\ \A i \in PreferredOf(whole) :
              /\ Len(Kept(i)) < Min({3, Len(Was(i))}) \/ ~Intact(i) =>
                    \A j \in Lower(whole) : Kept(j) = <<>>
              /\ ~Intact(i) => Len(Kept(i)) <= 3

BestIsKept == Answered => KeepsBest(inquiry.answer, inquiry.whole, inquiry.budget)
=============================================================================
