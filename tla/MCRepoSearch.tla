---------------------------- MODULE MCRepoSearch ----------------------------
(* Values of the constants of RepoSearch for the model checker.            *)
EXTENDS RepoSearch

Place1(words, bucket, bonus, test, stem, landmark) ==
    [words |-> words, bucket |-> bucket, folder |-> bucket, bonus |-> bonus, test |-> test,
     stem |-> stem, landmark |-> landmark]

(* Two sources and the test of each.                                       *)
MCSite ==
    <<Place1({"app", "pay"}, "app", 25, FALSE, "pay", TRUE),
      Place1({"lib"}, "lib", 0, FALSE, "sync", FALSE),
      Place1({"pay", "test"}, "test", 0, TRUE, "pay", FALSE),
      Place1({"test"}, "test", 0, TRUE, "sync", FALSE)>>

MakeRow(kind, line, to, name, text, bm25) ==
    [kind |-> kind, line |-> line, to |-> to, name |-> name, text |-> text, bm25 |-> bm25]

Chunk(line, text)   == MakeRow("chunk", line, line + 2, {}, text, 50)
Defined(line, name) == MakeRow("symbol", line, line + 2, name, name, 60)
Whole1(text)        == MakeRow("file", 1, 1, {}, text, 10)

FileOf(hash, rows, phrase, times, refs) ==
    [hash |-> hash, rows |-> rows, phrase |-> phrase, times |-> times, at |-> 1, refs |-> refs]

Ref(rel, line, to) == [rel |-> rel, line |-> line, to |-> to]

Gone == FileOf(0, {}, {}, 0, <<>>)

Pay  == {"pay"}
Sync == {"sync"}

(* The first source has many excerpts, and loses some; its first chunk     *)
(* stays.  The first test has two relations at one line, or one.           *)
MCContent ==
    <<[v \in 0..2 |->
        CASE v = 0 -> Gone
          [] v = 1 -> FileOf(1, {Defined(1, Pay), Chunk(1, Pay \cup Sync), Chunk(5, Pay),
                                 Chunk(9, Pay), Whole1(Pay)}, Pay, 4, <<>>)
          [] v = 2 -> FileOf(2, {Defined(1, Pay), Defined(5, Sync), Chunk(1, Pay \cup Sync)},
                             Pay, 1, <<>>)],
      [v \in 0..1 |->
        IF v = 0 THEN Gone
        ELSE FileOf(1, {Defined(1, Sync), Chunk(1, Sync)}, Sync, 1, <<>>)],
      [v \in 0..2 |->
        CASE v = 0 -> Gone
          [] v = 1 -> FileOf(1, {Chunk(1, Pay)}, {}, 0, <<Ref("calls", 1, Pay)>>)
          [] v = 2 -> FileOf(2, {Chunk(1, Pay)}, {}, 0,
                             <<Ref("tests", 1, Pay), Ref("calls", 1, Pay), Ref("calls", 4, Sync)>>)],
      [v \in {1} |-> FileOf(1, {Chunk(1, Pay)}, Pay, 1, <<>>)]>>

Inquiry(ask, words, top, budget) == [ask |-> ask, words |-> words, top |-> top, budget |-> budget]

MCInquiries ==
    {Inquiry("search", Pay, t, b) : t \in {2, 5}, b \in {7, 14, 40}}
    \cup {Inquiry("search", Pay \cup Sync, 3, 40), Inquiry("search", {"none"}, 3, 40)}
    \cup {Inquiry("symbol", w, 1, b) : w \in {Pay, Sync, {"none"}}, b \in {5, 40}}
    \cup {Inquiry("tests", w, t, b) : w \in {Pay, Sync, {"none"}}, t \in {1, 3}, b \in {6, 40}}
    \cup {Inquiry("overview", w, 20, b) : w \in {{}, Pay}, b \in {8, 16, 26, 60}}
=============================================================================
