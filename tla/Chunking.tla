------------------------------ MODULE Chunking ------------------------------
(***************************************************************************)
(* How SEGMENT makes chunks of a document (build_document_chunks): each    *)
(* node's text is split into segments within the budget, which overlap and *)
(* prefer to end at a break (TokenBudgetPolicy.split_text), and segments   *)
(* are joined to chunks until the budget is full or a heading begins.      *)
(*                                                                         *)
(* A text is a sequence of letters, spaces, stops (.!?;:) and line ends;   *)
(* places in it are counted from 0, as in the code.  The handler uses the  *)
(* estimator that counts characters; the checks for estimators that are    *)
(* not monotonic never apply to it and are left out.                       *)
(***************************************************************************)
EXTENDS Lists, Integers, FiniteSetsExt

CONSTANTS
    CharsPerToken,  \* 4 in DefaultTokenEstimator
    MinTokens, MaxTokens, OverlapTokens,    \* chunk_min_tokens, ... (settings)
    Trees           \* the documents: sequences of nodes

Letters == {"letter", "space", "stop", "line"}
Node    == [text : Seq(Letters), boundary : BOOLEAN, metadata : BOOLEAN]

ASSUME ChunkSettings ==
    /\ CharsPerToken \in Nat \ {0} /\ MinTokens \in Nat \ {0}
    /\ MaxTokens \in Nat /\ MaxTokens >= MinTokens
    /\ OverlapTokens \in 0..(MaxTokens - 1)
    /\ Trees \subseteq Seq(Node)

VARIABLES
    tree,       \* the nodes of the document
    segments,   \* the segments of the first node left, so far
    joined,     \* how many of them are in a chunk
    parts,      \* the parts of the chunk being made: [node, from, to]
    chunks,     \* the chunks made: sequences of parts
    next        \* the node

chunkVars == <<tree, segments, joined, parts, chunks, next>>

-----------------------------------------------------------------------------
(* TokenBudgetPolicy.                                                      *)
Estimate(chars) == IF chars = 0 THEN 0 ELSE Max({1, chars \div CharsPerToken})

WithinBudget(from, to) == Estimate(to - from) <= MaxTokens

(* The first place from low to high that is beyond, by bisection: the      *)
(* window that is left after so many turns, of which there are no more     *)
(* than places.                                                            *)
Halved(window, beyond) ==
    LET low == window[1]  high == window[2]  middle == (low + high) \div 2
    IN  IF low > high THEN window
        ELSE IF middle \in beyond THEN <<low, middle - 1>> ELSE <<middle + 1, high>>

Bisect(low, high, beyond) ==
    LET turns == high - low + 1
        Window[k \in 0..turns] ==
            IF k = 0 THEN <<low, high>> ELSE LET window == Window[k - 1] IN Halved(window, beyond)
    IN  Window[turns][1]

(* Steps are doubled until one does not fit; the end is in the last one.   *)
(* Half as many turns as the text has places are enough.                   *)
Probe(text, start, d) == Min({Len(text), start + d})

FitsAndMore(text, start, d) ==
    start + d < Len(text) /\ WithinBudget(start, start + d)

LongestStep(text, start) ==
    LET turns == (Len(text) + 1) \div 2
        Step[k \in 0..turns] ==
            IF k = 0 THEN 1
            ELSE LET d == Step[k - 1] IN IF FitsAndMore(text, start, d) THEN 2 * d ELSE d
    IN  Step[turns]

LargestBoundedEnd(text, start) ==
    LET d    == LongestStep(text, start)
        low  == start + (d \div 2) + 1
        high == Probe(text, start, d) - 1
    IN  IF WithinBudget(start, Probe(text, start, d)) THEN Len(text)
        ELSE Bisect(low, high, {e \in low..high : ~WithinBudget(start, e)}) - 1

At(text, i)    == text[i + 1]
Blank(text, i) == At(text, i) \in {"space", "line"}

(* Where the run of such characters ends that i is in, before the end.     *)
RunEnd(text, i, kinds, end) ==
    Min({j \in i..end : j = end \/ At(text, j) \notin kinds})

RunStart(text, i, start) ==
    Min({j \in start..i : \A k \in j..i : Blank(text, k)})

(* The ends of the matches of _SEMANTIC_BOUNDARY_RE in a window: the white *)
(* space after a stop, or other line ends.                                 *)
SemanticEnds(text, start, end) ==
    LET AfterStop(i) == i > start /\ At(text, i - 1) = "stop"
        Lines == {i \in start..(end - 1) :
                    At(text, i) = "line" /\ ~AfterStop(RunStart(text, i, start))}
    IN  {RunEnd(text, i, {"space", "line"}, end) :
            i \in {j \in start..end : AfterStop(j) /\ (j = end \/ Blank(text, j))}}
        \cup {RunEnd(text, i, {"line"}, end) : i \in Lines}

Minimum(start, end) == start + Max({1, ((end - start) * 6) \div 10})

PreferredBoundary(text, start, end) ==
    LET semantic == {e \in SemanticEnds(text, start, end) : e >= Minimum(start, end)}
        spaces   == {i \in Minimum(start, end)..(end - 1) : At(text, i) = "space"}
    IN  IF end = Len(text) THEN end
        ELSE IF semantic # {} THEN Max(semantic)
        ELSE IF spaces # {} THEN Max(spaces) + 1
        ELSE end

OverlapStart(text, start, end) ==
    LET best   == Bisect(start + 1, end, {b \in (start + 1)..end : Estimate(end - b) <= OverlapTokens})
        spaces == {i \in best..(end - 1) : At(text, i) = "space"}
        inWord == best < end /\ ~Blank(text, best - 1) /\ ~Blank(text, best)
    IN  IF OverlapTokens = 0 THEN end
        ELSE IF inWord /\ spaces # {} THEN Min(spaces) + 1 ELSE best

NextSegment(text, segs) ==
    LET last  == segs[Len(segs)]
        start == IF segs = <<>> THEN 0
                 ELSE Min({last.to, Max({last.from + 1, OverlapStart(text, last.from, last.to)})})
    IN  [node |-> next, from |-> start,
         to |-> PreferredBoundary(text, start, LargestBoundedEnd(text, start))]

-----------------------------------------------------------------------------
(* build_document_chunks.  Parts are joined by an empty line.              *)
Length(list) ==
    Total([i \in DOMAIN list |-> list[i].to - list[i].from])
    + IF list = <<>> THEN 0 ELSE 2 * (Len(list) - 1)

(* Mutant of Exceeds: the empty lines between the parts are not counted.   *)
ExceedsUnjoined(part) ==
    parts # <<>> /\ Estimate(Length(parts)) + Estimate(part.to - part.from) > MaxTokens

Exceeds(part) == Estimate(Length(Append(parts, part))) > MaxTokens

(* should_split, before a part of such a node.                             *)
ShouldSplit(part) ==
    LET current == Estimate(Length(parts))
    IN  \/ current > 0 /\ current + Estimate(part.to - part.from) > MaxTokens
        \/ tree[part.node].boundary /\ current >= MinTokens

Left == next <= Len(tree)

Skipped(node) ==
    node.metadata \/ \A i \in DOMAIN node.text : node.text[i] \in {"space", "line"}

SkipNode ==
    /\ Left /\ Skipped(tree[next])
    /\ next' = next + 1
    /\ UNCHANGED <<tree, segments, joined, parts, chunks>>

SplitWhole ==
    segments # <<>> /\ segments[Len(segments)].to = Len(tree[next].text)

SplitText ==
    /\ Left /\ ~Skipped(tree[next]) /\ ~SplitWhole
    /\ segments' = Append(segments, NextSegment(tree[next].text, segments))
    /\ UNCHANGED <<tree, joined, parts, chunks, next>>

AddSegment ==
    /\ Left /\ SplitWhole /\ joined < Len(segments)
    /\ LET part  == segments[joined + 1]
           flush == parts # <<>> /\ (Exceeds(part) \/ ShouldSplit(part))
       IN  /\ chunks' = IF flush THEN Append(chunks, parts) ELSE chunks
           /\ parts' = IF flush THEN <<part>> ELSE Append(parts, part)
    /\ joined' = joined + 1
    /\ UNCHANGED <<tree, segments, next>>

NextNode ==
    /\ Left /\ SplitWhole /\ joined = Len(segments)
    /\ next' = next + 1 /\ segments' = <<>> /\ joined' = 0
    /\ UNCHANGED <<tree, parts, chunks>>

FlushLast ==
    /\ ~Left /\ parts # <<>>
    /\ chunks' = Append(chunks, parts) /\ parts' = <<>>
    /\ UNCHANGED <<tree, segments, joined, next>>

(* The chunks are stored, and the handler ends.                            *)
StoreChunks ==
    /\ ~Left /\ parts = <<>>
    /\ tree' = <<>> /\ chunks' = <<>> /\ next' = 1
    /\ UNCHANGED <<segments, joined, parts>>

ChunkInit ==
    /\ tree \in Trees
    /\ segments = <<>> /\ joined = 0 /\ parts = <<>> /\ chunks = <<>> /\ next = 1

ChunkNext == SkipNode \/ SplitText \/ AddSegment \/ NextNode \/ FlushLast \/ StoreChunks

ChunkSpec == ChunkInit /\ [][ChunkNext]_chunkVars

-----------------------------------------------------------------------------
(* The characters of the longest text of so many tokens.                   *)
Longest(tokens) == CharsPerToken * (tokens + 1) - 1

(* Each segment goes on where the one before it ended, or repeats at most  *)
(* the overlap of it; only the end of a text, or a break in it, makes it   *)
(* shorter than the budget allows, and no break makes it much shorter.  It *)
(* ends behind the one before it, unless the settings let it repeat more   *)
(* than a break may leave of a segment.                                    *)
SegmentsAdvance ==
    \A i \in DOMAIN segments :
        LET s == segments[i]
            text   == tree[next].text
            before == segments[i - 1]
            atEnd  == s.to = Len(text)
        IN  /\ s.from < s.to /\ WithinBudget(s.from, s.to)
            /\ i = 1 => s.from = 0
            /\ i > 1 => /\ before.from < s.from /\ s.from <= before.to
                        /\ Estimate(before.to - s.from) <= OverlapTokens
                        /\ OverlapTokens = 0 \/ Longest(OverlapTokens) < Minimum(0, Longest(MaxTokens))
                              => before.to < s.to
            /\ atEnd \/ At(text, s.to - 1) # "letter" \/ ~WithinBudget(s.from, s.to + 1)
            /\ atEnd \/ s.to - s.from >= Minimum(0, Longest(MaxTokens))

(* Every chunk is within the budget of the embedding model, however its    *)
(* parts are joined.  Only a heading closes a chunk to which the next part *)
(* could be joined, and only if it has the minimum; but a text that is     *)
(* shorter than a token counts as a token when it is weighed alone.        *)
Joined(k) == IF k < Len(chunks) THEN chunks[k + 1] ELSE parts

ClosedFor(chunk, part) ==
    LET joint == Length(chunk) + 2 + part.to - part.from
    IN  \/ tree[part.node].boundary /\ Estimate(Length(chunk)) >= MinTokens
        \/ Estimate(joint) > MaxTokens
        \/ /\ Estimate(joint) = MaxTokens
           /\ Length(chunk) < CharsPerToken \/ part.to - part.from < CharsPerToken

ChunksAreBounded ==
    /\ Estimate(Length(parts)) <= MaxTokens
    /\ \A k \in DOMAIN chunks :
          /\ chunks[k] # <<>> /\ Estimate(Length(chunks[k])) <= MaxTokens
          /\ Joined(k) # <<>> => ClosedFor(chunks[k], Joined(k)[1])

(* When the document is done, the chunks hold every place of every node    *)
(* that is not metadata or blank, and no other.                            *)
NothingIsLost ==
    ~Left /\ parts = <<>> =>
        \A n \in DOMAIN tree :
            {i \in DOMAIN tree[n].text :
                \E k \in DOMAIN chunks : \E p \in DOMAIN chunks[k] :
                    chunks[k][p].node = n /\ chunks[k][p].from < i /\ i <= chunks[k][p].to}
            = IF Skipped(tree[n]) THEN {} ELSE DOMAIN tree[n].text

(* What SEGMENT promises the layers above it (split_text,                  *)
(* build_document_chunks).                                                 *)
ChunksAreSound == SegmentsAdvance /\ ChunksAreBounded /\ NothingIsLost
=============================================================================
