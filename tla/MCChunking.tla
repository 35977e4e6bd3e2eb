----------------------------- MODULE MCChunking -----------------------------
(* Values of the constants of Chunking for the model checker.              *)
EXTENDS Chunking

(* A text of n letters but for a stop, a space and a line end.             *)
TextOf(n, stop, space, line) ==
    [i \in 1..n |-> IF i = line THEN "line" ELSE IF i = space THEN "space"
                    ELSE IF i = stop THEN "stop" ELSE "letter"]

NodeOf(text, boundary) == [text |-> text, boundary |-> boundary, metadata |-> FALSE]

(* One long text with a break anywhere, with or without a space after it.  *)
LongTexts ==
    {TextOf(34, a, b, c) : a \in 7..16, b \in {6, 12, 15, 20}, c \in {0, 9, 16}}

(* Short nodes in a row, one of them a heading, blank or metadata.         *)
Short(n, boundary) == NodeOf(TextOf(n, n, 0, 0), boundary)

ShortTrees ==
    {<<Short(a, FALSE), Short(b, h), Short(c, FALSE), Short(d, ~h)>> :
        a, b, c \in {1, 2, 5, 8}, d \in {2, 12}, h \in BOOLEAN}

Odd ==
    {<<[Short(3, FALSE) EXCEPT !.metadata = TRUE], NodeOf(TextOf(2, 0, 1, 2), FALSE), Short(5, TRUE)>>,
     <<>>, <<NodeOf(TextOf(17, 0, 0, 0), TRUE), Short(2, FALSE)>>,
     <<Short(1, FALSE), Short(12, FALSE), Short(1, FALSE)>>}

NoTrees == {<<>>}
MCTrees == {<<NodeOf(t, FALSE)>> : t \in LongTexts} \cup ShortTrees \cup Odd
=============================================================================
