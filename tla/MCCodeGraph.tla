---------------------------- MODULE MCCodeGraph ----------------------------
(* Values of the constants of CodeGraph for the model checker.             *)
EXTENDS CodeGraph

Call(source, name, at, conf) ==
    [source |-> source, rel |-> Calls, name |-> name, to |-> <<>>, at |-> at, conf |-> conf]
Has(parent, child, at) ==
    [source |-> parent, rel |-> Containment, name |-> child, to |-> child, at |-> at, conf |-> 10000]

A == <<"a">>
B == <<"b">>
K == <<"k">>
KB == <<"k", "b">>
S == <<"s">>
C == <<"c">>
D == <<"d">>
E == <<"e">>

(* File 1 calls names that other files define, once or several times, or   *)
(* holds two branches of calls, one of which goes on in another file; file *)
(* 2 defines a class with a method, or a function of the same name; file 3 *)
(* defines the name once more, in a cycle with file 1.                     *)
MCContents ==
    <<{[symbols |-> <<A, S>>, edges |-> {Call(A, B, 1, 6200), Call(S, A, 2, 6200)}],
       [symbols |-> <<A, S>>, edges |-> {Call(A, KB, i, 7200) : i \in 1..5}
                                        \cup {Call(A, S, 6, 6200), Call(S, A, 7, 6200)}],
       [symbols |-> <<A, C, D, E, S>>,
        edges |-> {Call(A, C, 1, 6200), Call(A, S, 2, 6200), Call(C, D, 3, 6200),
                   Call(S, E, 4, 6200), Call(E, B, 5, 6200)}]},
      {[symbols |-> <<K, KB>>, edges |-> {Has(K, KB, 11), Call(KB, S, 12, 6200)}],
       [symbols |-> <<B>>,     edges |-> {Call(<<>>, S, 11, 6200), Call(B, <<"x", "a">>, 12, 7200)}]},
      {[symbols |-> <<B>>,     edges |-> {Call(B, A, 21, 6200), Call(B, S, 22, 6200)}]}>>

Question(ask, value, file, dir, depth, max) ==
    [ask |-> ask, value |-> value, file |-> file, dir |-> dir, depth |-> depth, max |-> max,
     relations |-> {}]

MCQuestions ==
    {Question("trace", v, 0, d, k, m) : v \in {A, S}, d \in {"callers", "callees", "both"},
                                        k \in 1..3, m \in {1, 2, 4, 6}}
    \cup {[Question("trace", A, 0, "both", 2, 6) EXCEPT !.relations = {Calls}]}
    \cup {Question("impact", B, 0, "dependents", k, m) : k \in 1..2, m \in {1, 2, 6}}
    \cup {Question("file", <<>>, f, "dependents", 2, m) : f \in Sources, m \in {1, 3}}
=============================================================================
