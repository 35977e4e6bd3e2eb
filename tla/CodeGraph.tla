----------------------------- MODULE CodeGraph -----------------------------
(***************************************************************************)
(* The graph of symbols inside a generation of the repository index, and   *)
(* the two questions that walk it: trace_symbol and analyze_impact.        *)
(*                                                                         *)
(* RepoIndex shows how generations are published and that no answer mixes  *)
(* two of them; here one process indexes, the files change between runs,   *)
(* and a question is answered about the generation that is active.         *)
(*                                                                         *)
(* A file is a number, its place in the order of paths.  A qualified name  *)
(* is a sequence of segments and a name is its last one.  Edges carry the  *)
(* number of their relation in alphabetical order, their place in the      *)
(* order of (path, line), and their confidence in ten-thousandths.         *)
(***************************************************************************)
EXTENDS Ordering, Integers, SequencesExt

CONSTANTS
    NumSources,       \* files of the repository
    Contents,       \* for each file, what it may hold: symbols and edges
    Questions,      \* the questions asked
    MaxChanges        \* bound on the changes of files

Sources == 1..NumSources

VARIABLES
    texts,       \* the content of each file
    changes,      \* counter for the bound
    gen,        \* the active generation
    walk       \* the question being answered

graphVars == <<texts, changes, gen, walk>>

Calls       == 1    \* relations, in alphabetical order
Containment == 2

(* What an extractor makes of a file: its symbols and edges.  An edge       *)
(* starts in the symbol of the file that holds it, or in none.             *)
Name    == Seq(STRING)
Confidence == 0..10000
Extract == [symbols : Seq(Name \ {<<>>}),
            edges   : SUBSET [source : Name, rel : Nat, name : Name \ {<<>>}, to : Name,
                              at : Nat, conf : Confidence]]

Directions == {"dependencies", "dependents", "callers", "callees", "both"}

ASSUME GraphAssumption ==
    /\ NumSources \in Nat /\ MaxChanges \in Nat
    /\ \A f \in Sources : \A content \in Contents[f] :
          /\ content \in Extract /\ IsFiniteSet(content.edges)
          /\ \A e \in content.edges : e.source \in Range(content.symbols) \cup {<<>>}
    /\ \A q \in Questions :
          /\ q.ask \in {"trace", "impact", "file"} /\ q.dir \in Directions
          /\ q.depth \in Nat \ {0} /\ q.max \in Nat \ {0} /\ q.relations \subseteq Nat
          /\ q.ask = "file" => q.file \in Sources

Absent == [symbols |-> <<>>, edges |-> {}]      \* the content of no file
Symbol(f, qual) == [file |-> f, qual |-> qual]
NoSymbol == Symbol(0, <<>>)

NoGeneration == [built |-> FALSE, of |-> [f \in Sources |-> Absent],
                 symbols |-> {}, edges |-> {}]

-----------------------------------------------------------------------------
(* Building a generation.                                                  *)

(* What the extractor of a file's language makes of its content.           *)
Raw(f) ==
    LET Ref(qual) == IF qual = <<>> THEN NoSymbol ELSE Symbol(f, qual)
    IN  [symbols |-> {Symbol(f, q) : q \in Range(texts[f].symbols)},
         edges   |-> {[file |-> f, source |-> Ref(e.source), rel |-> e.rel,
                       name |-> e.name, at |-> e.at, target |-> Ref(e.to),
                       conf |-> e.conf] : e \in texts[f].edges}]

(* reusable_extraction: what the active generation stores of the file.     *)
Reused(f) ==
    [symbols |-> {s \in gen.symbols : s.file = f},
     edges   |-> {e \in gen.edges : e.file = f}]

Unchanged(f) == gen.built /\ gen.of[f] = texts[f]

Extraction(f, full) == IF ~full /\ Unchanged(f) THEN Reused(f) ELSE Raw(f)

(* A target that is no symbol of this generation is forgotten.             *)
Undangled(edges, symbols) ==
    {IF e.target \in symbols THEN e ELSE [e EXCEPT !.target = NoSymbol] : e \in edges}

(* The symbols a name may mean, the most specific reading first.           *)
Tiers(name, symbols) ==
    LET Called(n) == {s \in symbols : Last(s.qual) = n}
    IN  <<{s \in symbols : s.qual = name},
          IF Len(name) = 1 THEN Called(name[1]) ELSE {},
          IF Len(name) > 1 THEN Called(Last(name)) ELSE {}>>

(* Mutant of UniqueTiers: only the qualified name is looked up.            *)
UniqueOfFirstTier(name, symbols) ==
    {i \in {1} : Cardinality(Tiers(name, symbols)[i]) = 1}

UniqueTiers(name, symbols) ==
    {i \in 1..3 : Cardinality(Tiers(name, symbols)[i]) = 1}

Resolved(edge, symbols) ==
    LET unique == UniqueTiers(edge.name, symbols)
    IN  IF edge.target # NoSymbol \/ unique = {} THEN edge
        ELSE [edge EXCEPT !.target = CHOOSE s \in Tiers(edge.name, symbols)[Min(unique)] : TRUE,
                          !.conf = (@ * 95) \div 100]

(* IndexRepository.execute and build_generation.                           *)
BuildGraph(full) ==
    /\ walk.stage = "none"
    /\ full \/ ~gen.built \/ gen.of # texts
    /\ LET found   == [f \in Sources |-> Extraction(f, full)]
           symbols == UNION {found[f].symbols : f \in Sources}
           edges   == UNION {found[f].edges : f \in Sources}
       IN  gen' = [built |-> TRUE, of |-> texts, symbols |-> symbols,
                   edges |-> {Resolved(e, symbols) : e \in Undangled(edges, symbols)}]
    /\ UNCHANGED <<texts, changes, walk>>

Change(f) ==
    /\ walk.stage = "none"
    /\ changes < MaxChanges
    /\ changes' = changes + 1
    /\ \E content \in Contents[f] \cup {Absent} :
         content # texts[f] /\ texts' = [texts EXCEPT ![f] = content]
    /\ UNCHANGED <<gen, walk>>

-----------------------------------------------------------------------------
(* Reading the graph.                                                      *)

Incoming(dir) == dir \in {"dependents", "callers"}

(* ORDER BY confidence DESC, source_path, evidence_line.                   *)
SqlOrder(edges) ==
    InOrder(edges, LAMBDA a, b : a.conf > b.conf \/ (a.conf = b.conf /\ a.at < b.at))

Shown(edges, limit) ==
    LET order == SqlOrder(edges)
    IN  {order[i] : i \in 1..(IF Len(order) < limit THEN Len(order) ELSE limit)}

OfRelations(edges, relations) ==
    {e \in edges : relations = {} \/ e.rel \in relations}

(* SqliteContextIndex.edges, before its LIMIT.                             *)
EdgesOf(s, dir, relations) ==
    OfRelations({e \in gen.edges : s = IF Incoming(dir) THEN e.target ELSE e.source},
                relations)

(* _inferred_incoming_edges, before its limit: unresolved edges that carry *)
(* the name of the symbol.                                                 *)
InferredEdges(s, relations) ==
    {[e EXCEPT !.target = s, !.conf = Min({@, 7000})] :
        e \in OfRelations({x \in gen.edges :
                    /\ x.source # s
                    /\ x.target = NoSymbol
                    /\ x.name \in {<<Last(s.qual)>>, s.qual}}, relations)}

(* The lists of edges that one node of a walk asks for.                    *)
EdgeLists(s, q) ==
    LET sides == IF q.dir = "both" THEN {"dependencies", "dependents"} ELSE {q.dir}
    IN  {EdgesOf(s, d, q.relations) : d \in sides}
        \cup IF Incoming(q.dir) \/ q.dir = "both" THEN {InferredEdges(s, q.relations)} ELSE {}

EdgeLimit(q) == q.room * 4

EdgesShown(s, q) == UNION {Shown(list, EdgeLimit(q)) : list \in EdgeLists(s, q)}

EdgesLeftOut(s, q) == \E list \in EdgeLists(s, q) : Cardinality(list) > EdgeLimit(q)

Neighbor(e, s) == IF e.source = s THEN e.target ELSE e.source

(* _traverse's order of the edges of a node, over their neighbours.        *)
NeighborsInOrder(s, q) ==
    LET order == InOrder(EdgesShown(s, q),
                     LAMBDA a, b : a.rel < b.rel \/ (a.rel = b.rel /\ a.at < b.at))
    IN  [i \in DOMAIN order |-> Neighbor(order[i], s)]

-----------------------------------------------------------------------------
(* Questions.  `total` holds the symbols affected so far, `nodes` those of *)
(* the walk from the current target; `left` says whether a list of edges   *)
(* was ever cut, which the code does not record.                           *)
NoWalk == [stage |-> "none", ask |-> "none", dir |-> "both", depth |-> 0, max |-> 0,
            relations |-> {}, targets |-> <<>>, roots |-> {}, room |-> 0, queue |-> <<>>,
            seen |-> {}, nodes |-> <<>>, total |-> {}, omitted |-> 0, reached |-> 0,
            left |-> FALSE]

Position(s) == CHOOSE i \in DOMAIN gen.of[s.file].symbols : gen.of[s.file].symbols[i] = s.qual

InFileOrder(symbols) ==
    InOrder(symbols, LAMBDA a, b :
        a.file < b.file \/ (a.file = b.file /\ Position(a) < Position(b)))

Named(value) == {s \in gen.symbols : s.qual = value \/ <<Last(s.qual)>> = value}

(* _resolve_symbol_candidates: full matches of the qualified name first.   *)
Matches(value) ==
    LET full == {s \in Named(value) : s.qual = value}
    IN  InFileOrder(full) \o InFileOrder(Named(value) \ full)

Start(question, targets) ==
    walk' = [NoWalk EXCEPT !.stage = "asked", !.ask = question.ask, !.dir = question.dir,
                             !.depth = question.depth, !.max = question.max,
                             !.relations = question.relations, !.targets = targets]

(* trace_symbol: an ambiguous or unknown symbol is refused.                *)
Trace(question) ==
    /\ question.ask = "trace"
    /\ Cardinality(Named(question.value)) = 1
    /\ Start(question, Matches(question.value))

(* analyze_impact on a symbol: every symbol of that name is a target.      *)
ImpactOfSymbol(question) ==
    /\ question.ask = "impact"
    /\ Named(question.value) # {}
    /\ Start(question, Matches(question.value))

(* analyze_impact on a file of the inventory.                              *)
ImpactOfFile(question) ==
    /\ question.ask = "file"
    /\ gen.of[question.file] # Absent
    /\ Start(question, InFileOrder({s \in gen.symbols : s.file = question.file}))

AskGraph ==
    /\ gen.built /\ walk.stage = "none"
    /\ \E question \in Questions :
         Trace(question) \/ ImpactOfSymbol(question) \/ ImpactOfFile(question)
    /\ UNCHANGED <<texts, changes, gen>>

Room(q) == q.max - Cardinality(q.total)

(* The walk from the next target, if there is room for one more node.      *)
NextTarget ==
    /\ walk.stage = "asked" /\ walk.queue = <<>> /\ walk.targets # <<>>
    /\ LET target    == Head(walk.targets)
           remaining == Room(walk)
       IN  walk' = IF remaining <= 0
                    THEN [walk EXCEPT !.targets = <<>>, !.omitted = @ + 1]
                    ELSE [walk EXCEPT !.targets = Tail(@), !.roots = @ \cup {target},
                                       !.room = remaining, !.queue = <<[node |-> target, level |-> 0]>>,
                                       !.seen = {target}, !.nodes = <<>>]
    /\ UNCHANGED <<texts, changes, gen>>

Enqueued(queue, item) == Append(queue, item)

(* One neighbour of the node being expanded at a level.                    *)
Reach(q, neighbor, level) ==
    IF neighbor = NoSymbol \/ neighbor \in q.seen THEN q
    ELSE IF Len(q.nodes) >= q.room THEN [q EXCEPT !.omitted = @ + 1]
    ELSE [q EXCEPT !.seen = @ \cup {neighbor}, !.nodes = Append(@, neighbor),
                   !.reached = Max({@, level + 1}),
                   !.queue = Enqueued(@, [node |-> neighbor, level |-> level + 1])]

TooDeepByOne(level, depth) == level > depth     \* mutant
TooDeep(level, depth)      == level >= depth

(* The neighbours of the node, one after the other.                        *)
Expanded(q, neighbors, level) ==
    LET State[i \in 0..Len(neighbors)] ==
            IF i = 0 THEN q
            ELSE LET before == State[i - 1] IN Reach(before, neighbors[i], level)
    IN  State[Len(neighbors)]

(* One turn of the loop of _traverse.                                      *)
Visit ==
    /\ walk.queue # <<>>
    /\ LET current == Head(walk.queue)
           popped  == [walk EXCEPT !.queue = Tail(@)]
           done    == Expanded(popped, NeighborsInOrder(current.node, walk), current.level)
       IN  walk' = IF TooDeep(current.level, walk.depth) THEN popped
                    ELSE [done EXCEPT !.total = @ \cup Range(done.nodes),
                                      !.left = @ \/ EdgesLeftOut(current.node, walk)]
    /\ UNCHANGED <<texts, changes, gen>>

Answer ==
    /\ walk.stage = "asked" /\ walk.queue = <<>> /\ walk.targets = <<>>
    /\ walk' = [walk EXCEPT !.stage = "answered"]
    /\ UNCHANGED <<texts, changes, gen>>

Forget ==
    /\ walk.stage = "answered"
    /\ walk' = NoWalk
    /\ UNCHANGED <<texts, changes, gen>>

GraphInit ==
    /\ texts \in {t \in [Sources -> UNION {Contents[f] : f \in Sources} \cup {Absent}] :
                    \A f \in Sources : t[f] \in Contents[f] \cup {Absent}}
    /\ changes = 0 /\ gen = NoGeneration /\ walk = NoWalk

GraphNext ==
    \/ \E full \in BOOLEAN : BuildGraph(full)
    \/ \E f \in Sources : Change(f)
    \/ AskGraph \/ NextTarget \/ Visit \/ Answer \/ Forget

GraphSpec == GraphInit /\ [][GraphNext]_graphVars

-----------------------------------------------------------------------------
(* Properties.                                                             *)

(* The symbols next to a symbol in the direction of a question.            *)
Adjacent(s, q) == {Neighbor(e, s) : e \in UNION EdgeLists(s, q)} \ {NoSymbol}

(* What can be reached from a target in at most k steps.                   *)
Within(target, q) ==
    LET Ball[k \in 0..q.depth] ==
            IF k = 0 THEN {target}
            ELSE Ball[k - 1] \cup UNION {Adjacent(s, q) : s \in Ball[k - 1]}
    IN  Ball

Distance(target, s, q) == CHOOSE k \in 0..q.depth :
    s \in Within(target, q)[k] /\ (k = 0 \/ s \notin Within(target, q)[k - 1])

(* Shape of the state; a question stays within its own bound on symbols.   *)
GraphTypeOK ==
    /\ changes \in 0..MaxChanges
    /\ gen.symbols \subseteq {Symbol(f, q) : f \in Sources, q \in UNION {Range(gen.of[g].symbols) : g \in Sources}}
    /\ walk.total \subseteq gen.symbols
    /\ Cardinality(walk.total) <= walk.max

(* Every edge of a generation ends in a symbol of the same generation,     *)
(* whatever files were edited or deleted since its artifacts were          *)
(* extracted (reusable_extraction with _resolve_unique_edge_targets).      *)
TargetsExist == \A e \in gen.edges : e.target \in gen.symbols \cup {NoSymbol}

(* An edge is left unresolved only when no reading of its name is unique   *)
(* in the generation, also when it was extracted, and left unresolved, for *)
(* an earlier one (_resolve_unique_edge_targets).                          *)
NothingClearIsUnresolved ==
    \A e \in gen.edges :
        e.target = NoSymbol =>
            \A i \in 1..3 : Cardinality(Tiers(e.name, gen.symbols)[i]) # 1

(* An answer that reports nothing omitted, and for which no list of edges  *)
(* was cut, holds exactly the symbols within the depth asked of one of the *)
(* targets, and reports the largest distance (_traverse and the loop of    *)
(* analyze_impact over the targets).                                       *)
AnswerIsExact ==
    walk.stage = "answered" /\ walk.omitted = 0 /\ ~walk.left =>
        LET Found(t) == Within(t, walk)[walk.depth] \ {t}
        IN  /\ walk.total = UNION {Found(t) : t \in walk.roots}
            /\ walk.reached = Max({0} \cup UNION {{Distance(t, s, walk) : s \in Found(t)} :
                                                      t \in walk.roots})

(* A trace that had to omit symbols is full, and returned none that is     *)
(* farther from the root than one it left out (_traverse with max_nodes).  *)
NearestFirst ==
    walk.stage = "answered" /\ walk.ask = "trace" /\ walk.omitted > 0 /\ ~walk.left =>
        \A t \in walk.roots :
            /\ Cardinality(walk.total) = walk.max
            /\ \A s \in walk.total, other \in Within(t, walk)[walk.depth] \ (walk.total \cup {t}) :
                 Distance(t, s, walk) <= Distance(t, other, walk)

(* What build_generation leaves of reused and new artifacts is a graph of  *)
(* one generation, resolved as far as its names are clear.                 *)
GraphIsSound == GraphTypeOK /\ TargetsExist /\ NothingClearIsUnresolved

(* What _traverse returns is all there is, or what is nearest.             *)
WalkIsExact == AnswerIsExact /\ NearestFirst

(* docs/indexing-and-storage.md:123: only unequivocal targets are resolved *)
(* (_resolve_unique_edge_targets), here after reuse of earlier artifacts.  *)
ResolvedIsUnequivocal ==
    \A e \in gen.edges :
        e.target # NoSymbol /\ e.rel # Containment =>
            \E i \in 1..3 : Tiers(e.name, gen.symbols)[i] = {e.target}
=============================================================================
