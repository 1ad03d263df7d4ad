------------------------------- MODULE Dataset -------------------------------
(***************************************************************************)
(* Dataset.cpp and Graph.cpp: a dataset is a hash map from graph name to    *)
(* graph, a graph a hash set of triples.  The nodes are the ids of one node *)
(* storage.  A reader walks all quads (Dataset::iterator), or the solutions *)
(* of a quad pattern (Dataset::solution_iterator over                      *)
(* Graph::solution_iterator); it crosses empty graphs, graphs without a     *)
(* match, and ends.                                                        *)
(*                                                                         *)
(* The order of a hash container is arbitrary but fixed while nobody        *)
(* inserts: containers are sequences here, and an insertion puts the new    *)
(* element anywhere.  An insertion invalidates the iterators of the         *)
(* container, so a reader that runs excludes the writers.                   *)
(***************************************************************************)
EXTENDS GraphComparison

CONSTANTS
    Names,        \* graph names
    DefaultGraph, \* IRI::default_graph()
    Nodes,        \* ids of the node storage
    Triples,      \* <<subject, predicate, object>>
    Variables,
    Patterns,     \* <<graph, subject, predicate, object>>, nodes or variables
    MaxQuads      \* bound of the model: quads in the dataset

ASSUME NamesAssumption == DefaultGraph \in Names /\ Null \notin Names

ASSUME StatementsAssumption ==
    LET Terms == Nodes \union Variables
    IN  /\ Triples \subseteq Nodes \X Nodes \X Nodes
        /\ Patterns \subseteq Terms \X Terms \X Terms \X Terms

VARIABLES
    graphs, \* graphs_, in iteration order: [name, triples]
    quads,  \* what was added so far, the meaning of the dataset
    reader, \* the iterator that runs: "none", "quads" or "solutions"
    pattern, giter, iter, \* pat_, giter_ and iter_, 1 is the first element
    yielded \* what the reader has seen

vars == <<graphs, quads, reader, pattern, giter, iter, yielded>>

Init ==
    /\ graphs = <<>> /\ quads = {}
    /\ reader = "none" /\ pattern = Null /\ giter = 0 /\ iter = 0
    /\ yielded = <<>>

-----------------------------------------------------------------------------
(***************************************************************************)
(* Writing.                                                                *)
(***************************************************************************)
Indices(s) == 1 .. Len(s)

\* graphs_.find(): the position of a graph, or the end.
FindGraph(name) ==
    IF \E i \in Indices(graphs) : graphs[i].name = name
    THEN CHOOSE i \in Indices(graphs) : graphs[i].name = name
    ELSE Len(graphs) + 1

Found(i) == i <= Len(graphs)

GraphOf(name) == IF name = Null THEN DefaultGraph ELSE name

\* Graph::add, the insertion into the set of triples.
\* Mutation: a vector of triples instead of a set.
TriplesWithAgain(triples, t) == {Append(triples, t)}
TriplesWith(triples, t) ==
    IF Contains(triples, t) THEN {triples}
    ELSE {InsertAt(triples, i, t) : i \in 1 .. Len(triples) + 1}

\* Dataset::add of a quad, its graph is made when it is not there.
Add(name, t) ==
    LET g == GraphOf(name)
        i == FindGraph(g)
    IN  /\ reader = "none"
        /\ Cardinality(quads \union {<<g, t>>}) <= MaxQuads
        /\ quads' = quads \union {<<IF name = Null THEN DefaultGraph ELSE name, t>>}
        /\ IF Found(i)
           THEN \E triples \in TriplesWith(graphs[i].triples, t) :
                    graphs' = [graphs EXCEPT ![i].triples = triples]
           ELSE \E at \in 1 .. Len(graphs) + 1 :
                    graphs' = InsertAt(graphs, at, [name |-> g, triples |-> <<t>>])
        /\ UNCHANGED <<reader, pattern, giter, iter, yielded>>

\* Dataset::graph(name), which leaves an empty graph behind.
GraphRef(name) ==
    /\ reader = "none"
    /\ ~Found(FindGraph(name))
    /\ \E at \in 1 .. Len(graphs) + 1 :
           graphs' = InsertAt(graphs, at, [name |-> name, triples |-> <<>>])
    /\ UNCHANGED <<quads, reader, pattern, giter, iter, yielded>>

-----------------------------------------------------------------------------
(***************************************************************************)
(* Dataset::iterator: the quads graph by graph.                             *)
(***************************************************************************)

\* Mutation: an empty graph is taken for the end.
EndAtEmpty(i) ==
    IF i <= Len(graphs) /\ graphs[i].triples = <<>> THEN Len(graphs) + 1 ELSE i

\* The loops over the graphs: the first graph from i on with a triple.
SkipEmpty(i) ==
    CHOOSE k \in i .. Len(graphs) + 1 :
        /\ k <= Len(graphs) => graphs[k].triples # <<>>
        /\ \A j \in i .. k - 1 : graphs[j].triples = <<>>

QuadAt(g, i) == <<graphs[g].name, graphs[g].triples[i]>>

BeginQuads ==
    /\ reader = "none" /\ reader' = "quads"
    /\ giter' = SkipEmpty(1) /\ iter' = 1
    /\ yielded' = <<>>
    /\ UNCHANGED <<graphs, quads, pattern>>

NextQuad ==
    /\ reader = "quads" /\ giter <= Len(graphs)
    /\ yielded' = Append(yielded, QuadAt(giter, iter))
    /\ IF iter < Len(graphs[giter].triples)
       THEN giter' = giter /\ iter' = iter + 1
       ELSE giter' = SkipEmpty(giter + 1) /\ iter' = 1
    /\ UNCHANGED <<graphs, quads, reader, pattern>>

AtEndOfQuads == reader = "quads" /\ giter > Len(graphs)

-----------------------------------------------------------------------------
(***************************************************************************)
(* The solutions of a pattern.                                              *)
(***************************************************************************)
IsVariable(x) == x \in Variables
WithoutGraph(pat) == Tail(pat)

\* check_solution(): each node of the pattern is a variable or the node there.
\* Mutation: the object is not compared.
PrefixMatches(tpat, t) == \A i \in 1 .. 2 : IsVariable(tpat[i]) \/ tpat[i] = t[i]
Matches(tpat, t) == \A i \in 1 .. 3 : IsVariable(tpat[i]) \/ tpat[i] = t[i]

\* forward_to_solution() from position i in graph g.
Forward(g, tpat, i) ==
    LET triples == graphs[g].triples
    IN  CHOOSE k \in i .. Len(triples) + 1 :
            /\ k <= Len(triples) => Matches(tpat, triples[k])
            /\ \A j \in i .. k - 1 : ~Matches(tpat, triples[j])

AtSentinel(g, i) == g > Len(graphs) \/ i > Len(graphs[g].triples)

\* advance_until_result(): the next graph with a solution, and its position.
FirstIn(g, tpat) == IF g > Len(graphs) THEN 1 ELSE Forward(g, tpat, 1)

\* Mutation: the loop is an if, a second graph without solutions ends it.
AdvanceOnce(g, i, tpat) ==
    IF AtSentinel(g, i) /\ g <= Len(graphs) THEN g + 1 ELSE g

Advance(g, i, tpat) ==
    IF ~AtSentinel(g, i) THEN g
    ELSE CHOOSE k \in g + 1 .. Len(graphs) + 1 :
            /\ k <= Len(graphs) => ~AtSentinel(k, FirstIn(k, tpat))
            /\ \A j \in g + 1 .. k - 1 : AtSentinel(j, FirstIn(j, tpat))

\* From position i of graph g, for a variable and for a fixed graph name.
Settle(g, i, pat) ==
    LET tpat == WithoutGraph(pat)
        to   == Advance(g, i, tpat)
    IN  IF IsVariable(pat[1]) /\ to # g
        THEN giter' = to /\ iter' = FirstIn(to, tpat)
        ELSE giter' = g /\ iter' = i

BeginSolutions(pat) ==
    LET g == IF IsVariable(pat[1]) THEN 1 ELSE FindGraph(pat[1])
    IN  /\ reader = "none" /\ reader' = "solutions"
        /\ pattern' = pat
        /\ IF Found(g) THEN Settle(g, FirstIn(g, WithoutGraph(pat)), pat)
           ELSE giter' = g /\ iter' = 1
        /\ yielded' = <<>>
        /\ UNCHANGED <<graphs, quads>>

\* fill_solution(): the variables of the pattern with the nodes found there.
Solution(pat, quad) ==
    LET nodes == <<quad[1]>> \o quad[2]
        bound == SelectSeq(<<1, 2, 3, 4>>, LAMBDA i : IsVariable(pat[i]))
    IN  [k \in 1 .. Len(bound) |-> <<pat[bound[k]], nodes[bound[k]]>>]

NextSolution ==
    /\ reader = "solutions" /\ ~AtSentinel(giter, iter)
    /\ yielded' = Append(yielded, Solution(pattern, QuadAt(giter, iter)))
    /\ Settle(giter, Forward(giter, WithoutGraph(pattern), iter + 1), pattern)
    /\ UNCHANGED <<graphs, quads, reader, pattern>>

AtEndOfSolutions == reader = "solutions" /\ AtSentinel(giter, iter)

\* The iterator is dropped, at its end or before.
Drop ==
    /\ reader # "none" /\ reader' = "none"
    /\ pattern' = Null /\ giter' = 0 /\ iter' = 0 /\ yielded' = <<>>
    /\ UNCHANGED <<graphs, quads>>

Next ==
    \/ \E name \in Names \union {Null}, t \in Triples : Add(name, t)
    \/ \E name \in Names : GraphRef(name)
    \/ BeginQuads \/ NextQuad
    \/ \E pat \in Patterns : BeginSolutions(pat)
    \/ NextSolution
    \/ Drop

Spec == Init /\ [][Next]_vars

-----------------------------------------------------------------------------
(***************************************************************************)
(* The queries that change nothing.                                         *)
(***************************************************************************)
ContainsQuad(name, t) ==
    LET i == FindGraph(name) IN Found(i) /\ Contains(graphs[i].triples, t)

\* std::accumulate() over the first n graphs, and over all.
Accumulate[n \in 0 .. Len(graphs)] ==
    IF n = 0 THEN 0 ELSE Accumulate[n - 1] + Len(graphs[n].triples)

Size == Accumulate[Len(graphs)]

-----------------------------------------------------------------------------
(***************************************************************************)
(* Properties.                                                             *)
(***************************************************************************)

\* The graphs are named by nodes, the null node is never the name of one, and an
\* iterator points to a graph and a triple that is there, or to an end.
TypeOK ==
    /\ \A i \in Indices(graphs) :
          graphs[i].name \in Names /\ ToSet(graphs[i].triples) \subseteq Triples
    /\ quads \subseteq Names \X Triples
    /\ reader \in {"none", "quads", "solutions"}
    /\ IF reader = "none" THEN giter = 0 /\ iter = 0
       ELSE /\ giter \in 1 .. Len(graphs) + 1
            /\ giter <= Len(graphs) => iter \in 1 .. Len(graphs[giter].triples) + 1
    /\ reader = "quads" /\ giter <= Len(graphs) => iter <= Len(graphs[giter].triples)

\* The dataset is the set of the quads that were added: contains() and size()
\* agree with it, a graph has one entry, and no triple is stored twice.
StoresWhatWasAdded ==
    /\ TypeOK
    /\ \A name \in Names, t \in Triples :
          ContainsQuad(name, t) <=> <<name, t>> \in quads
    /\ Size = Cardinality(quads)
    /\ \A i, j \in Indices(graphs) : graphs[i].name = graphs[j].name => i = j

\* A walk over the dataset that reaches the sentinel has seen every quad exactly
\* once, whatever empty graphs lie between, and none that was not added.
WalkSeesAll ==
    /\ reader = "quads" => ToSet(yielded) \subseteq quads /\ IsInjective(yielded)
    /\ AtEndOfQuads => ToSet(yielded) = quads

\* The quads a pattern stands for, and how many solutions there are per binding.
Meant(pat) ==
    {q \in quads : \A i \in 1 .. 4 :
        IsVariable(pat[i]) \/ pat[i] = (<<q[1]>> \o q[2])[i]}

\* The solutions of a match are those of the quads the pattern stands for, each
\* as often as there are such quads, whether its graph is fixed, unknown or a
\* variable, and whatever graphs without a solution lie between.
MatchFindsAll ==
    AtEndOfSolutions =>
        /\ Len(yielded) = Cardinality(Meant(pattern))
        /\ ToSet(yielded) = {Solution(pattern, q) : q \in Meant(pattern)}

\* When two graphs of the dataset are compared by try_compare_graphs_fast, a mapping that
\* is found shows that they are isomorphic, and the same statements are found equal
\* whatever order they are kept in.
ComparisonIsRight ==
    reader = "none" => \A i, j \in Indices(graphs) : IsRight(graphs[i].triples, graphs[j].triples)
=============================================================================
