--------------------------- MODULE GraphComparison ---------------------------
(***************************************************************************)
(* GraphComparison.hpp: two graphs are sorted and then compared element by  *)
(* element, matching their blank nodes on the way. A graph is the sequence  *)
(* of its statements in the order of its container.                        *)
(***************************************************************************)
EXTENDS Integers, Sequences, FiniteSets, SequencesExt

CONSTANTS
    Null,       \* the null node
    BlankNodes,
    Rank        \* the order of the nodes: a number for each

IsBlank(n) == n \in BlankNodes

num_blanks(q) == Cardinality({i \in DOMAIN q : IsBlank(q[i])})

\* count_all_sim(): how many share two nodes that are not blank, at their positions.
similar_count(v, q) ==
    Len(SelectSeq(v, LAMBDA r :
        Cardinality({i \in DOMAIN q : ~IsBlank(q[i]) /\ r[i] = q[i]}) >= 2))

\* get_ind(), the number of the blank node, or one above all.
get_ind(bn_indices, n) ==
    CHOOSE i \in 1 .. Len(bn_indices) + 1 :
        IF Contains(bn_indices, n) THEN bn_indices[i] = n ELSE i = Len(bn_indices) + 1

\* comp(): blank nodes last, by their number, if they have none by their handles.
comp(bn_indices, a, b) ==
    LET i == get_ind(bn_indices, a)
        j == get_ind(bn_indices, b)
    IN CASE IsBlank(a) # IsBlank(b) -> IsBlank(b)
         [] IsBlank(a) /\ IsBlank(b) /\ i # j -> i < j
         [] OTHER -> Rank[a] < Rank[b]

\* compare(): positions where neither node is blank decide before the others.
compare(v, bn_indices, a, b) ==
    LET differ == {i \in DOMAIN a : a[i] # b[i]}
        firm   == {i \in differ : ~IsBlank(a[i]) /\ ~IsBlank(b[i])}
        at     == Min(IF firm # {} THEN firm ELSE differ)
    IN CASE similar_count(v, a) # similar_count(v, b) ->
                similar_count(v, a) < similar_count(v, b)
         [] num_blanks(a) # num_blanks(b) -> num_blanks(a) < num_blanks(b)
         [] OTHER -> differ # {} /\ comp(bn_indices, a[at], b[at])

-----------------------------------------------------------------------------
IsStrictWeak(v, bn_indices) ==
    LET Less(a, b) == compare(v, bn_indices, a, b)
    IN \A x, y, z \in ToSet(v) :
           /\ ~Less(x, x)
           /\ Less(x, y) /\ Less(y, z) => Less(x, z)
           /\ Less(x, z) => Less(x, y) \/ Less(y, z)

\* std::ranges::sort by compare(): equal elements in any order; without a strict weak
\* ordering it is undefined, here every order.
SortedBy(v, bn_indices) ==
    LET orders == {w \in [DOMAIN v -> ToSet(v)] : ToSet(w) = ToSet(v)}
    IN IF IsStrictWeak(v, bn_indices)
       THEN {w \in orders : \A i, j \in DOMAIN w : i < j => ~compare(v, bn_indices, w[j], w[i])}
       ELSE orders

\* add() over a sorted graph: the blank nodes in the order of their first appearance.
FirstAppearances(v) ==
    FoldLeft(LAMBDA seen, n : IF IsBlank(n) /\ ~Contains(seen, n) THEN Append(seen, n) ELSE seen,
             <<>>, FlattenSeq(v))

sort(v) == UNION {SortedBy(w, FirstAppearances(w)) : w \in SortedBy(v, <<>>)}

-----------------------------------------------------------------------------
\* The result: the map as pairs <<node of graph_b, node of graph_a>>, and the first
\* mismatch if there is one.
\* check(): what expected is mapped to, or may be mapped to.
\* Mutation: one blank node may stand for two, there is no reverse_bn_map.
check_forward(map, to_check, expected) ==
    IF IsBlank(expected) /\ IsBlank(to_check)
    THEN \A pair \in map : pair[1] = expected => pair[2] = to_check
    ELSE to_check = expected
check(map, to_check, expected) ==
    IF IsBlank(expected) /\ IsBlank(to_check)
    THEN \/ <<expected, to_check>> \in map
         \/ \A pair \in map : pair[1] # expected /\ pair[2] # to_check
    ELSE to_check = expected

\* The n-th node of a graph, whose statements have three nodes each.
NodeAt(graph, n) == graph[(n + 2) \div 3][1 + ((n + 2) % 3)]

\* bn_map after the first n nodes, each of which was checked.
MapUntil(a, b, n) ==
    {<<NodeAt(b, k), NodeAt(a, k)>> : k \in {j \in 1 .. n : IsBlank(NodeAt(b, j))}}

\* The nodes are checked one after the other until one does not match.
Fails(a, b, n) == ~check(MapUntil(a, b, n - 1), NodeAt(a, n), NodeAt(b, n))
Matching(a, b) ==
    LET bad == {n \in 1 .. 3 * Len(a) : Fails(a, b, n)}
        at  == Min(bad)
    IN  IF bad = {} THEN [map |-> MapUntil(a, b, 3 * Len(a)), mismatch |-> <<>>]
        ELSE [map |-> MapUntil(a, b, at - 1), mismatch |-> <<NodeAt(a, at), NodeAt(b, at)>>]

\* The possible results for graphs of statements, all of which have three nodes.
try_compare_graphs_fast(graph_a, graph_b) ==
    IF Len(graph_a) # Len(graph_b) THEN {[map |-> {}, mismatch |-> <<Null, Null>>]}
    ELSE {Matching(a, b) : a \in sort(graph_a), b \in sort(graph_b)}

-----------------------------------------------------------------------------
\* Isomorphism as RDF defines it: a bijection of the blank nodes that takes one set
\* of statements to the other.
BlanksOf(g) == {n \in BlankNodes : \E q \in ToSet(g) : n \in ToSet(q)}
IsIsomorphism(map, graph_a, graph_b) ==
    LET Image(n) == IF IsBlank(n) THEN (CHOOSE pair \in map : pair[1] = n)[2] ELSE n
    IN /\ \A n \in BlanksOf(graph_b) : Cardinality({pair \in map : pair[1] = n}) = 1
       /\ \A n \in BlanksOf(graph_a) : Cardinality({pair \in map : pair[2] = n}) = 1
       /\ map \subseteq BlanksOf(graph_b) \X BlanksOf(graph_a)
       /\ {[i \in DOMAIN q |-> Image(q[i])] : q \in ToSet(graph_b)} = ToSet(graph_a)

\* A mapping that is found shows that the graphs are isomorphic.
IsSound(graph_a, graph_b) ==
    \A r \in try_compare_graphs_fast(graph_a, graph_b) :
        r.mismatch = <<>> => IsIsomorphism(r.map, graph_a, graph_b)

\* And the same statements are found equal whatever order they are kept in.
IsRight(graph_a, graph_b) ==
    /\ IsSound(graph_a, graph_b)
    /\ ToSet(graph_a) = ToSet(graph_b) =>
          \A r \in try_compare_graphs_fast(graph_a, graph_b) : r.mismatch = <<>>
=============================================================================
