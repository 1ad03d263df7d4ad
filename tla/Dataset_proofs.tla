--------------------------- MODULE Dataset_proofs ---------------------------
(***************************************************************************)
(* The dataset, for any nodes, triples and patterns: its containers are the *)
(* set of quads that were added, a walk sees each of them once, and a match *)
(* finds the solutions of exactly those the pattern stands for.  Comparing  *)
(* two of its graphs finds isomorphisms only.                              *)
(***************************************************************************)
EXTENDS Dataset, SequenceTheorems, FiniteSetTheorems, WellFoundedInduction, TLAPS

\* A nonempty set of naturals has a least element.
LEMMA LeastElement ==
    ASSUME NEW S \in SUBSET Nat, S # {}
    PROVE  \E m \in S : \A n \in S : m <= n
<1> DEFINE LessThan == {p \in Nat \X Nat : p[1] < p[2]}
<1>1. IsWellFoundedOn(LessThan, Nat)
  BY NatLessThanWellFounded DEF OpToRel
<1> HIDE DEF LessThan
<1>2. \E m \in S : \A n \in S : ~ (<<n, m>> \in LessThan)
  BY <1>1, WFMin
<1>3. ASSUME NEW n \in S, NEW m \in S, ~(<<n, m>> \in LessThan)
      PROVE  m <= n
  BY <1>3 DEF LessThan
<1> QED
  BY <1>2, <1>3

GraphType == [name : Names, triples : Seq(Triples)]

\* The containers hold the quads that were added: a graph has one entry, and it
\* holds no triple twice.
OneEntry == \A g, h \in Indices(graphs) : graphs[g].name = graphs[h].name => g = h
NoTripleTwice ==
    \A g \in Indices(graphs) : \A i, j \in Indices(graphs[g].triples) :
        graphs[g].triples[i] = graphs[g].triples[j] => i = j
Holds(q) ==
    \E g \in Indices(graphs) : \E i \in Indices(graphs[g].triples) : q = QuadAt(g, i)

Stored ==
    /\ graphs \in Seq(GraphType)
    /\ OneEntry /\ NoTripleTwice
    /\ IsFiniteSet(quads) /\ quads \subseteq Names \X Triples
    /\ \A q \in Names \X Triples : q \in quads <=> Holds(q)

\* The quads before position i of graph g, in the order of the containers.
Behind(g, i) ==
    {q \in quads : \E h \in Indices(graphs) : \E j \in Indices(graphs[h].triples) :
        q = QuadAt(h, j) /\ (h < g \/ (h = g /\ j < i))}

\* The reader has seen what lies behind its iterator.
WalkInv ==
    reader = "quads" =>
        /\ giter \in 1 .. Len(graphs) + 1
        /\ giter <= Len(graphs) => iter \in Indices(graphs[giter].triples)
        /\ yielded \in Seq(quads) /\ IsInjective(yielded)
        /\ ToSet(yielded) = Behind(giter, iter)

\* Of the quads that the pattern stands for, the iterator has seen those behind it.
\* It points to one of them, or to an end: of the one graph that the pattern names, or
\* of the dataset when the graph is a variable.
SeenOf(pat, g, i) == Behind(g, i) \cap Meant(pat)

AtSolution(g, i, pat) ==
    /\ g \in 1 .. Len(graphs) + 1
    /\ g <= Len(graphs) =>
        /\ i \in 1 .. Len(graphs[g].triples) + 1
        /\ i <= Len(graphs[g].triples) => Matches(WithoutGraph(pat), graphs[g].triples[i])
    /\ IF IsVariable(pat[1]) THEN AtSentinel(g, i) => g > Len(graphs)
       ELSE g = FindGraph(pat[1])

MatchInv ==
    reader = "solutions" =>
        /\ pattern \in Patterns /\ AtSolution(giter, iter, pattern)
        /\ yielded \in Seq({Solution(pattern, q) : q \in quads})
        /\ Len(yielded) = Cardinality(SeenOf(pattern, giter, iter))
        /\ ToSet(yielded) = {Solution(pattern, q) : q \in SeenOf(pattern, giter, iter)}

IdleInv ==
    /\ reader \in {"none", "quads", "solutions"}
    /\ reader = "none" => giter = 0 /\ iter = 0

IInv == Stored /\ IdleInv /\ WalkInv /\ MatchInv

-----------------------------------------------------------------------------
(***************************************************************************)
(* Sequences, and the loops that look for the first element of a kind.      *)
(***************************************************************************)

\* InsertAt() puts an element between the others.
LEMMA Inserted ==
    ASSUME NEW S, NEW s \in Seq(S), NEW i \in 1 .. Len(s) + 1, NEW e \in S
    PROVE  /\ InsertAt(s, i, e) \in Seq(S) /\ Len(InsertAt(s, i, e)) = Len(s) + 1
           /\ InsertAt(s, i, e)[i] = e
           /\ \A k \in 1 .. i - 1 : InsertAt(s, i, e)[k] = s[k]
           /\ \A k \in i + 1 .. Len(s) + 1 : InsertAt(s, i, e)[k] = s[k - 1]
<1> DEFINE front == SubSeq(s, 1, i - 1)
           back  == SubSeq(s, i, Len(s))
<1>0. Len(s) \in Nat /\ i \in Int
  BY LenProperties
<1>1. /\ front \in Seq(S) /\ Len(front) = i - 1
      /\ \A k \in 1 .. i - 1 : front[k] = s[k]
  <2>1. \A k \in 1 .. i - 1 : s[k] \in S
    BY <1>0
  <2> QED
    BY <1>0, <2>1, SubSeqProperties
<1>2. /\ back \in Seq(S) /\ Len(back) = Len(s) - i + 1
      /\ \A k \in 1 .. Len(s) - i + 1 : back[k] = s[k + i - 1]
  <2>1. \A k \in i .. Len(s) : s[k] \in S
    BY <1>0
  <2> QED
    BY <1>0, <2>1, SubSeqProperties
<1>3. <<e>> \in Seq(S) /\ Len(<<e>>) = 1 /\ <<e>>[1] = e
  OBVIOUS
<1> DEFINE front1 == front \o <<e>>
           r == front1 \o back
<1> HIDE DEF front, back
<1>4. /\ front1 \in Seq(S) /\ Len(front1) = i
      /\ \A k \in 1 .. i : front1[k] = IF k < i THEN s[k] ELSE e
  BY <1>0, <1>1, <1>3, ConcatProperties
<1> HIDE DEF front1
<1>5. /\ r \in Seq(S) /\ Len(r) = Len(front1) + Len(back)
      /\ \A k \in 1 .. Len(front1) + Len(back) :
             r[k] = IF k <= Len(front1) THEN front1[k] ELSE back[k - Len(front1)]
  BY <1>2, <1>4, ConcatProperties
<1> HIDE DEF r
<1>6. Len(front1) + Len(back) = Len(s) + 1
  BY <1>0, <1>2, <1>4
<1>7. \A k \in 1 .. Len(s) + 1 :
          r[k] = IF k < i THEN s[k] ELSE IF k = i THEN e ELSE s[k - 1]
  <2> TAKE k \in 1 .. Len(s) + 1
  <2>1. r[k] = IF k <= i THEN front1[k] ELSE back[k - i]
    BY <1>4, <1>5, <1>6
  <2>2. CASE k <= i
    <3>1. k \in 1 .. i
      BY <1>0, <2>2
    <3> QED
      BY <1>0, <1>4, <2>1, <2>2, <3>1
  <2>3. CASE k > i
    <3>1. k - i \in 1 .. Len(s) - i + 1 /\ (k - i) + i - 1 = k - 1
      BY <1>0, <2>3
    <3>2. back[k - i] = s[k - 1]
      BY <1>2, <3>1
    <3> QED
      BY <1>0, <2>1, <2>3, <3>2
  <2> QED
    BY <1>0, <2>2, <2>3
<1>8. InsertAt(s, i, e) = r
  BY DEF InsertAt, r, front1, front, back
<1> QED
  BY <1>5, <1>6, <1>7, <1>8

\* What lay before and behind the place where an element is inserted.
LEMMA InsertedBefore ==
    ASSUME NEW S, NEW s \in Seq(S), NEW i \in 1 .. Len(s) + 1, NEW e \in S,
           NEW j \in 1 .. Len(s) + 1, j < i
    PROVE  InsertAt(s, i, e)[j] = s[j]
<1>1. j \in 1 .. i - 1
  OBVIOUS
<1> QED
  BY <1>1, Inserted

LEMMA InsertedBehind ==
    ASSUME NEW S, NEW s \in Seq(S), NEW i \in 1 .. Len(s) + 1, NEW e \in S,
           NEW j \in 1 .. Len(s) + 1, j > i
    PROVE  InsertAt(s, i, e)[j] = s[j - 1]
<1>1. j \in i + 1 .. Len(s) + 1
  OBVIOUS
<1> QED
  BY <1>1, Inserted

\* A loop from lo to hi that ends at the first member of Stops, or behind hi.
LEMMA FirstStop ==
    ASSUME NEW lo \in Nat, NEW hi \in Nat, lo <= hi + 1, NEW Stops
    PROVE  \E k \in lo .. hi + 1 :
               /\ k <= hi => k \in Stops
               /\ \A j \in lo .. k - 1 : j \notin Stops
<1> DEFINE Ends == {k \in lo .. hi + 1 : k \in Stops \/ k = hi + 1}
<1>1. Ends \in SUBSET Nat /\ hi + 1 \in Ends
  OBVIOUS
<1>2. PICK k \in Ends : \A n \in Ends : k <= n
  BY <1>1, LeastElement
<1>3. \A j \in lo .. k - 1 : j \notin Ends /\ j \in lo .. hi + 1
  BY <1>2
<1> QED
  BY <1>2, <1>3

\* The loop over the graphs stops at a graph with a triple, or behind the last one,
\* and leaves only empty graphs behind.
LEMMA SkipsEmpty ==
    ASSUME graphs \in Seq(GraphType), NEW i \in 1 .. Len(graphs) + 1
    PROVE  /\ SkipEmpty(i) \in i .. Len(graphs) + 1
           /\ SkipEmpty(i) <= Len(graphs) => graphs[SkipEmpty(i)].triples # <<>>
           /\ \A j \in i .. SkipEmpty(i) - 1 : graphs[j].triples = <<>>
<1> DEFINE Stops == {k \in Indices(graphs) : graphs[k].triples # <<>>}
<1>1. Len(graphs) \in Nat /\ i \in Nat /\ i <= Len(graphs) + 1
  OBVIOUS
<1>2. PICK k \in i .. Len(graphs) + 1 :
          /\ k <= Len(graphs) => k \in Stops
          /\ \A j \in i .. k - 1 : j \notin Stops
  <2> HIDE DEF Stops
  <2> QED
    BY <1>1, FirstStop
<1>3. \A j \in i .. k - 1 : j \in Indices(graphs)
  BY <1>1 DEF Indices
<1>4. /\ k <= Len(graphs) => graphs[k].triples # <<>>
      /\ \A j \in i .. k - 1 : graphs[j].triples = <<>>
  BY <1>2, <1>3
<1> QED
  BY <1>4 DEF SkipEmpty

\* forward_to_solution() stops at a triple that matches, or at the end.
LEMMA Forwards ==
    ASSUME graphs \in Seq(GraphType), NEW g \in Indices(graphs), NEW tpat,
           NEW i \in 1 .. Len(graphs[g].triples) + 1
    PROVE  LET k == Forward(g, tpat, i)
           IN  /\ k \in i .. Len(graphs[g].triples) + 1
               /\ k <= Len(graphs[g].triples) => Matches(tpat, graphs[g].triples[k])
               /\ \A j \in i .. k - 1 : ~Matches(tpat, graphs[g].triples[j])
<1> DEFINE triples == graphs[g].triples
           Stops == {k \in Indices(triples) : Matches(tpat, triples[k])}
<1>1. Len(triples) \in Nat /\ i \in Nat /\ i <= Len(triples) + 1
  BY DEF GraphType, Indices
<1>2. PICK k \in i .. Len(triples) + 1 :
          /\ k <= Len(triples) => k \in Stops
          /\ \A j \in i .. k - 1 : j \notin Stops
  <2> HIDE DEF Stops, triples
  <2> QED
    BY <1>1, FirstStop
<1>3. \A j \in i .. k - 1 : j \in Indices(triples)
  BY <1>1 DEF Indices
<1>4. /\ k <= Len(triples) => Matches(tpat, triples[k])
      /\ \A j \in i .. k - 1 : ~Matches(tpat, triples[j])
  BY <1>2, <1>3
<1> QED
  BY <1>4 DEF Forward

\* advance_until_result() stops at a graph with a solution, or behind the last graph.
LEMMA Advances ==
    ASSUME graphs \in Seq(GraphType), NEW g \in Indices(graphs), NEW tpat, NEW i,
           AtSentinel(g, i)
    PROVE  LET k == Advance(g, i, tpat)
           IN  /\ k \in g + 1 .. Len(graphs) + 1
               /\ k <= Len(graphs) => ~AtSentinel(k, FirstIn(k, tpat))
               /\ \A j \in g + 1 .. k - 1 : AtSentinel(j, FirstIn(j, tpat))
<1> DEFINE Stops == {k \in Indices(graphs) : ~AtSentinel(k, FirstIn(k, tpat))}
<1>1. Len(graphs) \in Nat /\ g \in Nat /\ g + 1 \in Nat /\ g + 1 <= Len(graphs) + 1
  BY DEF Indices
<1>2. PICK k \in g + 1 .. Len(graphs) + 1 :
          /\ k <= Len(graphs) => k \in Stops
          /\ \A j \in g + 1 .. k - 1 : j \notin Stops
  <2> HIDE DEF Stops
  <2> QED
    BY <1>1, FirstStop
<1>3. \A j \in g + 1 .. k - 1 : j \in Indices(graphs)
  BY <1>1 DEF Indices
<1>4. /\ k <= Len(graphs) => ~AtSentinel(k, FirstIn(k, tpat))
      /\ \A j \in g + 1 .. k - 1 : AtSentinel(j, FirstIn(j, tpat))
  BY <1>2, <1>3
<1> HIDE DEF Stops
<1> QED
  BY <1>4 DEF Advance

-----------------------------------------------------------------------------
(***************************************************************************)
(* Writing.                                                                *)
(***************************************************************************)

\* graphs_.find() finds the entry of a graph if there is one.
LEMMA FindGraphFinds ==
    ASSUME graphs \in Seq(GraphType), NEW name
    PROVE  /\ FindGraph(name) \in 1 .. Len(graphs) + 1
           /\ Found(FindGraph(name)) =>
                  FindGraph(name) \in Indices(graphs) /\ graphs[FindGraph(name)].name = name
           /\ ~Found(FindGraph(name)) => \A g \in Indices(graphs) : graphs[g].name # name
<1>1. Len(graphs) \in Nat
  OBVIOUS
<1>2. CASE \E g \in Indices(graphs) : graphs[g].name = name
  <2>1. FindGraph(name) \in Indices(graphs) /\ graphs[FindGraph(name)].name = name
    BY <1>2 DEF FindGraph
  <2> QED
    BY <1>1, <2>1 DEF Indices, Found
<1>3. CASE ~\E g \in Indices(graphs) : graphs[g].name = name
  <2>1. FindGraph(name) = Len(graphs) + 1
    BY <1>3 DEF FindGraph
  <2> QED
    BY <1>1, <1>3, <2>1 DEF Found
<1> QED
  BY <1>2, <1>3

\* An entry has a name and a sequence of triples.
LEMMA GraphsAreTyped ==
    ASSUME graphs \in Seq(GraphType), NEW g \in Indices(graphs)
    PROVE  /\ graphs[g] \in GraphType /\ graphs[g].name \in Names
           /\ graphs[g].triples \in Seq(Triples) /\ Len(graphs[g].triples) \in Nat
           /\ Len(graphs) \in Nat /\ g \in Nat
           /\ \A i \in Indices(graphs[g].triples) : i \in Nat
<1>1. graphs[g] \in GraphType /\ Len(graphs) \in Nat /\ g \in Nat
  BY DEF Indices
<1>2. graphs[g].name \in Names /\ graphs[g].triples \in Seq(Triples)
  BY <1>1 DEF GraphType
<1>3. Len(graphs[g].triples) \in Nat
  BY <1>2
<1> QED
  BY <1>1, <1>2, <1>3 DEF Indices

\* A quad that is held is made of a name and a triple.
LEMMA QuadsAreTyped ==
    ASSUME graphs \in Seq(GraphType), NEW g \in Indices(graphs),
           NEW i \in Indices(graphs[g].triples)
    PROVE  /\ QuadAt(g, i) \in Names \X Triples
           /\ graphs[g].name \in Names /\ graphs[g].triples[i] \in Triples
<1>1. graphs[g] \in GraphType
  BY DEF Indices
<1>2. graphs[g].name \in Names /\ graphs[g].triples \in Seq(Triples)
  BY <1>1 DEF GraphType
<1>3. graphs[g].triples[i] \in Triples
  BY <1>2 DEF Indices
<1> QED
  BY <1>2, <1>3 DEF QuadAt

\* A graph that is made, with one triple or none, keeps the containers right.
LEMMA NewGraph ==
    ASSUME Stored, NEW name \in Names, ~Found(FindGraph(name)),
           NEW triples \in Seq(Triples), Len(triples) <= 1,
           NEW at \in 1 .. Len(graphs) + 1,
           graphs' = InsertAt(graphs, at, [name |-> name, triples |-> triples]),
           quads' = quads \union {<<name, triples[i]>> : i \in Indices(triples)},
           IsFiniteSet(quads')
    PROVE  Stored'
<1> DEFINE new == [name |-> name, triples |-> triples]
<1>1. new \in GraphType /\ new.name = name /\ new.triples = triples
  BY DEF GraphType
<1> HIDE DEF new
<1>2. graphs \in Seq(GraphType) /\ Len(graphs) \in Nat
  BY DEF Stored
<1>3. /\ graphs' \in Seq(GraphType) /\ Len(graphs') = Len(graphs) + 1
      /\ \A k \in 1 .. Len(graphs) + 1 :
             graphs'[k] = IF k < at THEN graphs[k] ELSE IF k = at THEN new ELSE graphs[k - 1]
  BY <1>1, <1>2, Inserted DEF new
<1>4. \A g \in Indices(graphs) : graphs[g].name # name
  BY <1>2, FindGraphFinds
<1>5. \A k \in Indices(graphs') : k # at =>
          \E g \in Indices(graphs) : graphs'[k] = graphs[g] /\ k = IF g < at THEN g ELSE g + 1
  <2> SUFFICES ASSUME NEW k \in Indices(graphs'), k # at
               PROVE  \E g \in Indices(graphs) :
                          graphs'[k] = graphs[g] /\ k = IF g < at THEN g ELSE g + 1
    OBVIOUS
  <2>1. k \in 1 .. Len(graphs) + 1 /\ k \in Int /\ at \in Int
    BY <1>2, <1>3 DEF Indices
  <2>2. CASE k < at
    <3>1. k \in Indices(graphs)
      BY <1>2, <2>1, <2>2 DEF Indices
    <3> QED
      BY <1>3, <2>1, <2>2, <3>1
  <2>3. CASE k > at
    <3>1. k - 1 \in Indices(graphs)
      BY <1>2, <2>1, <2>3 DEF Indices
    <3>2. graphs'[k] = graphs[k - 1] /\ ~(k - 1 < at) /\ k = (k - 1) + 1
      BY <1>3, <2>1, <2>3
    <3> QED
      BY <3>1, <3>2
  <2> QED
    BY <2>1, <2>2, <2>3
<1>6. \A g \in Indices(graphs) : \E k \in Indices(graphs') : k # at /\ graphs'[k] = graphs[g]
  <2> TAKE g \in Indices(graphs)
  <2>1. g \in 1 .. Len(graphs) /\ g \in Int /\ at \in Int
    BY <1>2 DEF Indices
  <2>2. CASE g < at
    BY <1>2, <1>3, <2>1, <2>2 DEF Indices
  <2>3. CASE g >= at
    <3>1. g + 1 \in Indices(graphs') /\ g + 1 # at
      BY <1>2, <1>3, <2>1, <2>3 DEF Indices
    <3>2. graphs'[g + 1] = graphs[g]
      BY <1>2, <1>3, <2>1, <2>3
    <3> QED
      BY <3>1, <3>2
  <2> QED
    BY <2>1, <2>2, <2>3
<1>7. at \in Indices(graphs') /\ graphs'[at] = new
  BY <1>2, <1>3 DEF Indices
<1>8. OneEntry'
  <2> SUFFICES ASSUME NEW g \in Indices(graphs'), NEW h \in Indices(graphs'),
                      graphs'[g].name = graphs'[h].name
               PROVE  g = h
    BY DEF OneEntry, Indices
  <2>1. CASE g = at
    BY <1>1, <1>4, <1>5, <1>7, <2>1
  <2>2. CASE h = at
    BY <1>1, <1>4, <1>5, <1>7, <2>2
  <2>3. CASE g # at /\ h # at
    BY <1>5, <2>3 DEF Stored, OneEntry
  <2> QED
    BY <2>1, <2>2, <2>3
<1>9. NoTripleTwice'
  <2> SUFFICES ASSUME NEW g \in Indices(graphs'),
                      NEW i \in Indices(graphs'[g].triples),
                      NEW j \in Indices(graphs'[g].triples),
                      graphs'[g].triples[i] = graphs'[g].triples[j]
               PROVE  i = j
    BY DEF NoTripleTwice, Indices
  <2>1. CASE g = at
    <3>1. i \in 1 .. Len(triples) /\ j \in 1 .. Len(triples)
      BY <1>1, <1>7, <2>1 DEF Indices
    <3> QED
      BY <3>1
  <2>2. CASE g # at
    BY <1>5, <2>2 DEF Stored, NoTripleTwice
  <2> QED
    BY <2>1, <2>2
<1>10. quads' \subseteq Names \X Triples
  BY DEF Stored, Indices
<1>11. ASSUME NEW q \in Names \X Triples
       PROVE  q \in quads' <=> Holds(q)'
  <2>1. ASSUME q \in quads PROVE Holds(q)'
    <3>1. PICK g \in Indices(graphs) : \E i \in Indices(graphs[g].triples) : q = QuadAt(g, i)
      BY <2>1 DEF Stored, Holds
    <3>2. PICK i \in Indices(graphs[g].triples) : q = QuadAt(g, i)
      BY <3>1
    <3>3. PICK k \in Indices(graphs') : graphs'[k] = graphs[g]
      BY <1>6
    <3>4. i \in Indices(graphs'[k].triples) /\ q = <<graphs'[k].name, graphs'[k].triples[i]>>
      BY <3>2, <3>3 DEF QuadAt
    <3> QED
      BY <3>4 DEF Holds, QuadAt, Indices
  <2>2. ASSUME NEW i \in Indices(triples), q = <<name, triples[i]>>
        PROVE  Holds(q)'
    BY <1>1, <1>7, <2>2 DEF Holds, QuadAt, Indices
  <2>3. ASSUME Holds(q)' PROVE q \in quads'
    <3>1. PICK k \in Indices(graphs') : \E i \in Indices(graphs'[k].triples) :
              q = <<graphs'[k].name, graphs'[k].triples[i]>>
      BY <2>3 DEF Holds, QuadAt, Indices
    <3>2. PICK i \in Indices(graphs'[k].triples) :
              q = <<graphs'[k].name, graphs'[k].triples[i]>>
      BY <3>1
    <3>3. CASE k = at
      BY <1>1, <1>7, <3>2, <3>3
    <3>4. CASE k # at
      <4>1. PICK g \in Indices(graphs) : graphs'[k] = graphs[g]
        BY <1>5, <3>4
      <4>2. Holds(q)
        BY <3>2, <4>1 DEF Holds, QuadAt
      <4> QED
        BY <4>2 DEF Stored
    <3> QED
      BY <3>3, <3>4
  <2> QED
    BY <2>1, <2>2, <2>3
<1> QED
  BY <1>3, <1>8, <1>9, <1>10, <1>11 DEF Stored

\* Graph::add() of a triple that is not there puts it between the others.
LEMMA TriplesGrow ==
    ASSUME NEW old \in Seq(Triples), NEW t \in Triples, NEW triples \in TriplesWith(old, t),
           ~Contains(old, t)
    PROVE  \E at \in 1 .. Len(old) + 1 :
               /\ triples \in Seq(Triples) /\ Len(triples) = Len(old) + 1
               /\ \A k \in 1 .. Len(old) + 1 :
                      triples[k] = IF k < at THEN old[k] ELSE IF k = at THEN t ELSE old[k - 1]
<1>1. PICK at \in 1 .. Len(old) + 1 : triples = InsertAt(old, at, t)
  BY DEF TriplesWith
<1>2. InsertAt(old, at, t) \in Seq(Triples) /\ Len(InsertAt(old, at, t)) = Len(old) + 1
  BY Inserted
<1>3. ASSUME NEW k \in 1 .. Len(old) + 1
      PROVE  InsertAt(old, at, t)[k] =
                 IF k < at THEN old[k] ELSE IF k = at THEN t ELSE old[k - 1]
  <2>1. Len(old) \in Nat
    OBVIOUS
  <2>2. CASE k < at
    BY <2>1, <2>2, InsertedBefore
  <2>3. CASE k = at
    BY <2>1, <2>3, Inserted
  <2>4. CASE k > at
    BY <2>1, <2>4, InsertedBehind
  <2> QED
    BY <2>1, <2>2, <2>3, <2>4
<1> QED
  BY <1>1, <1>2, <1>3

\* A triple that is added to a graph that is there keeps the containers right.
LEMMA NewTriple ==
    ASSUME Stored, NEW g \in Indices(graphs), NEW t \in Triples,
           NEW triples \in TriplesWith(graphs[g].triples, t),
           graphs' = [graphs EXCEPT ![g].triples = triples],
           quads' = quads \union {<<graphs[g].name, t>>},
           IsFiniteSet(quads')
    PROVE  Stored'
<1> DEFINE old == graphs[g].triples
<1>1. /\ graphs \in Seq(GraphType) /\ graphs[g] \in GraphType
      /\ old \in Seq(Triples) /\ graphs[g].name \in Names
  <2>1. graphs \in Seq(GraphType)
    BY DEF Stored
  <2>2. graphs[g] \in GraphType
    BY <2>1 DEF Indices
  <2> QED
    BY <2>1, <2>2 DEF GraphType
<1>2. CASE Contains(old, t)
  <2>1. triples = old
    BY <1>2 DEF TriplesWith
  <2>2. graphs' = graphs
    BY <1>1, <2>1 DEF GraphType
  <2>3. Holds(<<graphs[g].name, t>>)
    BY <1>2 DEF Contains, Holds, QuadAt, Indices
  <2>4. quads' = quads
    <3>1. <<graphs[g].name, t>> \in Names \X Triples
      BY <1>1
    <3> QED
      BY <2>3, <3>1 DEF Stored
  <2>5. OneEntry' /\ NoTripleTwice'
    BY <2>2 DEF Stored, OneEntry, NoTripleTwice, Indices
  <2>6. ASSUME NEW q PROVE Holds(q)' <=> Holds(q)
    BY <2>2 DEF Holds, QuadAt, Indices
  <2> QED
    BY <2>2, <2>4, <2>5, <2>6 DEF Stored
<1>3. CASE ~Contains(old, t)
  <2> DEFINE n == Len(old)
  <2>1. PICK at \in 1 .. n + 1 :
            /\ triples \in Seq(Triples) /\ Len(triples) = n + 1
            /\ \A k \in 1 .. n + 1 :
                   triples[k] = IF k < at THEN old[k] ELSE IF k = at THEN t ELSE old[k - 1]
    <3> HIDE DEF old
    <3> QED
      BY <1>1, <1>3, TriplesGrow DEF n, old
  <2>2. n \in Nat /\ \A i \in 1 .. n : old[i] # t
    BY <1>1, <1>3 DEF Contains
  <2>3. /\ triples \in Seq(Triples) /\ Len(triples) = n + 1
        /\ \A k \in 1 .. n + 1 :
               triples[k] = IF k < at THEN old[k] ELSE IF k = at THEN t ELSE old[k - 1]
    BY <2>1
  <2> HIDE DEF n
  <2>4. /\ Len(graphs') = Len(graphs) /\ Indices(graphs') = Indices(graphs)
        /\ \A h \in Indices(graphs) :
               /\ graphs'[h].name = graphs[h].name
               /\ graphs'[h].triples = IF h = g THEN triples ELSE graphs[h].triples
    BY <1>1 DEF Indices, GraphType
  <2>5. graphs' \in Seq(GraphType)
    <3>1. [graphs[g] EXCEPT !.triples = triples] \in GraphType
      BY <1>1, <2>3 DEF GraphType
    <3>2. graphs' = [graphs EXCEPT ![g] = [graphs[g] EXCEPT !.triples = triples]]
      OBVIOUS
    <3>3. g \in 1 .. Len(graphs)
      BY DEF Indices
    <3> HIDE DEF old
    <3> QED
      BY <1>1, <3>1, <3>2, <3>3, ExceptSeq
  <2>6. \A k \in 1 .. n + 1 : k # at =>
            \E i \in 1 .. n : triples[k] = old[i] /\ k = IF i < at THEN i ELSE i + 1
    <3> SUFFICES ASSUME NEW k \in 1 .. n + 1, k # at
                 PROVE  \E i \in 1 .. n :
                            triples[k] = old[i] /\ k = IF i < at THEN i ELSE i + 1
      OBVIOUS
    <3>1. k \in Int /\ at \in Int
      BY <2>2
    <3>2. CASE k < at
      <4>1. k \in 1 .. n
        BY <2>2, <3>2
      <4> QED
        BY <2>3, <3>2, <4>1
    <3>3. CASE k > at
      <4>1. k - 1 \in 1 .. n /\ ~(k - 1 < at) /\ k = (k - 1) + 1
        BY <2>2, <3>3
      <4>2. triples[k] = old[k - 1]
        BY <2>3, <3>1, <3>3
      <4> QED
        BY <4>1, <4>2
    <3> QED
      BY <3>1, <3>2, <3>3
  <2>7. \A i \in 1 .. n : \E k \in 1 .. n + 1 : triples[k] = old[i]
    <3> TAKE i \in 1 .. n
    <3>1. i \in Int /\ at \in Int
      BY <2>2
    <3>2. CASE i < at
      BY <2>2, <2>3, <3>2
    <3>3. CASE i >= at
      <4>1. i + 1 \in 1 .. n + 1 /\ ~(i + 1 < at) /\ i + 1 # at /\ (i + 1) - 1 = i
        BY <2>2, <3>3
      <4>2. triples[i + 1] = old[i]
        BY <2>3, <4>1
      <4> QED
        BY <4>1, <4>2
    <3> QED
      BY <3>1, <3>2, <3>3
  <2>8. at \in 1 .. n + 1 /\ triples[at] = t
    BY <2>2, <2>3
  <2>9. OneEntry'
    BY <2>4 DEF OneEntry, Stored, Indices
  <2>10. NoTripleTwice'
    <3> SUFFICES ASSUME NEW h \in Indices(graphs),
                        NEW i \in Indices(graphs'[h].triples),
                        NEW j \in Indices(graphs'[h].triples),
                        graphs'[h].triples[i] = graphs'[h].triples[j]
                 PROVE  i = j
      BY <2>4 DEF NoTripleTwice, Indices
    <3>1. CASE h # g
      BY <2>4, <3>1 DEF Stored, NoTripleTwice
    <3>2. CASE h = g
      <4>1. i \in 1 .. n + 1 /\ j \in 1 .. n + 1 /\ triples[i] = triples[j]
        BY <2>3, <2>4, <3>2 DEF Indices
      <4>2. CASE i = at \/ j = at
        BY <2>2, <2>6, <2>8, <4>1, <4>2
      <4>3. CASE i # at /\ j # at
        <5>1. PICK k \in 1 .. n : triples[i] = old[k] /\ i = IF k < at THEN k ELSE k + 1
          BY <2>6, <4>1, <4>3
        <5>2. PICK l \in 1 .. n : triples[j] = old[l] /\ j = IF l < at THEN l ELSE l + 1
          BY <2>6, <4>1, <4>3
        <5>3. k = l
          BY <4>1, <5>1, <5>2 DEF Stored, NoTripleTwice, Indices, n
        <5> QED
          BY <5>1, <5>2, <5>3
      <4> QED
        BY <4>2, <4>3
    <3> QED
      BY <3>1, <3>2
  <2>11. quads' \subseteq Names \X Triples
    BY <1>1 DEF Stored
  <2>12. ASSUME NEW q \in Names \X Triples
         PROVE  q \in quads' <=> Holds(q)'
    <3>1. ASSUME q \in quads PROVE Holds(q)'
      <4>1. PICK h \in Indices(graphs) : \E i \in Indices(graphs[h].triples) : q = QuadAt(h, i)
        BY <3>1 DEF Stored, Holds
      <4>2. PICK i \in Indices(graphs[h].triples) : q = QuadAt(h, i)
        BY <4>1
      <4>3. CASE h # g
        <5>1. q = <<graphs'[h].name, graphs'[h].triples[i]>> /\ i \in Indices(graphs'[h].triples)
          BY <2>4, <4>2, <4>3 DEF QuadAt
        <5> QED
          BY <2>4, <5>1 DEF Holds, QuadAt, Indices
      <4>4. CASE h = g
        <5>1. PICK k \in 1 .. n + 1 : triples[k] = old[i]
          BY <2>7, <4>4 DEF Indices, n
        <5>2. q = <<graphs'[g].name, graphs'[g].triples[k]>> /\ k \in Indices(graphs'[g].triples)
          BY <2>3, <2>4, <4>2, <4>4, <5>1 DEF QuadAt, Indices
        <5> QED
          BY <2>4, <5>2 DEF Holds, QuadAt, Indices
      <4> QED
        BY <4>3, <4>4
    <3>2. ASSUME q = <<graphs[g].name, t>> PROVE Holds(q)'
      <4>1. q = <<graphs'[g].name, graphs'[g].triples[at]>> /\ at \in Indices(graphs'[g].triples)
        BY <2>3, <2>4, <2>8, <3>2 DEF Indices
      <4> QED
        BY <2>4, <4>1 DEF Holds, QuadAt, Indices
    <3>3. ASSUME Holds(q)' PROVE q \in quads'
      <4>1. PICK h \in Indices(graphs) : \E i \in Indices(graphs'[h].triples) :
                q = <<graphs'[h].name, graphs'[h].triples[i]>>
        BY <2>4, <3>3 DEF Holds, QuadAt, Indices
      <4>2. PICK i \in Indices(graphs'[h].triples) :
                q = <<graphs'[h].name, graphs'[h].triples[i]>>
        BY <4>1
      <4>3. CASE h # g
        <5>1. Holds(q)
          BY <2>4, <4>2, <4>3 DEF Holds, QuadAt
        <5> QED
          BY <5>1 DEF Stored
      <4>4. CASE h = g /\ i = at
        BY <2>4, <2>8, <4>2, <4>4
      <4>5. CASE h = g /\ i # at
        <5>1. i \in 1 .. n + 1
          BY <2>3, <2>4, <4>5 DEF Indices
        <5>2. PICK k \in 1 .. n : triples[i] = old[k]
          BY <2>6, <4>5, <5>1
        <5>3. Holds(q)
          BY <2>4, <4>2, <4>5, <5>2 DEF Holds, QuadAt, Indices, n
        <5> QED
          BY <5>3 DEF Stored
      <4> QED
        BY <4>3, <4>4, <4>5
    <3> QED
      BY <3>1, <3>2, <3>3
  <2> QED
    BY <2>5, <2>9, <2>10, <2>11, <2>12 DEF Stored
<1> QED
  BY <1>2, <1>3

\* Dataset::add() keeps the containers right.
LEMMA AddStep ==
    ASSUME Stored, NEW name \in Names \union {Null}, NEW t \in Triples, Add(name, t)
    PROVE  Stored' /\ reader = "none" /\ UNCHANGED <<reader, pattern, giter, iter, yielded>>
<1> DEFINE g == GraphOf(name)
           i == FindGraph(g)
<1>1. g \in Names
  BY NamesAssumption DEF GraphOf
<1>2. graphs \in Seq(GraphType)
  BY DEF Stored
<1>3. quads' = quads \union {<<g, t>>}
  BY DEF Add, GraphOf
<1>4. IsFiniteSet(quads')
  BY <1>3, FS_AddElement DEF Stored
<1>5. CASE Found(i)
  <2>1. i \in Indices(graphs) /\ graphs[i].name = g
    BY <1>2, <1>5, FindGraphFinds
  <2>2. PICK triples \in TriplesWith(graphs[i].triples, t) :
            graphs' = [graphs EXCEPT ![i].triples = triples]
    BY <1>5 DEF Add
  <2> HIDE DEF i, g
  <2>3. Stored'
    BY <1>3, <1>4, <2>1, <2>2, NewTriple
  <2> QED
    BY <2>3 DEF Add
<1>6. CASE ~Found(i)
  <2>1. PICK at \in 1 .. Len(graphs) + 1 :
            graphs' = InsertAt(graphs, at, [name |-> g, triples |-> <<t>>])
    BY <1>6 DEF Add
  <2>2. PICK one \in Seq(Triples) : one = <<t>>
    <3>1. <<t>> \in Seq(Triples)
      OBVIOUS
    <3> QED
      BY <3>1, Zenon
  <2>3. Len(one) <= 1 /\ Indices(one) = {1} /\ one[1] = t
    BY <2>2 DEF Indices
  <2>4. Stored'
    <3>1. quads' = quads \union {<<g, one[k]>> : k \in Indices(one)}
      BY <1>3, <2>3
    <3>2. graphs' = InsertAt(graphs, at, [name |-> g, triples |-> one])
      BY <2>1, <2>2
    <3>3. ~Found(FindGraph(g))
      BY <1>6
    <3> HIDE DEF g, i
    <3> QED
      BY <1>1, <1>4, <2>3, <3>1, <3>2, <3>3, NewGraph
  <2> QED
    BY <2>4 DEF Add
<1> QED
  BY <1>5, <1>6

\* Dataset::graph() keeps the containers right.
LEMMA GraphRefStep ==
    ASSUME Stored, NEW name \in Names, GraphRef(name)
    PROVE  Stored' /\ reader = "none" /\ UNCHANGED <<reader, pattern, giter, iter, yielded>>
<1>1. PICK at \in 1 .. Len(graphs) + 1 :
          graphs' = InsertAt(graphs, at, [name |-> name, triples |-> <<>>])
  BY DEF GraphRef
<1>2. PICK none \in Seq(Triples) : none = <<>>
  BY EmptySeq, Zenon
<1>3. Len(none) <= 1 /\ Indices(none) = {}
  BY <1>2 DEF Indices
<1>4. ~Found(FindGraph(name)) /\ quads' = quads /\ IsFiniteSet(quads')
  BY DEF GraphRef, Stored
<1>5. /\ quads' = quads \union {<<name, none[k]>> : k \in Indices(none)}
      /\ graphs' = InsertAt(graphs, at, [name |-> name, triples |-> none])
  BY <1>1, <1>2, <1>3, <1>4
<1>6. Stored'
  BY <1>3, <1>4, <1>5, NewGraph
<1> QED
  BY <1>6 DEF GraphRef

-----------------------------------------------------------------------------
(***************************************************************************)
(* The quads behind an iterator.                                            *)
(***************************************************************************)

\* Position (h, j) comes before position (g, i).
Before(h, j, g, i) == h < g \/ (h = g /\ j < i)

\* A quad is at one place.
LEMMA OnePlace ==
    ASSUME Stored,
           NEW g \in Indices(graphs), NEW i \in Indices(graphs[g].triples),
           NEW h \in Indices(graphs), NEW j \in Indices(graphs[h].triples),
           QuadAt(g, i) = QuadAt(h, j)
    PROVE  g = h /\ i = j
<1>1. graphs[g].name = graphs[h].name /\ graphs[g].triples[i] = graphs[h].triples[j]
  BY DEF QuadAt
<1>2. g = h
  BY <1>1 DEF Stored, OneEntry
<1> QED
  BY <1>1, <1>2 DEF Stored, NoTripleTwice

\* What is at a place is a quad of the dataset.
LEMMA PlacesHoldQuads ==
    ASSUME Stored, NEW g \in Indices(graphs), NEW i \in Indices(graphs[g].triples)
    PROVE  QuadAt(g, i) \in quads
<1>1. QuadAt(g, i) \in Names \X Triples
  BY QuadsAreTyped DEF Stored
<1> QED
  BY <1>1 DEF Stored, Holds

\* Going on from one position to a later one, with nothing of S between them, leaves
\* the members of S that are behind.
LEMMA GoesOn ==
    ASSUME Stored, NEW S, NEW g \in Nat, NEW i \in Nat, NEW k \in Nat, NEW l \in Nat,
           g < k \/ (g = k /\ i <= l),
           \A h \in Indices(graphs) : \A j \in Indices(graphs[h].triples) :
               Before(h, j, k, l) /\ ~Before(h, j, g, i) => QuadAt(h, j) \notin S
    PROVE  Behind(k, l) \cap S = Behind(g, i) \cap S
<1>1. \A h \in Indices(graphs) : \A j \in Indices(graphs[h].triples) : h \in Int /\ j \in Int
  BY DEF Indices
<1>2. ASSUME NEW q \in Behind(k, l), q \in S PROVE q \in Behind(g, i)
  <2>1. PICK h \in Indices(graphs) : \E j \in Indices(graphs[h].triples) :
            q = QuadAt(h, j) /\ Before(h, j, k, l)
    BY DEF Behind, Before
  <2>2. PICK j \in Indices(graphs[h].triples) : q = QuadAt(h, j) /\ Before(h, j, k, l)
    BY <2>1
  <2>3. Before(h, j, g, i)
    BY <1>2, <2>2
  <2>4. q \in quads
    BY DEF Behind
  <2> QED
    BY <2>2, <2>3, <2>4 DEF Behind, Before
<1>3. ASSUME NEW q \in Behind(g, i) PROVE q \in Behind(k, l)
  <2>1. PICK h \in Indices(graphs) : \E j \in Indices(graphs[h].triples) :
            q = QuadAt(h, j) /\ Before(h, j, g, i)
    BY DEF Behind, Before
  <2>2. PICK j \in Indices(graphs[h].triples) : q = QuadAt(h, j) /\ Before(h, j, g, i)
    BY <2>1
  <2>3. Before(h, j, k, l)
    BY <1>1, <2>2 DEF Before
  <2>4. q \in quads
    BY DEF Behind
  <2> QED
    BY <2>2, <2>3, <2>4 DEF Behind, Before
<1> QED
  BY <1>2, <1>3

\* A step over a triple leaves one quad more behind, which was not behind before.
LEMMA OneMoreBehind ==
    ASSUME Stored, NEW g \in Indices(graphs), NEW i \in Indices(graphs[g].triples)
    PROVE  /\ QuadAt(g, i) \in quads /\ QuadAt(g, i) \notin Behind(g, i)
           /\ Behind(g, i + 1) = Behind(g, i) \union {QuadAt(g, i)}
<1>1. QuadAt(g, i) \in quads
  BY PlacesHoldQuads
<1>2. \A h \in Indices(graphs) : \A j \in Indices(graphs[h].triples) : h \in Int /\ j \in Int
  BY DEF Indices
<1>3. QuadAt(g, i) \notin Behind(g, i)
  <2> SUFFICES ASSUME QuadAt(g, i) \in Behind(g, i) PROVE FALSE
    OBVIOUS
  <2>1. PICK h \in Indices(graphs) : \E j \in Indices(graphs[h].triples) :
            QuadAt(g, i) = QuadAt(h, j) /\ Before(h, j, g, i)
    BY DEF Behind, Before
  <2>2. PICK j \in Indices(graphs[h].triples) :
            QuadAt(g, i) = QuadAt(h, j) /\ Before(h, j, g, i)
    BY <2>1
  <2>3. g = h /\ i = j
    BY <2>2, OnePlace
  <2> QED
    BY <1>2, <2>2, <2>3 DEF Before
<1>4. ASSUME NEW q PROVE q \in Behind(g, i + 1) <=> q \in Behind(g, i) \union {QuadAt(g, i)}
  <2>1. ASSUME q \in Behind(g, i + 1) PROVE q \in Behind(g, i) \/ q = QuadAt(g, i)
    <3>1. PICK h \in Indices(graphs) : \E j \in Indices(graphs[h].triples) :
              q = QuadAt(h, j) /\ Before(h, j, g, i + 1)
      BY <2>1 DEF Behind, Before
    <3>2. PICK j \in Indices(graphs[h].triples) : q = QuadAt(h, j) /\ Before(h, j, g, i + 1)
      BY <3>1
    <3>3. Before(h, j, g, i) \/ (h = g /\ j = i)
      BY <1>2, <3>2 DEF Before
    <3>4. q \in quads
      BY <2>1 DEF Behind
    <3> QED
      BY <3>2, <3>3, <3>4 DEF Behind, Before
  <2>2. ASSUME q \in Behind(g, i) PROVE q \in Behind(g, i + 1)
    <3>1. PICK h \in Indices(graphs) : \E j \in Indices(graphs[h].triples) :
              q = QuadAt(h, j) /\ Before(h, j, g, i)
      BY <2>2 DEF Behind, Before
    <3>2. PICK j \in Indices(graphs[h].triples) : q = QuadAt(h, j) /\ Before(h, j, g, i)
      BY <3>1
    <3>3. Before(h, j, g, i + 1)
      BY <1>2, <3>2 DEF Before
    <3>4. q \in quads
      BY <2>2 DEF Behind
    <3> QED
      BY <3>2, <3>3, <3>4 DEF Behind, Before
  <2>3. QuadAt(g, i) \in Behind(g, i + 1)
    <3>1. Before(g, i, g, i + 1)
      BY <1>2 DEF Before
    <3> QED
      BY <1>1, <3>1 DEF Behind, Before
  <2> QED
    BY <2>1, <2>2, <2>3
<1> QED
  BY <1>1, <1>3, <1>4

\* Nothing is behind the first position, and everything behind the last graph.
LEMMA BehindTheEnds ==
    ASSUME Stored, NEW g \in Nat, g > Len(graphs), NEW i
    PROVE  Behind(1, 1) = {} /\ Behind(g, i) = quads
<1>1. \A h \in Indices(graphs) : \A j \in Indices(graphs[h].triples) :
          h \in Int /\ h >= 1 /\ j \in Int /\ j >= 1
  BY DEF Indices
<1>2. Len(graphs) \in Nat
  BY DEF Stored
<1>3. \A h \in Indices(graphs) : h < g
  BY <1>1, <1>2 DEF Indices
<1>4. \A q \in quads : Holds(q)
  BY DEF Stored
<1>5. Behind(1, 1) = {}
  BY <1>1 DEF Behind
<1>6. \A q \in quads : q \in Behind(g, i)
  BY <1>3, <1>4 DEF Behind, Holds
<1> QED
  BY <1>5, <1>6 DEF Behind

\* A reader writes nothing, so that the dataset is what it was.
LEMMA ReadersWriteNothing ==
    ASSUME Stored, UNCHANGED <<graphs, quads>>,
           NEW g, NEW i, giter' = g, iter' = i
    PROVE  Stored' /\ Behind(giter, iter)' = Behind(g, i)
<1>1. OneEntry' /\ NoTripleTwice'
  BY DEF Stored, OneEntry, NoTripleTwice, Indices
<1>2. ASSUME NEW q PROVE Holds(q)' <=> Holds(q)
  BY DEF Holds, QuadAt, Indices
<1>3. Stored'
  BY <1>1, <1>2 DEF Stored
<1>4. Behind(giter, iter)' = Behind(g, i)
  BY DEF Behind, QuadAt, Indices
<1> QED
  BY <1>3, <1>4

-----------------------------------------------------------------------------
(***************************************************************************)
(* The walk over all quads.                                                 *)
(***************************************************************************)

\* To the beginning of the next graph with a triple, from the end of a graph.
LEMMA OverEmptyGraphs ==
    ASSUME Stored, NEW g \in 1 .. Len(graphs) + 1, NEW h \in Nat, NEW i \in Nat,
           \/ h = 1 /\ i = 1 /\ g = 1
           \/ h \in Indices(graphs) /\ g = h + 1 /\ i = Len(graphs[h].triples) + 1
    PROVE  /\ SkipEmpty(g) \in 1 .. Len(graphs) + 1
           /\ SkipEmpty(g) <= Len(graphs) => 1 \in Indices(graphs[SkipEmpty(g)].triples)
           /\ Behind(SkipEmpty(g), 1) = Behind(h, i)
<1>1. graphs \in Seq(GraphType) /\ Len(graphs) \in Nat
  BY DEF Stored
<1>2. PICK k \in g .. Len(graphs) + 1 :
          /\ k = SkipEmpty(g)
          /\ k <= Len(graphs) => graphs[k].triples # <<>>
          /\ \A j \in g .. k - 1 : graphs[j].triples = <<>>
  BY <1>1, SkipsEmpty
<1>3. k \in Nat /\ k \in 1 .. Len(graphs) + 1
  BY <1>1
<1>4. k <= Len(graphs) => 1 \in Indices(graphs[k].triples)
  <2> SUFFICES ASSUME k <= Len(graphs) PROVE 1 \in Indices(graphs[k].triples)
    OBVIOUS
  <2>1. k \in Indices(graphs)
    BY <1>1, <1>3 DEF Indices
  <2>2. graphs[k].triples \in Seq(Triples)
    BY <1>1, <2>1, GraphsAreTyped
  <2> QED
    BY <1>2, <2>2, EmptySeq DEF Indices
<1>5. Behind(k, 1) \cap quads = Behind(h, i) \cap quads
  <2>1. h < k \/ (h = k /\ i <= 1)
    BY <1>1, <1>2 DEF Indices
  <2>2. ASSUME NEW a \in Indices(graphs), NEW b \in Indices(graphs[a].triples),
               Before(a, b, k, 1), ~Before(a, b, h, i)
        PROVE  FALSE
    <3>1. a \in Int /\ b \in Int /\ a >= 1 /\ b >= 1 /\ b <= Len(graphs[a].triples)
      BY DEF Indices
    <3>2. a < k
      BY <2>2, <3>1 DEF Before
    <3>3. a >= g
      BY <2>2, <3>1 DEF Before, Indices
    <3>4. graphs[a].triples = <<>>
      BY <1>2, <1>3, <3>1, <3>2, <3>3
    <3> QED
      BY <3>1, <3>4
  <2> QED
    BY <1>3, <2>1, <2>2, GoesOn
<1> QED
  BY <1>2, <1>3, <1>4, <1>5 DEF Behind

\* A walk begins at the first triple, with nothing behind it.
LEMMA BeginQuadsStep ==
    ASSUME Stored, BeginQuads
    PROVE  IInv'
<1>1. Len(graphs) \in Nat /\ 1 \in 1 .. Len(graphs) + 1
  BY DEF Stored
<1>2. PICK k \in 1 .. Len(graphs) + 1 :
          /\ k = SkipEmpty(1)
          /\ k <= Len(graphs) => 1 \in Indices(graphs[k].triples)
          /\ Behind(k, 1) = Behind(1, 1)
  BY <1>1, OverEmptyGraphs
<1>3. Behind(k, 1) = {}
  BY <1>1, <1>2, BehindTheEnds
<1>4. giter' = k /\ iter' = 1 /\ yielded' = <<>> /\ reader' = "quads"
      /\ UNCHANGED <<graphs, quads>>
  BY <1>2 DEF BeginQuads
<1>5. Stored' /\ Behind(giter, iter)' = Behind(k, 1)
  BY <1>4, ReadersWriteNothing
<1>6. <<>> \in Seq(quads) /\ IsInjective(<<>>) /\ ToSet(<<>>) = {}
  BY DEF IsInjective, ToSet
<1>7. WalkInv'
  BY <1>2, <1>3, <1>4, <1>5, <1>6 DEF WalkInv, Indices
<1>8. IdleInv' /\ MatchInv'
  BY <1>4 DEF IdleInv, MatchInv
<1> QED
  BY <1>5, <1>7, <1>8 DEF IInv

\* Appending an element that is not there.
LEMMA AppendNew ==
    ASSUME NEW S, NEW s \in Seq(S), NEW e \in S
    PROVE  /\ Append(s, e) \in Seq(S) /\ Len(Append(s, e)) = Len(s) + 1
           /\ ToSet(Append(s, e)) = ToSet(s) \union {e}
           /\ IsInjective(s) /\ e \notin ToSet(s) => IsInjective(Append(s, e))
<1>1. /\ Append(s, e) \in Seq(S) /\ Len(Append(s, e)) = Len(s) + 1 /\ Len(s) \in Nat
      /\ \A i \in 1 .. Len(s) : Append(s, e)[i] = s[i]
      /\ Append(s, e)[Len(s) + 1] = e
      /\ DOMAIN s = 1 .. Len(s) /\ DOMAIN Append(s, e) = 1 .. Len(s) + 1
  OBVIOUS
<1>2. \A x : x \in ToSet(Append(s, e)) <=> x \in ToSet(s) \union {e}
  BY <1>1 DEF ToSet
<1>3. ASSUME IsInjective(s), e \notin ToSet(s) PROVE IsInjective(Append(s, e))
  BY <1>1, <1>3 DEF IsInjective, ToSet
<1> QED
  BY <1>1, <1>2, <1>3

\* A step of a walk yields the quad that comes to lie behind the iterator.
LEMMA NextQuadStep ==
    ASSUME Stored, WalkInv, NextQuad
    PROVE  IInv'
<1>1. /\ reader = "quads" /\ reader' = "quads" /\ UNCHANGED <<graphs, quads>>
      /\ yielded' = Append(yielded, QuadAt(giter, iter))
  BY DEF NextQuad
<1>2. /\ giter \in Indices(graphs) /\ iter \in Indices(graphs[giter].triples)
      /\ yielded \in Seq(quads) /\ IsInjective(yielded)
      /\ ToSet(yielded) = Behind(giter, iter)
  BY <1>1 DEF WalkInv, NextQuad, Indices, Stored
<1>3. PICK g \in Indices(graphs) : g = giter
  BY <1>2
<1>4. PICK i \in Indices(graphs[g].triples) : i = iter
  BY <1>2, <1>3
<1>5. /\ graphs[g].triples \in Seq(Triples) /\ Len(graphs[g].triples) \in Nat
      /\ Len(graphs) \in Nat /\ g \in Nat /\ i \in Nat
  BY GraphsAreTyped DEF Stored
<1>6. /\ yielded' \in Seq(quads) /\ IsInjective(yielded')
      /\ ToSet(yielded') = Behind(g, i + 1)
  <2>1. /\ QuadAt(g, i) \in quads /\ QuadAt(g, i) \notin Behind(g, i)
        /\ Behind(g, i + 1) = Behind(g, i) \union {QuadAt(g, i)}
    BY OneMoreBehind
  <2>2. yielded' = Append(yielded, QuadAt(g, i)) /\ ToSet(yielded) = Behind(g, i)
    BY <1>1, <1>2, <1>3, <1>4
  <2>3. yielded' \in Seq(quads)
    BY <1>2, <2>1, <2>2, AppendNew
  <2>4. ToSet(yielded') = ToSet(yielded) \union {QuadAt(g, i)}
    BY <1>2, <2>1, <2>2, AppendNew
  <2>5. IsInjective(yielded')
    BY <1>2, <2>1, <2>2, AppendNew
  <2> QED
    BY <2>1, <2>2, <2>3, <2>4, <2>5
<1>7. \E k \in 1 .. Len(graphs) + 1, l \in Nat :
          /\ giter' = k /\ iter' = l
          /\ k <= Len(graphs) => l \in Indices(graphs[k].triples)
          /\ Behind(k, l) = Behind(g, i + 1)
  <2>1. CASE iter < Len(graphs[giter].triples)
    <3>1. giter' = g /\ iter' = i + 1 /\ i + 1 \in Indices(graphs[g].triples)
      BY <1>3, <1>4, <1>5, <2>1 DEF NextQuad, Indices
    <3> QED
      BY <1>5, <3>1 DEF Indices
  <2>2. CASE ~(iter < Len(graphs[giter].triples))
    <3>1. giter' = SkipEmpty(g + 1) /\ iter' = 1 /\ i + 1 = Len(graphs[g].triples) + 1
      BY <1>3, <1>4, <1>5, <2>2 DEF NextQuad, Indices
    <3>2. g + 1 \in 1 .. Len(graphs) + 1 /\ i + 1 \in Nat
      BY <1>5 DEF Indices
    <3> QED
      BY <1>5, <3>1, <3>2, OverEmptyGraphs
  <2> QED
    BY <2>1, <2>2
<1>8. PICK k \in 1 .. Len(graphs) + 1, l \in Nat :
          /\ giter' = k /\ iter' = l
          /\ k <= Len(graphs) => l \in Indices(graphs[k].triples)
          /\ Behind(k, l) = Behind(g, i + 1)
  BY <1>7
<1>9. Stored' /\ Behind(giter, iter)' = Behind(k, l)
  BY <1>1, <1>8, ReadersWriteNothing
<1>10. WalkInv'
  BY <1>1, <1>6, <1>8, <1>9 DEF WalkInv, Indices
<1>11. IdleInv' /\ MatchInv'
  BY <1>1 DEF IdleInv, MatchInv
<1> QED
  BY <1>9, <1>10, <1>11 DEF IInv

-----------------------------------------------------------------------------
(***************************************************************************)
(* The match of a pattern.                                                  *)
(***************************************************************************)

\* The nodes of a quad.
LEMMA FourNodes ==
    ASSUME NEW U, NEW e \in U, NEW a \in U, NEW b \in U, NEW c \in U
    PROVE  /\ (<<e>> \o <<a, b, c>>)[1] = e /\ (<<e>> \o <<a, b, c>>)[2] = a
           /\ (<<e>> \o <<a, b, c>>)[3] = b /\ (<<e>> \o <<a, b, c>>)[4] = c
  OBVIOUS

\* A pattern stands for a quad when its graph is a variable or the graph there, and
\* the triple there matches.
LEMMA MeantAt ==
    ASSUME Stored, NEW pat \in Patterns,
           NEW g \in Indices(graphs), NEW i \in Indices(graphs[g].triples)
    PROVE  QuadAt(g, i) \in Meant(pat) <=>
               /\ IsVariable(pat[1]) \/ pat[1] = graphs[g].name
               /\ Matches(WithoutGraph(pat), graphs[g].triples[i])
<1> DEFINE Terms == Nodes \union Variables
<1>1. PICK n \in Names, t \in Triples : n = graphs[g].name /\ t = graphs[g].triples[i]
  BY QuadsAreTyped DEF Stored
<1>2. PICK s \in Nodes, p \in Nodes, o \in Nodes : t = <<s, p, o>>
  BY StatementsAssumption
<1>3. PICK a \in Terms, b \in Terms, c \in Terms, d \in Terms : pat = <<a, b, c, d>>
  BY StatementsAssumption
<1>4. QuadAt(g, i) \in quads /\ QuadAt(g, i) = <<n, t>>
  BY <1>1, PlacesHoldQuads DEF QuadAt
<1> DEFINE four == <<n>> \o t
<1>5. four[1] = n /\ four[2] = s /\ four[3] = p /\ four[4] = o
  <2>1. {n, s, p, o} \subseteq Nodes \union Names
    OBVIOUS
  <2> QED
    BY <1>2, <2>1, FourNodes
<1>6. WithoutGraph(pat) = <<b, c, d>>
  BY <1>3 DEF WithoutGraph
<1>7. QuadAt(g, i) \in Meant(pat) <=>
          \A k \in 1 .. 4 : IsVariable(<<a, b, c, d>>[k]) \/ <<a, b, c, d>>[k] = four[k]
  <2>1. QuadAt(g, i)[1] = n /\ QuadAt(g, i)[2] = t
    BY <1>4
  <2> QED
    BY <1>3, <1>4, <2>1 DEF Meant
<1>8. Matches(WithoutGraph(pat), t) <=>
          \A k \in 1 .. 3 : IsVariable(<<b, c, d>>[k]) \/ <<b, c, d>>[k] = <<s, p, o>>[k]
  BY <1>2, <1>6 DEF Matches
<1>9. QuadAt(g, i) \in Meant(pat) <=>
          /\ IsVariable(a) \/ a = n
          /\ IsVariable(b) \/ b = s
          /\ IsVariable(c) \/ c = p
          /\ IsVariable(d) \/ d = o
  <2> HIDE DEF four
  <2> QED
    BY <1>5, <1>7
<1>10. Matches(WithoutGraph(pat), t) <=>
          /\ IsVariable(b) \/ b = s
          /\ IsVariable(c) \/ c = p
          /\ IsVariable(d) \/ d = o
  BY <1>8
<1> QED
  BY <1>1, <1>3, <1>9, <1>10

\* The triples that forward_to_solution() goes over are not meant.
LEMMA ForwardMissesNothing ==
    ASSUME Stored, NEW pat \in Patterns, NEW g \in Indices(graphs),
           NEW i \in 1 .. Len(graphs[g].triples) + 1
    PROVE  /\ Forward(g, WithoutGraph(pat), i) \in 1 .. Len(graphs[g].triples) + 1
           /\ Forward(g, WithoutGraph(pat), i) <= Len(graphs[g].triples) =>
                  Matches(WithoutGraph(pat),
                          graphs[g].triples[Forward(g, WithoutGraph(pat), i)])
           /\ \A j \in i .. Forward(g, WithoutGraph(pat), i) - 1 :
                  j \in Indices(graphs[g].triples) /\ QuadAt(g, j) \notin Meant(pat)
           /\ SeenOf(pat, g, Forward(g, WithoutGraph(pat), i)) = SeenOf(pat, g, i)
<1>1. /\ graphs \in Seq(GraphType) /\ Len(graphs[g].triples) \in Nat /\ g \in Nat
      /\ \A j \in Indices(graphs[g].triples) : j \in Nat
  BY GraphsAreTyped DEF Stored
<1>2. PICK k \in i .. Len(graphs[g].triples) + 1 :
          /\ k = Forward(g, WithoutGraph(pat), i)
          /\ k <= Len(graphs[g].triples) => Matches(WithoutGraph(pat), graphs[g].triples[k])
          /\ \A j \in i .. k - 1 : ~Matches(WithoutGraph(pat), graphs[g].triples[j])
  BY <1>1, Forwards
<1>3. k \in Nat /\ k \in 1 .. Len(graphs[g].triples) + 1
  BY <1>1
<1>4. \A j \in i .. k - 1 : j \in Indices(graphs[g].triples)
  BY <1>1 DEF Indices
<1>5. \A j \in i .. k - 1 : QuadAt(g, j) \notin Meant(pat)
  BY <1>2, <1>4, MeantAt
<1>6. Behind(g, k) \cap Meant(pat) = Behind(g, i) \cap Meant(pat)
  <2>1. ASSUME NEW a \in Indices(graphs), NEW b \in Indices(graphs[a].triples),
               Before(a, b, g, k), ~Before(a, b, g, i)
        PROVE  QuadAt(a, b) \notin Meant(pat)
    <3>1. a \in Int /\ b \in Int
      BY DEF Indices
    <3>2. a = g /\ b \in i .. k - 1
      BY <1>1, <1>3, <2>1, <3>1 DEF Before
    <3> QED
      BY <1>5, <3>2
  <2>2. i \in Nat /\ i <= k
    BY <1>1
  <2> QED
    BY <1>1, <1>3, <2>1, <2>2, GoesOn
<1> QED
  BY <1>2, <1>3, <1>4, <1>5, <1>6 DEF SeenOf

\* The graph where a match begins; nothing that is meant lies before it.
FirstGraph(pat) == IF IsVariable(pat[1]) THEN 1 ELSE FindGraph(pat[1])

LEMMA NothingSeen ==
    ASSUME Stored, NEW pat \in Patterns
    PROVE  FirstGraph(pat) \in 1 .. Len(graphs) + 1 /\ SeenOf(pat, FirstGraph(pat), 1) = {}
<1>1. graphs \in Seq(GraphType) /\ Len(graphs) \in Nat
  BY DEF Stored
<1>2. PICK f \in 1 .. Len(graphs) + 1 : f = FirstGraph(pat)
  BY <1>1, FindGraphFinds DEF FirstGraph
<1>3. Behind(1, 1) = {}
  BY <1>1, BehindTheEnds
<1>4. Behind(f, 1) \cap Meant(pat) = Behind(1, 1) \cap Meant(pat)
  <2>1. ASSUME NEW a \in Indices(graphs), NEW b \in Indices(graphs[a].triples),
               Before(a, b, f, 1), ~Before(a, b, 1, 1)
        PROVE  QuadAt(a, b) \notin Meant(pat)
    <3>1. a \in Int /\ b \in Int /\ a >= 1 /\ b >= 1 /\ a <= Len(graphs)
      BY DEF Indices
    <3>2. a < f
      BY <2>1, <3>1 DEF Before
    <3>3. ~IsVariable(pat[1]) /\ f = FindGraph(pat[1])
      BY <1>2, <3>1, <3>2 DEF FirstGraph
    <3>4. graphs[a].name # pat[1]
      <4>1. CASE Found(f)
        BY <1>1, <3>1, <3>2, <3>3, <4>1, FindGraphFinds DEF Stored, OneEntry
      <4>2. CASE ~Found(f)
        BY <1>1, <3>3, <4>2, FindGraphFinds
      <4> QED
        BY <4>1, <4>2
    <3> QED
      BY <3>3, <3>4, MeantAt
  <2> QED
    BY <1>1, <2>1, GoesOn
<1> QED
  BY <1>2, <1>3, <1>4 DEF SeenOf

\* advance_until_result() leaves a place that is a solution, and goes from the end of a
\* graph over graphs where nothing is meant, if the graph is a variable.
LEMMA Settles ==
    ASSUME Stored, NEW pat \in Patterns, NEW g \in Indices(graphs),
           NEW i \in 1 .. Len(graphs[g].triples) + 1,
           i <= Len(graphs[g].triples) => Matches(WithoutGraph(pat), graphs[g].triples[i]),
           IsVariable(pat[1]) \/ g = FindGraph(pat[1]),
           Settle(g, i, pat)
    PROVE  \E k \in 1 .. Len(graphs) + 1, l \in Nat :
               /\ giter' = k /\ iter' = l
               /\ AtSolution(k, l, pat) /\ SeenOf(pat, k, l) = SeenOf(pat, g, i)
<1> DEFINE tpat == WithoutGraph(pat)
           to == Advance(g, i, tpat)
<1>1. /\ graphs \in Seq(GraphType) /\ Len(graphs[g].triples) \in Nat /\ g \in Nat
      /\ Len(graphs) \in Nat /\ i \in Nat
  BY GraphsAreTyped DEF Stored
<1>2. AtSentinel(g, i) <=> i > Len(graphs[g].triples)
  BY <1>1 DEF AtSentinel, Indices
<1>3. CASE IsVariable(pat[1]) /\ to # g
  <2>1. AtSentinel(g, i)
    BY <1>3 DEF Advance
  <2>2. PICK k \in g + 1 .. Len(graphs) + 1 :
            /\ k = to
            /\ k <= Len(graphs) => ~AtSentinel(k, FirstIn(k, tpat))
            /\ \A j \in g + 1 .. k - 1 : AtSentinel(j, FirstIn(j, tpat))
    BY <1>1, <2>1, Advances
  <2>3. k \in Nat /\ k \in 1 .. Len(graphs) + 1
    BY <1>1
  <2>4. \A j \in g + 1 .. k - 1 :
            /\ j \in Indices(graphs)
            /\ \A b \in Indices(graphs[j].triples) : QuadAt(j, b) \notin Meant(pat)
    <3> TAKE j \in g + 1 .. k - 1
    <3>1. j \in Indices(graphs) /\ j <= Len(graphs)
      BY <1>1, <2>3 DEF Indices
    <3>2. Forward(j, tpat, 1) > Len(graphs[j].triples)
      BY <1>1, <2>2, <3>1 DEF AtSentinel, FirstIn
    <3>3. Len(graphs[j].triples) \in Nat /\ 1 \in 1 .. Len(graphs[j].triples) + 1
      BY <1>1, <3>1, GraphsAreTyped
    <3>4. /\ Forward(j, tpat, 1) \in 1 .. Len(graphs[j].triples) + 1
          /\ \A b \in 1 .. Forward(j, tpat, 1) - 1 : QuadAt(j, b) \notin Meant(pat)
      BY <3>1, <3>3, ForwardMissesNothing
    <3>5. Forward(j, tpat, 1) = Len(graphs[j].triples) + 1
      BY <3>2, <3>3, <3>4
    <3> QED
      BY <3>1, <3>3, <3>4, <3>5 DEF Indices
  <2>5. PICK l \in Nat :
            /\ l = FirstIn(k, tpat) /\ l >= 1
            /\ k <= Len(graphs) =>
                   /\ l \in Indices(graphs[k].triples)
                   /\ Matches(tpat, graphs[k].triples[l])
                   /\ \A b \in 1 .. l - 1 : QuadAt(k, b) \notin Meant(pat)
    <3>1. CASE k > Len(graphs)
      BY <1>1, <2>3, <3>1 DEF FirstIn
    <3>2. CASE k <= Len(graphs)
      <4>1. k \in Indices(graphs)
        BY <2>3, <3>2 DEF Indices
      <4>2. Len(graphs[k].triples) \in Nat /\ 1 \in 1 .. Len(graphs[k].triples) + 1
        BY <1>1, <4>1, GraphsAreTyped
      <4>3. PICK l \in 1 .. Len(graphs[k].triples) + 1 :
                /\ l = Forward(k, tpat, 1)
                /\ l <= Len(graphs[k].triples) => Matches(tpat, graphs[k].triples[l])
                /\ \A b \in 1 .. l - 1 : QuadAt(k, b) \notin Meant(pat)
        BY <4>1, <4>2, ForwardMissesNothing
      <4>4. l = FirstIn(k, tpat) /\ l \in Nat
        BY <1>1, <2>3, <3>2, <4>2, <4>3 DEF FirstIn
      <4>5. l <= Len(graphs[k].triples)
        BY <2>2, <3>2, <4>2, <4>3, <4>4 DEF AtSentinel
      <4> QED
        BY <3>2, <4>2, <4>3, <4>4, <4>5 DEF Indices
    <3> QED
      BY <1>1, <2>3, <3>1, <3>2
  <2>6. giter' = k /\ iter' = l
    BY <1>3, <2>2, <2>5 DEF Settle
  <2>7. AtSolution(k, l, pat)
    <3>1. k <= Len(graphs) =>
              /\ l \in 1 .. Len(graphs[k].triples) + 1
              /\ ~AtSentinel(k, l)
      <4> SUFFICES ASSUME k <= Len(graphs)
                   PROVE  l \in 1 .. Len(graphs[k].triples) + 1 /\ ~AtSentinel(k, l)
        OBVIOUS
      <4>1. k \in Indices(graphs)
        BY <2>3 DEF Indices
      <4>2. Len(graphs[k].triples) \in Nat
        BY <1>1, <4>1, GraphsAreTyped
      <4> QED
        BY <2>2, <2>5, <4>2 DEF Indices
    <3> QED
      BY <1>1, <1>3, <2>3, <2>5, <3>1 DEF AtSolution
  <2>8. Behind(k, l) \cap Meant(pat) = Behind(g, i) \cap Meant(pat)
    <3>1. ASSUME NEW a \in Indices(graphs), NEW b \in Indices(graphs[a].triples),
                 Before(a, b, k, l), ~Before(a, b, g, i)
          PROVE  QuadAt(a, b) \notin Meant(pat)
      <4>1. a \in Int /\ b \in Int /\ 1 <= a /\ a <= Len(graphs)
            /\ 1 <= b /\ b <= Len(graphs[a].triples)
        BY DEF Indices
      <4>2. a # g
        BY <1>1, <1>2, <2>1, <3>1, <4>1 DEF Before
      <4>3. CASE a < k
        <5>1. a \in g + 1 .. k - 1
          BY <1>1, <2>3, <3>1, <4>1, <4>2, <4>3 DEF Before
        <5> QED
          BY <2>4, <5>1
      <4>4. CASE a >= k
        <5>1. a = k /\ b < l
          BY <2>3, <3>1, <4>1, <4>4 DEF Before
        <5>2. b \in 1 .. l - 1
          BY <2>5, <4>1, <5>1
        <5> QED
          BY <2>5, <4>1, <5>1, <5>2
      <4> QED
        BY <2>3, <4>1, <4>3, <4>4
    <3>2. g < k
      BY <1>1, <2>2
    <3> QED
      BY <1>1, <2>3, <3>1, <3>2, GoesOn
  <2> QED
    BY <2>3, <2>6, <2>7, <2>8 DEF SeenOf
<1>4. CASE ~(IsVariable(pat[1]) /\ to # g)
  <2>1. giter' = g /\ iter' = i
    BY <1>4 DEF Settle
  <2>2. IsVariable(pat[1]) => ~AtSentinel(g, i)
    <3> SUFFICES ASSUME IsVariable(pat[1]), AtSentinel(g, i) PROVE FALSE
      OBVIOUS
    <3>1. to \in g + 1 .. Len(graphs) + 1
      BY <1>1, Advances
    <3> QED
      BY <1>1, <1>4, <3>1
  <2>3. g \in 1 .. Len(graphs) + 1
    BY <1>1 DEF Indices
  <2>4. AtSolution(g, i, pat)
    BY <1>1, <2>2, <2>3 DEF AtSolution
  <2> QED
    BY <1>1, <2>1, <2>3, <2>4
<1> QED
  BY <1>3, <1>4

\* The invariant of a match, after a step of its iterator to (k, l).
LEMMA MatchGoesOn ==
    ASSUME Stored, UNCHANGED <<graphs, quads>>, reader' = "solutions",
           NEW pat \in Patterns, pattern' = pat,
           NEW k \in 1 .. Len(graphs) + 1, NEW l \in Nat, giter' = k, iter' = l,
           AtSolution(k, l, pat),
           yielded' \in Seq({Solution(pat, q) : q \in quads}),
           Len(yielded') = Cardinality(SeenOf(pat, k, l)),
           ToSet(yielded') = {Solution(pat, q) : q \in SeenOf(pat, k, l)}
    PROVE  IInv'
<1>1. Stored' /\ Behind(giter, iter)' = Behind(k, l)
  BY ReadersWriteNothing
<1>2. SeenOf(pattern, giter, iter)' = SeenOf(pat, k, l)
  <2>1. Meant(pattern)' = Meant(pat)
    BY DEF Meant
  <2> QED
    BY <1>1, <2>1 DEF SeenOf
<1>3. AtSolution(giter, iter, pattern)'
  BY DEF AtSolution, AtSentinel, FindGraph, Indices
<1>4. MatchInv'
  BY <1>2, <1>3 DEF MatchInv
<1>5. IdleInv' /\ WalkInv'
  BY DEF IdleInv, WalkInv
<1> QED
  BY <1>1, <1>4, <1>5 DEF IInv

\* A match begins at its first solution, with none behind it.
LEMMA BeginSolutionsStep ==
    ASSUME Stored, NEW pat \in Patterns, BeginSolutions(pat)
    PROVE  IInv'
<1>1. /\ reader' = "solutions" /\ pattern' = pat /\ yielded' = <<>>
      /\ UNCHANGED <<graphs, quads>>
  BY DEF BeginSolutions
<1>2. graphs \in Seq(GraphType) /\ Len(graphs) \in Nat
  BY DEF Stored
<1>3. PICK g \in 1 .. Len(graphs) + 1 : g = FirstGraph(pat) /\ SeenOf(pat, g, 1) = {}
  BY NothingSeen
<1>4. IF Found(g) THEN Settle(g, FirstIn(g, WithoutGraph(pat)), pat)
      ELSE giter' = g /\ iter' = 1
  BY <1>3 DEF BeginSolutions, FirstGraph
<1>5. \E k \in 1 .. Len(graphs) + 1, l \in Nat :
          /\ giter' = k /\ iter' = l
          /\ AtSolution(k, l, pat) /\ SeenOf(pat, k, l) = {}
  <2>1. CASE Found(g)
    <3>1. g \in Indices(graphs) /\ ~(g > Len(graphs))
      BY <1>2, <2>1 DEF Found, Indices
    <3>2. Len(graphs[g].triples) \in Nat /\ 1 \in 1 .. Len(graphs[g].triples) + 1
      BY <1>2, <3>1, GraphsAreTyped
    <3>3. PICK i \in 1 .. Len(graphs[g].triples) + 1 :
              /\ i = Forward(g, WithoutGraph(pat), 1)
              /\ i <= Len(graphs[g].triples) =>
                     Matches(WithoutGraph(pat), graphs[g].triples[i])
              /\ SeenOf(pat, g, i) = SeenOf(pat, g, 1)
      BY <3>1, <3>2, ForwardMissesNothing
    <3>4. Settle(g, i, pat)
      BY <1>4, <2>1, <3>1, <3>3 DEF FirstIn
    <3>5. IsVariable(pat[1]) \/ g = FindGraph(pat[1])
      BY <1>3 DEF FirstGraph
    <3> QED
      BY <1>3, <3>1, <3>3, <3>4, <3>5, Settles
  <2>2. CASE ~Found(g)
    <3>1. giter' = g /\ iter' = 1 /\ g > Len(graphs)
      BY <1>2, <1>4, <2>2 DEF Found
    <3>2. AtSolution(g, 1, pat)
      BY <1>2, <1>3, <3>1 DEF AtSolution, FirstGraph
    <3> QED
      BY <1>3, <3>1, <3>2
  <2> QED
    BY <2>1, <2>2
<1>6. PICK k \in 1 .. Len(graphs) + 1, l \in Nat :
          /\ giter' = k /\ iter' = l
          /\ AtSolution(k, l, pat) /\ SeenOf(pat, k, l) = {}
  BY <1>5
<1>7. /\ yielded' \in Seq({Solution(pat, q) : q \in quads})
      /\ Len(yielded') = Cardinality(SeenOf(pat, k, l))
      /\ ToSet(yielded') = {Solution(pat, q) : q \in SeenOf(pat, k, l)}
  <2>1. ToSet(yielded') = {} /\ Len(yielded') = 0
    BY <1>1 DEF ToSet
  <2>2. yielded' \in Seq({Solution(pat, q) : q \in quads})
    BY <1>1, EmptySeq
  <2> QED
    BY <1>6, <2>1, <2>2, FS_EmptySet
<1> QED
  BY <1>1, <1>6, <1>7, MatchGoesOn

\* A step of a match yields the solution of the quad that comes to lie behind the iterator.
LEMMA NextSolutionStep ==
    ASSUME Stored, MatchInv, NextSolution
    PROVE  IInv'
<1>1. /\ reader' = "solutions" /\ pattern' = pattern /\ UNCHANGED <<graphs, quads>>
      /\ yielded' = Append(yielded, Solution(pattern, QuadAt(giter, iter)))
      /\ ~AtSentinel(giter, iter)
      /\ Settle(giter, Forward(giter, WithoutGraph(pattern), iter + 1), pattern)
  BY DEF NextSolution
<1>2. /\ pattern \in Patterns /\ AtSolution(giter, iter, pattern)
      /\ yielded \in Seq({Solution(pattern, q) : q \in quads})
      /\ Len(yielded) = Cardinality(SeenOf(pattern, giter, iter))
      /\ ToSet(yielded) = {Solution(pattern, q) : q \in SeenOf(pattern, giter, iter)}
  BY DEF MatchInv, NextSolution
<1>3. PICK pat \in Patterns : pat = pattern
  BY <1>2
<1>4. PICK g \in Indices(graphs) : g = giter
  BY <1>1, <1>2 DEF AtSolution, AtSentinel, Indices, Stored
<1>5. /\ graphs \in Seq(GraphType) /\ Len(graphs[g].triples) \in Nat /\ g \in Nat
      /\ Len(graphs) \in Nat
  BY GraphsAreTyped DEF Stored
<1>6. PICK i \in Indices(graphs[g].triples) : i = iter
  BY <1>1, <1>2, <1>4, <1>5 DEF AtSolution, AtSentinel, Indices
<1>7. i \in Nat /\ i <= Len(graphs[g].triples) /\ g <= Len(graphs)
  BY <1>5 DEF Indices
<1>8. IsVariable(pat[1]) \/ g = FindGraph(pat[1])
  BY <1>2, <1>3, <1>4 DEF AtSolution
<1>9. QuadAt(g, i) \in Meant(pat)
  <2>1. Matches(WithoutGraph(pat), graphs[g].triples[i])
    BY <1>2, <1>3, <1>4, <1>6, <1>7 DEF AtSolution
  <2>2. IsVariable(pat[1]) \/ pat[1] = graphs[g].name
    BY <1>5, <1>7, <1>8, FindGraphFinds DEF Found
  <2> QED
    BY <2>1, <2>2, MeantAt
<1>10. /\ SeenOf(pat, g, i + 1) = SeenOf(pat, g, i) \union {QuadAt(g, i)}
       /\ QuadAt(g, i) \notin SeenOf(pat, g, i) /\ QuadAt(g, i) \in quads
  BY <1>9, OneMoreBehind DEF SeenOf
<1>11. /\ yielded' \in Seq({Solution(pat, q) : q \in quads})
       /\ Len(yielded') = Cardinality(SeenOf(pat, g, i + 1))
       /\ ToSet(yielded') = {Solution(pat, q) : q \in SeenOf(pat, g, i + 1)}
  <2> DEFINE Solutions == {Solution(pat, q) : q \in quads}
             one == Solution(pat, QuadAt(g, i))
  <2>1. one \in Solutions /\ yielded \in Seq(Solutions)
    BY <1>2, <1>3, <1>10
  <2>2. yielded' = Append(yielded, one)
    BY <1>1, <1>3, <1>4, <1>6
  <2>3. IsFiniteSet(SeenOf(pat, g, i))
    <3>1. SeenOf(pat, g, i) \in SUBSET quads
      BY DEF SeenOf, Behind
    <3> QED
      BY <3>1, FS_Subset DEF Stored
  <2>4. Cardinality(SeenOf(pat, g, i + 1)) = Cardinality(SeenOf(pat, g, i)) + 1
    BY <1>10, <2>3, FS_AddElement
  <2>5. /\ Len(yielded) = Cardinality(SeenOf(pat, g, i))
        /\ ToSet(yielded) = {Solution(pat, q) : q \in SeenOf(pat, g, i)}
    BY <1>2, <1>3, <1>4, <1>6
  <2> HIDE DEF one, Solutions
  <2>6. yielded' \in Seq(Solutions) /\ Len(yielded') = Len(yielded) + 1
    BY <2>1, <2>2, AppendNew
  <2>7. ToSet(yielded') = ToSet(yielded) \union {one}
    BY <2>1, <2>2, AppendNew
  <2>8. ToSet(yielded') = {Solution(pat, q) : q \in SeenOf(pat, g, i + 1)}
    BY <1>10, <2>5, <2>7 DEF one
  <2> QED
    BY <2>4, <2>5, <2>6, <2>8 DEF Solutions
<1>12. \E k \in 1 .. Len(graphs) + 1, l \in Nat :
           /\ giter' = k /\ iter' = l
           /\ AtSolution(k, l, pat) /\ SeenOf(pat, k, l) = SeenOf(pat, g, i + 1)
  <2>1. i + 1 \in 1 .. Len(graphs[g].triples) + 1
    BY <1>5, <1>7
  <2>2. PICK j \in 1 .. Len(graphs[g].triples) + 1 :
            /\ j = Forward(g, WithoutGraph(pat), i + 1)
            /\ j <= Len(graphs[g].triples) => Matches(WithoutGraph(pat), graphs[g].triples[j])
            /\ SeenOf(pat, g, j) = SeenOf(pat, g, i + 1)
    BY <2>1, ForwardMissesNothing
  <2>3. Settle(g, j, pat)
    BY <1>1, <1>3, <1>4, <1>6, <2>2
  <2> QED
    BY <1>8, <2>2, <2>3, Settles
<1>13. PICK k \in 1 .. Len(graphs) + 1, l \in Nat :
           /\ giter' = k /\ iter' = l
           /\ AtSolution(k, l, pat) /\ SeenOf(pat, k, l) = SeenOf(pat, g, i + 1)
  BY <1>12
<1> QED
  BY <1>1, <1>3, <1>11, <1>13, MatchGoesOn

-----------------------------------------------------------------------------
(***************************************************************************)
(* The invariant.                                                          *)
(***************************************************************************)
LEMMA InitIInv == Init => IInv
<1> SUFFICES ASSUME Init PROVE IInv
  OBVIOUS
<1>1. graphs = <<>> /\ quads = {} /\ reader = "none" /\ giter = 0 /\ iter = 0
  BY DEF Init
<1>2. graphs \in Seq(GraphType) /\ Indices(graphs) = {}
  BY <1>1, EmptySeq DEF Indices
<1>3. Stored
  BY <1>1, <1>2, FS_EmptySet DEF Stored, OneEntry, NoTripleTwice, Holds
<1>4. IdleInv /\ WalkInv /\ MatchInv
  BY <1>1 DEF IdleInv, WalkInv, MatchInv
<1> QED
  BY <1>3, <1>4 DEF IInv

LEMMA StepIInv == IInv /\ [Next]_vars => IInv'
<1> SUFFICES ASSUME IInv, [Next]_vars PROVE IInv'
  OBVIOUS
<1>1. Stored /\ IdleInv /\ WalkInv /\ MatchInv
  BY DEF IInv
<1>2. ASSUME NEW name \in Names \union {Null}, NEW t \in Triples, Add(name, t) PROVE IInv'
  BY <1>1, <1>2, AddStep DEF IInv, IdleInv, WalkInv, MatchInv
<1>3. ASSUME NEW name \in Names, GraphRef(name) PROVE IInv'
  BY <1>1, <1>3, GraphRefStep DEF IInv, IdleInv, WalkInv, MatchInv
<1>4. CASE BeginQuads
  BY <1>1, <1>4, BeginQuadsStep
<1>5. CASE NextQuad
  BY <1>1, <1>5, NextQuadStep
<1>6. ASSUME NEW pat \in Patterns, BeginSolutions(pat) PROVE IInv'
  BY <1>1, <1>6, BeginSolutionsStep
<1>7. CASE NextSolution
  BY <1>1, <1>7, NextSolutionStep
<1>8. CASE Drop
  <2>1. reader' = "none" /\ giter' = 0 /\ iter' = 0 /\ UNCHANGED <<graphs, quads>>
    BY <1>8 DEF Drop
  <2>2. Stored'
    BY <1>1, <2>1, ReadersWriteNothing
  <2> QED
    BY <2>1, <2>2 DEF IInv, IdleInv, WalkInv, MatchInv
<1>9. CASE UNCHANGED vars
  <2>1. UNCHANGED <<graphs, quads, reader, pattern, giter, iter, yielded>>
    BY <1>9 DEF vars
  <2>2. PICK g, i : g = giter /\ i = iter
    OBVIOUS
  <2>3. Stored' /\ Behind(giter, iter)' = Behind(giter, iter)
    BY <1>1, <2>1, <2>2, ReadersWriteNothing
  <2>4. IdleInv' /\ WalkInv'
    BY <1>1, <2>1, <2>3 DEF IdleInv, WalkInv, Indices
  <2>5. SeenOf(pattern, giter, iter)' = SeenOf(pattern, giter, iter)
    BY <2>1, <2>3 DEF SeenOf, Meant
  <2>6. AtSolution(giter, iter, pattern)' <=> AtSolution(giter, iter, pattern)
    BY <2>1 DEF AtSolution, AtSentinel, FindGraph, Indices
  <2>7. MatchInv'
    BY <1>1, <2>1, <2>5, <2>6 DEF MatchInv
  <2> QED
    BY <2>3, <2>4, <2>7 DEF IInv
<1> QED
  BY <1>2, <1>3, <1>4, <1>5, <1>6, <1>7, <1>8, <1>9 DEF Next

LEMMA IInvHolds == Spec => []IInv
  BY InitIInv, StepIInv, PTL DEF Spec

-----------------------------------------------------------------------------
(***************************************************************************)
(* The size of a dataset.                                                   *)
(***************************************************************************)

\* The sum that std::accumulate() computes exists.
LEMMA SumsExist ==
    ASSUME NEW len, NEW n \in Nat
    PROVE  \E f : f = [k \in 0 .. n |-> IF k = 0 THEN 0 ELSE f[k - 1] + len[k]]
<1> DEFINE Sums(m) == \E f : f = [k \in 0 .. m |-> IF k = 0 THEN 0 ELSE f[k - 1] + len[k]]
           Bad == {m \in Nat : ~Sums(m)}
<1>1. Sums(0)
  <2>1. [k \in 0 .. 0 |-> 0] =
            [k \in 0 .. 0 |-> IF k = 0 THEN 0 ELSE [j \in 0 .. 0 |-> 0][k - 1] + len[k]]
    OBVIOUS
  <2> QED
    BY <2>1
<1>2. ASSUME NEW m \in Nat, Sums(m) PROVE Sums(m + 1)
  <2>1. PICK f : f = [k \in 0 .. m |-> IF k = 0 THEN 0 ELSE f[k - 1] + len[k]]
    BY <1>2
  <2> DEFINE h == [k \in 0 .. m + 1 |-> IF k <= m THEN f[k] ELSE f[m] + len[k]]
  <2>2. ASSUME NEW k \in 0 .. m + 1
        PROVE  h[k] = IF k = 0 THEN 0 ELSE h[k - 1] + len[k]
    <3>1. CASE k = 0
      BY <2>1, <3>1
    <3>2. CASE k # 0 /\ k <= m
      <4>1. k \in 0 .. m /\ k - 1 \in 0 .. m + 1 /\ k - 1 <= m
        BY <3>2
      <4>2. h[k] = f[k] /\ h[k - 1] = f[k - 1]
        BY <3>2, <4>1
      <4>3. f[k] = f[k - 1] + len[k]
        BY <2>1, <3>2, <4>1
      <4> QED
        BY <3>2, <4>2, <4>3
    <3>3. CASE k = m + 1
      <4>1. h[k] = f[m] + len[k] /\ h[k - 1] = f[m] /\ k # 0
        BY <3>3
      <4> QED
        BY <4>1
    <3> QED
      BY <3>1, <3>2, <3>3
  <2>3. h = [k \in 0 .. m + 1 |-> IF k = 0 THEN 0 ELSE h[k - 1] + len[k]]
    BY <2>2
  <2> HIDE DEF h
  <2> QED
    BY <2>3
<1> HIDE DEF Sums
<1>3. Bad = {}
  <2> SUFFICES ASSUME Bad # {} PROVE FALSE
    OBVIOUS
  <2>1. PICK m \in Bad : \A k \in Bad : m <= k
    BY LeastElement
  <2>2. m # 0 /\ m \in Nat
    BY <1>1, <2>1
  <2>3. m - 1 \in Nat /\ m - 1 \notin Bad /\ (m - 1) + 1 = m
    BY <2>1, <2>2
  <2> QED
    BY <1>2, <2>1, <2>3
<1> QED
  BY <1>3 DEF Sums

\* size() adds up the graphs one by one.
LEMMA AccumulateAdds ==
    ASSUME graphs \in Seq(GraphType)
    PROVE  \A n \in 0 .. Len(graphs) :
               Accumulate[n] = IF n = 0 THEN 0 ELSE Accumulate[n - 1] + Len(graphs[n].triples)
<1> DEFINE len == [k \in 1 .. Len(graphs) |-> Len(graphs[k].triples)]
           Sum(f) == [n \in 0 .. Len(graphs) |->
                         IF n = 0 THEN 0 ELSE f[n - 1] + Len(graphs[n].triples)]
<1>1. PICK f : f = [k \in 0 .. Len(graphs) |-> IF k = 0 THEN 0 ELSE f[k - 1] + len[k]]
  <2>1. Len(graphs) \in Nat
    OBVIOUS
  <2> HIDE DEF len
  <2> QED
    BY <2>1, SumsExist
<1>2. \A k \in 0 .. Len(graphs) : k # 0 => len[k] = Len(graphs[k].triples)
  OBVIOUS
<1>3. f = Sum(f)
  BY <1>1, <1>2
<1>4. Accumulate = CHOOSE g : g = Sum(g)
  BY DEF Accumulate
<1> HIDE DEF Sum
<1>5. Accumulate = Sum(Accumulate)
  BY <1>3, <1>4
<1> QED
  BY <1>5 DEF Sum

\* The quads of a graph, of which there are as many as triples.
InGraph(g) == {QuadAt(g, i) : i \in Indices(graphs[g].triples)}

LEMMA GraphSize ==
    ASSUME Stored, NEW g \in Indices(graphs)
    PROVE  IsFiniteSet(InGraph(g)) /\ Cardinality(InGraph(g)) = Len(graphs[g].triples)
<1> DEFINE n == Len(graphs[g].triples)
           f == [i \in 1 .. n |-> QuadAt(g, i)]
<1>1. n \in Nat
  BY GraphsAreTyped DEF Stored
<1>2. f \in Bijection(1 .. n, InGraph(g))
  <2>1. f \in Surjection(1 .. n, InGraph(g))
    BY DEF Surjection, InGraph, Indices
  <2>2. \A i, j \in 1 .. n : f[i] = f[j] => i = j
    BY OnePlace DEF Indices
  <2> QED
    BY <2>1, <2>2 DEF Bijection, Injection, Surjection, IsInjective
<1>3. ExistsBijection(1 .. n, InGraph(g))
  BY <1>2 DEF ExistsBijection
<1>4. IsFiniteSet(1 .. n) /\ Cardinality(1 .. n) = n
  BY <1>1, FS_Interval
<1> HIDE DEF n
<1>5. IsFiniteSet(InGraph(g)) /\ Cardinality(InGraph(g)) = n
  BY <1>3, <1>4, FS_Bijection
<1> QED
  BY <1>5 DEF n

\* size() is the number of quads.
LEMMA SizeCounts ==
    ASSUME Stored
    PROVE  Size = Cardinality(quads)
<1> DEFINE Bad == {n \in 0 .. Len(graphs) : Accumulate[n] # Cardinality(Behind(n + 1, 1))}
<1>1. graphs \in Seq(GraphType) /\ Len(graphs) \in Nat
  BY DEF Stored
<1>2. Accumulate[0] = Cardinality(Behind(0 + 1, 1))
  <2>1. Behind(0 + 1, 1) = {}
    <3>1. Len(graphs) + 1 \in Nat /\ Len(graphs) + 1 > Len(graphs) /\ 0 + 1 = 1
      BY <1>1
    <3> QED
      BY <3>1, BehindTheEnds
  <2>2. 0 \in 0 .. Len(graphs)
    BY <1>1
  <2>3. Accumulate[0] = 0
    BY <1>1, <2>2, AccumulateAdds
  <2> QED
    BY <2>1, <2>3, FS_EmptySet
<1>3. ASSUME NEW n \in 1 .. Len(graphs), Accumulate[n - 1] = Cardinality(Behind(n, 1))
      PROVE  Accumulate[n] = Cardinality(Behind(n + 1, 1))
  <2>1. n \in Indices(graphs) /\ n \in Nat
    BY DEF Indices
  <2>2. Behind(n + 1, 1) = Behind(n, 1) \union InGraph(n)
    <3>1. ASSUME NEW q \in Behind(n + 1, 1) PROVE q \in Behind(n, 1) \/ q \in InGraph(n)
      <4>1. PICK h \in Indices(graphs) : \E j \in Indices(graphs[h].triples) :
                q = QuadAt(h, j) /\ Before(h, j, n + 1, 1)
        BY DEF Behind, Before
      <4>2. PICK j \in Indices(graphs[h].triples) : q = QuadAt(h, j) /\ Before(h, j, n + 1, 1)
        BY <4>1
      <4>3. h < n \/ h = n
        BY <1>1, <2>1, <4>2 DEF Before, Indices
      <4> QED
        BY <4>2, <4>3 DEF Behind, InGraph
    <3>2. Behind(n, 1) \subseteq Behind(n + 1, 1)
      BY <1>1, <2>1 DEF Behind, Indices
    <3>3. \A j \in Indices(graphs[n].triples) : QuadAt(n, j) \in Behind(n + 1, 1)
      BY <2>1, PlacesHoldQuads DEF Behind
    <3> QED
      BY <3>1, <3>2, <3>3 DEF InGraph
  <2>3. Behind(n, 1) \cap InGraph(n) = {}
    <3> SUFFICES ASSUME NEW q \in Behind(n, 1), q \in InGraph(n) PROVE FALSE
      OBVIOUS
    <3>1. PICK i \in Indices(graphs[n].triples) : q = QuadAt(n, i)
      BY DEF InGraph
    <3>2. PICK h \in Indices(graphs) : \E j \in Indices(graphs[h].triples) :
              q = QuadAt(h, j) /\ Before(h, j, n, 1)
      BY DEF Behind, Before
    <3>3. PICK j \in Indices(graphs[h].triples) : q = QuadAt(h, j) /\ Before(h, j, n, 1)
      BY <3>2
    <3>4. h = n
      BY <2>1, <3>1, <3>3, OnePlace
    <3> QED
      BY <2>1, <3>3, <3>4 DEF Before, Indices
  <2>4. IsFiniteSet(Behind(n, 1))
    <3>1. Behind(n, 1) \in SUBSET quads
      BY DEF Behind
    <3> QED
      BY <3>1, FS_Subset DEF Stored
  <2>5. IsFiniteSet(InGraph(n)) /\ Cardinality(InGraph(n)) = Len(graphs[n].triples)
    BY <2>1, GraphSize
  <2>6. Cardinality(Behind(n + 1, 1)) =
            Cardinality(Behind(n, 1)) + Cardinality(InGraph(n)) - Cardinality({})
    BY <2>2, <2>3, <2>4, <2>5, FS_Union
  <2>7. Cardinality(Behind(n, 1)) \in Nat /\ Len(graphs[n].triples) \in Nat
    BY <1>1, <2>1, <2>4, FS_CardinalityType, GraphsAreTyped
  <2>8. Accumulate[n] = Accumulate[n - 1] + Len(graphs[n].triples)
    BY <1>1, AccumulateAdds
  <2> QED
    BY <1>3, <2>5, <2>6, <2>7, <2>8, FS_EmptySet
<1>4. Bad = {}
  <2> SUFFICES ASSUME Bad # {} PROVE FALSE
    OBVIOUS
  <2>1. PICK m \in Bad : \A k \in Bad : m <= k
    <3>1. Bad \in SUBSET Nat
      BY <1>1
    <3> HIDE DEF Bad
    <3> QED
      BY <3>1, LeastElement
  <2>2. m # 0 /\ m \in 0 .. Len(graphs)
    BY <1>2, <2>1
  <2>3. m \in 1 .. Len(graphs) /\ m - 1 \in 0 .. Len(graphs) /\ (m - 1) + 1 = m
    BY <1>1, <2>2
  <2>4. m - 1 \notin Bad
    BY <2>1, <2>2
  <2> QED
    BY <1>3, <2>1, <2>3, <2>4
<1>5. Len(graphs) + 1 \in Nat /\ Len(graphs) + 1 > Len(graphs)
  BY <1>1
<1>6. Behind(Len(graphs) + 1, 1) = quads
  BY <1>5, BehindTheEnds
<1> QED
  BY <1>1, <1>4, <1>6 DEF Size

\* However quads are added and graphs made, contains() and size() answer as the set of
\* the quads that were added, each graph has one entry, and iterators point to a place
\* that is there or to an end.
THEOREM ContainersAreTheSet == Spec => []StoresWhatWasAdded
<1>1. IInv => StoresWhatWasAdded
  <2> SUFFICES ASSUME IInv PROVE StoresWhatWasAdded
    OBVIOUS
  <2>1. Stored /\ graphs \in Seq(GraphType) /\ Len(graphs) \in Nat
    BY DEF IInv, Stored
  <2>2. TypeOK
    <3>1. ASSUME NEW g \in Indices(graphs)
          PROVE  graphs[g].name \in Names /\ ToSet(graphs[g].triples) \subseteq Triples
      BY <2>1, GraphsAreTyped DEF ToSet
    <3>2. reader = "quads" /\ giter <= Len(graphs) =>
              /\ iter <= Len(graphs[giter].triples)
              /\ iter \in 1 .. Len(graphs[giter].triples) + 1
      <4> SUFFICES ASSUME reader = "quads", giter <= Len(graphs)
                   PROVE  /\ iter <= Len(graphs[giter].triples)
                          /\ iter \in 1 .. Len(graphs[giter].triples) + 1
        OBVIOUS
      <4>1. giter \in Indices(graphs) /\ iter \in 1 .. Len(graphs[giter].triples)
        BY <2>1 DEF IInv, WalkInv, Indices
      <4>2. Len(graphs[giter].triples) \in Nat
        BY <2>1, <4>1, GraphsAreTyped
      <4> QED
        BY <4>1, <4>2
    <3>3. IF reader = "none" THEN giter = 0 /\ iter = 0
          ELSE /\ giter \in 1 .. Len(graphs) + 1
               /\ giter <= Len(graphs) => iter \in 1 .. Len(graphs[giter].triples) + 1
      BY <3>2 DEF IInv, IdleInv, WalkInv, MatchInv, AtSolution
    <3> QED
      BY <3>1, <3>2, <3>3 DEF TypeOK, IInv, IdleInv, Stored
  <2>3. ASSUME NEW name \in Names, NEW t \in Triples
        PROVE  ContainsQuad(name, t) <=> <<name, t>> \in quads
    <3>1. ASSUME ContainsQuad(name, t) PROVE Holds(<<name, t>>)
      <4>1. FindGraph(name) \in Indices(graphs) /\ graphs[FindGraph(name)].name = name
        BY <2>1, <3>1, FindGraphFinds DEF ContainsQuad
      <4>2. \E i \in Indices(graphs[FindGraph(name)].triples) :
                graphs[FindGraph(name)].triples[i] = t
        BY <3>1 DEF ContainsQuad, Contains, Indices
      <4> QED
        BY <4>1, <4>2 DEF Holds, QuadAt
    <3>2. ASSUME Holds(<<name, t>>) PROVE ContainsQuad(name, t)
      <4>1. PICK g \in Indices(graphs) : \E i \in Indices(graphs[g].triples) :
                <<name, t>> = QuadAt(g, i)
        BY <3>2 DEF Holds
      <4>2. graphs[g].name = name /\ \E i \in Indices(graphs[g].triples) : graphs[g].triples[i] = t
        BY <4>1 DEF QuadAt
      <4>3. Found(FindGraph(name)) /\ FindGraph(name) = g
        BY <2>1, <4>2, FindGraphFinds DEF Stored, OneEntry
      <4> QED
        BY <4>2, <4>3 DEF ContainsQuad, Contains, Indices
    <3> QED
      BY <2>1, <3>1, <3>2 DEF Stored
  <2> QED
    BY <2>1, <2>2, <2>3, SizeCounts DEF StoresWhatWasAdded, Stored, OneEntry
<1> QED
  BY <1>1, IInvHolds, PTL

\* However the containers are ordered and wherever empty graphs lie, a walk yields no
\* quad twice, none that was not added, and at its end it has yielded them all.
THEOREM WalksSeeAll == Spec => []WalkSeesAll
<1>1. IInv => WalkSeesAll
  <2> SUFFICES ASSUME IInv PROVE WalkSeesAll
    OBVIOUS
  <2>1. Behind(giter, iter) \subseteq quads
    BY DEF Behind
  <2>2. AtEndOfQuads => Behind(giter, iter) = quads
    BY BehindTheEnds DEF AtEndOfQuads, IInv, WalkInv, Stored
  <2> QED
    BY <2>1, <2>2 DEF IInv, WalkInv, WalkSeesAll, AtEndOfQuads
<1> QED
  BY <1>1, IInvHolds, PTL

\* Whatever pattern is matched in whatever dataset, the iterator yields the solution of
\* each quad that the pattern stands for, once for each such quad, and nothing else.
THEOREM MatchesFindAll == Spec => []MatchFindsAll
<1>1. IInv => MatchFindsAll
  <2> SUFFICES ASSUME IInv, AtEndOfSolutions
               PROVE  /\ Len(yielded) = Cardinality(Meant(pattern))
                      /\ ToSet(yielded) = {Solution(pattern, q) : q \in Meant(pattern)}
    BY DEF MatchFindsAll
  <2>1. Stored /\ reader = "solutions" /\ AtSentinel(giter, iter) /\ MatchInv
    BY DEF IInv, AtEndOfSolutions
  <2>2. PICK pat \in Patterns : pat = pattern
    BY <2>1 DEF MatchInv
  <2>3. PICK g \in 1 .. Len(graphs) + 1 : g = giter
    BY <2>1 DEF MatchInv, AtSolution
  <2>4. graphs \in Seq(GraphType) /\ Len(graphs) \in Nat
    BY <2>1 DEF Stored
  <2>5. Meant(pat) \subseteq Behind(g, iter)
    <3>1. CASE g > Len(graphs)
      BY <2>1, <2>4, <3>1, BehindTheEnds DEF Meant
    <3>2. CASE g <= Len(graphs)
      <4>1. g \in Indices(graphs) /\ Len(graphs[g].triples) \in Nat
        BY <2>4, <3>2, GraphsAreTyped DEF Indices
      <4>2. /\ ~IsVariable(pat[1]) /\ g = FindGraph(pat[1])
            /\ iter \in Nat /\ iter > Len(graphs[g].triples)
        BY <2>1, <2>2, <2>3, <2>4, <3>2, <4>1 DEF MatchInv, AtSolution, AtSentinel
      <4>3. graphs[g].name = pat[1]
        BY <2>4, <3>2, <4>2, FindGraphFinds DEF Found
      <4>4. ASSUME NEW q \in Meant(pat) PROVE q \in Behind(g, iter)
        <5>1. q \in quads /\ Holds(q)
          BY <2>1 DEF Meant, Stored
        <5>2. PICK h \in Indices(graphs) : \E j \in Indices(graphs[h].triples) : q = QuadAt(h, j)
          BY <5>1 DEF Holds
        <5>3. PICK j \in Indices(graphs[h].triples) : q = QuadAt(h, j)
          BY <5>2
        <5>4. graphs[h].name = pat[1]
          BY <2>1, <4>2, <5>3, MeantAt
        <5>5. h = g
          BY <2>1, <4>1, <4>3, <5>4 DEF Stored, OneEntry
        <5>6. j < iter
          BY <4>1, <4>2, <5>5 DEF Indices
        <5> QED
          BY <5>1, <5>3, <5>5, <5>6 DEF Behind
      <4> QED
        BY <4>4
    <3> QED
      BY <2>4, <3>1, <3>2
  <2>6. SeenOf(pattern, giter, iter) = Meant(pattern)
    BY <2>2, <2>3, <2>5 DEF SeenOf
  <2> QED
    BY <2>1, <2>6 DEF MatchInv
<1> QED
  BY <1>1, IInvHolds, PTL

-----------------------------------------------------------------------------
(***************************************************************************)
(* Comparing two graphs.                                                   *)
(***************************************************************************)

\* However compare() orders them, sorted statements are the same statements.
LEMMA SortedOnce ==
    ASSUME NEW T, NEW v \in Seq(T), NEW bn_indices, NEW w \in SortedBy(v, bn_indices)
    PROVE  w \in Seq(T) /\ Len(w) = Len(v) /\ ToSet(w) = ToSet(v)
<1>1. DOMAIN v = 1 .. Len(v) /\ Len(v) \in Nat
  BY LenProperties
<1>2. w \in [DOMAIN v -> ToSet(v)] /\ ToSet(w) = ToSet(v)
  BY DEF SortedBy
<1>3. ToSet(v) \subseteq T
  BY <1>1, ElementOfSeq DEF ToSet
<1>4. w \in [1 .. Len(v) -> T]
  BY <1>1, <1>2, <1>3
<1>5. w \in Seq(T)
  BY <1>1, <1>4, SeqDef
<1>6. DOMAIN w = 1 .. Len(w) /\ Len(w) \in Nat /\ DOMAIN w = 1 .. Len(v)
  BY <1>4, <1>5, LenProperties
<1>7. Len(w) = Len(v)
  <2>1. ASSUME NEW m \in Nat, NEW n \in Nat, 1 .. m = 1 .. n PROVE m = n
    BY <2>1
  <2>2. 1 .. Len(w) = 1 .. Len(v)
    BY <1>6, Zenon
  <2> QED
    BY <1>1, <1>6, <2>1, <2>2
<1> QED
  BY <1>2, <1>5, <1>7

LEMMA SortedSame ==
    ASSUME NEW T, NEW v \in Seq(T), NEW w \in sort(v)
    PROVE  w \in Seq(T) /\ Len(w) = Len(v) /\ ToSet(w) = ToSet(v)
<1>1. PICK u \in SortedBy(v, <<>>) : w \in SortedBy(u, FirstAppearances(u))
  BY DEF sort
<1>2. u \in Seq(T) /\ Len(u) = Len(v) /\ ToSet(u) = ToSet(v)
  BY SortedOnce
<1>3. w \in Seq(T) /\ Len(w) = Len(u) /\ ToSet(w) = ToSet(u)
  BY <1>1, <1>2, SortedOnce
<1> QED
  BY <1>2, <1>3

\* The places of the nodes.
LEMMA PlaceOf ==
    ASSUME NEW m \in Nat, NEW i \in 1 .. m, NEW j \in 1 .. 3
    PROVE  LET n == 3 * (i - 1) + j
           IN  n \in 1 .. 3 * m /\ (n + 2) \div 3 = i /\ 1 + ((n + 2) % 3) = j
<1>1. CASE j = 1
  BY <1>1
<1>2. CASE j = 2
  BY <1>2
<1>3. CASE j = 3
  BY <1>3
<1> QED
  BY <1>1, <1>2, <1>3

LEMMA PlaceIs ==
    ASSUME NEW m \in Nat, NEW n \in 1 .. 3 * m
    PROVE  (n + 2) \div 3 \in 1 .. m /\ 1 + ((n + 2) % 3) \in 1 .. 3
  OBVIOUS

\* A node that passed the check is itself, or a blank node for a blank node.
LEMMA CheckedAlike ==
    ASSUME NEW a, NEW b, NEW n, ~Fails(a, b, n)
    PROVE  /\ IsBlank(NodeAt(b, n)) <=> IsBlank(NodeAt(a, n))
           /\ ~IsBlank(NodeAt(b, n)) => NodeAt(a, n) = NodeAt(b, n)
  BY DEF Fails, check

AllPass(a, b, m) == \A n \in 1 .. m : ~Fails(a, b, n)
OneForOne(a, b, m) ==
    \A j, k \in 1 .. m : IsBlank(NodeAt(b, j)) /\ IsBlank(NodeAt(b, k)) =>
        (NodeAt(b, j) = NodeAt(b, k) <=> NodeAt(a, j) = NodeAt(a, k))

\* Blank nodes of one graph that are the same stand for the same in the other:
\* bn_map and reverse_bn_map keep the pairs one to one.
LEMMA OneToOne ==
    ASSUME NEW a, NEW b, NEW m \in Nat, AllPass(a, b, m)
    PROVE  OneForOne(a, b, m)
<1> DEFINE A(n) == NodeAt(a, n)
           B(n) == NodeAt(b, n)
           Alike(j, k) == B(j) = B(k) <=> A(j) = A(k)
           Bad == {k \in 1 .. m : /\ IsBlank(B(k))
                                  /\ \E j \in 1 .. k - 1 : IsBlank(B(j)) /\ ~Alike(j, k)}
<1>1. Bad = {}
  <2> SUFFICES ASSUME Bad # {} PROVE FALSE
    OBVIOUS
  <2>1. PICK k \in Bad : \A n \in Bad : k <= n
    <3>1. Bad \in SUBSET Nat
      OBVIOUS
    <3> HIDE DEF Bad
    <3> QED
      BY <3>1, LeastElement
  <2>2. PICK j \in 1 .. k - 1 : IsBlank(B(j)) /\ ~Alike(j, k)
    BY <2>1
  <2>3. k \in 1 .. m /\ IsBlank(B(k)) /\ IsBlank(A(k))
    BY <2>1, CheckedAlike DEF AllPass
  <2>4. check(MapUntil(a, b, k - 1), A(k), B(k))
    BY <2>3 DEF Fails, AllPass
  <2>5. <<B(j), A(j)>> \in MapUntil(a, b, k - 1)
    BY <2>2 DEF MapUntil
  <2>6. PICK i \in 1 .. k - 1 : IsBlank(B(i)) /\ <<B(k), A(k)>> = <<B(i), A(i)>>
    <3>1. CASE <<B(k), A(k)>> \in MapUntil(a, b, k - 1)
      BY <3>1 DEF MapUntil
    <3>2. CASE \A pair \in MapUntil(a, b, k - 1) : pair[1] # B(k) /\ pair[2] # A(k)
      <4>1. B(j) # B(k) /\ A(j) # A(k)
        BY <2>5, <3>2
      <4> QED
        BY <2>2, <4>1
    <3> QED
      BY <2>3, <2>4, <3>1, <3>2 DEF check
  <2>7. B(k) = B(i) /\ A(k) = A(i)
    BY <2>6
  <2>8. ~Alike(j, i)
    BY <2>2, <2>7
  <2>9. CASE i = j
    BY <2>8, <2>9
  <2>10. CASE i < j
    <3>1. j \in Bad
      BY <2>2, <2>3, <2>6, <2>8, <2>10
    <3> QED
      BY <2>1, <2>2, <2>3, <3>1
  <2>11. CASE j < i
    <3>1. i \in Bad
      BY <2>2, <2>3, <2>6, <2>8, <2>11
    <3> QED
      BY <2>1, <2>3, <2>6, <3>1
  <2> QED
    BY <2>2, <2>3, <2>6, <2>9, <2>10, <2>11
<1>2. ASSUME NEW j \in 1 .. m, NEW k \in 1 .. m, IsBlank(B(j)), IsBlank(B(k))
      PROVE  Alike(j, k)
  <2>1. CASE j = k
    BY <2>1
  <2>2. CASE j < k
    <3>1. j \in 1 .. k - 1
      BY <2>2
    <3> QED
      BY <1>1, <1>2, <3>1
  <2>3. CASE k < j
    <3>1. k \in 1 .. j - 1
      BY <2>3
    <3>2. Alike(k, j)
      BY <1>1, <1>2, <3>1
    <3> QED
      BY <3>2
  <2> QED
    BY <2>1, <2>2, <2>3
<1> QED
  BY <1>2 DEF OneForOne

\* A node of a graph is at a place, and what is at a place is a node of the graph.
LEMMA NodesAtPlaces ==
    ASSUME NEW N, NEW g \in Seq([1 .. 3 -> N])
    PROVE  /\ \A n : n \in BlanksOf(g) <=>
                 n \in BlankNodes /\ \E k \in 1 .. 3 * Len(g) : n = NodeAt(g, k)
           /\ \A i \in 1 .. Len(g), j \in 1 .. 3 : \E k \in 1 .. 3 * Len(g) :
                 /\ k = 3 * (i - 1) + j
                 /\ NodeAt(g, k) = g[i][j]
<1>1. DOMAIN g = 1 .. Len(g) /\ Len(g) \in Nat
  BY LenProperties
<1>2. \A i \in 1 .. Len(g) : g[i] \in [1 .. 3 -> N]
  BY ElementOfSeq
<1>3. ASSUME NEW i \in 1 .. Len(g), NEW j \in 1 .. 3
      PROVE  \E k \in 1 .. 3 * Len(g) : k = 3 * (i - 1) + j /\ NodeAt(g, k) = g[i][j]
  <2>1. PICK k \in 1 .. 3 * Len(g) : k = 3 * (i - 1) + j /\ (k + 2) \div 3 = i /\ 1 + ((k + 2) % 3) = j
    BY <1>1, PlaceOf
  <2> QED
    BY <2>1 DEF NodeAt
<1>4. ASSUME NEW n \in BlanksOf(g)
      PROVE  n \in BlankNodes /\ \E k \in 1 .. 3 * Len(g) : n = NodeAt(g, k)
  <2>1. n \in BlankNodes
    BY DEF BlanksOf
  <2>2. PICK q \in ToSet(g) : n \in ToSet(q)
    BY DEF BlanksOf
  <2>3. PICK i \in 1 .. Len(g) : q = g[i]
    BY <1>1, <2>2 DEF ToSet
  <2>4. PICK j \in 1 .. 3 : n = q[j]
    BY <1>2, <2>2, <2>3 DEF ToSet
  <2> QED
    BY <1>3, <2>1, <2>3, <2>4
<1>5. ASSUME NEW k \in 1 .. 3 * Len(g), NodeAt(g, k) \in BlankNodes
      PROVE  NodeAt(g, k) \in BlanksOf(g)
  <2>1. PICK i \in 1 .. Len(g), j \in 1 .. 3 : i = (k + 2) \div 3 /\ j = 1 + ((k + 2) % 3)
    BY <1>1, PlaceIs
  <2>2. NodeAt(g, k) = g[i][j]
    BY <2>1 DEF NodeAt
  <2>3. g[i] \in ToSet(g) /\ g[i][j] \in ToSet(g[i])
    BY <1>1, <1>2 DEF ToSet
  <2> QED
    BY <1>5, <2>2, <2>3 DEF BlanksOf
<1> QED
  BY <1>3, <1>4, <1>5

\* When every node passes the check, the pairs are an isomorphism.
LEMMA PairsAreIsomorphism ==
    ASSUME NEW N, NEW a \in Seq([1 .. 3 -> N]), NEW b \in Seq([1 .. 3 -> N]), Len(a) = Len(b),
           AllPass(a, b, 3 * Len(a))
    PROVE  IsIsomorphism(MapUntil(a, b, 3 * Len(a)), a, b)
<1> DEFINE m == 3 * Len(a)
           map == MapUntil(a, b, m)
           A(n) == NodeAt(a, n)
           B(n) == NodeAt(b, n)
           Image(n) == IF IsBlank(n) THEN (CHOOSE pair \in map : pair[1] = n)[2] ELSE n
<1>1. m \in Nat /\ DOMAIN a = 1 .. Len(a) /\ DOMAIN b = 1 .. Len(a) /\ Len(a) \in Nat
  BY LenProperties
<1>2. /\ \A n : n \in BlanksOf(a) <=> IsBlank(n) /\ \E k \in 1 .. m : n = A(k)
      /\ \A n : n \in BlanksOf(b) <=> IsBlank(n) /\ \E k \in 1 .. m : n = B(k)
  <2>1. \A n : n \in BlanksOf(a) <=>
            n \in BlankNodes /\ \E k \in 1 .. 3 * Len(a) : n = NodeAt(a, k)
    BY NodesAtPlaces, Zenon
  <2>2. \A n : n \in BlanksOf(b) <=>
            n \in BlankNodes /\ \E k \in 1 .. 3 * Len(b) : n = NodeAt(b, k)
    BY NodesAtPlaces, Zenon
  <2> QED
    BY <2>1, <2>2, Zenon DEF IsBlank
<1>3. \A k \in 1 .. m : (IsBlank(B(k)) <=> IsBlank(A(k))) /\ (~IsBlank(B(k)) => A(k) = B(k))
  BY CheckedAlike DEF AllPass
<1>4. \A j, k \in 1 .. m : IsBlank(B(j)) /\ IsBlank(B(k)) => (B(j) = B(k) <=> A(j) = A(k))
  <2>1. OneForOne(a, b, m)
    BY <1>1, OneToOne
  <2> QED
    BY <2>1 DEF OneForOne
<1>5. \A pair : pair \in map <=> \E k \in 1 .. m : IsBlank(B(k)) /\ pair = <<B(k), A(k)>>
  BY DEF MapUntil
<1> HIDE DEF map, m, A, B
<1>6. map \subseteq BlanksOf(b) \X BlanksOf(a)
  BY <1>2, <1>3, <1>5
<1>7. ASSUME NEW k \in 1 .. m, IsBlank(B(k))
      PROVE  /\ {pair \in map : pair[1] = B(k)} = {<<B(k), A(k)>>}
             /\ {pair \in map : pair[2] = A(k)} = {<<B(k), A(k)>>}
  <2>1. <<B(k), A(k)>> \in map
    BY <1>5, <1>7
  <2>2. ASSUME NEW pair \in map, pair[1] = B(k) \/ pair[2] = A(k)
        PROVE  pair = <<B(k), A(k)>>
    <3>1. PICK j \in 1 .. m : IsBlank(B(j)) /\ pair = <<B(j), A(j)>>
      BY <1>5
    <3>2. B(j) = B(k) \/ A(j) = A(k)
      BY <2>2, <3>1
    <3>3. B(j) = B(k) /\ A(j) = A(k)
      BY <1>4, <1>7, <3>1, <3>2
    <3> QED
      BY <3>1, <3>3
  <2> QED
    BY <2>1, <2>2
<1>8. \A k \in 1 .. m : Image(B(k)) = A(k)
  <2> SUFFICES ASSUME NEW k \in 1 .. m PROVE Image(B(k)) = A(k)
    OBVIOUS
  <2>1. CASE ~IsBlank(B(k))
    BY <1>3, <2>1
  <2>2. CASE IsBlank(B(k))
    <3> DEFINE p == CHOOSE pair \in map : pair[1] = B(k)
    <3>1. <<B(k), A(k)>> \in {pair \in map : pair[1] = B(k)}
      BY <1>7, <2>2
    <3>2. \E pair \in map : pair[1] = B(k)
      BY <3>1
    <3>3. p \in map /\ p[1] = B(k)
      BY <3>2
    <3> HIDE DEF p
    <3>4. p \in {pair \in map : pair[1] = B(k)}
      BY <3>3
    <3>5. p = <<B(k), A(k)>>
      BY <1>7, <2>2, <3>4
    <3>6. p[2] = A(k)
      BY <3>5
    <3> QED
      BY <2>2, <3>6 DEF p
  <2> QED
    BY <2>1, <2>2
<1> DEFINE Taken(q) == [i \in DOMAIN q |-> Image(q[i])]
<1> HIDE DEF Image
<1>9. ASSUME NEW i \in 1 .. Len(a)
      PROVE  Taken(b[i]) = a[i]
  <2>1. a[i] \in [1 .. 3 -> N] /\ b[i] \in [1 .. 3 -> N]
    BY ElementOfSeq
  <2>2. ASSUME NEW j \in 1 .. 3 PROVE Image(b[i][j]) = a[i][j]
    <3>1. PICK k \in 1 .. m : k = 3 * (i - 1) + j /\ A(k) = a[i][j]
      <4>1. \E k \in 1 .. 3 * Len(a) : k = 3 * (i - 1) + j /\ NodeAt(a, k) = a[i][j]
        BY NodesAtPlaces, Zenon
      <4> QED
        BY <4>1 DEF A, m
    <3>2. PICK l \in 1 .. m : l = 3 * (i - 1) + j /\ B(l) = b[i][j]
      <4>1. i \in 1 .. Len(b)
        OBVIOUS
      <4>2. \E l \in 1 .. 3 * Len(b) : l = 3 * (i - 1) + j /\ NodeAt(b, l) = b[i][j]
        BY <4>1, NodesAtPlaces, Zenon
      <4> QED
        BY <4>2 DEF B, m
    <3> QED
      BY <1>8, <3>1, <3>2
  <2>3. DOMAIN b[i] = 1 .. 3
    BY <2>1
  <2>4. Taken(b[i]) = [j \in 1 .. 3 |-> a[i][j]]
    BY <2>2, <2>3
  <2> QED
    BY <2>1, <2>4
<1>10. {Taken(q) : q \in ToSet(b)} = ToSet(a)
  <2> HIDE DEF Taken
  <2>1. \A q : q \in ToSet(b) <=> \E i \in 1 .. Len(a) : q = b[i]
    BY <1>1 DEF ToSet
  <2>2. \A q : q \in ToSet(a) <=> \E i \in 1 .. Len(a) : q = a[i]
    BY <1>1 DEF ToSet
  <2>3. ASSUME NEW q \in ToSet(b) PROVE Taken(q) \in ToSet(a)
    <3>1. PICK i \in 1 .. Len(a) : q = b[i]
      BY <2>1
    <3> QED
      BY <1>9, <2>2, <3>1
  <2>4. ASSUME NEW t \in ToSet(a) PROVE \E q \in ToSet(b) : t = Taken(q)
    <3>1. PICK i \in 1 .. Len(a) : t = a[i]
      BY <2>2
    <3>2. b[i] \in ToSet(b) /\ Taken(b[i]) = t
      BY <1>9, <2>1, <3>1
    <3> QED
      BY <3>2
  <2> QED
    BY <2>3, <2>4
<1>11. \A n \in BlanksOf(b) : Cardinality({pair \in map : pair[1] = n}) = 1
  <2> SUFFICES ASSUME NEW n \in BlanksOf(b)
               PROVE  Cardinality({pair \in map : pair[1] = n}) = 1
    OBVIOUS
  <2>1. PICK k \in 1 .. m : IsBlank(B(k)) /\ n = B(k)
    BY <1>2
  <2>2. {pair \in map : pair[1] = n} = {<<B(k), A(k)>>}
    BY <1>7, <2>1
  <2> QED
    BY <2>2, FS_Singleton
<1>12. \A n \in BlanksOf(a) : Cardinality({pair \in map : pair[2] = n}) = 1
  <2> SUFFICES ASSUME NEW n \in BlanksOf(a)
               PROVE  Cardinality({pair \in map : pair[2] = n}) = 1
    OBVIOUS
  <2>1. PICK k \in 1 .. m : IsBlank(B(k)) /\ n = A(k)
    BY <1>2, <1>3
  <2>2. {pair \in map : pair[2] = n} = {<<B(k), A(k)>>}
    BY <1>7, <2>1
  <2> QED
    BY <2>2, FS_Singleton
<1> QED
  BY <1>6, <1>10, <1>11, <1>12 DEF IsIsomorphism, Taken, Image, map, m

LEMMA PairIsSomething ==
    ASSUME NEW x, NEW y
    PROVE  <<x, y>> # <<>>
<1>1. Len(<<x, y>>) = 2 /\ Len(<<>>) = 0
  OBVIOUS
<1> QED
  BY <1>1

\* A mapping between graphs of triples of nodes that is found is an isomorphism.
LEMMA ComparisonFindsIsomorphisms ==
    ASSUME NEW N, NEW graph_a \in Seq(N \X N \X N), NEW graph_b \in Seq(N \X N \X N)
    PROVE  IsSound(graph_a, graph_b)
<1> SUFFICES ASSUME NEW r \in try_compare_graphs_fast(graph_a, graph_b), r.mismatch = <<>>
             PROVE  IsIsomorphism(r.map, graph_a, graph_b)
  BY DEF IsSound
<1> DEFINE T == [1 .. 3 -> N]
<1>1. graph_a \in Seq(T) /\ graph_b \in Seq(T)
  <2>1. \A q \in N \X N \X N : q \in T
    OBVIOUS
  <2>2. ASSUME NEW g \in Seq(N \X N \X N) PROVE g \in Seq(T)
    <3>1. Len(g) \in Nat /\ g \in [1 .. Len(g) -> N \X N \X N]
      BY LenProperties
    <3> HIDE DEF T
    <3>2. g \in [1 .. Len(g) -> T]
      BY <2>1, <3>1
    <3>3. g \in UNION {[1 .. n -> T] : n \in Nat}
      BY <3>1, <3>2
    <3> QED
      BY <3>3, SeqDef, Zenon
  <2> QED
    BY <2>2
<1>2. Len(graph_a) = Len(graph_b)
  <2> SUFFICES ASSUME Len(graph_a) # Len(graph_b) PROVE FALSE
    OBVIOUS
  <2>1. r = [map |-> {}, mismatch |-> <<Null, Null>>]
    BY DEF try_compare_graphs_fast
  <2>2. r.mismatch = <<Null, Null>>
    BY <2>1
  <2> QED
    BY <2>2, PairIsSomething
<1>3. PICK a \in sort(graph_a), b \in sort(graph_b) : r = Matching(a, b)
  BY <1>2 DEF try_compare_graphs_fast
<1> HIDE DEF T
<1>4. a \in Seq(T) /\ Len(a) = Len(graph_a) /\ ToSet(a) = ToSet(graph_a)
  BY <1>1, SortedSame
<1>5. b \in Seq(T) /\ Len(b) = Len(graph_b) /\ ToSet(b) = ToSet(graph_b)
  BY <1>1, SortedSame
<1>6. /\ AllPass(a, b, 3 * Len(a))
      /\ r.map = MapUntil(a, b, 3 * Len(a))
  <2> DEFINE bad == {n \in 1 .. 3 * Len(a) : Fails(a, b, n)}
             at == Min(bad)
  <2>1. CASE bad = {}
    <3>1. r = [map |-> MapUntil(a, b, 3 * Len(a)), mismatch |-> <<>>]
      BY <1>3, <2>1 DEF Matching
    <3> QED
      BY <2>1, <3>1 DEF AllPass
  <2>2. CASE bad # {}
    <3>1. r.mismatch = <<NodeAt(a, at), NodeAt(b, at)>>
      BY <1>3, <2>2 DEF Matching
    <3> QED
      BY <3>1, PairIsSomething
  <2> QED
    BY <2>1, <2>2
<1>7. IsIsomorphism(r.map, a, b)
  BY <1>2, <1>4, <1>5, <1>6, PairsAreIsomorphism DEF T
<1>8. BlanksOf(a) = BlanksOf(graph_a) /\ BlanksOf(b) = BlanksOf(graph_b)
  BY <1>4, <1>5 DEF BlanksOf
<1> QED
  BY <1>4, <1>5, <1>7, <1>8 DEF IsIsomorphism

\* When two graphs of a dataset are compared by try_compare_graphs_fast, whatever order
\* std::ranges::sort leaves their triples in, a mapping that is found is an isomorphism.
THEOREM MappingsAreIsomorphisms ==
    Spec => [](\A i, j \in Indices(graphs) : IsSound(graphs[i].triples, graphs[j].triples))
<1>1. IInv => \A i, j \in Indices(graphs) : IsSound(graphs[i].triples, graphs[j].triples)
  <2> SUFFICES ASSUME IInv, NEW i \in Indices(graphs), NEW j \in Indices(graphs)
               PROVE  IsSound(graphs[i].triples, graphs[j].triples)
    OBVIOUS
  <2>1. graphs \in Seq(GraphType)
    BY DEF IInv, Stored
  <2>2. graphs[i] \in GraphType /\ graphs[j] \in GraphType
    BY <2>1, ElementOfSeq DEF Indices
  <2>3. graphs[i].triples \in Seq(Triples) /\ graphs[j].triples \in Seq(Triples)
    BY <2>2 DEF GraphType
  <2>4. Triples \subseteq Nodes \X Nodes \X Nodes
    BY StatementsAssumption
  <2>5. ASSUME NEW g \in Seq(Triples) PROVE g \in Seq(Nodes \X Nodes \X Nodes)
    <3>1. Len(g) \in Nat /\ g \in [1 .. Len(g) -> Triples]
      BY LenProperties
    <3>2. g \in [1 .. Len(g) -> Nodes \X Nodes \X Nodes]
      BY <2>4, <3>1
    <3>3. g \in UNION {[1 .. n -> Nodes \X Nodes \X Nodes] : n \in Nat}
      BY <3>1, <3>2
    <3> QED
      BY <3>3, SeqDef, Zenon
  <2> QED
    BY <2>3, <2>5, ComparisonFindsIsomorphisms
<1> QED
  BY <1>1, IInvHolds, PTL
=============================================================================
