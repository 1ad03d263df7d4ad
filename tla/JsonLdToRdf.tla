---------------------------- MODULE JsonLdToRdf ----------------------------
(***************************************************************************)
(* From expanded levels to quads (IStreamQuadIterator::ImplJsonLd).        *)
(*                                                                         *)
(* The coroutines of the parser are operators on what the parse has        *)
(* produced so far: the error that ended it, the session of the context    *)
(* parser, the number of generated blank nodes, the quads in their order,  *)
(* and what the value just parsed is to the list it stands in.  A quad     *)
(* that an error follows has been yielded, nothing comes after the error.  *)
(***************************************************************************)
EXTENDS JsonLdExpand

CONSTANTS
    NoBlankNodes,       \* ParsingFlag::NoParseBlankNode
    DirectionForm       \* "none", "i18n" or "compound": the JsonLdDirection flag

Begin(st) == [e |-> "", st |-> st, n |-> 0, qs |-> <<>>, obj |-> None]
fail(o, e) == [o EXCEPT !.e = e]
After(o, Op(_)) == IF o.e = "" THEN Op(o) ELSE o
ForEach(s, o, Op(_, _)) == OverSeq(s, o, Op)

\* A literal, and whether it lives in the node storage of the parse state
Literal(v, tag, type, here) ==
    [t |-> "lit", v |-> v, tag |-> tag, type |-> type, here |-> here]
xsd_string == <<"xsd:string">>
rdf(name) == Iri(<<"rdf:", name>>)

\* The node make_new_bn returns, and what it leaves behind
GeneratedLabel(n) == <<"bn_" \o ToString(n)>>
NewNode(o) == Bnode(GeneratedLabel(o.n))
\* Mutation: the count stays where it is.
SameAgain(o) == o
make_new_bn(o) == [o EXCEPT !.n = @ + 1]

\* A tag outside the grammar of the RDF formats: one with a space stands for all
is_valid_language_tag(tag) == tag # "not a tag"
\* What the datatype rejects: one text that is no integer stands for all
IllFormed(v, type) == type = <<"xsd:integer">> /\ v = <<"a">>

\* make_bn_or_iri, make_iri: what is wrong with the mapping, empty for nothing
NodeError(m) ==
    CASE m.t = "bn" -> IF NoBlankNodes THEN "BadSyntax" ELSE ""
      [] m.t = "iri" -> IF ValidIri(m.d) THEN "" ELSE "BadIri"
      [] m.t = "lit" -> ""
      [] OTHER -> "BadSyntax"

\* make_quad, both overloads: the object first, then graph, subject, predicate. The
\* graph is the keyword @default or the name of a graph.
FirstError(es) ==
    LET bad == {i \in 1..Len(es) : es[i] # ""}
    IN IF bad = {} THEN "" ELSE es[CHOOSE i \in bad : \A j \in bad : i <= j]
make_quad(o, g, s, p, x) ==
    LET type == IsKeywordMapping(p, <<"@type">>)
        e == FirstError(<<NodeError(x),
                          IF IsKeywordMapping(g, <<"@default">>) THEN "" ELSE NodeError(g),
                          NodeError(s),
                          IF type THEN "" ELSE IF p.t # "iri" THEN "BadSyntax"
                          ELSE NodeError(p)>>)
        Plain(m) == IF m.t = "lit" THEN m ELSE [t |-> m.t, d |-> m.d]
    IN IF e # "" THEN fail(o, e)
       ELSE [o EXCEPT !.qs = Append(@, [g |-> g.d, s |-> Plain(s), x |-> Plain(x),
                                        p |-> IF type THEN rdf("type").d ELSE p.d])]

\* emit_literal with make_literal. The quads that say what a compound literal is come
\* with the one that refers to it, so a literal in a list has none of them.
State(o, g, s, p, x) ==
    LET stated == s.t # "none" /\ p.t # "none"
    IN [IF Ok(o) /\ stated THEN make_quad(o, g, s, p, x) ELSE o EXCEPT !.obj = Some(x)]

CompoundParts(l) ==
    <<<<"value", l.v>>, <<"direction", <<l.dir>>>>>>
    \o (IF l.lang = None THEN <<>> ELSE <<<<"language", <<TheOne(l.lang)>>>>>>)
Compound(o, g, l, node) ==
    ForEach(CompoundParts(l), o, LAMBDA a, i :
        make_quad(a, g, node, rdf(CompoundParts(l)[i][1]),
                  Literal(CompoundParts(l)[i][2], None, xsd_string, TRUE)))
Referred(o, made, g, s, p, node) ==
    LET first == State([made EXCEPT !.qs = o.qs], g, s, p, node)
    IN IF Ok(first) /\ s.t # "none" /\ p.t # "none"
       THEN [first EXCEPT !.qs = @ \o made.qs] ELSE first
CompoundLiteral(o, g, s, p, l) ==
    LET node == NewNode(o)
        made == [make_new_bn(o) EXCEPT !.e = NodeError(node), !.qs = <<>>]
    IN Referred(o, Then(made, Compound(made, g, l, node)), g, s, p, node)

emit_literal(o, g, s, p, l) ==
    LET tagged == IF l.lang = None THEN xsd_string ELSE <<"rdf:langString">>
        i18n == <<"i18n", IF l.lang = None THEN "" ELSE TheOne(l.lang), l.dir>>
    IN CASE l.k = "typed" ->
                IF ~ValidIri(l.type) THEN fail(o, "BadIri")
                ELSE IF IllFormed(l.v, l.type) THEN fail(o, "BadLiteral")
                ELSE State(o, g, s, p, Literal(l.v, None, l.type, TRUE))
         [] l.k = "string" /\ ~(\A x \in l.lang : is_valid_language_tag(x)) ->
                fail(o, "BadLiteral")
         [] OTHER ->
              CASE l.dir # "none" /\ DirectionForm = "compound" ->
                      CompoundLiteral(o, g, s, p, l)
                [] l.dir # "none" /\ DirectionForm = "i18n" ->
                      State(o, g, s, p, Literal(l.v, None, i18n, TRUE))
                [] OTHER -> State(o, g, s, p, Literal(l.v, l.lang, tagged, TRUE))

-----------------------------------------------------------------------------
\* ParseParams: the value, its context, graph, subject and property, and the flags
Params(v, c, g, s, p) ==
    [v |-> v, c |-> c, g |-> g, s |-> s, p |-> p, top |-> FALSE, rev |-> FALSE,
     json |-> FALSE, incl |-> FALSE]

\* The recursion goes through one operator.
RECURSIVE Parsing(_, _, _, _)
parse(o, q) == Parsing("element", o, q, 0)
parse_list(o, q, recursive) == Parsing("list", o, q, recursive)
parse_level(o, q, l) == Parsing("level", o, q, l)
means_none(c, key) == Parsing("none", c, key, 0)

\* The quad that ties a value to what it is the value of, in either direction
Link(o, g, s, p, x, reverse) ==
    IF s.t = "none" \/ p.t = "none" THEN o
    ELSE IF reverse THEN make_quad(o, g, x, p, s) ELSE make_quad(o, g, s, p, x)

\* @language maps. The literals are made without the node storage of the state.
language_map(o, q, id, entry, c, v) ==
    ForEach(v.m, o, LAMBDA a, i :
        LET lang == v.m[i][1]
            none == means_none(c, lang)
        IN ForEach(Items(v.m[i][2]), a, LAMBDA b, j :
              LET x == Items(v.m[i][2])[j]
                  lit == IF none THEN Literal(x.s, None, xsd_string, FALSE)
                         ELSE Literal(x.s, Some(lang[1]), <<"rdf:langString">>, FALSE)
              IN IF ~IsStr(x) THEN fail(b, "BadSyntax")
                 ELSE make_quad(b, q.g, id, entry.key, lit)))

\* A value of a container @graph: a graph of its own with a generated name
graph_value(o, q, id, entry, c, v) ==
    LET name == NewNode(o)
        linked == Link(make_new_bn(o), q.g, id, entry.key, name, q.rev)
    IN IF Ok(linked)
       THEN parse(linked, [Params(v, c, name, NoMapping, NoMapping)
                              EXCEPT !.json = entry.json])
       ELSE linked

\* One entry of a node object that is not a keyword
property_value(o, q, id, entry, ctx, of) ==
    LET c == IF entry.c = None THEN ctx ELSE TheOne(entry.c)
        pre == TheOne(entry.pre)
        found == Lookup(q.v, entry.path)
        v == TheOne(found)
        pa == [Params(v, c, q.g, id, entry.key) EXCEPT !.rev = entry.reverse,
                                                       !.json = entry.json]
        graphs[i \in 0..Len(v.a)] ==
            IF i = 0 THEN o
            ELSE IF Ok(graphs[i - 1]) THEN graph_value(graphs[i - 1], q, id, entry, c, v.a[i])
            ELSE graphs[i - 1]
    IN CASE entry.pre # None ->
                IF pre.k = "id" THEN Link(o, q.g, id, entry.key, pre.m, q.rev)
                ELSE emit_literal(o, q.g, id, entry.key, pre)
         [] entry.pre = None /\ of = "id" -> o
         [] OTHER ->
              CASE entry.list /\ q.rev -> fail(o, "BadSyntax")
                [] found = None /\ ~(entry.list /\ q.rev) -> fail(o, "BadSyntax")
                [] OTHER ->
                     CASE entry.list -> parse_list(o, pa, TRUE)
                       [] ~entry.list /\ entry.graphs ->
                              graphs[Len(v.a)]
                       [] ~entry.list /\ entry.graph ->
                              graph_value(o, q, id, entry, c, v)
                       [] OTHER ->
                            IF entry.langmap THEN language_map(o, q, id, entry, c, v)
                            ELSE IF entry.next # None
                            THEN parse_level(o, pa, TheOne(entry.next))
                            ELSE parse(o, pa)

\* Step 6: a node object. First the quad it is the object of, then its types, its
\* graph, and its entries in the order of the document.
Types(linked, q, id, l) ==
    ForEach(l.entries, linked, LAMBDA a, i :
        LET x == l.entries[i]
        IN IF ~IsKeywordMapping(x.key, <<"@type">>) THEN a
           ELSE ForEach(x.values, a, LAMBDA b, j :
                   IF x.values[j].t = "none" THEN b
                   ELSE make_quad(b, q.g, id, x.key, x.values[j])))
OwnGraph(typed, q, id, l, ctx) ==
    LET ge == FirstEntry(l.entries, <<"@graph">>)
        gv == Lookup(q.v, ge.path)
    IN IF ~Ok(typed) \/ l.of = "id" \/ ~HasEntry(l.entries, <<"@graph">>) THEN typed
       ELSE IF gv = None THEN fail(typed, "BadSyntax")
       ELSE parse(typed, Params(TheOne(gv), IF ge.c = None THEN ctx ELSE TheOne(ge.c),
                                id, NoMapping, NoMapping))
Included(o, q, l, x, ctx) ==
    LET v == Lookup(q.v, x.path)
    IN IF l.of = "id" THEN o
       ELSE IF v = None THEN fail(o, "BadSyntax")
       ELSE parse(o, [Params(TheOne(v), ctx, q.g, NoMapping, NoMapping) EXCEPT !.incl = TRUE])
Properties(inside, q, id, l, ctx) ==
    LET over[i \in 0..Len(l.entries)] ==
            IF i = 0 THEN inside
            ELSE LET o == over[i - 1]
                     x == l.entries[i]
                 IN CASE ~Ok(o) -> o
                      [] Ok(o) /\ IsKeywordMapping(x.key, <<"@included">>) ->
                             Included(o, q, l, x, ctx)
                      [] OTHER -> IF x.key.t = "keyword" THEN o
                                  ELSE property_value(o, q, id, x, ctx, l.of)
    IN over[Len(l.entries)]
About(o, id) == Then(o, [o EXCEPT !.obj = Some(id)])

node_object(o, q, l, ctx) ==
    LET named == HasEntry(l.entries, <<"@id">>)
        id == IF named THEN FirstEntry(l.entries, <<"@id">>).values[1] ELSE NewNode(o)
        linked == Link(IF named THEN o ELSE make_new_bn(o), q.g, q.s, q.p, id, q.rev)
        inside == OwnGraph(Types(linked, q, id, l), q, id, l, ctx)
    IN IF named /\ id.t = "none" THEN o
       ELSE About(Properties(inside, q, id, l, ctx), id)

\* The elements of an array, until one fails
parse_each(o, q, a) ==
    LET each[i \in 0..Len(a)] ==
            IF i = 0 THEN o
            ELSE IF Ok(each[i - 1]) THEN parse(each[i - 1], [q EXCEPT !.v = a[i]])
            ELSE each[i - 1]
    IN each[Len(a)]

\* parse of an expanded level
ParseLevel(o, q, l) ==
    LET ctx == IF l.c = None THEN q.c ELSE TheOne(l.c)
        graph == FirstEntry(l.entries, <<"@graph">>)
        \* the default graph section of a document
        only_graph == /\ q.top /\ l.of = "map"
                      /\ HasEntry(l.entries, <<"@graph">>)
                      /\ \A i \in 1..Len(l.entries) :
                            IsKeywordMapping(l.entries[i].key, <<"@graph">>)
        list == Lookup(q.v, FirstEntry(l.entries, <<"@list">>).path)
    IN CASE l.k \in {"null", "string", "typed"} /\ q.incl -> fail(o, "BadSyntax")
         [] l.k = "null" /\ ~q.incl -> o
         [] l.k = "array" -> parse_each(o, q, l.a)
         [] l.k \in {"string", "typed"} /\ ~q.incl ->
              IF q.rev THEN fail(o, "BadSyntax") ELSE emit_literal(o, q.g, q.s, q.p, l)
         [] OTHER ->
              CASE only_graph ->
                      parse(o, [Params(TheOne(Lookup(q.v, graph.path)), ctx, q.g, q.s, q.p)
                                   EXCEPT !.rev = q.rev])
                [] ~only_graph /\ l.of = "map" /\ HasEntry(l.entries, <<"@list">>) ->
                      IF q.rev \/ list = None THEN fail(o, "BadSyntax")
                      ELSE parse_list(o, [q EXCEPT !.v = TheOne(list), !.c = ctx], FALSE)
                [] OTHER -> node_object(o, q, l, ctx)

Expanded(o, q, r) ==
    IF Ok(r) THEN parse_level([o EXCEPT !.st = r.st], q, r.l)
    ELSE fail([o EXCEPT !.st = r.st], r.e)

\* parse of an element. An array gives its elements, the last of which is what a list
\* around it gets to see.
ParseElement(o, q) ==
    LET begun == [o EXCEPT !.obj = None]
    IN IF IsArr(q.v) /\ ~q.json THEN parse_each(begun, q, q.v.a)
       ELSE Expanded(begun, q, expand_level(Level(q.c, q.p, q.v, FALSE, q.json), o.st, 0))

\* parse_list: one generated node for each element that gives something. The node of an
\* element is linked from the one before once its own value is known; at: what the next
\* node is linked from, head: the first node.
ChainOn(a, r, g) ==
    LET node == NewNode(r)
        linked == Link(make_new_bn(r), g, a.s, a.p, node, FALSE)
        first == Then(linked, make_quad(linked, g, node, rdf("first"), TheOne(r.obj)))
    IN IF ~Ok(r) \/ r.obj = None THEN [a EXCEPT !.e = r.e, !.o = r]
       ELSE [e |-> first.e, o |-> first, s |-> node, p |-> rdf("rest"),
             head |-> IF a.head = None THEN Some(node) ELSE a.head]
EndList(a, g) ==
    [Then(a.o, Link(a.o, g, a.s, a.p, rdf("nil"), FALSE)) EXCEPT
        !.obj = IF a.head = None THEN Some(rdf("nil")) ELSE a.head]

ParseList(o, q, recursive) ==
    LET items == Items(q.v)
        Element(a, v) ==
            IF recursive /\ IsArr(v)
            THEN parse_list(a, [q EXCEPT !.v = v, !.s = NoMapping], TRUE)
            ELSE parse(a, Params(v, q.c, q.g, NoMapping, q.p))
        chain[i \in 0..Len(items)] ==
            IF i = 0 THEN [e |-> o.e, o |-> o, s |-> q.s, p |-> q.p, head |-> None]
            ELSE LET a == chain[i - 1]
                 IN Then(a, ChainOn(a, Element([a.o EXCEPT !.obj = None], items[i]), q.g))
    IN EndList(chain[Len(items)], q.g)

Parsing(name, o, q, x) ==
    CASE name = "element" -> ParseElement(o, q)
      [] name = "list" -> ParseList(o, q, x)
      [] name = "level" -> ParseLevel(o, q, x)
      [] name = "none" -> IsKeywordMapping(KeyOf(o, q), <<"@none">>)
=============================================================================
