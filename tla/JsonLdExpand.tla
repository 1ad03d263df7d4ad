---------------------------- MODULE JsonLdExpand ----------------------------
(***************************************************************************)
(* Expansion of one level of a JSON-LD document (json_ld::ExpandParser).   *)
(* A node object becomes the list of its entries with their expanded keys; *)
(* a value becomes a literal or the map of a single @id.  The values below *)
(* are left in the document, the entries hold the paths that lead there.   *)
(***************************************************************************)
EXTENDS JsonLdContext

CONSTANT TypeOrder      \* the texts that are sorted, in their order

\* The recursion, and what is called from many places: a level expands the entries of
\* its object, those expand the levels below.
RECURSIVE Expansion(_, _, _, _, _, _)
expand_level(q, st, d) == Expansion("level", q, st, d, 0, 0)
expand_level_nested_recursive(n, o, acc, d) == Expansion("entries", n, o, acc, d, 0)
expanded_iri(c, value, document_relative, vocab, st) ==
    Expansion("iri", c, value, document_relative, vocab, st)
local_context(json, p, st, d) == Expansion("context", json, p, st, d, 0)

\* What a level expands to
NullLevel == [k |-> "null"]
StringLevel(v, lang, dir) == [k |-> "string", v |-> v, lang |-> lang, dir |-> dir]
TypedLevel(v, type) == [k |-> "typed", v |-> v, type |-> type]
ArrayLevel(a) == [k |-> "array", a |-> a]
\* ExpandedMap: c is the context its values are read in when it is not the one around
\* it; of is "id" when a mere text was expanded to it (expanded_from_no_map).
MapLevel(entries, c) == [k |-> "map", entries |-> entries, c |-> c, of |-> "map"]
IdLevel(m) == [k |-> "id", m |-> m]

\* ExpandedMapEntry. A path is the keys and array positions down from the object.
NewEntry(key, reverse) ==
    [key |-> key, path |-> <<>>, values |-> <<>>, json |-> FALSE, list |-> FALSE,
     graph |-> FALSE, graphs |-> FALSE, reverse |-> reverse, langmap |-> FALSE,
     pre |-> None, c |-> None, next |-> None]
At(key) == [key |-> key]
Nth(i) == [i |-> i]

\* try_get_field along a path: the value at its end, or nothing
Lookup(o, path) ==
    LET at[i \in 0..Len(path)] ==
            IF i = 0 THEN Some(o)
            ELSE UNION {CASE IsObj(v) /\ "key" \in DOMAIN path[i] -> Field(v, path[i].key)
                          [] IsArr(v) /\ "i" \in DOMAIN path[i] ->
                                 {v.a[j] : j \in {path[i].i} \cap (1..Len(v.a))}
                          [] OTHER -> None : v \in at[i - 1]}
    IN IF path = <<>> THEN None ELSE at[Len(path)]

\* ValueArrayIter: an array gives its elements, anything else itself.
Items(v) == IF IsArr(v) THEN v.a ELSE <<v>>
ItemPath(v, i) == IF IsArr(v) THEN <<Nth(i)>> ELSE <<>>

KeywordEntries(entries, k) ==
    {entries[i] : i \in {j \in 1..Len(entries) : IsKeywordMapping(entries[j].key, k)}}
HasEntry(entries, k) == KeywordEntries(entries, k) # {}
FirstEntry(entries, k) ==
    entries[CHOOSE i \in 1..Len(entries) :
                /\ IsKeywordMapping(entries[i].key, k)
                /\ \A j \in 1..(i - 1) : ~IsKeywordMapping(entries[j].key, k)]

\* Keys and types are expanded in a context that is complete.
KeyOf(c, k) == Expansion("key", c, k, 0, 0, 0)

-----------------------------------------------------------------------------
(* Values                                                                  *)

\* stringify: the datatype of a JSON value. A number that fits no double is thrown.
DatatypeOf(v) ==
    CASE v.t = "bool" -> <<"xsd:boolean">>
      [] v.t = "num" -> IF v.n = "1.5" THEN <<"xsd:double">> ELSE <<"xsd:integer">>
      [] v.t = "str" -> <<"xsd:string">>
      [] OTHER -> <<>>
TextOf(v) ==
    CASE v.t = "bool" -> IF v.b THEN <<"true">> ELSE <<"false">>
      [] v.t = "num" -> <<v.n>>
      [] v.t = "str" -> v.s
      [] OTHER -> <<"null">>
Overflows(v) == v.t = "num" /\ v.n = "1e999"
JsonLiteral(v) == TypedLevel(<<"json", v.t>>, <<"rdf:JSON">>)

\* value_expansion, both overloads: by the type mapping of the term, else as it is
value_expansion(c, property, v, st) ==
    LET term == TermOf(c, get_search_key(property))
        type == UNION {t.type : t \in term}
        lang == IF term = None THEN c.language
                ELSE OrLanguage(TheOne(term).language, c.language)
        tag == IF lang \in {NotSet, NoLanguage} THEN None ELSE Some(lang)
        dir == IF \E t \in term : t.direction # "none" THEN TheOne(term).direction
               ELSE c.direction
        r == expanded_iri(c, v.s, TRUE, type = Some(<<"@vocab">>), st)
        coerced == type # None /\ type \notin {Some(<<"@id">>), Some(<<"@vocab">>),
                                               Some(<<"@none">>)}
        Is(l) == [e |-> "", st |-> st, l |-> l]
    IN CASE IsStr(v) /\ type \in {Some(<<"@id">>), Some(<<"@vocab">>)} ->
                [e |-> r.e, st |-> r.st, l |-> IdLevel(r.m)]
         [] ~IsStr(v) /\ type = Some(<<"@json">>) ->
                IF Overflows(v) THEN [Is(NullLevel) EXCEPT !.e = "BadLiteral"]
                ELSE Is(JsonLiteral(v))
         [] IsStr(v) /\ coerced -> Is(TypedLevel(v.s, TheOne(type)))
         [] IsStr(v) /\ ~coerced /\ type \notin {Some(<<"@id">>), Some(<<"@vocab">>)} ->
                Is(StringLevel(v.s, tag, dir))
         [] OTHER ->
                IF Overflows(v) THEN [Is(NullLevel) EXCEPT !.e = "BadLiteral"]
                ELSE Is(TypedLevel(TextOf(v),
                                   IF coerced THEN TheOne(type) ELSE DatatypeOf(v)))

\* is_list_object, is_graph_object: an object of the keyword, with at most the other
\* keywords that may go with it, each of them once
OnlyKeywords(v, c, k, others) ==
    LET keys == [i \in 1..Len(v.m) |-> KeyOf(c, v.m[i][1])]
    IN /\ IsObj(v)
       /\ \A i \in 1..Len(keys) : \E w \in others \cup {k} : IsKeywordMapping(keys[i], w)
       /\ \A i, j \in 1..Len(keys) : i # j => keys[i].d # keys[j].d
       /\ \E i \in 1..Len(keys) : IsKeywordMapping(keys[i], k)
is_list_object(v, c) == OnlyKeywords(v, c, <<"@list">>, {<<"@index">>})
is_graph_object(v, c) == OnlyKeywords(v, c, <<"@graph">>, {<<"@index">>, <<"@id">>})

-----------------------------------------------------------------------------
(* Contexts that apply to a part of the document                           *)

\* The context of a term, as its definition holds it (never a scalar), processed on
\* top of c
Scoped(c, term, override, propagate, st, d) ==
    LET json == TheOne(term.context)
        p == ContextParams(c, json.url, <<>>, override, propagate, TRUE, FALSE)
    IN local_context(json.json, p, [st EXCEPT !.n = 0], d)
HasContext(c, key) == \E t \in TermOf(c, key) : t.context # None

\* Step 7: an object leaves a type-scoped context behind, unless it is a value object
\* or does nothing but name a node. The first @value ends the search.
Leaves(c, o) ==
    LET keys == {KeyOf(c, o.m[i][1]) : i \in 1..Len(o.m)}
        id(m) == IsKeywordMapping(m, <<"@id">>)
    IN /\ \A m \in keys : ~IsKeywordMapping(m, <<"@value">>)
       /\ ~((\E m \in keys : id(m)) /\ \A m \in keys : id(m))

\* Step 9: the context an object carries itself
OwnContext(v, c, st, d) ==
    LET p == ContextParams(c, DocumentBase, <<>>, FALSE, TRUE, TRUE, FALSE)
    IN local_context(TheOne(Field(v, <<"@context">>)), p, [st EXCEPT !.n = 0], d)

\* Step 11: the contexts of the types, in the order of the sorted keys and under each
\* key in the order of the sorted types. The terms are those of the context before.
Sorted(texts) == SelectSeq(TypeOrder, LAMBDA x : x \in texts)
TypesUnder(o, key) ==
    UNION {IF IsStr(v) THEN {v.s}
           ELSE IF IsArr(v) THEN {x.s : x \in {y \in Range(v.a) : IsStr(y)}} ELSE {}
              : v \in Field(o, key)}
\* Mutation: the keys for the type are taken as they come.
TypesAsWritten(o, c) ==
    LET keys == SelectSeq([i \in 1..Len(o.m) |-> o.m[i][1]],
                          LAMBDA k : IsKeywordMapping(KeyOf(c, k), <<"@type">>))
    IN FlattenSeq([i \in 1..Len(keys) |-> Sorted(TypesUnder(o, keys[i]))])
TypeSequence(o, c) ==
    LET keys == Sorted({k \in {o.m[i][1] : i \in 1..Len(o.m)} :
                           IsKeywordMapping(KeyOf(c, k), <<"@type">>)})
    IN FlattenSeq([i \in 1..Len(keys) |-> Sorted(TypesUnder(o, keys[i]))])

\* set: whether some context was processed; input: what the first known type expands to
TypeContexts(o, c, st, d) ==
    LET types == TypeSequence(o, c)
        begin == [set |-> FALSE, input |-> None] @@ Outcome(c, st)
        run[i \in 0..Len(types)] ==
            IF i = 0 THEN begin
            ELSE LET r == run[i - 1]
                     m == KeyOf(r.c, types[i])
                     input == IF r.input = None /\ m.t # "none" THEN Some(m.d)
                              ELSE r.input
                     s == Scoped(r.c, TheOne(TermOf(c, types[i])), FALSE, FALSE, r.st, d)
                 IN IF r.e # "" THEN r
                    ELSE IF ~HasContext(c, types[i]) THEN [r EXCEPT !.input = input]
                    ELSE [set |-> TRUE, input |-> input, e |-> s.e, st |-> s.st,
                          c |-> IF s.e = "" THEN s.c ELSE r.c]
    IN run[Len(types)]

-----------------------------------------------------------------------------
(* The entries of an object (expand_level_nested_recursive)                *)

\* What is collected: an error, the session, the entries
Collected(e, st, es) == [e |-> e, st |-> st, es |-> es]
WithEntry(acc, x) == [acc EXCEPT !.es = Append(@, x)]
Refused(acc) == [acc EXCEPT !.e = "BadSyntax"]

\* A level to expand, ExpandParams: the context, the property it is the value of,
\* the element, whether it is the value of an id, type or index map, JSON as it is
Level(c, prop, v, map, json) ==
    [c |-> c, prop |-> prop, v |-> v, map |-> map, json |-> json]


\* A fold over the elements of a sequence that stops at the first error
OverSeq(s, acc, Op(_, _)) ==
    LET run[i \in 0..Len(s)] ==
            IF i = 0 THEN acc
            ELSE IF run[i - 1].e # "" THEN run[i - 1] ELSE Op(run[i - 1], i)
    IN run[Len(s)]

\* @type: the types expand in the context before the type-scoped ones, and several
\* keys for @type are one entry.
TypeEntry(n, acc, m, v) ==
    LET texts == Items(v)
        old == {i \in 1..Len(acc.es) : SameMapping(acc.es[i].key, m)}
        all == OverSeq(texts, [e |-> "", st |-> acc.st, ms |-> <<>>], LAMBDA a, i :
                  LET r == expanded_iri(n.tc, texts[i].s, TRUE, TRUE, a.st)
                  IN IF ~IsStr(texts[i]) THEN [a EXCEPT !.e = "BadSyntax"]
                     ELSE [e |-> r.e, st |-> r.st, ms |-> Append(a.ms, r.m)])
        next == [acc EXCEPT !.e = all.e, !.st = all.st]
    IN CASE ~IsStr(v) /\ ~IsArr(v) -> Refused(acc)
         [] (IsStr(v) \/ IsArr(v)) /\ (all.e # "" \/ all.ms = <<>>) -> next
         [] OTHER ->
              IF old # {} THEN [next EXCEPT !.es[TheOne(old)].values = @ \o all.ms]
              ELSE WithEntry(next, [NewEntry(m, n.reverse) EXCEPT !.values = all.ms])

\* Step 13.4: a key that is a keyword
KeywordEntry(n, acc, k, v, m, d) ==
    LET is(w) == m.d = <<w>>
        at == Append(n.path, At(k))
        entry == NewEntry(m, n.reverse)
        there == [entry EXCEPT !.path = at]
        id == expanded_iri(n.c, v.s, TRUE, FALSE, acc.st)
        inner(path, reverse) ==
            [n EXCEPT !.path = path, !.reverse = reverse, !.nested = TRUE]
        graph == n.prop.t = "none" \/ IsKeywordMapping(n.prop, <<"@graph">>)
        nested[i \in 0..Len(Items(v))] ==
            IF i = 0 THEN acc
            ELSE IF nested[i - 1].e # "" THEN nested[i - 1]
            ELSE IF ~IsObj(Items(v)[i]) THEN Refused(nested[i - 1])
            ELSE expand_level_nested_recursive(inner(at \o ItemPath(v, i), n.reverse),
                                               Items(v)[i], nested[i - 1], d + 1)
    IN CASE (\E i \in 1..Len(acc.es) : SameMapping(acc.es[i].key, m))
            /\ ~is("@type") /\ ~is("@included") -> Refused(acc)
         [] is("@type") -> TypeEntry(n, acc, m, v)
         [] OTHER ->
              CASE is("@id") ->
                      IF ~IsStr(v) THEN Refused(acc)
                      ELSE [WithEntry(acc, [entry EXCEPT !.values = <<id.m>>])
                               EXCEPT !.e = id.e, !.st = id.st]
                [] is("@graph") \/ is("@included") \/ is("@set") ->
                      WithEntry(acc, there)
                [] is("@value") ->
                      IF n.nested \/ ~(n.input = Some(<<"@json">>) \/ IsScalar(v))
                      THEN Refused(acc)
                      ELSE WithEntry(acc, [there EXCEPT !.json = n.input = Some(<<"@json">>)])
                [] is("@language") \/ is("@index") ->
                      IF IsStr(v) THEN WithEntry(acc, there) ELSE Refused(acc)
                [] is("@direction") ->
                      IF ~IsDirection(v) THEN Refused(acc)
                      ELSE WithEntry(acc, [entry EXCEPT !.values =
                                              <<Mapping(v.s, "none", <<>>)>>])
                [] is("@list") -> IF graph THEN acc ELSE WithEntry(acc, there)
                [] is("@reverse") ->
                      IF ~IsObj(v) THEN Refused(acc)
                      ELSE expand_level_nested_recursive(inner(at, ~n.reverse), v, acc, d + 1)
                [] is("@nest") -> nested[Len(Items(v))]
                [] OTHER -> acc

\* Step 13.8: the value of an index, id or type map. Each item becomes an entry whose
\* value is expanded here and carries what its key says.
\* What the key adds to the item r: an entry, its error and the session after it
Keyed(n, index, r, item, term) ==
    LET has(x) == x \in term.container
        named == KeyOf(n.c, index)
        none == IsKeywordMapping(named, <<"@none">>)
        lacks(kw) == r.l.k # "map" \/ ~HasEntry(r.l.entries, <<kw>>)
        by(x) == has(x) /\ ~(has("@index") /\ (item # None \/ lacks("@index")))
        re == value_expansion(n.c, TheOne(item), Str(index), r.st)
        id == expanded_iri(n.c, index, TRUE, FALSE, r.st)
        keyword(kw, x) == Some([NewEntry(Keyword(<<kw>>), FALSE) EXCEPT !.values = <<x>>])
        Adds(e, st, x) == [e |-> e, st |-> st, x |-> x]
    IN CASE none -> Adds("", r.st, None)
         [] ~none /\ has("@index") /\ item # None ->
                Adds(re.e, re.st, Some([NewEntry(KeyOf(n.c, TheOne(item).d), FALSE)
                                           EXCEPT !.pre = Some(re.l)]))
         [] ~none /\ by("@id") /\ lacks("@id") -> Adds(id.e, id.st, keyword("@id", id.m))
         [] ~none /\ by("@type") /\ ~has("@id") -> Adds("", r.st, keyword("@type", named))
         [] OTHER -> Adds("", r.st, None)

MapEntry(acc, r, added, entry) ==
    LET next == IF r.l.k = "map" /\ added.x # None
                THEN [r.l EXCEPT !.entries = Append(@, TheOne(added.x))] ELSE r.l
    IN CASE ~Ok(added) -> Collected(added.e, added.st, acc.es)
         [] Ok(added) /\ added.x # None /\ r.l.k # "map" ->
                Collected("BadSyntax", added.st, acc.es)
         [] OTHER ->
                Collected("", added.st, Append(acc.es, [entry EXCEPT !.next = Some(next)]))
Item(n, acc, k, index, r, entry, term) ==
    LET prop == UNION {IF t.index.t = "none" THEN {} ELSE {t.index} : t \in TermOf(n.c, k)}
    IN IF Ok(r) THEN MapEntry(acc, r, Keyed(n, index, r, prop, term), entry)
       ELSE Collected(r.e, r.st, acc.es)

MapItem(n, acc, k, index, w, i, m, term, mapc, d) ==
    LET item == Items(w)[i]
        graph == "@graph" \in term.container /\ ~is_graph_object(item, n.c)
        wrapped == MapLevel(<<[NewEntry(Keyword(<<"@graph">>), FALSE) EXCEPT
                                  !.path = <<At(index)>> \o ItemPath(w, i)]>>, None)
        r == IF graph THEN [e |-> "", st |-> acc.st, l |-> wrapped]
             ELSE expand_level(Level(mapc, m, item, TRUE, FALSE), acc.st, d + 1)
        path == IF graph THEN Append(n.path, At(k))
                ELSE n.path \o <<At(k), At(index)>> \o ItemPath(w, i)
        entry == [NewEntry(m, IF term.reverse THEN ~n.reverse ELSE n.reverse) EXCEPT
                     !.path = path, !.c = Some(mapc)]
    IN Item(n, acc, k, index, r, entry, term)

\* The items of an id or a type map are read in the context before a type-scoped one,
\* those of a type map in the context of that type.
MapEntries(n, acc, k, v, m, term, d) ==
    LET base == IF term.container \cap {"@id", "@type"} # {} /\ n.c.prev # None
                THEN TheOne(n.c.prev) ELSE n.c
        Key(a, index, w) ==
            LET scoped == "@type" \in term.container /\ HasContext(base, index)
                s == Scoped(base, TheOne(TermOf(base, index)), FALSE, TRUE, a.st, d)
                item[i \in 0..Len(Items(w))] ==
                    IF i = 0 THEN (IF scoped THEN [a EXCEPT !.st = s.st] ELSE a)
                    ELSE IF item[i - 1].e # "" THEN item[i - 1]
                    ELSE MapItem(n, item[i - 1], k, index, w, i, m, term,
                                 IF scoped THEN s.c ELSE base, d)
            IN IF scoped /\ s.e # "" THEN Collected(s.e, s.st, a.es)
               ELSE item[Len(Items(w))]
        over[j \in 0..Len(v.m)] ==
            IF j = 0 THEN acc
            ELSE IF over[j - 1].e # "" THEN over[j - 1]
            ELSE Key(over[j - 1], v.m[j][1], v.m[j][2])
    IN over[Len(v.m)]

\* Steps 13.5 to 13.13: a key that is an IRI
PropertyEntry(n, acc, k, v, m, d) ==
    LET term == TermOf(n.c, get_search_key(m))
        holds(kind) == \E t \in term : kind \in t.container
        json == \E t \in term : t.type = Some(<<"@json">>)
        many == holds("@graph") /\ ~holds("@id") /\ ~holds("@index")
        entry == [NewEntry(m, IF \E t \in term : t.reverse THEN ~n.reverse ELSE n.reverse)
                     EXCEPT !.path = Append(n.path, At(k)),
                            !.json = json,
                            !.langmap = ~json /\ holds("@language") /\ IsObj(v),
                            !.list = holds("@list") /\ ~is_list_object(v, n.c),
                            !.graphs = many /\ IsArr(v),
                            !.graph = many /\ ~IsArr(v)]
        maps == \/ holds("@index")
                \/ holds("@type")
                \/ holds("@id")
    IN CASE ~json /\ ~(holds("@language") /\ IsObj(v)) /\ maps /\ IsObj(v) ->
                MapEntries(n, acc, k, v, m, TheOne(term), d)
         [] ~json /\ IsNull(v) -> acc
         [] OTHER -> WithEntry(acc, entry)

\* Keys that expand to neither a keyword nor an absolute IRI are dropped.
ExpandEntries(n, o, acc, d) ==
    LET Key(a, k, v) ==
            LET m == KeyOf(n.c, k)
            IN CASE k = <<"@context">> -> a
                 [] k # <<"@context">> /\ m.t = "keyword" -> KeywordEntry(n, a, k, v, m, d)
                 [] OTHER -> IF m.t = "none" \/ FirstColon(m.d) = 0 THEN a
                             ELSE PropertyEntry(n, a, k, v, m, d)
        over[j \in 0..Len(o.m)] ==
            IF j = 0 THEN acc
            ELSE IF over[j - 1].e # "" THEN over[j - 1]
            ELSE Key(over[j - 1], o.m[j][1], o.m[j][2])
    IN IF d >= StackLimit THEN [acc EXCEPT !.e = "LimitExceeded"] ELSE over[Len(o.m)]

-----------------------------------------------------------------------------
(* One level (expand_level)                                                *)

\* Step 4: a text, a number or a truth value, read in the context of its property
ScalarLevel(q, st, d) ==
    LET scoped == HasContext(q.c, get_search_key(q.prop))
        s == Scoped(q.c, TheOne(TermOf(q.c, get_search_key(q.prop))), FALSE, TRUE, st, d)
        r == IF scoped THEN value_expansion(s.c, q.prop, q.v, s.st)
             ELSE value_expansion(q.c, q.prop, q.v, st)
        id == [NewEntry(Keyword(<<"@id">>), FALSE) EXCEPT !.values = <<r.l.m>>]
    IN CASE q.prop.t = "none" \/ IsKeywordMapping(q.prop, <<"@graph">>) ->
                [e |-> "", st |-> st, l |-> NullLevel]
         [] scoped /\ q.prop.t # "none" /\ s.e # "" ->
                [e |-> s.e, st |-> s.st, l |-> NullLevel]
         [] OTHER -> IF r.l.k = "id"
                     THEN [r EXCEPT !.l = [MapLevel(<<id>>, None) EXCEPT !.of = "id"]]
                     ELSE r

\* Step 15: an object with @value is a literal and nothing else.
ValueObject(v, es, st) ==
    LET x == TheOne(Lookup(v, FirstEntry(es, <<"@value">>).path))
        has(kw) == HasEntry(es, <<kw>>)
        types == FirstEntry(es, <<"@type">>).values
        tag == Some(TheOne(Lookup(v, FirstEntry(es, <<"@language">>).path)).s[1])
        dir == FirstEntry(es, <<"@direction">>).values[1].d[1]
        bad == [e |-> "BadSyntax", st |-> st, l |-> NullLevel]
        Is(l) == [e |-> "", st |-> st, l |-> l]
        number == IF Overflows(x) THEN [bad EXCEPT !.e = "BadLiteral"]
                  ELSE Is(TypedLevel(TextOf(x), IF has("@type") THEN types[1].d
                                                ELSE DatatypeOf(x)))
    IN CASE \/ \E i \in 1..Len(es) : ~\E w \in {"@direction", "@index", "@language",
                                                "@type", "@value"} :
                  IsKeywordMapping(es[i].key, <<w>>)
            \/ has("@type") /\ (has("@language") \/ has("@direction")) -> bad
         [] OTHER ->
              IF has("@type") /\ \E i \in 1..Len(types) : types[i] = Keyword(<<"@json">>)
              THEN IF Overflows(x) THEN number ELSE Is(JsonLiteral(x))
              ELSE IF IsNull(x) THEN Is(NullLevel)
              ELSE IF has("@language") \/ has("@direction")
              THEN IF ~IsStr(x) THEN bad
                   ELSE Is(StringLevel(x.s, IF has("@language") THEN tag ELSE None,
                                       IF has("@direction") THEN dir ELSE "none"))
              ELSE IF has("@type") /\ (Len(types) # 1 \/ types[1].t # "iri") THEN bad
              ELSE number

\* Steps 15 to 20: what the entries of an object amount to
ObjectLevel(q, es, c, st, d) ==
    LET has(kw) == HasEntry(es, <<kw>>)
        single(kw) == has(kw) /\ Len(es) = 1
        set == TheOne(Lookup(q.v, FirstEntry(es, <<"@set">>).path))
        graph == q.prop.t = "none" \/ IsKeywordMapping(q.prop, <<"@graph">>)
        Is(l) == [e |-> "", st |-> st, l |-> l]
    IN CASE has("@value") -> ValueObject(q.v, es, st)
         [] ~has("@value") /\ (has("@set") \/ has("@list")) ->
              IF Len(es) # (IF has("@index") THEN 2 ELSE 1)
              THEN [e |-> "BadSyntax", st |-> st, l |-> NullLevel]
              ELSE IF ~has("@set") THEN Is(MapLevel(es, c))
              ELSE IF IsArr(set) THEN Is(ArrayLevel(set.a))
              ELSE expand_level([q EXCEPT !.v = set, !.json = FALSE], st, d + 1)
         [] OTHER ->
              IF \/ single("@language")
                 \/ graph /\ (es = <<>> \/ single("@id"))
              THEN Is(NullLevel) ELSE Is(MapLevel(es, c))

\* ExpandParser::expand_level. The property-scoped context is processed on top of the
\* context the object was met in, not of the one step 7 went back to.
Leave(q) ==
    IF q.c.prev # None /\ ~q.map /\ Leaves(q.c, q.v) THEN TheOne(q.c.prev) ELSE q.c
LevelContext(q, scoped, d) ==
    IF ~Ok(scoped) \/ Field(q.v, <<"@context">>) = None THEN scoped
    ELSE OwnContext(q.v, scoped.c, scoped.st, d)
NoLevel(e, st) == [e |-> e, st |-> st, l |-> NullLevel]

\* The entries of the object, in the contexts found for it
OfEntries(q, es, c, d) ==
    IF Ok(es) THEN ObjectLevel(q, es.es, c, es.st, d) ELSE NoLevel(es.e, es.st)
OfTyped(q, own, typed, d) ==
    LET n == [c |-> typed.c, tc |-> own, path |-> <<>>, prop |-> q.prop,
              input |-> typed.input, reverse |-> FALSE, nested |-> FALSE]
        set == \/ HasContext(q.c, get_search_key(q.prop))
               \/ Field(q.v, <<"@context">>) # None
               \/ typed.set
    IN IF ~Ok(typed) THEN NoLevel(typed.e, typed.st)
       ELSE OfEntries(q, expand_level_nested_recursive(n, q.v, Collected("", typed.st, <<>>),
                                                       d + 1),
                      IF set THEN Some(typed.c) ELSE None, d)
OfContext(q, own, d) ==
    IF Ok(own) THEN OfTyped(q, own.c, TypeContexts(q.v, own.c, own.st, d), d)
    ELSE NoLevel(own.e, own.st)

ExpandLevel(q, st, d) ==
    LET key == get_search_key(q.prop)
        scoped == IF HasContext(q.c, key)
                  THEN Scoped(q.c, TheOne(TermOf(q.c, key)), TRUE, TRUE, st, d)
                  ELSE Outcome(Leave(q), st)
    IN CASE d >= StackLimit -> NoLevel("LimitExceeded", st)
         [] d < StackLimit /\ q.json ->
                IF Overflows(q.v) THEN NoLevel("BadLiteral", st)
                ELSE [e |-> "", st |-> st, l |-> JsonLiteral(q.v)]
         [] OTHER ->
              CASE IsNull(q.v) -> NoLevel("", st)
                [] IsScalar(q.v) /\ ~IsNull(q.v) -> ScalarLevel(q, st, d)
                [] IsArr(q.v) -> NoLevel("BadSyntax", st)
                [] OTHER -> OfContext(q, LevelContext(q, scoped, d), d)

Expansion(name, a, b, c, d, e) ==
    CASE name = "level" -> ExpandLevel(a, b, c)
      [] name = "entries" -> ExpandEntries(a, b, c, d)
      [] name = "key" -> iri_expansion(a, b, TRUE, 0, None, 0).m
      [] name = "iri" -> expand_iri(a, b, c, d, e)
      [] name = "context" -> parse_context(a, b, c, d)
=============================================================================
