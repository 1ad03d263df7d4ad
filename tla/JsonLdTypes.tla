---------------------------- MODULE JsonLdTypes ----------------------------
(***************************************************************************)
(* The values the JSON-LD parser works on.                                 *)
(*                                                                         *)
(* Text is a sequence of tokens: a colon, a slash and a keyword are tokens *)
(* of their own, so that what the code finds with find(':') is the place   *)
(* of a token, and append is concatenation.  A value that may be absent    *)
(* (std::optional, a pointer that may be null) is a set of at most one     *)
(* element.                                                                *)
(***************************************************************************)
EXTENDS Naturals, Sequences, FiniteSets, SequencesExt

None == {}
Some(x) == {x}
TheOne(o) == CHOOSE x \in o : TRUE

\* The JSON values simdjson hands to the parser.
Null == [t |-> "null"]
Str(s) == [t |-> "str", s |-> s]
Num(n) == [t |-> "num", n |-> n]
Bool(b) == [t |-> "bool", b |-> b]
Arr(a) == [t |-> "arr", a |-> a]
Obj(m) == [t |-> "obj", m |-> m]     \* m: a sequence of <<key, value>>

IsNull(v) == v.t = "null"
IsStr(v) == v.t = "str"
IsObj(v) == v.t = "obj"
IsArr(v) == v.t = "arr"
IsBool(v) == v.t = "bool"
IsScalar(v) == v.t \in {"null", "str", "num", "bool"}

\* obj[key]: the value under a key, or nothing
Field(o, key) ==
    {o.m[i][2] : i \in {j \in 1..Len(o.m) : o.m[j][1] = key}}

\* The field of the context itself hides the one of the context it @imports.
MergedField(o, import, key) ==
    IF Field(o, key) = None /\ import # None THEN Field(TheOne(import), key)
    ELSE Field(o, key)

\* A field with the type the caller asks for, `null` allowed: no such field, the
\* value, or an error.
NullOr(f, IsT(_)) == \A v \in f : IsNull(v) \/ IsT(v)
OnlyA(f, IsT(_)) == \A v \in f : IsT(v)

Keywords ==
    {<<k>> : k \in {"@base", "@container", "@context", "@direction", "@graph", "@id",
                    "@import", "@included", "@index", "@json", "@language", "@list",
                    "@nest", "@none", "@prefix", "@propagate", "@protected",
                    "@reverse", "@set", "@type", "@value", "@version", "@vocab"}}
is_keyword(s) == s \in Keywords

\* A text with the form of a keyword that is none of them is ignored wherever it
\* would define or name something.
looks_like_keyword(s) == is_keyword(s) \/ s = <<"@other">>

\* The first colon of a text, 0 if there is none
FirstColon(s) ==
    LET at == {i \in 1..Len(s) : s[i] = ":"}
    IN IF at = {} THEN 0 ELSE CHOOSE i \in at : \A j \in at : i <= j
HasSlash(s) == \E i \in 1..Len(s) : s[i] \in {"/", "//"}
Upto(s, n) == SubSeq(s, 1, n)
From(s, n) == SubSeq(s, n, Len(s))

\* IRIMapping: what a text expands to, of type none, iri, bn or keyword; key is the
\* text it was found under when that was a term.
Mapping(d, t, k) == [d |-> d, t |-> t, k |-> k]
NoMapping == Mapping(<<>>, "none", <<>>)
Keyword(k) == Mapping(k, "keyword", <<>>)
Iri(d) == Mapping(d, "iri", <<>>)
Bnode(d) == Mapping(d, "bn", <<>>)
SameMapping(a, b) == a.d = b.d /\ a.t = b.t
IsKeywordMapping(m, k) == m.t = "keyword" /\ m.d = k
get_search_key(m) == IF m.k = <<>> THEN m.d ELSE m.k

\* LanguageMapping: NotSet gives way to the language of the context, Null does not.
NotSet == "not set"
NoLanguage == "null"
OrLanguage(a, b) == IF a = NotSet THEN b ELSE a

keyword_to_container_mapping(k) ==
    IF k \in {<<"@graph">>, <<"@id">>, <<"@index">>, <<"@language">>, <<"@list">>,
              <<"@set">>, <<"@type">>}
    THEN {k[1]} ELSE {}

\* TermDefinition(key): nothing of it is parsed yet.
NewTerm(key) ==
    [key |-> key, iri |-> NoMapping, context |-> None, index |-> NoMapping,
     language |-> NotSet, nest |-> None, type |-> None, container |-> {},
     direction |-> "none", prefix |-> FALSE, reverse |-> FALSE, simple |-> FALSE,
     protected |-> FALSE, check |-> FALSE, ignored |-> FALSE,
     state |-> "not started", remotes |-> <<>>]

\* TermDefinitionBase: what two definitions are compared by. The text a mapping was
\* found under does not count.
BaseOf(t) ==
    <<t.key, t.iri.d, t.iri.t, t.context, t.index.d, t.index.t, t.language, t.nest,
      t.type, t.container, t.direction, t.prefix, t.reverse, t.simple>>

Context(base, prev) ==
    [terms |-> <<>>, base |-> base, vocab |-> None, prev |-> prev,
     language |-> NotSet, direction |-> "none"]

\* Context::try_find_term: the position of a term, 0 for none. An ignored term is
\* like no term.
try_find_term(c, key) ==
    LET at == {i \in 1..Len(c.terms) : c.terms[i].key = key /\ ~c.terms[i].ignored}
    IN IF at = {} THEN 0 ELSE CHOOSE i \in at : \A j \in at : i <= j

\* The term under a key as a value that may be absent
TermOf(c, key) ==
    IF try_find_term(c, key) = 0 THEN None ELSE Some(c.terms[try_find_term(c, key)])
=============================================================================
