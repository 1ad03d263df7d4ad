--------------------------- MODULE JsonLdContext ---------------------------
(***************************************************************************)
(* Context processing of the JSON-LD parser (json_ld::ContextParser and    *)
(* json_ld::RemoteContextCache): a local context is merged into the active *)
(* one, its terms are defined in dependency order, remote contexts are     *)
(* requested, cached and processed in place.                               *)
(*                                                                         *)
(* Operators stand for the functions of the class. What a function changes *)
(* besides its result is part of what its operator returns: the context    *)
(* whose terms are being defined, and the session st, which is what the    *)
(* ContextParser keeps from one context to the next: the cache, the base   *)
(* the IRI factory was left with, the requests made so far, and the count  *)
(* of remote contexts of the @context in hand.                             *)
(***************************************************************************)
EXTENDS JsonLdTypes

CONSTANTS
    Server,          \* what request_url answers: URL -> response
    RemoteLimit,     \* ParsingState::remote_context_size_limit
    StackLimit,      \* nested calls the stack limiter lets through
    DocumentBase,    \* the base IRI of the document (original_base_iri)
    KeepLabels       \* keep_document_bnode_labels

NewSession == [cache |-> <<>>, base |-> DocumentBase, requests |-> <<>>, n |-> 0]

\* Resolving a reference is the business of the IRI factory: here it only matters
\* what is resolved against what.
IsRelative(url) == FirstColon(url) = 0
Resolved(base, ref) == IF IsRelative(ref) THEN base \o ref ELSE ref
\* IRIView::quick_validate: the one defect a text here can have is a space.
ValidIri(url) == \A i \in 1..Len(url) : url[i] # " "
SetBase(st, base) == [st EXCEPT !.base = base]

\* Outcomes: an error type, empty for none, with what was reached so far
Reached(c) == [e |-> "", c |-> c]
Failed(c, e) == [e |-> e, c |-> c]
Mapped(c, m) == [e |-> "", c |-> c, m |-> m]
Unmapped(c, e) == [e |-> e, c |-> c, m |-> NoMapping]
Ok(r) == r.e = ""
\* A step that is only taken if the one before it went well
Then(r, s) == IF Ok(r) THEN s ELSE r
WithTerm(c, i, t) == [c EXCEPT !.terms[i] = t]

\* The algorithms call each other: a term is defined in the middle of another one that
\* needs it, a remote context is processed inside the one that names it. The recursion
\* goes through one operator, which is defined at the end of the module.
RECURSIVE Algorithm(_, _, _, _, _, _, _)
resolve(url, st, d) == Algorithm("resolve", url, st, d, 0, 0, 0)
parse_context_term(p, c, i, d) == Algorithm("term", p, c, i, d, 0, 0)
iri_expansion(c, value, vocab, skip, p, d) ==
    Algorithm("iri", c, value, vocab, skip, p, d)
parse_context(v, p, st, d) == Algorithm("context", v, p, st, d, 0, 0)

-----------------------------------------------------------------------------
(* The cache of remote contexts                                            *)

Response(url) == IF url \in DOMAIN Server THEN Server[url] ELSE [kind |-> "fail"]

\* Mutation: a redirected document is cached under the URL it came from only.
CacheFinal(url, r) ==
    (IF r.final = <<>> THEN url ELSE r.final) :> [data |-> r.body, final |-> r.final]
\* What the cache gets for a document
CacheEntries(url, r) ==
    LET entry == [data |-> r.body, final |-> r.final]
    IN IF r.final \in {<<>>, url} THEN url :> entry
       ELSE (r.final :> entry) @@ (url :> entry)

\* The page is stored beside what its alternate link leads to.
Linked(url, target, r) ==
    Then(r, [r EXCEPT !.st.cache = r.st.cache @@ (url :> r.st.cache[target])])

\* RemoteContextCache::resolve. A redirect stores the document under both URLs, an
\* alternate link under the URL of the page and, by the nested call, its own.
Resolve(r, url, st, d) ==
    LET s == [st EXCEPT !.requests = Append(@, url)]
        failed(e) == [e |-> e, st |-> s]
        from == SetBase(s, IF r.final = <<>> THEN url ELSE r.final)
        target == Resolved(from.base, TheOne(r.link))
    IN CASE url \in DOMAIN st.cache ->
                [e |-> "", st |-> st, data |-> st.cache[url].data,
                 final |-> st.cache[url].final]
         [] r.kind = "fail" -> failed("RemoteContext")
         [] r.kind = "json" /\ ~IsObj(r.body) -> failed("RemoteContext")
         [] r.kind = "json" /\ IsObj(r.body) ->
                [e |-> "", st |-> [s EXCEPT !.cache = s.cache @@ CacheEntries(url, r)],
                 data |-> r.body, final |-> r.final]
         [] r.kind = "other" /\ r.link = None -> failed("RemoteContext")
         [] r.kind = "other" /\ d >= StackLimit -> failed("LimitExceeded")
         [] OTHER -> Linked(url, target, resolve(target, from, d + 1))

-----------------------------------------------------------------------------
(* IRI expansion                                                           *)

\* What defining a term needs besides the active context: the local context and the
\* one it imports, the definitions it replaces, and the flags of the call.
TermParams(lc, import, previous, url, remotes, protected, override) ==
    [lc |-> lc, im |-> import, previous |-> previous, url |-> url,
     remotes |-> remotes, protected |-> protected, override |-> override]


\* Mutation: the definitions are left to be made in the order of the context.
DefineNothing(c, key, p, skip, d) == Reached(c)

\* Steps 3 and 6 define the term a text depends on before they use it.
DefineFirst(c, key, p, skip, d) ==
    LET i == try_find_term(c, key)
    IN IF p = None \/ i = 0 \/ i = skip \/ c.terms[i].state = "done" THEN Reached(c)
       ELSE parse_context_term(TheOne(p), c, i, d + 1)

\* Mutation: the labels are kept as they are.
LabelAsIs(post) == post
\* The label of a blank node of the document, which gets a prefix of its own
DocumentLabel(post) == IF KeepLabels THEN post ELSE <<"bn_n">> \o post

\* The part of a text before its first colon names a term, a blank node or a scheme.
OfTerm(c, pre, post, value) ==
    LET term == TermOf(c, pre)
    IN IF \E t \in term : t.iri.t # "none" /\ t.prefix
       THEN [found |-> TRUE] @@
            Mapped(c, Mapping(TheOne(term).iri.d \o post, "iri", value))
       ELSE [found |-> ValidIri(value)] @@ Mapped(c, Iri(value))
Prefixed(r, pre, post, value) ==
    IF Ok(r) THEN OfTerm(r.c, pre, post, value)
    ELSE [found |-> TRUE] @@ Unmapped(r.c, r.e)
ExpandCompact(c, value, p, d) ==
    LET at == FirstColon(value)
        pre == Upto(value, at - 1)
        post == From(value, at + 1)
    IN CASE pre = <<"_">> -> [found |-> TRUE] @@ Mapped(c, Bnode(DocumentLabel(post)))
         [] pre # <<"_">> /\ post # <<>> /\ Head(post) = "//" ->
                [found |-> TRUE] @@ Mapped(c, Iri(value))
         [] OTHER -> Prefixed(DefineFirst(c, pre, p, 0, d), pre, post, value)

\* ContextParser::iri_expansion without step 8, the only one that needs the session
InVocab(c, value, vocab) ==
    Mapped(c, IF vocab /\ c.vocab # None THEN Iri(TheOne(c.vocab) \o value) ELSE NoMapping)
Uncompacted(compact, value, vocab) ==
    IF compact.found THEN [e |-> compact.e, c |-> compact.c, m |-> compact.m]
    ELSE InVocab(compact.c, value, vocab)
ExpandKnown(first, value, vocab, skip, p, d) ==
    LET i == try_find_term(first.c, value)
        found == first.c.terms[i].iri
        used == i # 0 /\ i # skip /\ (vocab \/ found.t = "keyword")
    IN CASE ~Ok(first) -> Unmapped(first.c, first.e)
         [] Ok(first) /\ used -> Mapped(first.c, Mapping(found.d, found.t, value))
         [] OTHER -> IF FirstColon(value) > 1
                     THEN Uncompacted(ExpandCompact(first.c, value, p, d), value, vocab)
                     ELSE InVocab(first.c, value, vocab)
ExpandText(c, value, vocab, skip, p, d) ==
    CASE is_keyword(value) -> Mapped(c, Keyword(value))
      [] ~is_keyword(value) /\ looks_like_keyword(value) -> Mapped(c, NoMapping)
      [] OTHER -> ExpandKnown(DefineFirst(c, value, p, skip, d), value, vocab, skip, p, d)

\* Steps 8 and 9, for the callers whose text may be relative to the document and that no
\* step before applied to. They define no terms: only the base of the factory changes.
Relative(r, c, value, document_relative, st) ==
    LET open == ~looks_like_keyword(value) /\ r.m = NoMapping
    IN IF open /\ document_relative /\ c.base # <<>>
       THEN [e |-> "", m |-> Iri(Resolved(c.base, value)), st |-> SetBase(st, c.base)]
       ELSE [e |-> r.e, m |-> r.m, st |-> st]
expand_iri(c, value, document_relative, vocab, st) ==
    Relative(iri_expansion(c, value, vocab, 0, None, 0), c, value, document_relative, st)

-----------------------------------------------------------------------------
(* Term definitions                                                        *)

\* Every text of a definition that names something is expanded in the context being
\* built, which may define other terms first.
Expand(p, c, value, d) == iri_expansion(c, value, TRUE, 0, Some(p), d)

Bad(c) == Failed(c, "BadSyntax")

\* Mutation: nothing is checked.
ProtectedForgotten(p, c, i) == Reached(c)

\* check_protected: a protected definition that is not overridden stays as it was.
check_protected(p, c, i) ==
    LET old == {t \in Range(p.previous) : t.key = c.terms[i].key}
    IN IF p.override \/ \A t \in old : ~t.protected THEN Reached(c)
       ELSE IF BaseOf(TheOne(old)) # BaseOf(c.terms[i]) THEN Bad(c)
       ELSE Reached(WithTerm(c, i, TheOne(old)))

Done(c, i) == [c EXCEPT !.terms[i].state = "done"]

\* Step 4: the keyword @type may only be given a container @set and a protection.
TypeTerm(p, c, i, v) ==
    LET ok == /\ IsObj(v) /\ v.m # <<>>
              /\ \A j \in 1..Len(v.m) :
                    \/ v.m[j] = <<<<"@container">>, Str(<<"@set">>)>>
                    \/ v.m[j][1] = <<"@protected">> /\ IsBool(v.m[j][2])
        t == [c.terms[i] EXCEPT
                !.container = IF Field(v, <<"@container">>) # None THEN {"@set"} ELSE @,
                !.protected = IF Field(v, <<"@protected">>) = None THEN p.protected
                              ELSE TheOne(Field(v, <<"@protected">>)).b]
    IN IF ~ok THEN Bad(c) ELSE check_protected(p, Done(WithTerm(c, i, t), i), i)

\* Where the colon of a compact IRI may be: neither the first nor the last character
HasInnerColon(key) == \E j \in 2..(Len(key) - 1) : key[j] = ":"
EndsInDelimiter(iri) ==
    iri # <<>> /\ Last(iri) \in {":", "/", "?", "#", "[", "]", "@"}

\* handle_id: the IRI of a term that its definition states
handle_id(p, c, i, v, d) ==
    LET key == c.terms[i].key
        r == iri_expansion(c, v, TRUE, IF v = key THEN i ELSE 0, Some(p), d)
        named == [r.c EXCEPT !.terms[i].iri = r.m]
        done == Done(named, i)
        again == iri_expansion(done, key, TRUE, i, Some(p), d)
        prefix == \/ r.m.t = "iri" /\ EndsInDelimiter(r.m.d)
                  \/ r.m.t = "bn"
    IN CASE looks_like_keyword(v) /\ ~is_keyword(v) ->
                Reached([Done(c, i) EXCEPT !.terms[i].ignored = TRUE])
         [] r.e # "" -> Failed(r.c, r.e)
         [] r.m.t = "none" \/ IsKeywordMapping(r.m, <<"@context">>) -> Bad(r.c)
         [] HasInnerColon(key) \/ HasSlash(key) ->
                IF again.e # "" \/ ~SameMapping(again.m, r.m) THEN Bad(again.c)
                ELSE Reached(again.c)
         [] OTHER ->
                Reached([named EXCEPT !.terms[i].prefix =
                             @ \/ (named.terms[i].simple /\ prefix)])

\* Step 12
TypeMapping(p, c, i, ob, d) ==
    LET f == Field(ob, <<"@type">>)
        r == Expand(p, c, TheOne(f).s, d)
        ok == \/ r.m.t = "iri"
              \/ r.m.t = "keyword"
                 /\ r.m.d \in {<<"@json">>, <<"@none">>, <<"@id">>, <<"@vocab">>}
    IN IF f = None THEN Reached(c)
       ELSE IF ~OnlyA(f, IsStr) THEN Bad(c)
       ELSE IF r.e # "" THEN Failed(r.c, r.e)
       ELSE IF ~ok THEN Bad(r.c)
       ELSE Reached([r.c EXCEPT !.terms[i].type = Some(r.m.d)])

\* Step 13: a reverse property is complete here, the steps after it do not apply.
ReverseTerm(p, c, i, ob, d) ==
    LET v == TheOne(Field(ob, <<"@reverse">>))
        r == Expand(p, c, v.s, d)
        f == Field(ob, <<"@container">>)
        container == \A x \in f : IsNull(x) \/ x \in {Str(<<"@set">>), Str(<<"@index">>)}
        kind == UNION {IF IsNull(x) THEN {} ELSE {x.s[1]} : x \in f}
    IN IF ~IsStr(v) \/ Field(ob, <<"@id">>) # None \/ Field(ob, <<"@nest">>) # None
       THEN Bad(c)
       ELSE IF looks_like_keyword(v.s) /\ ~is_keyword(v.s)
       THEN Reached([Done(c, i) EXCEPT !.terms[i].ignored = TRUE])
       ELSE     IF r.e # "" THEN Failed(r.c, r.e)
                ELSE IF r.m.t \notin {"iri", "bn"} \/ ~container THEN Bad(r.c)
                ELSE Reached([Done(r.c, i) EXCEPT !.terms[i].iri = r.m,
                                                  !.terms[i].container = kind,
                                                  !.terms[i].reverse = TRUE])

\* Steps 14 to 18: the IRI of a term, stated or derived from the term itself
TermIri(p, c, i, ob, d) ==
    LET f == Field(ob, <<"@id">>)
        key == c.terms[i].key
        stated == f # None /\ f # Some(Str(key))
        \* the colon that splits the key: not its first character
        at == FirstColon(From(key, 2)) + 1
        j == try_find_term(c, Upto(key, at - 1))
        r == parse_context_term(p, c, j, d + 1)
        joined == Mapping(r.c.terms[j].iri.d \o From(key, at + 1), r.c.terms[j].iri.t,
                          r.c.terms[j].iri.k)
        plain == IF key[1] = "_" /\ at = 2 THEN Bnode(key) ELSE Iri(key)
        m == Expand(p, c, key, d)
        Is(cc, mapping) == Reached([cc EXCEPT !.terms[i].iri = mapping])
    IN CASE stated ->
              CASE ~NullOr(f, IsStr) -> Bad(c)
                [] IsNull(TheOne(f)) -> Is(c, NoMapping)
                [] OTHER -> handle_id(p, c, i, TheOne(f).s, d)
         [] ~stated /\ at > 1 ->
              IF j = 0 THEN Is(c, plain)
              ELSE IF r.e # "" THEN r ELSE Is(r.c, joined)
         [] ~stated /\ at = 1 /\ HasSlash(key) ->
              IF m.e # "" THEN Failed(m.c, m.e)
              ELSE IF m.m.t # "iri" THEN Bad(m.c) ELSE Is(m.c, m.m)
         [] OTHER ->
              IF c.vocab = None THEN Bad(c) ELSE Is(c, Iri(TheOne(c.vocab) \o key))

\* Step 19: which containers go together
ContainersOf(v) ==
    IF IsStr(v) THEN keyword_to_container_mapping(v.s)
    ELSE UNION {keyword_to_container_mapping(x.s) : x \in Range(v.a)}
KnownContainers(v) ==
    LET known(x) == IsStr(x) /\ keyword_to_container_mapping(x.s) # {}
    IN \/ known(v)
       \/ IsArr(v) /\ v.a # <<>> /\ \A x \in Range(v.a) : known(x)
Combine(k) ==
    \/ Cardinality(k) <= 1
    \/ /\ "@graph" \in k
       /\ ("@id" \in k) # ("@index" \in k)
       /\ k \subseteq {"@graph", "@id", "@index", "@set"}
    \/ /\ "@set" \in k
       /\ "@list" \notin k

Container(r, i, ob) ==
    LET f == Field(ob, <<"@container">>)
        c == r.c
        kinds == ContainersOf(TheOne(f))
        type == IF "@type" \notin kinds \/ c.terms[i].type # None THEN c.terms[i].type
                ELSE Some(<<"@id">>)
    IN IF ~Ok(r) \/ f = None THEN r
       ELSE IF ~KnownContainers(TheOne(f)) \/ ~Combine(kinds) THEN Bad(c)
       ELSE IF "@type" \in kinds /\ type \notin {Some(<<"@id">>), Some(<<"@vocab">>)}
       THEN Bad(c)
       ELSE Reached([c EXCEPT !.terms[i].container = kinds, !.terms[i].type = type])

\* Step 20
IndexMapping(p, held, i, ob, d) ==
    LET f == Field(ob, <<"@index">>)
        c == held.c
        r == Expand(p, c, TheOne(f).s, d)
    IN IF ~Ok(held) \/ f = None THEN held
       ELSE IF ~OnlyA(f, IsStr) \/ "@index" \notin c.terms[i].container THEN Bad(c)
       ELSE IF r.e # "" THEN Failed(r.c, r.e)
       ELSE IF r.m.t # "iri" THEN Bad(r.c)
       ELSE Reached([r.c EXCEPT !.terms[i].index = r.m])

\* Steps 21 to 25: the scoped context, kept as it is and checked at the end of the
\* whole context, then what concerns the values of the term.
ScopedContext(p, r, i, ob) ==
    LET f == Field(ob, <<"@context">>)
        v == TheOne(f)
        json == IF IsArr(v) \/ IsObj(v) THEN v ELSE Arr(<<v>>)
    IN IF ~Ok(r) \/ f = None THEN r
       ELSE Reached([r.c EXCEPT !.terms[i].context = Some([json |-> json, url |-> p.url]),
                              !.terms[i].check = TRUE,
                              !.terms[i].remotes = p.remotes])

Language(f) == IF IsNull(TheOne(f)) THEN NoLanguage ELSE TheOne(f).s[1]
IsDirection(v) == IsStr(v) /\ v.s \in {<<"ltr">>, <<"rtl">>}
Direction(f) == IF IsNull(TheOne(f)) THEN "none" ELSE TheOne(f).s[1]

KnownEntries(ob) ==
    \A j \in 1..Len(ob.m) :
        ob.m[j][1] \in {<<"@id">>, <<"@reverse">>, <<"@container">>, <<"@context">>,
                        <<"@direction">>, <<"@index">>, <<"@language">>, <<"@nest">>,
                        <<"@prefix">>, <<"@protected">>, <<"@type">>}

ValueEntries(r, i, ob) ==
    LET c == r.c
        lang == Field(ob, <<"@language">>)
        dir == Field(ob, <<"@direction">>)
        nest == Field(ob, <<"@nest">>)
        prefix == Field(ob, <<"@prefix">>)
        key == c.terms[i].key
        typed == Field(ob, <<"@type">>) # None
        ok == /\ typed \/ (NullOr(lang, IsStr) /\ NullOr(dir, IsDirection))
              /\ \A v \in nest : IsStr(v) /\ (is_keyword(v.s) => v.s = <<"@nest">>)
              /\ \A v \in prefix :
                    /\ IsBool(v)
                    /\ FirstColon(key) = 0 /\ ~HasSlash(key)
                    /\ v.b => c.terms[i].iri.t # "keyword"
    IN IF ~Ok(r) THEN r
       ELSE IF ~ok \/ ~KnownEntries(ob) THEN Bad(c)
       ELSE Reached([c EXCEPT
                !.terms[i].language = IF typed \/ lang = None THEN @ ELSE Language(lang),
                !.terms[i].direction = IF typed \/ dir = None THEN @ ELSE Direction(dir),
                !.terms[i].nest = {v.s : v \in nest},
                !.terms[i].prefix = IF prefix = None THEN @ ELSE TheOne(prefix).b])

\* Steps 10 to 26 in their order; ReverseTerm leaves early.
ObjectTerm(p, c, i, ob, d) ==
    LET prot == Field(ob, <<"@protected">>)
        start == [c EXCEPT !.terms[i].protected =
                      IF prot = None THEN p.protected ELSE TheOne(prot).b]
        typed == TypeMapping(p, start, i, ob, d)
        named == Then(typed, TermIri(p, typed.c, i, ob, d))
        indexed == IndexMapping(p, Container(named, i, ob), i, ob, d)
    IN IF ~OnlyA(prot, IsBool) THEN Bad(c)
       ELSE IF Ok(typed) /\ Field(ob, <<"@reverse">>) # None
       THEN ReverseTerm(p, typed.c, i, ob, d)
       ELSE ValueEntries(ScopedContext(p, indexed, i, ob), i, ob)

\* What ends a definition, but that of a reverse property
Finish(r, i) == Then(r, Reached(Done(r.c, i)))
Complete(p, r, i, reverse) ==
    IF reverse THEN r ELSE Finish(Then(r, check_protected(p, r.c, i)), i)

\* Mutation: a term in progress is begun again.
BeginsAgain(t) == FALSE

\* A term that is met again while it is defined: a cyclic mapping
InCircle(t) == t.state = "in progress"

\* ContextParser::parse_context_term: the Create Term Definition algorithm. A term in
\* progress that is met again maps to itself.
CreateTerm(p, c, i, d) ==
    LET t == c.terms[i]
        v == TheOne(MergedField(p.lc, p.im, t.key))
        begun == [c EXCEPT !.terms[i].state = "in progress"]
        plain == [begun EXCEPT !.terms[i].protected = p.protected,
                               !.terms[i].simple = IsStr(v)]
        r == CASE IsNull(v) -> Reached([plain EXCEPT !.terms[i].iri = NoMapping])
               [] IsStr(v) -> handle_id(p, plain, i, v.s, d)
               [] IsObj(v) -> ObjectTerm(p, begun, i, v, d)
               [] OTHER -> Bad(begun)
        reverse == IsObj(v) /\ Field(v, <<"@reverse">>) # None
    IN CASE d >= StackLimit -> Failed(c, "LimitExceeded")
         [] d < StackLimit /\ t.state = "done" -> Reached(c)
         [] d < StackLimit /\ (InCircle(t) \/ t.key = <<>>) -> Bad(c)
         [] OTHER ->
              CASE t.key = <<"@type">> -> TypeTerm(p, begun, i, v)
                [] t.key # <<"@type">> /\ is_keyword(t.key) -> Bad(begun)
                [] OTHER -> Complete(p, r, i, reverse)

-----------------------------------------------------------------------------
(* Contexts                                                                *)

\* ParseContextParams, but for the session
ContextParams(active, url, remotes, override, propagate, validate, remote) ==
    [active |-> active, url |-> url, remotes |-> remotes, override |-> override,
     propagate |-> propagate, validate |-> validate, remote |-> remote]


Outcome(c, st) == [e |-> "", c |-> c, st |-> st]
Failure(c, st, e) == [e |-> e, c |-> c, st |-> st]

\* handle_url: relative URLs resolve against the document they are written in.
AbsoluteUrl(url, base, st) ==
    IF IsRelative(url) THEN [url |-> Resolved(base, url), st |-> SetBase(st, base)]
    ELSE [url |-> url, st |-> st]

\* @import: the terms of one remote context, under those of the importing one
ImportOf(o, p, c, st, d) ==
    LET f == Field(o, <<"@import">>)
        at == AbsoluteUrl(TheOne(f).s, p.url, st)
        r == resolve(at.url, at.st, d)
        body == Field(r.data, <<"@context">>)
    IN CASE f = None -> [im |-> None] @@ Outcome(c, st)
         [] f # None /\ ~OnlyA(f, IsStr) -> Failure(c, st, "BadSyntax")
         [] OTHER ->
              IF ~ValidIri(at.url) THEN Failure(c, st, "BadIri")
              ELSE IF r.e # "" THEN Failure(c, r.st, r.e)
              ELSE IF body = None \/ ~IsObj(TheOne(body))
              THEN Failure(c, r.st, "RemoteContext")
              ELSE IF Field(TheOne(body), <<"@import">>) # None
              THEN Failure(c, r.st, "BadSyntax")
              ELSE [im |-> body] @@ Outcome(c, r.st)

\* @base, which a remote context may not set
BaseStep(f, c, st) ==
    LET v == TheOne(f).s
    IN CASE f = None -> Outcome(c, st)
         [] f # None /\ ~NullOr(f, IsStr) -> Failure(c, st, "BadSyntax")
         [] OTHER ->
              IF IsNull(TheOne(f)) THEN Outcome([c EXCEPT !.base = <<>>], st)
              ELSE IF ~ValidIri(v) THEN Failure(c, st, "BadSyntax")
              ELSE IF IsRelative(v)
              THEN Outcome([c EXCEPT !.base = Resolved(c.base, v)], SetBase(st, c.base))
              ELSE Outcome([c EXCEPT !.base = v], st)

\* The terms a context names are registered before any of them is defined; the
\* definitions they replace are kept aside.
ContextKeywords == {<<"@base">>, <<"@direction">>, <<"@import">>, <<"@language">>,
                    <<"@propagate">>, <<"@protected">>, <<"@version">>, <<"@vocab">>}
KeysOf(o) == SelectSeq([j \in 1..Len(o.m) |-> o.m[j][1]],
                       LAMBDA k : k \notin ContextKeywords)
Register(c, keys) ==
    LET known == {t.key : t \in Range(c.terms)}
        fresh == SelectSeq(keys, LAMBDA k : k \notin known)
        Old(t) == t.key \in Range(keys)
    IN [previous |-> SelectSeq(c.terms, Old),
        terms |-> [j \in 1..Len(c.terms) |->
                      IF Old(c.terms[j]) THEN NewTerm(c.terms[j].key) ELSE c.terms[j]]
                  \o [j \in 1..Len(fresh) |-> NewTerm(fresh[j])]]

\* @vocab is expanded like a term: it may name one, which is then defined first.
VocabStep(f, p, c, st, d) ==
    LET r == Expand(p, c, TheOne(f).s, d)
    IN CASE f = None -> Outcome(c, st)
         [] f # None /\ ~NullOr(f, IsStr) -> Failure(c, st, "BadSyntax")
         [] OTHER ->
              IF IsNull(TheOne(f)) THEN Outcome([c EXCEPT !.vocab = None], st)
              ELSE IF r.e # "" \/ r.m.t # "iri" THEN Failure(r.c, st, "BadSyntax")
              ELSE Outcome([r.c EXCEPT !.vocab = Some(r.m.d)], st)

\* @language, @direction, and @propagate, which is only checked here
DefaultsStep(lang, dir, prop, c, st) ==
    IF ~NullOr(lang, IsStr) \/ ~NullOr(dir, IsDirection) \/ ~OnlyA(prop, IsBool)
    THEN Failure(c, st, "BadSyntax")
    ELSE Outcome([c EXCEPT
            !.language = IF lang = None THEN @ ELSE Language(lang),
            !.direction = IF dir = None THEN @ ELSE Direction(dir)], st)

\* Every term the context knows is defined; those that are done already stay.
DefineAll(p, c, st, d) ==
    LET def[i \in 0..Len(c.terms)] ==
            IF i = 0 THEN Reached(c)
            ELSE Then(def[i - 1], parse_context_term(p, def[i - 1].c, i, d + 1))
        r == def[Len(c.terms)]
    IN [e |-> r.e, c |-> r.c, st |-> st]

\* The vocabulary and the defaults come before the terms.
Terms(o, tp, vocab, d) ==
    LET F(k) == MergedField(o, tp.im, k)
        rest == Then(vocab, DefaultsStep(F(<<"@language">>), F(<<"@direction">>),
                                         F(<<"@propagate">>), vocab.c, vocab.st))
    IN IF ~Ok(rest) THEN rest
       ELSE IF ~OnlyA(F(<<"@protected">>), IsBool)
       THEN Failure(rest.c, rest.st, "BadSyntax")
       ELSE DefineAll(tp, rest.c, rest.st, d)

\* The names of all terms are known before the first of them is defined.
Named(o, im, reg, based, p, d) ==
    LET F(k) == MergedField(o, im, k)
        tp == TermParams(o, im, reg.previous, p.url, p.remotes,
                         \E v \in F(<<"@protected">>) : v = Bool(TRUE), p.override)
        named == [based.c EXCEPT !.terms = reg.terms]
    IN Terms(o, tp, VocabStep(F(<<"@vocab">>), tp, named, based.st, d), d)

Merge(o, import, p, c, local, d) ==
    LET based == IF ~local THEN Outcome(c, import.st)
                 ELSE BaseStep(MergedField(o, import.im, <<"@base">>), c, import.st)
        imported == IF import.im = None THEN <<>>
                    ELSE SelectSeq(KeysOf(TheOne(import.im)),
                                   LAMBDA k : Field(o, k) = None)
    IN IF ~Ok(import) THEN Failure(c, import.st, import.e)
       ELSE IF ~Ok(based) THEN based
       ELSE Named(o, import.im, Register(based.c, KeysOf(o) \o imported), based, p, d)

\* handle_ctx: a context that is a map. The @import is merged under it.
handle_ctx(o, p, c, st, local, d) ==
    IF \E v \in Field(o, <<"@version">>) : v # Num("1.1")
    THEN Failure(c, st, "BadSyntax")
    ELSE Merge(o, ImportOf(o, p, c, st, d), p, c, local, d)

\* handle_null: protected terms may only be cleared by an override.
handle_null(p, c, st) ==
    IF ~p.override /\ \E t \in Range(p.active.terms) : t.protected
    THEN Failure(c, st, "BadSyntax")
    ELSE Outcome(Context(DocumentBase, IF p.propagate THEN None ELSE c.prev), st)

\* parse_local_context: a remote document holds its context under @context.
parse_local_context(json, p, st, d) ==
    LET body == Field(json, <<"@context">>)
    IN IF p.remote
       THEN IF body = None THEN Failure(p.active, st, "RemoteContext")
            ELSE parse_context(TheOne(body), p, st, d)
       ELSE IF IsScalar(json) THEN Failure(p.active, st, "BadSyntax")
       ELSE parse_context(json, p, st, d)

\* handle_remote. The context before it becomes the previous one in the form the code
\* stores it: no scoped context of it is left to check.
Stored(c) == [c EXCEPT !.terms = [j \in 1..Len(c.terms) |->
                 [c.terms[j] EXCEPT !.check = FALSE, !.remotes = <<>>]]]
Kept(r, c) == IF r.c.prev = Some(c) THEN [r EXCEPT !.c.prev = Some(Stored(c))] ELSE r
handle_remote(url, p, c, st, d) ==
    LET at == AbsoluteUrl(url, p.url, st)
        q == [p EXCEPT !.remotes = Append(@, at.url)]
        r == resolve(at.url, [at.st EXCEPT !.n = @ + 1], d)
        from == IF r.final = <<>> THEN at.url ELSE r.final
        inner == parse_local_context(r.data,
                    [q EXCEPT !.active = c, !.url = from, !.remote = TRUE], r.st, d + 1)
    IN CASE ~ValidIri(at.url) -> [p |-> p] @@ Failure(c, st, "BadIri")
         [] ~p.validate /\ at.url \in Range(p.remotes) /\ ValidIri(at.url) ->
                [p |-> p] @@ Outcome(c, at.st)
         [] OTHER ->
              IF Len(p.remotes) > RemoteLimit \/ at.st.n > RemoteLimit
              THEN [p |-> p] @@ Failure(c, at.st, "LimitExceeded")
              ELSE IF r.e # "" THEN [p |-> q] @@ Failure(c, r.st, r.e)
              ELSE [p |-> q] @@ Kept(inner, c)

\* The entries of a context array, one after the other; the remote contexts met so
\* far go from one to the next.
Entry(v, p, c, st, local, d) ==
    CASE IsNull(v) -> [p |-> p] @@ handle_null(p, c, st)
      [] IsObj(v) -> [p |-> p] @@ handle_ctx(v, p, c, st, local, d)
      [] IsStr(v) -> handle_remote(v.s, p, c, st, d)
      [] OTHER -> [p |-> p] @@ Failure(c, st, "BadSyntax")

Entries(a, p, c, st, d) ==
    LET r[i \in 0..Len(a)] ==
            IF i = 0 THEN [p |-> p] @@ Outcome(c, st)
            ELSE IF r[i - 1].e # "" THEN r[i - 1]
            ELSE Entry(a[i], r[i - 1].p, r[i - 1].c, r[i - 1].st, p.remotes = <<>>, d)
    IN r[Len(a)]

\* The check of the scoped contexts, once the terms they may refer to are all known.
\* Equal ones are checked once; what the check returns is not kept.
CheckScoped(p, c, st, d) ==
    LET checked == [c EXCEPT !.terms = [j \in 1..Len(c.terms) |->
                       [c.terms[j] EXCEPT !.check = FALSE,
                           !.remotes = IF c.terms[j].check THEN <<>> ELSE @]]]
        Same(i, j) == /\ c.terms[i].context = c.terms[j].context
                      /\ c.terms[i].remotes = c.terms[j].remotes
        todo == SelectSeq([j \in 1..Len(c.terms) |-> j], LAMBDA j :
                    /\ c.terms[j].check
                    /\ ~\E i \in 1..(j - 1) : c.terms[i].check /\ Same(i, j))
        run[i \in 0..Len(todo)] ==
            IF i = 0 THEN Outcome(checked, st)
            ELSE IF ~Ok(run[i - 1]) THEN run[i - 1]
            ELSE LET t == c.terms[todo[i]]
                     q == ContextParams(checked, TheOne(t.context).url, t.remotes,
                                        TRUE, TRUE, FALSE, FALSE)
                     l == parse_local_context(TheOne(t.context).json, q,
                                              run[i - 1].st, d + 1)
                 IN IF Ok(l) THEN Outcome(checked, l.st)
                    ELSE Failure(checked, l.st, "BadSyntax")
    IN run[Len(todo)]

AllChecked(p, r, null, d) ==
    IF ~Ok(r) \/ p.remote \/ null THEN [e |-> r.e, c |-> r.c, st |-> r.st]
    ELSE CheckScoped(p, r.c, r.st, d)

\* ContextParser::parse_context: the Context Processing algorithm
ProcessContext(v, p, st, d) ==
    LET prop == IF IsObj(v) THEN Field(v, <<"@propagate">>) ELSE None
        propagate == IF prop # None /\ OnlyA(prop, IsBool) THEN TheOne(prop).b
                     ELSE p.propagate
        start == IF (IsObj(v) \/ IsArr(v)) /\ ~propagate /\ p.active.prev = None
                 THEN [p.active EXCEPT !.prev = Some(p.active)] ELSE p.active
        r == Entries(IF IsArr(v) THEN v.a ELSE <<v>>, p, start, st, d)
    IN IF d >= StackLimit THEN Failure(p.active, st, "LimitExceeded")
       ELSE AllChecked(p, r, IsNull(v), d)

Algorithm(name, a, b, c, d, e, f) ==
    CASE name = "resolve" -> Resolve(Response(a), a, b, c)
      [] name = "term" -> CreateTerm(a, b, c, d)
      [] name = "iri" -> ExpandText(a, b, c, d, e, f)
      [] name = "context" -> ProcessContext(a, b, c, d)
=============================================================================
