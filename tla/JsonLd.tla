------------------------------- MODULE JsonLd -------------------------------
(***************************************************************************)
(* Reading a JSON-LD document (ImplJsonLd::next), and beside it the nested *)
(* objects of a document one by one, each bringing a context of its own    *)
(* that is processed on top of those around it.                            *)
(***************************************************************************)
EXTENDS JsonLdToRdf

CONSTANTS
    Documents,          \* the documents that are read
    Locals,             \* the values of @context that nested objects carry
    MaxNesting          \* bound: how deep they nest

VARIABLES
    chain,      \* the active context of the innermost object, or the error
    depth,      \* how many objects are open
    doc,        \* the document that is read, nothing before one is opened
    out,        \* what the generator has for it
    given       \* how many of its results next has returned

vars == <<chain, depth, doc, out, given>>

Fresh == Context(DocumentBase, None)

\* The top-level parse: an error of the document is the last result.
Run(v) ==
    IF IsScalar(v) THEN fail(Begin(NewSession), "BadSyntax")
    ELSE parse(Begin(NewSession),
               [Params(v, Fresh, Keyword(<<"@default">>), NoMapping, NoMapping)
                   EXCEPT !.top = TRUE])
Results(o) == Len(o.qs) + (IF o.e = "" THEN 0 ELSE 1)

\* A context of a nested object on top of the active one
Processed(r, v) ==
    parse_context(v, ContextParams(r.c, DocumentBase, <<>>, FALSE, TRUE, TRUE, FALSE),
                  [r.st EXCEPT !.n = 0], 0)

Init ==
    /\ chain = Outcome(Fresh, NewSession)
    /\ depth = 0
    /\ doc = None
    /\ out = Begin(NewSession)
    /\ given = 0

Nest(v) ==
    /\ doc = None
    /\ depth < MaxNesting
    /\ chain.e = ""
    /\ chain' = Processed(chain, v)
    /\ depth' = depth + 1
    /\ UNCHANGED <<doc, out, given>>

\* The constructor of the iterator runs the generator up to its first result.
Open(v) ==
    /\ doc = None
    /\ depth = 0
    /\ doc' = Some(v)
    /\ out' = Run(v)
    /\ UNCHANGED <<chain, depth, given>>

next ==
    /\ doc # None
    /\ given < Results(out)
    /\ given' = given + 1
    /\ UNCHANGED <<chain, depth, doc, out>>

Next ==
    \/ \E v \in Locals : Nest(v)
    \/ \E v \in Documents : Open(v)
    \/ next

Spec == Init /\ [][Next]_vars

-----------------------------------------------------------------------------
\* The types of the variables: quads name a node, never a keyword or a text that
\* expands to nothing, in each of their places.
TypeOK ==
    /\ chain.e = "" => \A t \in Range(chain.c.terms) : t.state = "done"
    /\ depth \in 0..MaxNesting
    /\ given \in 0..Results(out)
    /\ \A q \in Range(out.qs) : /\ q.s.t \in {"iri", "bn"}
                                /\ q.x.t \in {"iri", "bn", "lit"}

\* The same text with the entries of every object the other way round
RECURSIVE Turned(_)
Turned(v) ==
    CASE IsObj(v) -> Obj([i \in 1..Len(v.m) |->
                             LET kv == v.m[Len(v.m) + 1 - i]
                             IN <<kv[1], Turned(kv[2])>>])
      [] IsArr(v) -> Arr([i \in 1..Len(v.a) |-> Turned(v.a[i])])
      [] OTHER -> v

Defined(c) ==
    {<<t.key, t.iri.d, t.iri.t, t.type, t.container, t.language, t.prefix, t.reverse,
       t.protected>> : t \in {x \in Range(c.terms) : ~x.ignored}}

\* The terms of a context may refer to each other in any order: a definition is made
\* when another one needs it first, in the middle of that one (parse_context_term and
\* iri_expansion call each other). Turning a context round defines the same terms, and
\* fails if it failed.
SameTerms(a, b) ==
    /\ (a.e = "") = (b.e = "")
    /\ a.e = "" => Defined(a.c) = Defined(b.c) /\ a.c.vocab = b.c.vocab
TermOrderIrrelevant ==
    (doc = None /\ chain.e = "" /\ depth < MaxNesting) =>
        \A v \in Locals :
            SameTerms(Processed(chain, v), Processed(chain, Turned(v)))

\* What a document says does not depend on the order of the keys of its objects: the
\* passes over an object sort what has to be sorted. Generated nodes may swap names.
Renamed(qs, f) ==
    LET Name(x) == IF x.t = "bn" /\ x.d \in DOMAIN f THEN [x EXCEPT !.d = f[x.d]] ELSE x
        Graph(g) == IF g \in DOMAIN f THEN f[g] ELSE g
    IN {[q EXCEPT !.g = Graph(@), !.s = Name(@), !.x = Name(@)] : q \in Range(qs)}
Generated(o) == {GeneratedLabel(i) : i \in 0..(o.n - 1)}
SameButNames(a, b) ==
    /\ (a.e = "") = (b.e = "")
    /\ b.e = "" =>
          /\ Len(a.qs) = Len(b.qs) /\ a.n = b.n
          /\ \E f \in Bijection(Generated(b), Generated(b)) : Renamed(a.qs, f) = Range(b.qs)
OrderIndependent ==
    [][\A v \in doc' : doc = None => SameButNames(Run(Turned(v)), out')]_doc

\* Every list that is generated is a list: a node with a first has one first and one
\* rest, what rest leads to is such a node or nil, and no two nodes share a rest
\* (parse_list builds it link by link, around elements that give nothing or fail).
With(p) == {q \in Range(out.qs) : q.p = rdf(p).d}
ListsWellFormed ==
    /\ TypeOK
    /\ out.e = "" =>
           \A q \in With("first") :
               /\ \A r \in With("first") : r.s = q.s => r = q
               /\ Cardinality({r \in With("rest") : r.s = q.s}) = 1
               /\ \A r \in With("rest") : r.s = q.s =>
                     /\ r.g = q.g
                     /\ \/ r.x.d = rdf("nil").d
                        \/ /\ \E s \in With("first") : s.s = r.x
                           /\ \A s \in With("rest") : s.x = r.x => s = r

\* A document is requested from the server once, however often its contexts are named
\* and whichever redirect or alternate link leads to it (RemoteContextCache::resolve).
\* Only links that run in a circle are followed again, until the stack limit.
RequestedOnce ==
    \A r \in {chain, out} :
        r.e # "LimitExceeded" => IsInjective(r.st.requests)

\* Terms that need each other in a circle end in the error for circles, however they are
\* nested, and not at a limit: what asks for no remote context exceeds none
\* (parse_context_term).
CirclesAreFound ==
    \A r \in {chain, out} : r.e = "LimitExceeded" => r.st.requests # <<>>

\* A protected term keeps its meaning in every context nested in the one that defines
\* it, whatever those say, unless they are refused (check_protected, handle_null).
\* Reverse properties are the exception: they leave the check out.
ProtectedStay ==
    [][(chain'.e = "" /\ depth' > depth) =>
          \A t \in Range(chain.c.terms) :
              (t.protected /\ ~t.reverse) =>
                  \E u \in Range(chain'.c.terms) :
                      \/ u.key = t.key /\ u.reverse
                      \/ u.key = t.key /\ BaseOf(u) = BaseOf(t) /\ u.protected]_chain

\* The labels of the document never meet the labels that are generated, unless the
\* labels are kept (document_bnode_prefix).
RECURSIVE TextsOf(_)
TextsOf(v) ==
    CASE IsStr(v) -> {v.s}
      [] IsObj(v) -> UNION {TextsOf(v.m[i][2]) : i \in 1..Len(v.m)}
      [] IsArr(v) -> UNION {TextsOf(v.a[i]) : i \in 1..Len(v.a)}
      [] OTHER -> {}
LabelsApart ==
    \A v \in doc : \A s \in TextsOf(v) :
        LET m == iri_expansion(Fresh, s, TRUE, 0, None, 0).m
        IN m.t = "bn" /\ ~KeepLabels => m.d \notin Generated(out)
=============================================================================
