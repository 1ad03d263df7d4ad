------------------------------- MODULE RdfXml -------------------------------
(***************************************************************************)
(* The RDF/XML parser, private/rdf4cpp/parser/XMLParser*: handlers of the  *)
(* three SAX events libxml reports, on a stack of states, one for each     *)
(* open element, and an output queue of quads and errors.                  *)
(*                                                                         *)
(* An element is [n, a]: its name and the sequence of its attributes       *)
(* [k, v].  A name is "RDF", "Description", "li", "core" (rdf:ID,          *)
(* rdf:about, rdf:parseType, rdf:resource, rdf:nodeID), "old" (rdf:bagID,  *)
(* rdf:aboutEach, rdf:aboutEachPrefix) or an IRI of the document.  The     *)
(* kind of an attribute is one of Reserved, "li", "old", "type", "xml" (in *)
(* the xml namespace) or, for a property attribute, that IRI.  Resolving a *)
(* reference against a base is the pair of them (IriFactory has the rest). *)
(***************************************************************************)
EXTENDS Naturals, SequencesExt

CONSTANTS Refused,      \* the nodes inspect_node_func throws for
          BadRefs,      \* references that do not resolve to a valid IRI
          NCNames,      \* the strings the document uses that are NCNames
          IllTyped      \* the pairs <<text, datatype>> for which there is no literal

Null == <<"null">>
Iri(base, ref) == <<"iri", base, ref>>
Named(ref) == Iri("", ref)            \* a name is an IRI of its own
Bnode(label) == <<"bnode", label>>
Lit(text, datatype, lang) == <<"literal", text, datatype, lang>>
TypeIri == Named("rdf:type")

XmlNodes == {"base", "lang"}
Subjects == {"about", "ID", "nodeID"}
Reserved == Subjects \cup XmlNodes \cup
              {"RDF", "parseType", "resource", "datatype", "Description"}

(***************************************************************************)
(* XMLOutputQueue: o.queue holds <<"quad", s, p, o>> and <<"error", type>>,*)
(* o.base is the base of the IRI factory the parser shares with its user.  *)
(* What makes a node returns [o, n], n null after an error.                *)
(***************************************************************************)
add_error(o, type) == [o EXCEPT !.queue = Append(@, <<"error", type>>)]

Quads(s, p, ob, reify) ==
    << <<"quad", s, p, ob>> >> \o
    IF reify = Null THEN <<>>
    ELSE << <<"quad", reify, Named("rdf:subject"), s>>,
            <<"quad", reify, Named("rdf:predicate"), p>>,
            <<"quad", reify, Named("rdf:object"), ob>>,
            <<"quad", reify, TypeIri, Named("rdf:Statement")>> >>

add_statement(o, s, p, ob, reify) ==
    IF Null \in {s, p, ob} THEN o
    ELSE [o EXCEPT !.queue = @ \o Quads(s, p, ob, reify)]

inspect_node(o, n) ==
    IF n \in Refused THEN [o |-> add_error(o, "BadSyntax"), n |-> Null]
                     ELSE [o |-> o, n |-> n]

make_iri(o, ref, base, i) ==
    LET b == IF base = "" THEN i.base ELSE base
        p == [o EXCEPT !.base = b]
    IN  IF ref \in BadRefs THEN [o |-> add_error(p, "BadIri"), n |-> Null]
                           ELSE inspect_node(p, Iri(b, ref))

\* An element or attribute name, absolute by itself; it sets the base as well.
make_name(o, name, base, i) ==
    inspect_node([o EXCEPT !.base = IF base = "" THEN i.base ELSE base], Named(name))

is_ncname(v) == v \in NCNames

\* Mutation: an id is not looked up among the ids of the document.
ReserveAnyway(r) == [o |-> [r.o EXCEPT !.ids = @ \cup {r.n}], n |-> r.n]

\* r is the IRI of the id, made; a null is reserved like an IRI.
Reserve(r) ==
    IF r.n \in r.o.ids THEN [o |-> add_error(r.o, "BadIri"), n |-> Null]
    ELSE [o |-> [r.o EXCEPT !.ids = @ \cup {r.n}], n |-> r.n]

make_id(o, name, base, i) ==
    IF ~is_ncname(name) THEN [o |-> add_error(o, "BadIri"), n |-> Null]
    ELSE Reserve(make_iri(o, "#" \o name, base, i))

GeneratedLabel(k) == ToString(k) \o "_bn"

new_bn(o) == inspect_node([o EXCEPT !.bns = @ + 1], Bnode(GeneratedLabel(o.bns)))

make_bn(o, name) ==
    IF is_ncname(name) THEN inspect_node(o, Bnode(name))
                       ELSE [o |-> add_error(o, "BadIri"), n |-> Null]

make_literal(o, text, datatype, lang, i) ==
    IF <<text, datatype>> \in IllTyped
    THEN inspect_node(add_error(o, "BadLiteral"), Null)
    ELSE inspect_node(o, Lit(text, datatype,
                             IF datatype # Null THEN "" ELSE IF lang = "" THEN i.lang ELSE lang))

(***************************************************************************)
(* The states: one record for all kinds, base and lang those of the        *)
(* element itself, "" for none.                                            *)
(***************************************************************************)
State(kind, inh, subject, predicate, reify) ==
    [kind |-> kind, base |-> inh.base, lang |-> inh.lang, subject |-> subject,
     predicate |-> predicate, reify |-> reify, datatype |-> Null, text |-> <<>>,
     done |-> FALSE, last |-> Null, depth |-> 0, li |-> 1]

NoInherit == [base |-> "", lang |-> ""]
EmptyElement == State("Empty", NoInherit, Null, Null, Null)

Values(e, kind) == SelectSeq(e.a, LAMBDA at : at.k = kind)
LastValue(e, kind) ==
    IF Values(e, kind) = <<>> THEN "" ELSE Last(Values(e, kind)).v

get_inherited_attributes(e) ==
    [base |-> LastValue(e, "base"), lang |-> LastValue(e, "lang")]

\* A relative xml:base is reported, and used all the same.
InheritErrors(o, e) ==
    IF LastValue(e, "base") \in BadRefs THEN add_error(o, "BadIri") ELSE o

\* Mutation: only the innermost state is asked for its base and language.
InfoOfTop(st) == [base |-> Last(st).base, lang |-> Last(st).lang]

\* make_info: what is nearest on the stack.
make_info(st) ==
    LET With(f) == {j \in DOMAIN st : st[j][f] # ""}
        Nearest(f) == IF With(f) = {} THEN "" ELSE st[Max(With(f))][f]
    IN  [base |-> Nearest("base"), lang |-> Nearest("lang")]

\* handle_state_transition
Parser(st, o) == [st |-> st, o |-> o]
Stay(x, o) == Parser(x.st, o)
Push(x, o, s) == Parser(Append(x.st, s), o)
PopState(x, o) == Parser(Front(x.st), o)
Become(x, s) == [x EXCEPT !.st[Len(x.st)] = s]

(***************************************************************************)
(* DescriptionState::enter: a node element.  [o, n, s]: the output, the    *)
(* node and the state of the element.                                      *)
(***************************************************************************)
SubjectStep(r, at, base, i) ==
    IF at.k \notin Subjects THEN r
    ELSE IF r.n # Null THEN [r EXCEPT !.o = add_error(@, "BadSyntax")]
    ELSE CASE at.k = "about"  -> make_iri(r.o, at.v, base, i)
           [] at.k = "ID"     -> make_id(r.o, at.v, base, i)
           [] at.k = "nodeID" -> make_bn(r.o, at.v)

SubjectOf(o, e, base, i) ==
    LET after[n \in 0..Len(e.a)] ==
            IF n = 0 THEN [o |-> o, n |-> Null]
            ELSE SubjectStep(after[n - 1], e.a[n], base, i)
    IN  after[Len(e.a)]

OrGenerated(r) == IF r.n = Null THEN new_bn(r.o) ELSE r

\* An attribute that is a statement about s: the predicate and the object are made.
StateThat(p, s, at, lang, i) ==
    LET ob == make_literal(p.o, at.v, Null, lang, i)
    IN  add_statement(ob.o, s, p.n, ob.n, Null)
StateType(ob, s) == add_statement(ob.o, s, TypeIri, ob.n, Null)

NotAStatement(at) == at.k \in Reserved \cup {"li", "old", "xml"}

AttributeStatement(o, s, at, base, lang, i) ==
    CASE at.k \in {"li", "old"} -> add_error(o, "BadSyntax")
      [] NotAStatement(at) /\ at.k \notin {"li", "old"} -> o
      [] at.k = "type"          -> StateType(make_iri(o, at.v, base, i), s)
      [] OTHER -> StateThat(make_name(o, at.k, base, i), s, at, lang, i)

ElementType(o, e, s, base, i) ==
    CASE e.n = "Description"                    -> o
      [] e.n \in {"li", "core", "RDF", "old"}   -> add_error(o, "BadSyntax")
      [] OTHER -> StateType(make_name(o, e.n, base, i), s)

AttributeStatements(o, e, s, inh, i) ==
    LET after[n \in 0..Len(e.a)] ==
            IF n = 0 THEN o
            ELSE AttributeStatement(after[n - 1], s, e.a[n], inh.base, inh.lang, i)
    IN  after[Len(e.a)]

Describe(r, e, inh, i) ==
    [n |-> r.n,
     s |-> State("Description", inh, r.n, Null, Null),
     o |-> AttributeStatements(ElementType(r.o, e, r.n, inh.base, i), e, r.n, inh, i)]

enter(o, e, i) ==
    LET inh == get_inherited_attributes(e)
    IN  Describe(OrGenerated(SubjectOf(InheritErrors(o, e), e, inh.base, i)), e, inh, i)

(***************************************************************************)
(* DescriptionState::on_start_element: a property element.                 *)
(* sub: the object the attributes of the element name, if any.             *)
(***************************************************************************)
\* [o, n, has, datatype, typed, reify] after one attribute of the first loop
Sub(r, m) == [r EXCEPT !.o = m.o, !.n = m.n, !.has = TRUE]
OnlyOne(r) == IF r.has THEN [r EXCEPT !.o = add_error(@, "BadSyntax")] ELSE r
Typed(r, m) == [r EXCEPT !.o = m.o, !.datatype = m.n, !.typed = TRUE]
Reified(r, m) == [r EXCEPT !.o = m.o, !.reify = m.n]

ObjectStep(r, at, base, i) ==
    CASE at.k = "datatype" -> Typed(r, make_iri(r.o, at.v, base, i))
      [] at.k = "resource" -> Sub(r, make_iri(OnlyOne(r).o, at.v, base, i))
      [] at.k = "nodeID"   -> Sub(r, make_bn(OnlyOne(r).o, at.v))
      [] at.k = "ID"       -> Reified(r, make_id(r.o, at.v, base, i))
      [] OTHER             -> r

\* The second loop: a property attribute needs an object to be about.  Its
\* base is the one of the description, not the one of this element.
PropertyAttribute(r, at, d, inh, i) ==
    IF NotAStatement(at) THEN [r EXCEPT !.o = AttributeStatement(@, r.n, at, d.base, inh.lang, i)]
    ELSE LET q == IF r.has THEN r ELSE Sub(r, new_bn(r.o))
         IN  [q EXCEPT !.o = AttributeStatement(@, q.n, at, d.base, inh.lang, i)]

ParseTypes(e) == {e.a[j].v : j \in {k \in DOMAIN e.a : e.a[k].k = "parseType"}}

\* What the element opens, once its object r is known.
OpenProperty(x, d, p, r, inh, parse) ==
    LET state(kind) == State(kind, inh, d.subject, p, r.reify)
        told == IF r.has /\ parse # {} THEN add_error(r.o, "BadSyntax") ELSE r.o
        WithResource(b) == Push(x, add_statement(b.o, d.subject, p, b.n, r.reify),
                                State("Description", inh, b.n, Null, Null))
    IN  CASE r.typed -> Push(x, told, [state("Typed") EXCEPT !.datatype = r.datatype])
          [] ~r.typed /\ r.has ->
                Push(x, add_statement(told, d.subject, p, r.n, r.reify), EmptyElement)
          [] ~r.typed /\ ~r.has /\ "Resource" \in parse -> WithResource(new_bn(told))
          [] ~r.typed /\ ~r.has /\ "Resource" \notin parse ->
                Push(x, told, state(IF parse \ {"Collection"} # {} THEN "XMLLiteral"
                                    ELSE IF parse # {} THEN "Collection" ELSE "Predicate"))

\* Mutation: rdf:li does not advance the counter.
LiStays(x, e) == x

\* ++list_current
CountLi(x, e) == IF e.n = "li" THEN [x EXCEPT !.st[Len(x.st)].li = @ + 1] ELSE x

Predicate(o, e, d, base, i) ==
    make_name(o, IF e.n = "li" THEN "rdf:_" \o ToString(d.li) ELSE e.n, base, i)

NoObject(o) ==
    [o |-> o, n |-> Null, has |-> FALSE, datatype |-> Null, typed |-> FALSE, reify |-> Null]

NamedObject(o, e, base, i) ==
    LET after[n \in 0..Len(e.a)] ==
            IF n = 0 THEN NoObject(o) ELSE ObjectStep(after[n - 1], e.a[n], base, i)
    IN  after[Len(e.a)]

DescribedObject(r, e, d, inh, i) ==
    LET after[n \in 0..Len(e.a)] ==
            IF n = 0 THEN r ELSE PropertyAttribute(after[n - 1], e.a[n], d, inh, i)
    IN  after[Len(e.a)]

PropertyObject(p, e, d, inh, i) ==
    DescribedObject(NamedObject(p.o, e, inh.base, i), e, d, inh, i)

PropertyElement(x, p, e, d, inh, i) ==
    OpenProperty(CountLi(x, e), d, p.n, PropertyObject(p, e, d, inh, i), inh, ParseTypes(e))

on_start_property(x, e, d, inh, i) ==
    IF e.n \in {"core", "RDF", "Description", "old"}
    THEN Push(x, add_error(x.o, "BadSyntax"), EmptyElement)
    ELSE PropertyElement(x, Predicate(InheritErrors(x.o, e), e, d, inh.base, i), e, d, inh, i)

(***************************************************************************)
(* CollectionState and PredicateState: an element is the object.           *)
(***************************************************************************)
\* Mutation: the list node that was last is not remembered.
ListItemForgets(x, t, v, b) ==
    LET linked == IF ~t.done
                  THEN add_statement(b.o, t.subject, t.predicate, b.n, t.reify)
                  ELSE add_statement(b.o, t.last, Named("rdf:rest"), b.n, Null)
    IN  Push(Become(x, [t EXCEPT !.done = TRUE, !.last = IF @ = Null THEN b.n ELSE @]),
             add_statement(linked, b.n, Named("rdf:first"), v.n, Null), v.s)

\* v: the node element entered, b: the new list node
ListItem(x, t, v, b) ==
    LET linked == IF ~t.done
                  THEN add_statement(b.o, t.subject, t.predicate, b.n, t.reify)
                  ELSE add_statement(b.o, t.last, Named("rdf:rest"), b.n, Null)
    IN  Push(Become(x, [t EXCEPT !.done = TRUE, !.last = b.n]),
             add_statement(linked, b.n, Named("rdf:first"), v.n, Null), v.s)

EndList(x, t) ==
    PopState(x, IF ~t.done
                THEN add_statement(x.o, t.subject, t.predicate, Named("rdf:nil"), t.reify)
                ELSE add_statement(x.o, t.last, Named("rdf:rest"), Named("rdf:nil"), Null))

NodeObject(x, t, v) ==
    Push(Become(x, [t EXCEPT !.done = TRUE]),
         add_statement(v.o, t.subject, t.predicate, v.n, t.reify), v.s)

Entered(x, v) == Push(x, v.o, v.s)
Fail(x) == Stay(x, add_error(x.o, "BadSyntax"))

\* The literal of an element
EndLiteral(x, t, l) == PopState(x, add_statement(l.o, t.subject, t.predicate, l.n, t.reify))

EndPredicate(x, t, i) ==
    IF t.done THEN PopState(x, x.o)
    ELSE EndLiteral(x, t, make_literal(x.o, t.text, Null, "", i))

EndTyped(x, t) ==
    IF t.datatype = Null THEN PopState(x, x.o)
    ELSE EndLiteral(x, t, make_literal(x.o, t.text, t.datatype, "", NoInherit))

(***************************************************************************)
(* XMLLiteralState: its text is the source of all that is within it.       *)
(***************************************************************************)
source_input(x, t, depth, piece) ==
    Become(x, [t EXCEPT !.depth = depth, !.text = Append(@, piece)])

EndXMLLiteral(x, t) ==
    IF t.depth > 0 THEN source_input(x, t, t.depth - 1, "/")
    ELSE EndLiteral(x, t, make_literal(x.o, t.text, Named("rdf:XMLLiteral"), "", NoInherit))

(***************************************************************************)
(* The three events, by the kind of the state.  A piece of text is "text"  *)
(* or "space".                                                             *)
(***************************************************************************)
Blank(text) == \A j \in DOMAIN text : text[j] = "space"

StartRoot(x, e, i) ==
    IF e.n = "RDF" THEN Push(x, InheritErrors(x.o, e),
                             State("RDF", get_inherited_attributes(e), Null, Null, Null))
                   ELSE Entered(x, enter(x.o, e, i))

StartInPredicate(x, t, e, i) ==
    IF t.done \/ ~Blank(t.text) THEN Fail(x) ELSE NodeObject(x, t, enter(x.o, e, i))

StartItem(x, t, v) == ListItem(x, t, v, new_bn(v.o))

on_start_element(x, e) ==
    LET t == Last(x.st)
        i == make_info(x.st)
    IN  CASE t.kind = "Initial"         -> StartRoot(x, e, i)
          [] t.kind = "RDF"             -> Entered(x, enter(x.o, e, i))
          [] t.kind = "Description"     ->
                on_start_property(x, e, t, get_inherited_attributes(e), i)
          [] t.kind = "Predicate"       -> StartInPredicate(x, t, e, i)
          [] t.kind = "Collection"      -> StartItem(x, t, enter(x.o, e, i))
          [] t.kind = "XMLLiteral"      -> source_input(x, t, t.depth + 1, e.n)
          [] t.kind \in {"Empty", "Typed"} -> Fail(x)

NoCharacters(x, text) == IF text = "space" THEN x ELSE Fail(x)

LiteralCharacters(x, t, text) ==
    IF t.done THEN NoCharacters(x, text) ELSE Become(x, [t EXCEPT !.text = Append(@, text)])

on_characters(x, text) ==
    LET t == Last(x.st)
    IN  CASE t.kind = "XMLLiteral"              -> source_input(x, t, t.depth, text)
          [] t.kind \in {"Predicate", "Typed"}  -> LiteralCharacters(x, t, text)
          [] t.kind \notin {"XMLLiteral", "Predicate", "Typed"} -> NoCharacters(x, text)

on_end_element(x) ==
    LET t == Last(x.st)
    IN  CASE t.kind = "Initial"     -> Fail(x)
          [] t.kind = "Collection"  -> EndList(x, t)
          [] t.kind = "XMLLiteral"  -> EndXMLLiteral(x, t)
          [] t.kind = "Predicate"   -> EndPredicate(x, t, make_info(x.st))
          [] t.kind = "Typed"       -> EndTyped(x, t)
          [] t.kind \in {"RDF", "Description", "Empty"} -> PopState(x, x.o)

\* ImplXML::on_error: libxml reports that the document is not well formed.
on_error(x) == Fail(x)

\* ImplXML::ImplXML
NewXml(base) ==
    Parser(<<State("Initial", [base |-> base, lang |-> ""], Null, Null, Null)>>,
           [queue |-> <<>>, bns |-> 0, ids |-> {}, base |-> base])
=============================================================================
