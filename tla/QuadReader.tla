----------------------------- MODULE QuadReader -----------------------------
(***************************************************************************)
(* IStreamQuadIterator over an RDF/XML document or over one of the formats *)
(* serd reads.  The caller takes one result after the other until next()   *)
(* returns std::nullopt; next() reads only when it has nothing to return.  *)
(*                                                                         *)
(* libxml makes events of a chunk of the stream: an element starts or      *)
(* ends, text, or one error after which no event follows.  A chunk may end *)
(* anywhere.  Serd reads chunk for chunk, each on a line of its own; a     *)
(* syntax error leaves it within the line, the rest of which is skipped.   *)
(* The stream may fail whenever it is read, also while a line is skipped.  *)
(***************************************************************************)
EXTENDS Naturals, SequencesExt

CONSTANTS Refused, BadRefs, AbsoluteRefs, NCNames, IllTyped, BadTexts,
          Elements,       \* the elements a document may have
          Properties,     \* the names of those that are property elements
          Callbacks,      \* the callbacks serd may make
          Documents,      \* the documents for serd, sequences of chunks of them
          SerdSetups,     \* [syntax, flags, scoped]
          Base,           \* the base the state comes with
          MaxNodes,       \* bound: the elements and texts of an RDF/XML document
          MaxStrays,      \* bound: elements where the grammar has none of their name, and
                          \* warnings within the root, each with one element less
          MaxChunks       \* bound: the chunks that leave something behind them to parse

ASSUME ElementsAssumption == \A e \in Elements : e.a \in Seq(ToSet(e.a))

ASSUME DocumentsAssumption ==
    /\ Documents \subseteq Seq(Seq(Callbacks))
    /\ \A c \in Callbacks : c.k \in {"base", "prefix", "stmt", "syntax"}

X == INSTANCE RdfXml
S == INSTANCE SerdReader

VARIABLES
    format,     \* "xml" or "serd"
    call,       \* "next": in next(), before its loop; "chunk": within a chunk; "ended"
    given,      \* the results next() returned
    failed,     \* the stream has failed
    told,       \* io_error_reported_
    xml,        \* ImplXML
    open,       \* the elements of the document that are open, each [e, role]
    said,       \* the property elements that were closed
    budget,     \* [nodes, strays, chunks] the document may still have
    over,       \* libxml: "no", "broken" after its error, or "eof"
    serd,       \* ImplSerd
    doc, pos    \* the document serd reads and the next chunk of it

xmlVars == <<xml, open, said, budget, over, told>>
serdVars == <<serd, doc, pos>>
vars == <<format, call, given, failed, xmlVars, serdVars>>

-----------------------------------------------------------------------------
(* The RDF/XML grammar: what an element is, by where it stands.            *)

Has(e, kinds) == \E j \in DOMAIN e.a : e.a[j].k \in kinds
HasParseType(e, v) == \E j \in DOMAIN e.a : e.a[j].k = "parseType" /\ e.a[j].v = v
NamesObject(e) == \E j \in DOMAIN e.a : \/ e.a[j].k \in {"resource", "nodeID"}
                                        \/ ~X!NotAStatement(e.a[j])

\* A parseType that is not known is as "Literal".
PropertyRole(e) ==
    CASE Has(e, {"datatype"})           -> "Typed"
      [] ~Has(e, {"datatype"}) /\ NamesObject(e) -> "Empty"
      [] ~Has(e, {"datatype"}) /\ ~NamesObject(e) ->
            IF ~Has(e, {"parseType"}) THEN "Predicate"
            ELSE IF HasParseType(e, "Resource") THEN "Description"
            ELSE IF \A j \in DOMAIN e.a : e.a[j].k = "parseType" => e.a[j].v = "Collection"
            THEN "Collection" ELSE "XMLLiteral"

Role(e) ==
    IF open = <<>> THEN IF e.n = "RDF" THEN "RDF" ELSE "Description"
    ELSE CASE Last(open).role \in {"XMLLiteral", "within"}                 -> "within"
           [] Last(open).role = "Description"                              -> PropertyRole(e)
           [] Last(open).role \in {"RDF", "Predicate", "Collection", "Typed", "Empty"} -> "Description"

InDescription == open # <<>> /\ Last(open).role = "Description"
Stray(e) == (e.n \in Properties) # InDescription

\* A property element stands in a description.
IsProperty(j) == j > 1 /\ open[j - 1].role = "Description"

-----------------------------------------------------------------------------
Init ==
    /\ format \in {"xml", "serd"}
    /\ call = "next" /\ given = <<>> /\ failed = FALSE /\ told = FALSE
    /\ xml = X!NewXml(Base) /\ open = <<>> /\ said = <<>> /\ over = "no"
    /\ budget = [nodes |-> MaxNodes, strays |-> MaxStrays, chunks |-> MaxChunks]
    /\ pos = 1
    /\ doc \in IF format = "serd" THEN Documents ELSE {<<>>}
    /\ \E c \in IF format = "serd" THEN SerdSetups ELSE {CHOOSE d \in SerdSetups : TRUE} :
           serd = S!NewSerd(c.syntax, c.flags, c.scoped, Base)

Give(result) == given' = Append(given, result)

\* An event within a chunk of an RDF/XML document
Event(x) ==
    /\ format = "xml" /\ call = "chunk" /\ over = "no"
    /\ xml' = x
    /\ UNCHANGED <<format, call, given, failed, told, serdVars>>

Room(e) == IF Stray(e) THEN 2 ELSE 1

StartElement(e) ==
    /\ budget.nodes >= Room(e)
    /\ open = <<>> => budget.nodes = MaxNodes      \* one root
    /\ Event(X!on_start_element(xml, e))
    /\ open' = Append(open, [e |-> e, role |-> Role(e)])
    /\ Stray(e) => budget.strays > 0
    /\ budget' = [budget EXCEPT !.nodes = @ - Room(e), !.strays = @ + 1 - Room(e)]
    /\ UNCHANGED <<said, over>>

Characters(text) ==
    /\ budget.nodes > 0 /\ open # <<>>
    /\ Event(X!on_characters(xml, text))
    /\ budget' = [budget EXCEPT !.nodes = @ - 1]
    /\ UNCHANGED <<open, said, over>>

EndElement ==
    /\ open # <<>>
    /\ Event(X!on_end_element(xml))
    /\ open' = Front(open)
    /\ said' = IF IsProperty(Len(open)) THEN Append(said, Last(open).e) ELSE said
    /\ UNCHANGED <<budget, over>>

\* libxml reports an error or a warning: no event follows, unless it can go on.
NotWellFormed ==
    /\ Event(X!on_error(xml))
    /\ \/ over' = "broken" /\ UNCHANGED budget
       \/ /\ open # <<>> /\ budget.strays > 0 /\ budget.nodes > 0
          /\ budget' = [budget EXCEPT !.strays = @ - 1, !.nodes = @ - 1]
          /\ UNCHANGED over
    /\ UNCHANGED <<open, said>>

XmlHasResult == xml.o.queue # <<>> \/ failed \/ over = "eof"

BeginChunk ==
    /\ format = "xml" /\ call = "next" /\ ~XmlHasResult
    /\ call' = "chunk"
    /\ UNCHANGED <<format, given, failed, xmlVars, serdVars>>

\* The chunk is parsed: more may follow, or the stream is at its end, or has failed.
EndChunk ==
    /\ format = "xml" /\ call = "chunk"
    /\ call' = "next"
    /\ \/ /\ over = "no" /\ xml.o.queue # <<>> /\ budget.chunks > 0
          /\ budget' = [budget EXCEPT !.chunks = @ - 1]
          /\ UNCHANGED <<over, failed>>
       \/ /\ over = "no" => open = <<>> /\ budget.nodes < MaxNodes
          /\ over' = "eof"
          /\ UNCHANGED <<failed, budget>>
       \/ /\ failed' = TRUE
          /\ UNCHANGED <<over, budget>>
    /\ UNCHANGED <<format, given, xml, open, said, told, serdVars>>

\* Mutation: the error is left out when there are other results.
WithIoErrorAlone ==
    IF failed /\ ~told /\ xml.o.queue = <<>> THEN X!add_error(xml.o, "Io") ELSE xml.o

\* io_error_reported_: the error comes behind what is queued.
WithIoError == IF failed /\ ~told THEN X!add_error(xml.o, "Io") ELSE xml.o

XmlNext ==
    /\ format = "xml" /\ call = "next" /\ XmlHasResult
    /\ told' = failed
    /\ LET o == WithIoError
       IN  IF o.queue = <<>>
           THEN xml' = xml /\ call' = "ended" /\ UNCHANGED given
           ELSE /\ xml' = [xml EXCEPT !.o = [o EXCEPT !.queue = Tail(@)]]
                /\ Give(Head(o.queue))
                /\ UNCHANGED call
    /\ UNCHANGED <<format, failed, open, said, budget, over, serdVars>>

-----------------------------------------------------------------------------
SerdStep(s) ==
    /\ format = "serd" /\ call = "next"
    /\ serd' = s
    /\ UNCHANGED <<format, doc, xmlVars>>

SerdReads == S!Ready(serd) = "read"

ReadChunk ==
    /\ SerdReads /\ ~failed /\ pos <= Len(doc)
    /\ SerdStep(S!ReadChunk(serd, doc[pos]))
    /\ pos' = pos + 1
    /\ UNCHANGED <<call, given, failed>>

ReadEnd ==
    /\ SerdReads /\ ~failed /\ pos > Len(doc)
    /\ SerdStep(S!AtEnd(serd))
    /\ UNCHANGED <<call, given, failed, pos>>

\* The stream fails: before a chunk, or within it, after some of its callbacks.
NextChunk == IF pos <= Len(doc) THEN doc[pos] ELSE <<>>
StreamFails ==
    /\ SerdReads
    /\ failed' = TRUE
    /\ \E n \in 0..Len(NextChunk) :
           SerdStep(S!AtStreamError(S!ReadChunk(serd, SubSeq(NextChunk, 1, n))))
    /\ UNCHANGED <<call, given, pos>>

\* serd_reader_skip_until_byte: to the end of the line. It fails at the end of the input,
\* and so on a last line that does not end in a newline, and when the stream does, which
\* is not looked at.
InLine == pos > 1 /\ \E j \in DOMAIN doc[pos - 1] : doc[pos - 1][j].k = "syntax"
AfterSkip ==
    IF serd.last_error_requires_skip /\ ~InLine /\ pos <= Len(doc) THEN pos + 1 ELSE pos

GiveError(noNewline) ==
    /\ SerdStep(S!TakeError(serd, noNewline))
    /\ Give(<<"error", serd.last_error>>)
    /\ UNCHANGED call

SerdNext ==
    CASE S!Ready(serd) = "quad" ->
            /\ SerdStep(S!PopQuad(serd))
            /\ Give(<<"quad">> \o Head(serd.buffer))
            /\ UNCHANGED <<call, failed, pos>>
      [] S!Ready(serd) = "error" ->
            \/ GiveError(FALSE) /\ pos' = AfterSkip /\ UNCHANGED failed
            \/ pos > Len(doc) /\ GiveError(TRUE) /\ UNCHANGED <<failed, pos>>
            \/ /\ serd.last_error_requires_skip
               /\ GiveError(TRUE)
               /\ failed' = TRUE
               /\ UNCHANGED pos
      [] S!Ready(serd) = "end" ->
            /\ SerdStep(serd)
            /\ call' = "ended"
            /\ UNCHANGED <<given, failed, pos>>
      [] S!Ready(serd) = "read" -> FALSE

\* At the end next() returns std::nullopt however often it is called.
AtTheEnd == call = "ended" /\ UNCHANGED vars

XmlEvents ==
    \/ \E e \in Elements : StartElement(e)
    \/ \E text \in {"text", "space"} : Characters(text)
    \/ EndElement
    \/ NotWellFormed

Next ==
    \/ XmlEvents \/ BeginChunk \/ EndChunk \/ XmlNext
    \/ ReadChunk \/ ReadEnd \/ StreamFails \/ SerdNext
    \/ AtTheEnd

\* The caller goes on, a chunk that is parsed ends, and serd says when the input does.
\* Nothing is assumed of the stream: it may stop to give data.
Fairness == WF_vars(BeginChunk \/ EndChunk \/ XmlNext \/ ReadEnd \/ SerdNext)

Spec == Init /\ [][Next]_vars /\ Fairness

-----------------------------------------------------------------------------
(* Properties of the RDF/XML reader                                        *)

Results == given \o xml.o.queue
IsError(r) == r[1] = "error"
NoErrorYet == format = "xml" /\ \A j \in DOMAIN Results : ~IsError(Results[j])
QuadsThat(Test(_)) == {j \in DOMAIN Results : ~IsError(Results[j]) /\ Test(Results[j])}

\* xml:base where an element stands
BaseOf(j) ==
    LET with == {k \in 1..j : X!LastValue(open[k].e, "base") # ""}
    IN  IF with = {} THEN Base ELSE X!LastValue(open[Max(with)].e, "base")

\* Every element that is not within an XML literal has a state of its own, of the kind
\* the grammar gives the element by where it stands, and a node is named against the
\* nearest xml:base around it, as long as no error was reported (state_stack_,
\* StateTransition, make_info).
InStep ==
    NoErrorYet =>
        /\ xml.st[1].kind = "Initial"
        /\ {j \in DOMAIN open : open[j].role # "within"} = 1 .. Len(xml.st) - 1
        /\ \A j \in 1 .. Len(xml.st) - 1 :
              /\ xml.st[j + 1].kind = open[j].role
              /\ open[j].role = "Description" /\ ~IsProperty(j) =>
                    \A k \in DOMAIN open[j].e.a :
                        open[j].e.a[k].k = "about" =>
                            xml.st[j + 1].subject = X!Iri(BaseOf(j), open[j].e.a[k].v)

IsMember(p) == p \in {X!Named("rdf:_" \o ToString(k)) : k \in 1..MaxNodes}
Generated(n) == n \in {X!Bnode(X!GeneratedLabel(k)) : k \in 0..xml.o.bns}
TimesSaid(p) == Cardinality({j \in DOMAIN said : said[j].n = p})

\* A document read without an error says every property element exactly once, whatever
\* its form: rdf:resource, a node element, text, a list, a literal, rdf:parseType. The
\* rdf:li of one node get different numbers.
PropertiesSaid ==
    NoErrorYet /\ over = "eof" =>
        /\ \A p \in {said[j].n : j \in DOMAIN said} \ {"li"} :
              Cardinality(QuadsThat(LAMBDA r : r[3] = X!Named(p))) = TimesSaid(p)
        /\ Cardinality(QuadsThat(LAMBDA r : IsMember(r[3]))) = TimesSaid("li")
        /\ \A j, k \in QuadsThat(LAMBDA r : IsMember(r[3]) /\ Generated(r[2])) :
              Results[j][2] = Results[k][2] /\ Results[j][3] = Results[k][3] => j = k

\* A list of parseType="Collection" is a list: each of its nodes has one rdf:first, one
\* rdf:rest, and one statement that leads to it, besides the rdf:object of a statement that
\* is reified (CollectionState).
ListsWellFormed ==
    NoErrorYet /\ over = "eof" =>
        LET Of(p) == QuadsThat(LAMBDA r : r[3] = X!Named(p))
        IN  \A j \in Of("rdf:first") \cup Of("rdf:rest") :
              LET n == Results[j][2]
              IN  /\ Cardinality({k \in Of("rdf:first") : Results[k][2] = n}) = 1
                  /\ Cardinality({k \in Of("rdf:rest") : Results[k][2] = n}) = 1
                  /\ Cardinality(QuadsThat(LAMBDA r :
                         r[4] = n /\ r[3] # X!Named("rdf:object"))) = 1

\* An IRI stands for at most one statement: rdf:ID is not used twice, errors or not
\* (make_id, reserved_ids_).
ReifiedOnce ==
    format = "xml" =>
        \A j, k \in QuadsThat(LAMBDA r : r[3] = X!Named("rdf:subject")) :
            Results[j][2] = Results[k][2] => j = k

-----------------------------------------------------------------------------
(* Properties of the reader that uses serd. The statements of a document   *)
(* are places <<chunk, callback>>; what a base or a prefix is at a place   *)
(* is what the last callback before it says.                               *)

Places == UNION {{j} \X DOMAIN doc[j] : j \in DOMAIN doc}
At(pl) == doc[pl[1]][pl[2]]
Before(a, b) == a[1] < b[1] \/ (a[1] = b[1] /\ a[2] < b[2])
EarlierOf(set, pl) == {q \in set : Before(q, pl)}
LatestOf(set) == {q \in set : \A w \in set : ~Before(q, w)}
The(set) == CHOOSE q \in set : TRUE

Parses(flag) == flag \notin serd.flags
IsBase(c) == c.k = "base" /\ c.v \in AbsoluteRefs \ BadRefs /\ Parses("NoParsePrefix")
Defines(c, name) ==
    c.k = "prefix" /\ c.n = name /\ name \notin BadRefs /\ Parses("NoParsePrefix")

Bases(pl) == LatestOf(EarlierOf({q \in Places : IsBase(At(q))}, pl))
BaseAt(pl) == IF Bases(pl) = {} THEN Base ELSE At(The(Bases(pl))).v

Definitions(name, pl) == LatestOf(EarlierOf({q \in Places : Defines(At(q), name)}, pl))
Names == {At(q).n : q \in {w \in Places : At(w).k = "prefix"}}
PrefixesAt(pl) ==
    [name \in {m \in Names : Definitions(m, pl) # {}} |->
        At(The(Definitions(name, pl))).v]

\* The reader as it is at a place, as far as terms depend on it
AsOf(pl) ==
    [S!NewSerd(serd.syntax, serd.flags, serd.scoped, BaseAt(pl))
        EXCEPT !.prefixes = PrefixesAt(pl)]
TermsAt(pl) == S!MakeTerms(AsOf(pl), At(pl).t)
QuadAt(pl) == <<"quad">> \o [j \in 1..4 |-> TermsAt(pl)[j].n]

Faulty(pl) ==
    CASE At(pl).k = "stmt"   -> S!FirstError(TermsAt(pl)) # S!NoError
      [] At(pl).k = "base"   -> ~IsBase(At(pl))
      [] At(pl).k = "prefix" -> ~Defines(At(pl), At(pl).n)
      [] At(pl).k = "syntax" -> TRUE

GoodStatements == {pl \in Places : At(pl).k = "stmt" /\ ~Faulty(pl)}
FaultyChunks == {j \in DOMAIN doc : \E pl \in Places : pl[1] = j /\ Faulty(pl)}

QuadsIn(results) == {j \in DOMAIN results : ~IsError(results[j])}

\* The n-th quad is the n-th statement without a fault.
InOrder(results) ==
    \A j \in QuadsIn(results) : \E pl \in GoodStatements :
        /\ results[j] = QuadAt(pl)
        /\ Cardinality(EarlierOf(GoodStatements, pl)) =
               Cardinality({k \in QuadsIn(results) : k < j})

\* The quads come in the order of the document, none is lost to an error before or after
\* it, and none is made up; at the end every chunk with a fault was an error, and no
\* other. If the stream failed, what was read before is not lost, and the last result is
\* the failure, or the error behind which a line was skipped (next, on_stmt).
StatementsInOrder ==
    format = "serd" =>
        /\ InOrder(given)
        /\ call = "ended" /\ ~failed =>
              /\ Cardinality(QuadsIn(given)) = Cardinality(GoodStatements)
              /\ Cardinality(DOMAIN given \ QuadsIn(given)) = Cardinality(FaultyChunks)
        /\ call = "ended" /\ failed =>
              /\ Cardinality(EarlierOf(GoodStatements, <<pos, 1>>)) <= Cardinality(QuadsIn(given))
              /\ given # <<>>
              /\ \/ Last(given) = <<"error", "Io">>
                 \/ InLine /\ IsError(Last(given))

\* "A nonzero value ends the parse with ParsingError::Type::Io."
\* (IStreamQuadIterator.hpp:38): a caller that reads to the end knows of the failure.
ToldOfFailure == call = "ended" /\ failed => given # <<>> /\ Last(given) = <<"error", "Io">>

\* The reader of RDF/XML tells of it, behind all that the document gave, however much
\* waits to be returned (ImplXML::next).
XmlToldOfFailure == format = "xml" => ToldOfFailure

InputOver == over = "eof" \/ failed \/ (format = "serd" /\ pos > Len(doc))

\* Once the input is at its end, or has failed, a caller that goes on until there is
\* nothing left gets there, whatever errors are pending ("Call until std::nullopt is
\* returned", IStreamQuadIterator.hpp:95).
ReadsToTheEnd == InputOver ~> call = "ended"
=============================================================================
