----------------------------- MODULE SerdReader -----------------------------
(***************************************************************************)
(* IStreamQuadIteratorSerdImpl.cpp: the callbacks serd makes while it      *)
(* reads a chunk of a Turtle, TriG, N-Triples or N-Quads document, and     *)
(* next(), which reads chunks until there is something to return.          *)
(*                                                                         *)
(* Serd is the environment.  A document is a sequence of chunks, each of   *)
(* them the callbacks serd makes for it:                                   *)
(*   [k |-> "base", v]         @base, v a reference                        *)
(*   [k |-> "prefix", n, v]    @prefix                                     *)
(*   [k |-> "stmt", t]         a statement, t its four terms g, s, p, o    *)
(*   [k |-> "syntax"]          a syntax error, the last of its chunk       *)
(* A term is <<"iri", r>>, <<"curie", prefix, suffix>>, <<"blank", label>>,*)
(* <<"literal", text, the term of its datatype or <<>>>> or, for the       *)
(* default graph, <<>>.                                                    *)
(***************************************************************************)
EXTENDS Naturals, SequencesExt

CONSTANTS Refused,      \* the nodes inspect_node_func throws for
          BadRefs,      \* references and prefix names that are not valid
          AbsoluteRefs, \* references with a scheme of their own
          BadTexts      \* texts that are no literal of a datatype

NoTerm == <<>>
DefaultGraph == <<"iri", "", "default">>
NoError == "none"

(***************************************************************************)
(* A reader s: flags, the part [base, prefixes] of the parsing state, the  *)
(* buffer of quads, the last error, whether it asks to skip the rest of    *)
(* the line, and the end flag.  A term is made into a node n, or an error. *)
(***************************************************************************)
Node(n) == [n |-> n, err |-> NoError]
Failure(type) == [n |-> <<>>, err |-> type]

ReportError(s, type) == [s EXCEPT !.last_error = type]

AllowsPrefixes(s) == s.syntax \in {"Turtle", "TriG"}

Iri(s, ref) == <<"iri", IF ref \in AbsoluteRefs THEN "" ELSE s.base, ref>>

\* Only Turtle and TriG have references that are relative to a base.
get_iri(s, ref) ==
    IF ref \in BadRefs \/ (ref \notin AbsoluteRefs /\ ~AllowsPrefixes(s))
    THEN Failure("BadIri") ELSE Node(Iri(s, ref))

\* What a prefix stands for may be a relative reference; it is resolved when used.
Expanded(s, v, suffix) == <<"iri", IF v \in AbsoluteRefs THEN "" ELSE s.base, v, suffix>>

get_prefixed_iri(s, prefix, suffix) ==
    CASE ~AllowsPrefixes(s) -> Failure("BadSyntax")
      [] AllowsPrefixes(s) /\ prefix \notin DOMAIN s.prefixes -> Failure("BadCurie")
      [] AllowsPrefixes(s) /\ prefix \in DOMAIN s.prefixes ->
            IF suffix \in BadRefs THEN Failure("BadIri")
                                  ELSE Node(Expanded(s, s.prefixes[prefix], suffix))

\* Without a scope manager, or with KeepBlankNodeIds, the label itself.
get_bnode(s, graph, label) ==
    CASE "NoParseBlankNode" \in s.flags -> Failure("BadSyntax")
      [] "NoParseBlankNode" \notin s.flags -> Node(
            IF "KeepBlankNodeIds" \in s.flags \/ ~s.scoped THEN <<"blank", label>>
            ELSE <<"blank", graph, label>>)

IriOf(s, t) == IF t[1] = "curie" THEN get_prefixed_iri(s, t[2], t[3]) ELSE get_iri(s, t[2])

Typed(text, d) ==
    CASE d.err # NoError -> d
      [] d.err = NoError /\ text \in BadTexts -> Failure("BadLiteral")
      [] d.err = NoError /\ text \notin BadTexts -> Node(<<"literal", text, d.n>>)

get_literal(s, text, datatype) ==
    IF datatype = NoTerm THEN Node(<<"literal", text, <<>>>>)
                         ELSE Typed(text, IriOf(s, datatype))

TermNode(s, graph, t) ==
    CASE t = NoTerm -> Node(DefaultGraph)
      [] t # NoTerm /\ t[1] = "blank"   -> get_bnode(s, graph, t[2])
      [] t # NoTerm /\ t[1] = "literal" -> get_literal(s, t[2], t[3])
      [] t # NoTerm /\ t[1] \in {"iri", "curie"} -> IriOf(s, t)

inspect_node(r) == IF r.err = NoError /\ r.n \in Refused THEN Failure("BadSyntax") ELSE r

(***************************************************************************)
(* The callbacks.  on_stmt makes the terms one after the other, in the     *)
(* order graph, subject, predicate, object; the first that cannot be made  *)
(* is the error, and the statement is dropped.                             *)
(***************************************************************************)
\* The graph of the two blank nodes of a statement; the empty scope for its own.
MakeTerms(s, t) ==
    LET g == inspect_node(TermNode(s, <<>>, t[1]))
    IN  <<g>> \o [j \in 1..3 |-> inspect_node(TermNode(s, g.n, t[j + 1]))]

FirstError(made) ==
    LET bad == {j \in DOMAIN made : made[j].err # NoError}
    IN  IF bad = {} THEN NoError ELSE made[Min(bad)].err

Deliver(s, made) ==
    IF FirstError(made) # NoError THEN ReportError(s, FirstError(made))
    ELSE [s EXCEPT !.buffer = Append(@, [j \in 1..4 |-> made[j].n])]

on_stmt(s, t) == Deliver(s, MakeTerms(s, t))

\* A base has to be absolute.
on_base(s, v) ==
    CASE "NoParsePrefix" \in s.flags -> ReportError(s, "BadSyntax")
      [] "NoParsePrefix" \notin s.flags ->
            IF v \in BadRefs \/ v \notin AbsoluteRefs THEN ReportError(s, "BadSyntax")
            ELSE [s EXCEPT !.base = v]

\* Only the name is checked.
on_prefix(s, name, v) ==
    CASE "NoParsePrefix" \in s.flags -> ReportError(s, "BadSyntax")
      [] "NoParsePrefix" \notin s.flags ->
            IF name \in BadRefs THEN ReportError(s, "BadSyntax")
            ELSE [s EXCEPT !.prefixes = [q \in DOMAIN @ \cup {name} |->
                                            IF q = name THEN v ELSE s.prefixes[q]]]

on_error(s) == [ReportError(s, "BadSyntax") EXCEPT !.last_error_requires_skip = TRUE]

Callback(s, c) ==
    CASE c.k = "base"   -> on_base(s, c.v)
      [] c.k = "prefix" -> on_prefix(s, c.n, c.v)
      [] c.k = "stmt"   -> on_stmt(s, c.t)
      [] c.k = "syntax" -> on_error(s)

\* serd_reader_read_chunk that succeeds or meets a syntax error
ReadChunk(s, chunk) ==
    LET after[n \in 0..Len(chunk)] ==
            IF n = 0 THEN s ELSE Callback(after[n - 1], chunk[n])
    IN  after[Len(chunk)]

\* Mutation: the end of the input is not remembered.
ReadOn(s) == s

\* serd_reader_read_chunk at the end of the input
AtEnd(s) == IF s.last_error = NoError THEN [s EXCEPT !.end_flag = TRUE] ELSE s

\* serd_reader_read_chunk when the stream has failed
AtStreamError(s) ==
    [s EXCEPT !.last_error = "Io", !.last_error_requires_skip = FALSE, !.end_flag = TRUE]

(***************************************************************************)
(* What next() finds before it reads another chunk: "quad", "error", "end" *)
(* or "read".  noNewline: if the rest of the line has to be skipped, there *)
(* was no end of it to be found.                                           *)
(***************************************************************************)
Ready(s) ==
    CASE s.buffer # <<>> -> "quad"
      [] s.buffer = <<>> /\ s.last_error # NoError -> "error"
      [] s.buffer = <<>> /\ s.last_error = NoError -> IF s.end_flag THEN "end" ELSE "read"

PopQuad(s) == [s EXCEPT !.buffer = Tail(@)]

\* Mutation: the request to skip outlives the error it came with.
TakeErrorKeepsSkip(s, noNewline) ==
    [s EXCEPT !.last_error = NoError,
              !.end_flag = @ \/ (s.last_error_requires_skip /\ noNewline)]

TakeError(s, noNewline) ==
    [s EXCEPT !.last_error = NoError, !.last_error_requires_skip = FALSE,
              !.end_flag = @ \/ (s.last_error_requires_skip /\ noNewline)]

NewSerd(syntax, flags, scoped, base) ==
    [syntax |-> syntax, flags |-> flags, scoped |-> scoped, base |-> base,
     prefixes |-> [q \in {} |-> ""], buffer |-> <<>>, last_error |-> NoError,
     last_error_requires_skip |-> FALSE, end_flag |-> FALSE]
=============================================================================
