----------------------------- MODULE QuadWriter -----------------------------
(***************************************************************************)
(* private/rdf4cpp/writer/WriteQuad.hpp and writer/SerializationState.cpp:  *)
(* quads are printed one after the other.  Turtle and TriG abbreviate: the  *)
(* SerializationState knows the graph block, the subject and the predicate  *)
(* that are open in the text, and flush() closes them.  Any write may fail, *)
(* which ends the call in the middle.                                      *)
(*                                                                         *)
(* The text is a sequence of tokens, nodes and punctuation; blanks and the  *)
(* spelling of nodes are left out.  What a text means is defined below by a *)
(* reader of the grammar.                                                  *)
(***************************************************************************)
EXTENDS Integers, Sequences

CONSTANTS
    Formats,      \* among "NTriples", "Turtle", "NQuads", "TriG"
    Nodes, Null,  \* the null node
    DefaultGraph, \* IRI::default_graph()
    Quads,        \* <<graph, subject, predicate, object>>
    MaxQuads      \* bound of the model: quads written

ASSUME NodesAssumption ==
    /\ DefaultGraph \in Nodes /\ Null \notin Nodes
    /\ Quads \subseteq (Nodes \union {Null}) \X Nodes \X Nodes \X Nodes
    /\ MaxQuads \in Nat

VARIABLES
    format,
    state,    \* active_graph, active_subject, active_predicate
    text,
    accepted, \* the quads whose write_quad() returned true
    broken    \* a write failed, the caller has stopped

vars == <<format, state, text, accepted, broken>>

PrefixFormats == {"Turtle", "TriG"}
HasPrefix == format \in PrefixFormats
HasGraph  == format \in {"NQuads", "TriG"}

Closed == [graph |-> Null, subject |-> Null, predicate |-> Null]

Init ==
    /\ format \in Formats
    /\ state = Closed /\ text = <<>> /\ accepted = <<>> /\ broken = FALSE

-----------------------------------------------------------------------------
(***************************************************************************)
(* A call is a sequence of writes of tokens.  Each of them comes with the   *)
(* state in which it is done, as the state changes between the writes.     *)
(***************************************************************************)
Write(st, token)  == <<[state |-> st, token |-> token]>>
Punct(st, mark)   == Write(st, [mark |-> mark, node |-> Null])
WriteNode(st, n)  == Write(st, [mark |-> "node", node |-> n])
When(c, writes)   == IF c THEN writes ELSE <<>>

TokensOf(writes) == [i \in DOMAIN writes |-> writes[i].token]

\* A call with these writes succeeds and leaves this state, or one of its writes
\* returns false.
Succeeds(writes, st) ==
    /\ text' = text \o TokensOf(writes) /\ state' = st
    /\ UNCHANGED broken
Fails(writes) ==
    /\ \E i \in DOMAIN writes :
        /\ text' = text \o TokensOf(SubSeq(writes, 1, i - 1))
        /\ state' = writes[i].state
    /\ broken' = TRUE

\* Mutation: the nodes are not forgotten.
BlockOnly == [state EXCEPT !.graph = Null]
AllNull == Closed

\* SerializationState::flush(), which ends with the state AllNull.
FlushWrites ==
    When(state.predicate # Null \/ state.subject # Null, Punct(state, "dot"))
    \o When(state.graph # Null, Punct(state, "close"))

\* print_graph(): not for the default graph.
PrintGraph(graph) == graph \notin {Null, DefaultGraph}

\* The graph of the quad is not the one whose block is open.
OtherGraph(graph) == HasPrefix /\ HasGraph /\ graph # state.graph
GraphWrites(graph) ==
    When(OtherGraph(graph),
         FlushWrites
         \o When(PrintGraph(graph), WriteNode(AllNull, graph) \o Punct(AllNull, "open")))
GraphState(graph) ==
    IF ~OtherGraph(graph) THEN state
    ELSE IF PrintGraph(graph) THEN [AllNull EXCEPT !.graph = graph] ELSE AllNull

\* Mutation: the predicate alone decides.
AnySubject(st, q) == st.predicate = q[3]
SamePredicate(st, q) == st.subject = q[2] /\ st.predicate = q[3]
SameSubject(st, q) == st.subject = q[2]

\* Abbreviated statements, in state st.
AbbreviatedState(st, q) == [st EXCEPT !.subject = q[2], !.predicate = q[3]]
AbbreviatedWrites(st, q) ==
    LET after == AbbreviatedState(st, q)
    IN  IF SamePredicate(st, q) THEN Punct(st, "comma") \o WriteNode(st, q[4])
        ELSE IF SameSubject(st, q)
        THEN Punct(st, "semicolon") \o WriteNode(st, q[3]) \o WriteNode(after, q[4])
        ELSE When(st.subject # Null, Punct(st, "dot"))
             \o WriteNode(after, q[2]) \o WriteNode(after, q[3]) \o WriteNode(after, q[4])

LineWrites(q) ==
    WriteNode(state, q[2]) \o WriteNode(state, q[3]) \o WriteNode(state, q[4])
    \o When(HasGraph /\ PrintGraph(q[1]), WriteNode(state, q[1]))
    \o Punct(state, "dot")

QuadWrites(q) ==
    IF HasPrefix THEN GraphWrites(q[1]) \o AbbreviatedWrites(GraphState(q[1]), q)
    ELSE LineWrites(q)
QuadState(q) ==
    IF HasPrefix THEN AbbreviatedState(GraphState(q[1]), q) ELSE state

-----------------------------------------------------------------------------
\* begin(): the prefixes, one stands for all.
Begin ==
    /\ ~broken /\ HasPrefix /\ text = <<>>
    /\ \/ Succeeds(Punct(state, "prefix"), state)
       \/ Fails(Punct(state, "prefix"))
    /\ UNCHANGED <<format, accepted>>

WriteQuad(q) ==
    /\ ~broken /\ Len(accepted) < MaxQuads
    /\ \/ Succeeds(QuadWrites(q), QuadState(q)) /\ accepted' = Append(accepted, q)
       \/ Fails(QuadWrites(q)) /\ UNCHANGED accepted
    /\ UNCHANGED format

\* flush(), at the end or anywhere between two quads.
Flush ==
    /\ ~broken /\ HasPrefix
    /\ Succeeds(FlushWrites, AllNull) \/ Fails(FlushWrites)
    /\ UNCHANGED <<format, accepted>>

Next ==
    \/ Begin
    \/ \E q \in Quads : WriteQuad(q)
    \/ Flush

Spec == Init /\ [][Next]_vars

-----------------------------------------------------------------------------
(***************************************************************************)
(* What a text means: the reader of a format collects nodes until a mark    *)
(* makes a quad of them.  One grammar serves the four formats, a graph      *)
(* label is legal in NQuads only and a block in TriG only.                 *)
(***************************************************************************)
NothingRead ==
    [format |-> format, graph |-> DefaultGraph, nodes |-> <<>>, quads |-> <<>>, legal |-> TRUE]

Complete(r) == Len(r.nodes) = 3 \/ (r.format = "NQuads" /\ Len(r.nodes) = 4)
QuadRead(r) ==
    <<IF Len(r.nodes) = 4 THEN r.nodes[4] ELSE r.graph, r.nodes[1], r.nodes[2], r.nodes[3]>>

Illegal(r) == [r EXCEPT !.legal = FALSE]

\* A mark that ends an object and keeps the first n nodes.
EndObject(r, n) ==
    IF Complete(r) /\ (n = 0 \/ r.format \in PrefixFormats)
    THEN [r EXCEPT !.quads = Append(@, QuadRead(r)), !.nodes = SubSeq(@, 1, n)]
    ELSE Illegal(r)

OpenBlock(r) ==
    IF r.format = "TriG" /\ Len(r.nodes) = 1 /\ r.graph = DefaultGraph
    THEN [r EXCEPT !.graph = r.nodes[1], !.nodes = <<>>]
    ELSE Illegal(r)

CloseBlock(r) ==
    IF r.nodes = <<>> /\ r.graph # DefaultGraph
    THEN [r EXCEPT !.graph = DefaultGraph]
    ELSE Illegal(r)

ReadToken(r, t) ==
    CASE t.mark = "node" -> [r EXCEPT !.nodes = Append(@, t.node)]
      [] t.mark = "comma" -> EndObject(r, 2)
      [] t.mark = "semicolon" -> EndObject(r, 1)
      [] t.mark = "dot" -> EndObject(r, 0)
      [] t.mark = "open" -> OpenBlock(r)
      [] t.mark = "close" -> CloseBlock(r)
      [] t.mark = "prefix" -> IF r.nodes = <<>> THEN r ELSE Illegal(r)

\* A reader that has read r goes on with these tokens.
ReadFrom(r, tokens) ==
    LET read[n \in 0 .. Len(tokens)] ==
            IF n = 0 THEN r ELSE ReadToken(read[n - 1], tokens[n])
    IN  read[Len(tokens)]

\* The quads that were read; an object is read when it is there.
QuadsOf(r) ==
    IF r.format \in PrefixFormats /\ Complete(r) THEN Append(r.quads, QuadRead(r)) ELSE r.quads

Reading == ReadFrom(NothingRead, text)

-----------------------------------------------------------------------------
(***************************************************************************)
(* Properties.                                                             *)
(***************************************************************************)

\* The state is made of nodes, a predicate is open only with its subject, and
\* the default graph never has a block.
TypeOK ==
    /\ format \in Formats /\ broken \in BOOLEAN
    /\ state.graph \in (Nodes \ {DefaultGraph}) \union {Null}
    /\ {state.subject, state.predicate} \subseteq Nodes \union {Null}
    /\ state.subject = Null <=> state.predicate = Null
    /\ accepted \in Seq(Quads) /\ Len(accepted) <= MaxQuads

\* A triple format has no graphs, and the null graph is the default graph.
Meant(q) == <<IF HasGraph /\ q[1] # Null THEN q[1] ELSE DefaultGraph, q[2], q[3], q[4]>>

\* Whatever quads are written in whatever order, with flush() anywhere between,
\* the text is grammatical and says the accepted quads, in their order and each
\* in its graph; a write that fails in the middle leaves a text that says the
\* same quads and can only be incomplete at its end.
TextSaysTheQuads ==
    /\ Reading.legal
    /\ QuadsOf(Reading) = [i \in DOMAIN accepted |-> Meant(accepted[i])]

\* Between two calls the state is what is open in the text, no more and no less:
\* the block of its graph, and the subject and predicate of its last statement,
\* so that after flush() another writer may go on with the text.
StateIsWhatIsOpen ==
    /\ TypeOK
    /\ HasPrefix /\ ~broken =>
           /\ Reading.graph = IF state.graph = Null THEN DefaultGraph ELSE state.graph
           /\ IF state.subject = Null THEN Reading.nodes = <<>>
              ELSE /\ Complete(Reading)
                   /\ Reading.nodes[1] = state.subject
                   /\ Reading.nodes[2] = state.predicate
=============================================================================
