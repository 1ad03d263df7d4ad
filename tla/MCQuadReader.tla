---------------------------- MODULE MCQuadReader ----------------------------
(***************************************************************************)
(* Small documents for QuadReader.                                         *)
(***************************************************************************)
EXTENDS QuadReader

A(k, v) == [k |-> k, v |-> v]
E(n, a) == [n |-> n, a |-> a]

MCElements == {
    E("RDF", <<A("base", "http://b/")>>),
    E("T", <<A("about", "a")>>),
    E("Description", <<A("nodeID", "0_bn")>>),
    E("p", <<A("ID", "i"), A("resource", "r"), A("q", "v")>>),
    E("p", <<A("q", "v")>>),
    E("p", <<A("parseType", "Resource"), A("base", "http://c/")>>),
    E("p", <<A("parseType", "Collection")>>),
    E("li", <<>>),
    E("li", <<A("parseType", "Literal")>>),
    E("p", <<A("datatype", "d"), A("ID", "i")>>) }

Stmt(s, o) == [k |-> "stmt", t |-> <<<<>>, s, <<"iri", "p">>, o>>]
Prefix(n, v) == [k |-> "prefix", n |-> n, v |-> v]
BaseIs(v) == [k |-> "base", v |-> v]
Syntax == [k |-> "syntax"]
Good == Stmt(<<"iri", "http://s">>, <<"literal", "1", <<>>>>)
Curie == Stmt(<<"curie", "e", "x">>, <<"blank", "b">>)
Bad == Stmt(<<"iri", "bad ref">>, <<"iri", "r">>)
BadText == Stmt(<<"iri", "s">>, <<"literal", "one", <<"iri", "d">>>>)
Graphed == [k |-> "stmt", t |-> <<<<"iri", "g">>, <<"blank", "b">>, <<"iri", "p">>, <<"blank", "b">>>>]

MCCallbacks == {Good, Curie, Bad, BadText, Graphed, Syntax, BaseIs("http://b/"),
                Prefix("e", "http://e/"), Prefix("e", "rel")}
MCChunks == {<<Prefix("e", "http://e/")>>, <<Prefix("e", "rel")>>, <<BaseIs("http://b/")>>,
             <<Curie>>, <<Good, Bad>>, <<Bad, BadText, Curie>>, <<Good, Syntax>>, <<Graphed>>}
MCDocuments == UNION {[1..n -> MCChunks] : n \in 0..3}
MCSetups == {[syntax |-> "TriG", flags |-> {}, scoped |-> TRUE],
             [syntax |-> "Turtle", flags |-> {"NoParsePrefix", "KeepBlankNodeIds"}, scoped |-> TRUE],
             [syntax |-> "NQuads", flags |-> {"NoParseBlankNode"}, scoped |-> FALSE]}
MCAbsolute == {"http://s", "http://b/", "http://c/", "http://e/", "d"}
MCIllTyped == {<<<<"space">>, <<"iri", "", "d">>>>}
MCRefused == {<<"iri", "http://b/", "g">>, <<"bnode", "2_bn">>}
=============================================================================
