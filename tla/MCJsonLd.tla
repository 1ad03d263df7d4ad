------------------------------ MODULE MCJsonLd ------------------------------
EXTENDS JsonLd

\* Texts: a term, a keyword, an IRI of the one namespace, a blank node
T(x) == <<x>>
E(x) == <<"ex", ":", x>>
B(x) == <<"_", ":", x>>
S(x) == Str(T(x))
U(x) == Str(E(x))
One(k, v) == Obj(<<<<k, v>>>>)
Two(k, v, l, w) == Obj(<<<<k, v>>, <<l, w>>>>)
Three(k, v, l, w, m, x) == Obj(<<<<k, v>>, <<l, w>>, <<m, x>>>>)
Id(x) == One(T("@id"), U(x))
Ctx(c, k, v) == Two(T("@context"), c, k, v)

Json(body, final) == [kind |-> "json", body |-> body, final |-> final, link |-> None]
Page(link) == [kind |-> "other", body |-> Null, final |-> <<>>, link |-> Some(link)]
Remote(c) == One(T("@context"), c)

MCDocumentBase == <<"doc", ":">>
MCServer ==
    (E("plain") :> Json(Remote(One(T("p"), U("p"))), <<>>))
    @@ (E("moved") :> Json(Remote(One(T("r"), U("r"))), E("target")))
    @@ (E("target") :> Json(Remote(One(T("r"), U("r"))), <<>>))
    @@ (E("page") :> Page(E("plain")))
    @@ (E("self") :> Page(E("self")))
    @@ (E("loop") :> Json(Remote(Arr(<<U("plain"), U("loop")>>)), <<>>))
    @@ (E("odd") :> Json(Arr(<<>>), <<>>))

\* Contexts that nested objects bring along
MCLocals ==
    { \* q needs p, p needs the prefix x
      Three(T("q"), S("p"), T("p"), Str(<<"x", ":", "p">>), T("x"), Str(<<"ex", ":">>)),
      \* a protected term, the same again, and another meaning for it
      Two(T("@protected"), Bool(TRUE), T("p"), U("p")),
      One(T("p"), Two(T("@id"), U("other"), T("@type"), S("@id"))),
      Two(T("p"), U("p"), T("r"), One(T("@reverse"), U("r"))),
      Null,
      \* a round of terms
      Two(T("p"), Str(<<"q", ":", "p">>), T("q"), Str(<<"p", ":", "q">>)),
      Arr(<<U("plain"), U("moved"), U("target")>>),
      Arr(<<U("page"), U("moved")>>),
      U("self"),
      U("loop"),
      \* the vocabulary names a term; a scoped context; an import
      Two(T("@vocab"), S("v"), T("v"), U("v")),
      Two(T("T"), Two(T("@id"), U("T"), T("@context"), One(T("p"), U("typed"))),
          T("p"), U("p")),
      Two(T("@import"), U("plain"), T("t"), U("t")),
      Two(T("@vocab"), Str(<<"ex", ":">>), T("@language"), S("en")),
      Two(T("@type"), Two(T("@container"), S("@set"), T("@protected"), Bool(TRUE)),
          T("@base"), Null) }

Term(id, k, v) == Two(T("@id"), U(id), T(k), v)
ListDoc(v) == Ctx(One(T("l"), Term("l", "@container", S("@list"))), T("l"), v)

MCDocuments ==
    { \* terms that need each other, a value of every kind
      Obj(<<<<T("@context"),
              Obj(<<<<T("p"), Str(<<"x", ":", "p">>)>>, <<T("x"), Str(<<"ex", ":">>)>>,
                    <<T("@language"), S("en")>>,
                    <<T("d"), Term("d", "@type", Str(<<"xsd:", ":", "date">>))>>,
                    <<T("o"), Term("o", "@type", S("@id"))>>,
                    <<T("j"), Term("j", "@type", S("@json"))>>>>)>>,
            <<T("@type"), Arr(<<U("B"), U("A")>>)>>,
            <<T("p"), Arr(<<S("a"), Num("7"), Bool(TRUE), Null>>)>>,
            <<T("d"), S("day")>>, <<T("o"), U("o")>>, <<T("j"), One(T("k"), S("v"))>>>>),
      \* value objects
      One(E("p"), Arr(<<Two(T("@value"), S("a"), T("@language"), S("en")),
                        Two(T("@value"), S("b"), T("@direction"), S("rtl")),
                        Two(T("@value"), Num("1.5"), T("@type"), U("t")),
                        One(T("@set"), Arr(<<S("c"), One(T("@value"), Null)>>))>>)),
      \* lists: empty, around values that give nothing, nested, with objects
      One(E("l"), One(T("@list"), Arr(<<>>))),
      One(E("l"), One(T("@list"), Arr(<<S("a"), Null, Id("o"), One(E("p"), S("b"))>>))),
      ListDoc(Arr(<<Arr(<<S("a"), S("b")>>), Arr(<<>>), S("c")>>)),
      One(E("l"), One(T("@list"), Arr(<<S("a"), One(T("@value"), Num("1e999"))>>))),
      One(E("l"), One(T("@list"), One(E("m"), One(T("@list"), S("a"))))),
      \* contexts of types: both change p, the later type wins
      Obj(<<<<T("@context"),
              Two(T("T2"), Two(T("@id"), U("T2"), T("@context"), One(T("p"), U("p2"))),
                  T("T1"), Two(T("@id"), U("T1"), T("@context"), One(T("p"), U("p1"))))>>,
            <<T("@type"), S("T2")>>, <<T("p"), One(T("p"), S("a"))>>>>),
      Obj(<<<<T("@context"),
              Obj(<<<<T("T2"), Two(T("@id"), U("T2"), T("@context"), One(T("p"), U("p2")))>>,
                    <<T("T1"), Two(T("@id"), U("T1"), T("@context"), One(T("p"), U("p1")))>>,
                    <<T("kind"), S("@type")>>>>)>>,
            <<T("kind"), S("T1")>>, <<T("@type"), S("T2")>>, <<T("p"), S("a")>>>>),
      \* maps
      Ctx(One(T("m"), Term("m", "@container", S("@language"))), T("m"),
          Two(T("en"), Arr(<<S("a"), S("b")>>), T("@none"), S("c"))),
      Ctx(One(T("m"), Term("m", "@container", S("@id"))), T("m"),
          Two(E("a"), One(E("p"), S("a")), E("b"), One(E("p"), S("b")))),
      Ctx(Two(T("m"), Term("m", "@container", S("@type")),
              T("A"), Two(T("@id"), U("A"), T("@context"), One(T("p"), U("p")))), T("m"),
          Two(T("A"), One(T("p"), S("a")), T("@none"), Id("n"))),
      Ctx(One(T("m"), Three(T("@id"), U("m"), T("@container"), S("@index"),
                            T("@index"), U("i"))), T("m"),
          Two(T("x"), One(E("p"), S("a")), T("y"), Arr(<<Id("b"), Id("c")>>))),
      \* graphs
      Ctx(One(T("g"), Term("g", "@container", S("@graph"))), T("g"),
          Arr(<<One(E("p"), S("a")), One(E("p"), S("b"))>>)),
      Ctx(One(T("g"), Term("g", "@container", Arr(<<S("@graph"), S("@id")>>))), T("g"),
          One(E("a"), One(E("p"), S("a")))),
      Two(T("@id"), U("g"), T("@graph"), Arr(<<One(E("p"), S("a")), Id("b")>>)),
      Ctx(One(T("p"), U("p")), T("@graph"), Arr(<<One(T("p"), S("a"))>>)),
      \* reverse, nested and included
      Ctx(One(T("r"), One(T("@reverse"), U("r"))), T("r"), Arr(<<Id("a"), Id("b")>>)),
      One(T("@reverse"), Two(E("p"), Id("a"), E("q"), One(E("s"), S("t")))),
      One(T("@reverse"), One(E("p"), S("a"))),
      Three(T("@nest"), One(E("p"), S("a")), T("@included"),
            Two(T("@id"), U("x"), E("p"), S("c")), E("q"), S("b")),
      \* remote contexts in nested objects
      Ctx(U("page"), E("n"), Ctx(Arr(<<U("plain"), U("moved")>>), T("r"),
                                 Ctx(U("target"), T("p"), S("a")))),
      Ctx(U("self"), E("p"), S("a")),
      Ctx(U("odd"), E("p"), S("a")),
      \* a property-scoped context, blank node labels
      Ctx(One(T("p"), Two(T("@id"), U("p"), T("@context"), One(T("q"), U("q")))),
          T("p"), One(T("q"), S("a"))),
      Two(T("@id"), Str(B("bn_0")), E("p"), Arr(<<One(E("q"), S("a")), One(T("@id"), Str(B("x")))>>)),
      \* what is wrong with it shows after the first quads
      Two(E("p"), S("a"), E("q"), One(T("@type"), Str(<<"ex", ":", " ">>))),
      Two(T("@id"), U("a"), T("@id"), U("b")),
      Arr(<<Id("a"), S("b"), One(E("p"), Two(T("@value"), S("a"), T("@language"),
                                              S("not a tag")))>>),
      S("alone") }

MCTypeOrder == <<T("@type"), T("A"), E("A"), E("B"), T("T1"), T("T2"), T("kind")>>
=============================================================================
