----------------------------- MODULE IriFactory -----------------------------
(***************************************************************************)
(* IRIView and IRIFactory: an IRI is taken apart, a reference is resolved  *)
(* against the base, a prefixed name is expanded.                          *)
(*                                                                         *)
(* An IRI is a sequence of characters; all letters are alike, and a space  *)
(* stands for every character an IRI may not have.  A part that may be     *)
(* missing is a set of at most one element.                                *)
(***************************************************************************)
EXTENDS Naturals, Sequences, FiniteSets, SequencesExt

LOCAL Upto(s, n) == SubSeq(s, 1, n)
LOCAL From(s, n) == SubSeq(s, n, Len(s))
LOCAL Only(o) == CHOOSE x \in o : TRUE
LOCAL StartsWith(s, p) == Len(p) <= Len(s) /\ Upto(s, Len(p)) = p

\* find_first_of: the place of the first of some characters, behind the end if there
\* is none
FirstOf(s, chars) ==
    LET at == {i \in 1..Len(s) : s[i] \in chars}
    IN IF at = {} THEN Len(s) + 1 ELSE CHOOSE i \in at : \A j \in at : i <= j
Until(s, chars) == Upto(s, FirstOf(s, chars) - 1)
Behind(s, part) == From(s, Len(part) + 1)

-----------------------------------------------------------------------------
(* IRIView                                                                 *)

\* get_scheme_part: the place of the colon, 0 for no scheme. Only a slash before the
\* colon keeps what is there from being a scheme.
SchemeEnd(s) ==
    IF FirstOf(s, {":"}) > Len(s) \/ FirstOf(s, {":"}) > FirstOf(s, {"/"}) THEN 0
    ELSE FirstOf(s, {":"})
is_relative(s) == SchemeEnd(s) = 0

\* all_parts: every part begins where the one before it ends.
FragmentPart(s) == IF StartsWith(s, <<"#">>) THEN {From(s, 2)} ELSE {}
QueryPart(s) == IF StartsWith(s, <<"?">>) THEN {Until(From(s, 2), {"#"})} ELSE {}
WithQuery(parts, s, query) ==
    [parts EXCEPT !.query = query,
                  !.frag = FragmentPart(IF query = {} THEN s ELSE From(s, Len(Only(query)) + 2))]
WithPath(parts, s, path) ==
    WithQuery([parts EXCEPT !.path = path], Behind(s, path), QueryPart(Behind(s, path)))
WithAuthority(parts, s, auth) ==
    WithPath([parts EXCEPT !.auth = auth], s,
             IF auth \notin {{}, {<<>>}} /\ ~StartsWith(s, <<"/">>) THEN <<>>
             ELSE Until(s, {"#", "?"}))
WithScheme(parts, s) ==
    IF StartsWith(s, <<"/", "/">>)
    THEN LET auth == Until(From(s, 3), {"/", "#", "?"})
         IN WithAuthority(parts, From(s, 3 + Len(auth)), {auth})
    ELSE WithAuthority(parts, s, {})
all_parts(s) ==
    LET c == SchemeEnd(s)
    IN WithScheme([scheme |-> IF c = 0 THEN {} ELSE {Upto(s, c - 1)}, auth |-> {}, path |-> <<>>,
                   query |-> {}, frag |-> {}], IF c > 1 THEN From(s, c + 1) ELSE s)

\* quick_validate: an IRI has a scheme of letters and no character that it must not.
quick_validate(s) ==
    /\ \E scheme \in all_parts(s).scheme : \A i \in 1..Len(scheme) :
           scheme[i] \notin {"?", "#"}
    /\ \A i \in 1..Len(s) : s[i] # " "

-----------------------------------------------------------------------------
(* Resolving a reference                                                   *)

construct(scheme, auth, path, query, frag) ==
    LET Part(mark, part) == IF part = {} THEN <<>> ELSE mark \o Only(part)
        rooted == IF path # <<>> /\ path[1] # "/" /\ auth # {} THEN <<"/">> ELSE <<>>
    IN Only(scheme) \o <<":">> \o Part(<<"/", "/">>, auth) \o rooted \o path
           \o Part(<<"?">>, query) \o Part(<<"#">>, frag)

LastSlash(path) ==
    LET at == {i \in 1..Len(path) : path[i] = "/"}
    IN IF at = {} THEN 0 ELSE CHOOSE i \in at : \A j \in at : i >= j
remove_last_path_segment(path) ==
    IF LastSlash(path) = 0 THEN path ELSE Upto(path, LastSlash(path) - 1)

first_path_segment(path) ==
    IF path[1] = "/" THEN <<"/">> \o Until(Tail(path), {"/"}) ELSE Until(path, {"/"})

\* /.. takes the segment before it away.
Parent(path) == remove_last_path_segment(path)

RECURSIVE RemoveDots(_, _)
RemoveDots(src, buf) ==
    CASE src = <<>> -> buf
      [] StartsWith(src, <<".", "/">>) -> RemoveDots(From(src, 3), buf)
      [] StartsWith(src, <<".", ".", "/">>) -> RemoveDots(From(src, 4), buf)
      [] StartsWith(src, <<"/", ".", "/">>) -> RemoveDots(From(src, 3), buf)
      [] src = <<"/", ".">> -> Append(buf, "/")
      [] StartsWith(src, <<"/", ".", ".", "/">>) ->
             RemoveDots(From(src, 4), Parent(buf))
      [] src = <<"/", ".", ".">> -> Append(Parent(buf), "/")
      [] src \in {<<".">>, <<".", ".">>} -> buf
      [] OTHER -> LET seg == first_path_segment(src)
                  IN RemoveDots(Behind(src, seg), buf \o seg)
remove_dot_segments(path) == RemoveDots(path, <<>>)

merge_path_with_base(base, path) ==
    CASE base.scheme # {} /\ base.path = <<>> -> <<"/">> \o path
      [] LastSlash(base.path) = 0 -> path
      [] OTHER -> Append(remove_last_path_segment(base.path), "/") \o path

to_absolute(base, rel, r, always_remove_dots) ==
    LET Absolute(auth, path, query) == construct(base.scheme, auth, path, query, r.frag)
    IN CASE r.scheme # {} /\ always_remove_dots ->
                construct(r.scheme, r.auth, remove_dot_segments(r.path), r.query, r.frag)
         [] r.scheme # {} /\ ~always_remove_dots -> rel
         [] r.scheme = {} /\ r.auth # {} ->
                Absolute(r.auth, remove_dot_segments(r.path), r.query)
         [] r.scheme = {} /\ r.auth = {} /\ r.path = <<>> ->
                Absolute(base.auth, base.path,
                         IF r.query # {} THEN r.query ELSE base.query)
         [] OTHER ->
                Absolute(base.auth,
                         remove_dot_segments(IF r.path[1] = "/" THEN r.path
                                             ELSE merge_path_with_base(base, r.path)),
                         r.query)

-----------------------------------------------------------------------------
(* IRIFactory                                                              *)

\* The factory keeps its base, the parts of the base, and the prefixes.
Factory(base) == [base |-> base, parts |-> all_parts(base), prefixes |-> <<>>]

\* Mutation: the parts of the base are not taken again.
BaseOnly(f, base) == [f EXCEPT !.base = base]
set_base_unchecked(f, base) == [f EXCEPT !.base = base, !.parts = all_parts(base)]

\* set_base: nothing if the base is refused
set_base(f, base) == IF quick_validate(base) THEN {set_base_unchecked(f, base)} ELSE {}

\* A prefix is a name: the empty one, or letters that do not end in a dot. What it
\* stands for is not looked at.
assign_prefix(f, prefix, expanded) ==
    IF prefix # <<>> /\ (prefix[1] = "." \/ Last(prefix) = "." \/ \E i \in DOMAIN prefix :
                             prefix[i] \in {" ", ":", "/", "?", "#"})
    THEN {}
    ELSE {[f EXCEPT !.prefixes = (prefix :> expanded) @@ f.prefixes]}

\* create_and_validate: an IRI, or the error that is thrown for it
create_and_validate(s) == IF quick_validate(s) THEN {s} ELSE {}
from_relative(f, rel) == create_and_validate(to_absolute(f.parts, rel, all_parts(rel), TRUE))
from_maybe_relative(f, rel) == create_and_validate(to_absolute(f.parts, rel, all_parts(rel), FALSE))

HasPrefix(f, prefix) == prefix \in DOMAIN f.prefixes
from_prefix(f, prefix, local) ==
    LET deref == f.prefixes[prefix] \o local
    IN IF is_relative(deref) THEN from_relative(f, deref) ELSE create_and_validate(deref)

-----------------------------------------------------------------------------
(* RFC 3986, which from_relative is documented to implement: the parts as its      *)
(* appendix B has them, the path as a sequence of segments                         *)

RfcParts(s) ==
    LET c == FirstOf(s, {":", "/", "?", "#"})
        hasScheme == c \in 2..Len(s) /\ s[c] = ":"
        rest == IF hasScheme THEN From(s, c + 1) ELSE s
        hasAuth == StartsWith(rest, <<"/", "/">>)
        auth == Until(From(rest, 3), {"/", "?", "#"})
        p == IF hasAuth THEN Behind(From(rest, 3), auth) ELSE rest
        q == Behind(p, Until(p, {"?", "#"}))
        f == From(q, FirstOf(q, {"#"}))
    IN [scheme |-> IF hasScheme THEN {Upto(s, c - 1)} ELSE {},
        auth |-> IF hasAuth THEN {auth} ELSE {},
        path |-> Until(p, {"?", "#"}),
        query |-> IF StartsWith(q, <<"?">>) THEN {Until(Tail(q), {"#"})} ELSE {},
        frag |-> IF f # <<>> THEN {Tail(f)} ELSE {}]

\* The segments behind the first slash of a path, and the path of such segments
RECURSIVE Segments(_)
Segments(path) ==
    IF path = <<>> THEN <<>>
    ELSE <<Until(Tail(path), {"/"})>> \o Segments(Behind(Tail(path), Until(Tail(path), {"/"})))
PathOf(segments) == FoldLeft(LAMBDA acc, seg : acc \o <<"/">> \o seg, <<>>, segments)

Dots == {<<".">>, <<".", ".">>}
Resolve(segments) ==
    LET Take(acc, seg) ==
            CASE seg = <<".">> -> acc
              [] seg = <<".", ".">> -> IF acc = <<>> THEN acc ELSE Front(acc)
              [] OTHER -> Append(acc, seg)
        all == FoldLeft(Take, <<>>, segments)
    IN IF segments # <<>> /\ Last(segments) \in Dots THEN Append(all, <<>>) ELSE all
\* A reference resolved, for a base with a path that begins with a slash or none
Merged(path, basePath) ==
    IF StartsWith(path, <<"/">>) THEN Segments(path)
    ELSE Front(Segments(IF basePath = <<>> THEN <<"/">> ELSE basePath)) \o Segments(<<"/">> \o path)
RfcMade(b, r) ==
    LET Made(auth, path, query) == construct(b.scheme, auth, path, query, r.frag)
    IN CASE r.auth # {} -> Made(r.auth, PathOf(Resolve(Segments(r.path))), r.query)
         [] r.auth = {} /\ r.path = <<>> ->
                Made(b.auth, b.path, IF r.query # {} THEN r.query ELSE b.query)
         [] OTHER -> Made(b.auth, PathOf(Resolve(Merged(r.path, b.path))), r.query)
RfcResolved(base, ref) == RfcMade(RfcParts(base), RfcParts(ref))
=============================================================================
