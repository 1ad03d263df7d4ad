------------------------------ MODULE Literals ------------------------------
(***************************************************************************)
(* The literal: where its value is kept, how it moves between node         *)
(* storages, and its operations.                                           *)
(*                                                                         *)
(* A literal keeps its value packed into its id ("inlined"), as a value in *)
(* a specialized storage ("value"), or as text ("lexical").  A lexical     *)
(* form is a sequence of numbers, the first of which says how it is to be  *)
(* read: characters, a number <<1, unscaled, exponent>>, a floating point  *)
(* number <<2, kind, n>>, a boolean <<3, b>>, a time zone <<9, minutes>>,   *)
(* or the fields of a time datatype.  Only characters are taken apart.     *)
(*                                                                         *)
(* An operation yields a result [dt, data, lang], which is then made a     *)
(* literal.  The result of an operation that yields the null literal has   *)
(* the datatype "null"; that of one that does not return, because a        *)
(* lexical form cannot be read or a time point does not fit, "failed".     *)
(***************************************************************************)
EXTENDS DateTime

CONSTANTS Specialized,    \* the datatypes a specialized storage keeps as values
          Comparable,     \* the dynamic datatypes with a compare function
          InlinedTags     \* the language tags that a LiteralID has room for

\* A second is written with one digit of its fraction.
ASSUME SecondAssumption == 10 % Second = 0

VARIABLE dyn              \* the dynamic part of the registry

registered(t) == find_map_entry(dyn, t)
comparable(t) == registered(t) /\ t \in Fixed \cup Comparable

-----------------------------------------------------------------------------
(* Text                                                                    *)

Text(chars) == <<0>> \o chars
Chars(s) == Tail(s)
IsText(s) == s[1] = 0
Hyphen == 26
Star == 27
Space == 30
Lower(c) == IF c \in 11..19 THEN c - 10 ELSE c
Upper(c) == IF c \in 1..9 THEN c + 10 ELSE c
MapChars(Op(_), s) == [i \in DOMAIN s |-> IF i = 1 THEN s[i] ELSE Op(s[i])]

CmpSeq(a, b) ==
    LET differ == {i \in DOMAIN a \cap DOMAIN b : a[i] # b[i]}
    IN IF differ = {} THEN Cmp(Len(a), Len(b))
       ELSE LET i == CHOOSE i \in differ : \A j \in differ : i <= j IN Cmp(a[i], b[i])

\* The numbers of the first shape, read as a decimal: the digits have to fit, but trailing
\* zeros of the fraction need not; the sign is applied afterwards.
ReadDecimal(u, e) ==
    LET dropped == {k \in 0..e : Abs(u) \div (10 ^ k) < -MinUnscaled}
        least == {k \in dropped : \A j \in dropped : k <= j}
    IN {d \in {<<Quot(u, 10 ^ k), e - k>> : k \in least} :
            u = d[1] * 10 ^ (e - d[2]) /\ d[2] <= MaxExponent}

\* The time datatypes whose texts have the same shape.
Family(t) == CASE t \in Durations -> 10
               [] t \in {"dateTime", "dateTimeStamp"} -> 11
               [] OTHER -> IdOf[t] + 20

ReadFloating(t, s) ==
    CASE s[1] = 1 -> {Rounded(t, Grid * s[2], 10 ^ s[3])}
      [] s[1] = 2 -> {IF s[2] = 0 THEN Rounded(t, s[3], 1) ELSE Tail(s)}
      [] OTHER -> {}

from_string(t, s) ==
    CASE t = "boolean" -> IF s[1] = 3 THEN {Tail(s)}
                          ELSE {<<n[2]>> : n \in {s} \cap {<<1, 0, 0>>, <<1, 1, 0>>}}
      [] t = "decimal" -> IF s[1] = 1 THEN ReadDecimal(s[2], s[3]) ELSE {}
      [] t \in {"float", "double"} -> ReadFloating(t, s)
      [] t \in Numerics \ {"decimal", "float", "double"} ->
             IF s[1] = 1 /\ s[3] = 0 /\ s[2] \in IntegerValues(t) THEN {<<s[2]>>} ELSE {}
      [] t \in TimeDatatypes -> IF s[1] = Family(t) THEN time_datatype(t, "parse", Tail(s)) ELSE {}
      [] t = "anyURI" -> When(IsText(s) /\ Space \notin Range(Chars(s)), {s})
      [] OTHER -> {s}

\* serialize_canonical_string and serialize_simplified_string
canonical(t, v) ==
    CASE t = "boolean" -> <<3>> \o v
      [] t = "decimal" -> LET d == normalize(v)
                          IN IF d[2] = 0 THEN <<1, 10 * d[1], 1>> ELSE <<1>> \o d
      [] t \in {"float", "double"} -> <<2>> \o v
      [] t \in Numerics \ {"decimal", "float", "double"} -> <<1, v[1], 0>>
      [] t \in TimeDatatypes -> <<Family(t)>> \o time_datatype(t, "write", v)
      [] OTHER -> v
simplified(t, v) ==
    CASE t = "decimal" -> <<1>> \o normalize(v)
      [] t \in {"float", "double"} /\ IsFinite(v) ->
             <<1>> \o normalize(<<v[2] * (1000 \div Grid), 3>>)
      [] OTHER -> canonical(t, v)

-----------------------------------------------------------------------------
(* Making and reading literals                                             *)

Nothing == [dt |-> "null", data |-> <<>>, lang |-> <<>>]
NoReturn == [dt |-> "failed", data |-> <<>>, lang |-> <<>>]
Typed(t, values) ==
    IF values = {} THEN Nothing ELSE [dt |-> t, data |-> CHOOSE v \in values : TRUE, lang |-> <<>>]
Simple(s) == Typed("string", {s})
Tagged(s, tag) == [dt |-> "langString", data |-> s, lang |-> tag]

\* TriBool
False == 0
True == 1
Err == 2
Tri(b) == IF b THEN True ELSE False
Not(b) == IF b = Err THEN Err ELSE 1 - b
make_boolean(b) == IF b = Err THEN Nothing ELSE Typed("boolean", {<<b>>})

try_into_inlined(t, v) ==
    CASE t = "boolean" -> {v} [] t \in Numerics -> pack_number(t, v)
      [] t \in TimeDatatypes -> time_datatype(t, "pack", v) [] OTHER -> {}
from_inlined(t, p) ==
    CASE t = "boolean" -> p [] t \in Numerics -> unpack_number(t, p)
      [] OTHER -> time_datatype(t, "unpack", p)

Literal(r, form, data, st) ==
    [dt |-> r.dt, form |-> form, data |-> data, lang |-> r.lang, st |-> st]

\* Without a specialized storage a value that is not inlined is kept as text.
make_noninlined(r, st) ==
    IF st = "special" /\ r.dt \in Specialized THEN Literal(r, "value", r.data, st)
    ELSE Literal(r, "lexical", canonical(r.dt, r.data), st)

MadeOf(r, packed, st) == IF packed = {} THEN make_noninlined(r, st)
                         ELSE Literal(r, "inlined", CHOOSE p \in packed : TRUE, st)
make_typed_unchecked(r, st) == MadeOf(r, try_into_inlined(r.dt, r.data), st)

\* The tag of a langString is inlined beside the id of its text.
make_lang_tagged_unchecked(r, st) ==
    Literal(r, IF r.lang \in InlinedTags THEN "inlined" ELSE "lexical", r.data, st)

\* make_typed_from_value, and make_simple and make_noninlined_typed for texts
make_typed_from_value(r, st) ==
    CASE r.dt \in {"null", "failed"} -> Literal(r, r.dt, r.data, "none")
      [] r.dt = "langString" -> make_lang_tagged_unchecked(r, st)
      [] r.dt = "string" \/ r.dt \notin Fixed -> Literal(r, "lexical", r.data, st)
      [] OTHER -> make_typed_unchecked(r, st)

\* make_typed: what is thrown for the datatype or the text is a missing result.
make_typed(t, s) ==
    IF t = "langString" THEN Nothing
    ELSE IF t \in Fixed \/ registered(t) THEN Typed(t, from_string(t, s)) ELSE Typed(t, {s})

\* value: an unreadable text has none.
value(l) ==
    CASE l.form = "inlined" /\ l.dt # "langString" -> {from_inlined(l.dt, l.data)}
      [] l.form = "lexical" /\ l.dt \notin {"string", "langString"} -> from_string(l.dt, l.data)
      [] l.form \in {"null", "failed"} -> {}
      [] OTHER -> {l.data}

\* An operand is a literal with its value; its lex is its text, where that is not made of
\* the value.
Operand(l, v) ==
    [dt |-> l.dt, form |-> l.form, lang |-> l.lang, lit |-> l, val |-> v, lex |-> l.data]

IsNull(o) == o.dt = "null"
Val(o) == CHOOSE v \in o.val : TRUE
lexical_form(o) ==
    IF o.form = "value" \/ (o.form = "inlined" /\ o.dt # "langString") THEN canonical(o.dt, Val(o))
    ELSE o.lex
\* A result that needs the values of some operands.
Needs(operands, r) == IF \E o \in operands : o.val = {} THEN NoReturn ELSE r

\* serialize_lexical_form_impl<simplified>: the text of a literal that is kept as one is
\* read by its datatype's factory, and that of rdf:langString has no implementation.
as_simplified_lexical_form(o) ==
    CASE o.dt = "langString" -> IF o.form = "inlined" THEN Simple(o.lex) ELSE NoReturn
      [] o.dt # "langString" /\ (o.dt \in Fixed \/ registered(o.dt)) ->
             IF o.val = {} THEN NoReturn ELSE Simple(simplified(o.dt, Val(o)))
      [] OTHER -> Simple(o.lex)

\* to_node_storage: a packed value is taken as it is, a tag is taken out and looked at
\* again, a text becomes a value where the storage has room for one.
to_node_storage(l, st) ==
    CASE l.st = st \/ l.form \in {"null", "failed"} -> l
      [] l.st # st /\ l.dt = "langString" -> make_lang_tagged_unchecked(l, st)
      [] l.st # st /\ l.form = "inlined" /\ l.dt # "langString" -> [l EXCEPT !.st = st]
      [] l.form = "lexical" /\ st = "special" /\ l.dt \in Specialized ->
             IF value(l) = {} THEN Literal(NoReturn, "failed", <<>>, "none")
             ELSE Literal(l, "value", CHOOSE v \in value(l) : TRUE, st)
      [] l.form = "value" /\ st = "plain" -> Literal(l, "lexical", canonical(l.dt, l.data), st)
      [] OTHER -> [l EXCEPT !.st = st]

-----------------------------------------------------------------------------
(* Conversions                                                             *)

Integral == Numerics \ {"decimal", "float", "double"}

\* convert_lhs and convert_rhs of a DatatypeConverter: up to the common type.
convert(t, to, v) ==
    CASE t = to \/ t = "anyURI" -> v
      [] t \in Integral /\ to \in {"float", "double"} ->
             promote_number("decimal", to, promote_number(t, "decimal", v))
      [] t \in Numerics /\ (t \notin Integral \/ to \notin {"float", "double"}) ->
             promote_number(t, to, v)
      [] OTHER -> promote_time(t, to, v)

\* inverted_convert: down from the common type, to a value of the subtype if there is one.
OfSubtype(t, values) == {v \in values : v[1] \in IntegerValues(t)}
inverted_convert(t, from, v) ==
    CASE t = from -> {v}
      [] t \in Integral /\ from \in {"float", "double"} ->
             OfSubtype(t, UNION {demote_number("integer", "decimal", d) : d \in from_floating(v)})
      [] t \in Integral /\ from = "decimal" -> OfSubtype(t, demote_number("integer", from, v))
      [] t \in Numerics /\ (t \notin Integral \/ from \notin {"float", "double", "decimal"}) ->
             demote_number(t, from, v)
      [] OTHER -> demote_time(t, from, v)

ebv(o) ==
    CASE o.dt = "boolean" -> Val(o)[1]
      [] o.dt \in Numerics -> IF o.val = {} THEN Err ELSE Tri(effective_boolean(o.dt, Val(o)))
      [] o.dt \in {"string", "anyURI"} -> Tri(o.lex # <<0>>)
      [] OTHER -> Err
as_ebv(o) == IF o.dt \in Numerics THEN Needs({o}, make_boolean(ebv(o))) ELSE make_boolean(ebv(o))

\* A boolean is the one or the zero of the numeric type, if that is a value of the datatype.
cast_boolean(o, t) ==
    Typed(t, inverted_convert(t, numeric_impl_type(t),
                 CHOOSE v \in {m.data : m \in from_multiplicity(numeric_impl_type(t), Val(o)[1])} :
                     TRUE))

cast_common(o, t) ==
    LET Down(c, v) == inverted_convert(t, c.target, convert(o.dt, c.target, v))
    IN Typed(t, UNION {Down(c, Val(o)) : c \in get_common_type_conversion[<<o.dt, t>>]})

\* cast_impl to another datatype
cast_impl(o, t) ==
    CASE IsNull(o) -> Nothing
      [] o.dt = "string" -> make_typed(t, o.lex)
      [] o.dt # "string" /\ t = "string" -> as_simplified_lexical_form(o)
      [] o.dt # "string" /\ t = "boolean" -> as_ebv(o)
      [] o.dt = "boolean" /\ t \in Numerics -> cast_boolean(o, t)
      [] OTHER -> IF /\ registered(t) /\ registered(o.dt)
                     /\ get_common_type_conversion[<<o.dt, t>>] # {}
                  THEN Needs({o}, cast_common(o, t)) ELSE Nothing

\* cast_to_value
cast_to_value(o, t) ==
    IF o.dt = t THEN Needs({o}, Typed(t, o.val)) ELSE cast_impl(o, t)

-----------------------------------------------------------------------------
(* Arithmetic; a missing result of a chrono operation is left to the       *)
(* numeric one                                                             *)

OrElse(results, other) == IF results = {} THEN other ELSE CHOOSE r \in results : TRUE
OpResult(results) == OrElse({Typed(r.dt, {r.data}) : r \in results}, Nothing)

\* The conversion of a datatype to itself, and whether a conversion can be applied to two
\* operands: each converter casts the value to the type of its own datatype.
Identity(t) == [target |-> t, lhs |-> t, rhs |-> t]
Ready(c, a, b) == a.val # {} /\ b.val # {} /\ c.lhs = a.dt /\ c.rhs = b.dt

\* numeric_equalized_deferred_impl and numeric_binop_impl
numeric_binop(op, a, b) ==
    LET Equalized(c) == binary_op(c.target, op, convert(a.dt, c.target, Val(a)),
                                  convert(b.dt, c.target, Val(b)))
        conversions == IF a.dt = b.dt /\ a.dt \in NumericImpls THEN {Identity(a.dt)}
                       ELSE get_common_numeric_op_type_conversion[<<a.dt, b.dt>>]
    IN IF ~({a.dt, b.dt} \subseteq Numerics) THEN Nothing
       ELSE OrElse({IF Ready(c, a, b) THEN OpResult(Equalized(c)) ELSE NoReturn : c \in conversions},
                   Nothing)

\* run_binop: both operands as their common type.
run_binop(a, b) == {<<c.target, c.target>> : c \in get_common_type_conversion[<<a.dt, b.dt>>]}

\* run_binop_cast_rhs: the right side as the datatype that the operation takes.
run_binop_cast_rhs(a, b, t) ==
    {<<a.dt, c.target>> : c \in {c \in get_common_type_conversion[<<b.dt, t>>] : c.target = t}}

\* What the operands are taken as by an operation of the time datatypes, if it is one.
chrono_add(a, b) ==
    CASE a.dt \in Timepoints /\ b.dt \in Durations ->
             run_binop_cast_rhs(a, b, duration_operand(a.dt))
      [] a.dt \in Durations /\ b.dt \in Durations -> run_binop(a, b)
      [] OTHER -> {}
chrono_sub(a, b) ==
    IF {a.dt, b.dt} \subseteq Timepoints THEN run_binop(a, b) ELSE chrono_add(a, b)
chrono_mul(a, b) ==
    IF a.dt \in Durations /\ b.dt \in Numerics THEN run_binop_cast_rhs(a, b, "double") ELSE {}
chrono_div(a, b) ==
    IF {a.dt, b.dt} \subseteq Durations THEN run_binop(a, b) ELSE chrono_mul(a, b)

Moved(t, values) ==
    IF values = {} /\ t \in TerminatesOnOverflow THEN NoReturn ELSE Typed(t, values)
Elapsed(t, x, y) == {<<n>> : n \in timepoint_sub(promote_time(t, "dateTime", x),
                                                promote_time(t, "dateTime", y))}
chrono_op(op, t, u, x, y) ==
    LET sign == IF op = "sub" THEN -1 ELSE 1
    IN CASE t \in Timepoints /\ u \in Timepoints -> Typed("dayTimeDuration", Elapsed(t, x, y))
         [] t \in Timepoints /\ u \in Durations ->
                Moved(t, add_to_timepoint(t, x, AsDuration(t, y), sign))
         [] u = "double" -> Typed(t, scale_duration(op, x, y))
         [] t \in Durations /\ u \in Durations ->
                IF op = "div" THEN Typed("decimal", divide_durations(t, x, y))
                ELSE Typed(t, add_durations(t, x, y, sign))

chrono(op, a, b) ==
    {Needs({a, b}, chrono_op(op, as[1], as[2], convert(a.dt, as[1], Val(a)),
                             convert(b.dt, as[2], Val(b)))) :
        as \in CASE op = "add" -> chrono_add(a, b) [] op = "sub" -> chrono_sub(a, b)
                 [] op = "mul" -> chrono_mul(a, b) [] op = "div" -> chrono_div(a, b)}

\* add, sub, mul and div
arithmetic(op, a, b) ==
    IF IsNull(a) \/ IsNull(b) THEN Nothing ELSE OrElse(chrono(op, a, b), numeric_binop(op, a, b))

\* numeric_unop_impl: a stub's value is an integer.
numeric_unop(op, o) ==
    IF o.dt \notin Numerics THEN Nothing
    ELSE Needs({o}, OpResult(unary_op(numeric_impl_type(o.dt), op, Val(o))))

\* make_deferred_from_multiplicity
make_from_multiplicity(n, t) ==
    LET all == from_multiplicity(numeric_impl_type(t), n)
    IN Typed(numeric_impl_type(t), {m.data : m \in all})

-----------------------------------------------------------------------------
(* Comparison                                                              *)

Terminates == 3      \* a comparison that has to read what cannot be read

\* The datatypes' compare functions
compare_values(t, x, y) ==
    CASE t \in Numerics -> compare_numbers(t, x, y)
      [] t \in TimeDatatypes -> compare_times(t, x, y)
      [] t \notin Numerics \cup TimeDatatypes -> CmpSeq(x, y)

\* compare_values_of_same_datatype, and the comparison of two values as their common type
compare_as(c, a, b) ==
    IF ~Ready(c, a, b) THEN Terminates
    ELSE compare_values(c.target, convert(a.dt, c.target, Val(a)), convert(b.dt, c.target, Val(b)))
CompareTypes(a, b) ==
    IF a.dt = b.dt THEN {Identity(a.dt)} ELSE get_common_type_conversion[<<a.dt, b.dt>>]

\* compare_impl: the same literal, of a datatype with a fixed id, is equal to itself.
compare(a, b) ==
    CASE IsNull(a) \/ IsNull(b) -> Unordered
      [] ~IsNull(a) /\ a.dt \in Fixed /\ a.lit = b.lit -> Equivalent
      [] OTHER -> IF ~comparable(a.dt) \/ ~comparable(b.dt) THEN Unordered
                  ELSE IF a.dt = "langString" /\ b.dt = a.dt /\ a.lex = b.lex
                  THEN CmpSeq(a.lang, b.lang)
                  ELSE OrElse({compare_as(c, a, b) : c \in CompareTypes(a, b)}, Unordered)

\* The alternative ordering: null first, then the datatypes, then the lexical forms.
alternative_ordering(a, b) ==
    IF a.dt = b.dt THEN CmpSeq(lexical_form(a), lexical_form(b))
    ELSE Cmp(IF IsNull(a) THEN 0 ELSE IdOf[a.dt], IF IsNull(b) THEN 0 ELSE IdOf[b.dt])
Ordered(a, b, c) ==
    IF c \notin {Equivalent, Unordered} \/ (a.lit = b.lit /\ a.dt \in Fixed) THEN c
    ELSE alternative_ordering(a, b)
order(a, b) == Ordered(a, b, compare(a, b))

\* partial_weak_ordering_eq, and the comparisons that are made of it; those of order have
\* an answer for all literals.
partial_weak_ordering_eq(c, o) == IF c = Unordered THEN Err ELSE Tri(c = o)
Comparison(op, c) ==
    CASE op = "eq" -> partial_weak_ordering_eq(c, Equivalent)
      [] op = "ne" -> Not(partial_weak_ordering_eq(c, Equivalent))
      [] op = "lt" -> partial_weak_ordering_eq(c, Less)
      [] op = "le" -> Not(partial_weak_ordering_eq(c, Greater))
      [] op = "gt" -> partial_weak_ordering_eq(c, Greater)
      [] op = "ge" -> Not(partial_weak_ordering_eq(c, Less))
as_comparison(op, c) == IF c = Terminates THEN NoReturn ELSE make_boolean(Comparison(op, c))

\* logical_and, logical_or and logical_not, by the tables of TriBool
logical_and(x, y) == CASE False \in {x, y} -> False [] {x, y} = {True} -> True [] OTHER -> Err
logical_or(x, y) == Not(logical_and(Not(x), Not(y)))

-----------------------------------------------------------------------------
(* Strings                                                                 *)

is_string_like(o) == o.dt \in {"string", "langString"}
\* make_string_like_copy_lang_tag
SameKind(s, o) == IF o.dt = "langString" THEN Tagged(s, o.lang) ELSE Simple(s)

\* A needle with a language has to have that of the text.
Compatible(o, needle) ==
    /\ is_string_like(o) /\ is_string_like(needle)
    /\ needle.dt = "langString" => needle.lang = o.lang

\* find_utf8: the place before the first occurrence, a set of at most one.
Occurrences(s, n) == {i \in 0..(Len(s) - Len(n)) : SubSeq(s, i + 1, i + Len(n)) = n}
FindIn(s, n) == {i \in Occurrences(s, n) : \A j \in Occurrences(s, n) : i <= j}

contains(o, needle) == Tri(FindIn(Chars(o.lex), Chars(needle.lex)) # {})
str_starts_with(o, needle) == Tri(IsPrefix(Chars(needle.lex), Chars(o.lex)))
str_ends_with(o, needle) == Tri(IsSuffix(Chars(needle.lex), Chars(o.lex)))

Part(o, parts) == IF parts = {} THEN Simple(<<0>>) ELSE SameKind(Text(CHOOSE p \in parts : TRUE), o)
substr_before(o, needle) ==
    LET s == Chars(o.lex) IN Part(o, {SubSeq(s, 1, i) : i \in FindIn(s, Chars(needle.lex))})
substr_after(o, needle) ==
    LET s == Chars(o.lex)
        n == Chars(needle.lex)
    IN Part(o, {SubSeq(s, i + Len(n) + 1, Len(s)) : i \in FindIn(s, n)})

string_binop(op, o, needle) ==
    IF ~Compatible(o, needle) THEN Nothing
    ELSE CASE op = "contains" -> make_boolean(contains(o, needle))
           [] op = "starts" -> make_boolean(str_starts_with(o, needle))
           [] op = "ends" -> make_boolean(str_ends_with(o, needle))
           [] op = "before" -> substr_before(o, needle)
           [] op = "after" -> substr_after(o, needle)

concat(a, b) ==
    LET s == Text(Chars(a.lex) \o Chars(b.lex))
    IN IF a.dt = "langString" /\ b.dt = "langString" /\ a.lang = b.lang THEN Tagged(s, a.lang)
       ELSE Simple(s)

as_strlen(o) == Typed("integer", {<<Len(Chars(o.lex))>>})

\* lang_matches: a range is a tag, or the part of it before a hyphen.
lang_matches(tag, range) ==
    LET low(s) == [i \in DOMAIN s |-> Lower(s[i])]
    IN IF range = <<>> THEN tag = <<>>
       ELSE IF range = <<Star>> THEN tag # <<>>
       ELSE IsPrefix(low(range), low(tag)) /\ (Len(range) < Len(tag) => tag[Len(range) + 1] = Hyphen)
as_language_tag_matches_range(o, range) ==
    IF ~is_string_like(o) \/ range.dt # "string" THEN Nothing
    ELSE make_boolean(Tri(lang_matches(o.lang, Chars(range.lex))))
as_language_tag_eq(a, b) ==
    IF a.dt = "langString" /\ b.dt = "langString" THEN make_boolean(Tri(a.lang = b.lang))
    ELSE Nothing

\* substr by literals. A length below zero, which the part before the first character can
\* make of it, is undefined as an unsigned number; builds make it zero or too large.
SubstrLengths(start, len) ==
    LET n == HalfAway(len, Grid) - (IF start < Grid THEN HalfAway(Grid - start, Grid) ELSE 0)
    IN IF n < 0 THEN {0, 10000} ELSE {n}
Dropped(s, n) == IF n >= Len(s) THEN <<>> ELSE SubSeq(s, n + 1, Len(s))
Taken(s, n) == IF n >= Len(s) THEN s ELSE SubSeq(s, 1, n)

substr_by_values(o, start, len) ==
    LET before == IF start = NegInf \/ start[2] <= Grid THEN 0
                  ELSE HalfAway(start[2] - Grid, Grid)
        rest == Dropped(Chars(o.lex), before)
    IN IF start \in {NaN, Inf} \/ len \in {NaN, NegInf} \/ (IsFinite(len) /\ len[2] <= 0)
       THEN {SameKind(<<0>>, o)}
       ELSE IF len = Inf THEN {SameKind(Text(rest), o)}
       ELSE {SameKind(Text(Taken(rest, n)), o) :
                n \in IF start = NegInf THEN {0, 10000} ELSE SubstrLengths(start[2], len[2])}
substr(o, start, len) ==
    IF "null" \in {start.dt, len.dt} THEN {Nothing} ELSE substr_by_values(o, start.data, len.data)

-----------------------------------------------------------------------------
(* The parts of a time point                                               *)

HasPart(part) ==
    CASE part = "year" -> {"dateTime", "dateTimeStamp", "date", "gYearMonth", "gYear"}
      [] part = "month" ->
             {"dateTime", "dateTimeStamp", "date", "gYearMonth", "gMonthDay", "gMonth"}
      [] part = "day" -> {"dateTime", "dateTimeStamp", "date", "gMonthDay", "gDay"}
      [] part \in {"hours", "minutes", "seconds"} -> {"dateTime", "dateTimeStamp", "time"}
      [] part \in {"timezone", "tz"} -> Datatypes

PartOf(part, v) ==
    CASE part = "year" -> Typed("integer", {<<DateOf(v[1])[1]>>})
      [] part = "month" -> Typed("integer", {<<DateOf(v[1])[2]>>})
      [] part = "day" -> Typed("integer", {<<DateOf(v[1])[3]>>})
      [] part = "hours" -> Typed("integer", {<<ClockOf(v[1] % Day)[1]>>})
      [] part = "minutes" -> Typed("integer", {<<ClockOf(v[1] % Day)[2]>>})
      [] part = "seconds" -> Typed("decimal", {<<(10 \div Second) * (v[1] % Minute), 1>>})
      [] part = "timezone" -> IF v[2] = NoTz THEN Nothing
                              ELSE Typed("dayTimeDuration", {<<v[2] * Minute>>})
      [] part = "tz" -> IF v[2] = NoTz THEN Simple(<<0>>) ELSE Simple(<<9, v[2]>>)

\* year, month, day, hours, minutes, seconds, timezone and tz
PartIn(part, casted) ==
    CASE casted.dt = "null" -> Nothing [] casted.dt = "failed" -> NoReturn
      [] casted.dt = "dateTime" -> PartOf(part, casted.data)
time_part(part, o) ==
    IF o.dt \notin HasPart(part) THEN Nothing ELSE PartIn(part, cast_to_value(o, "dateTime"))
=============================================================================
