------------------------------- MODULE Values -------------------------------
(***************************************************************************)
(* A program that computes with literals: it has one literal, applies the  *)
(* operations to it and to samples, moves it between a plain and a         *)
(* specialized node storage, and registers datatypes of its own before it  *)
(* begins.  Or it has an IRI factory, and resolves references.             *)
(***************************************************************************)
EXTENDS Literals, IriFactory

CONSTANTS Samples,       \* results, of which the other operands are made
          Firsts,        \* the results of which the literal may be made
          CastTypes,     \* the targets of casts
          Multiplicities,
          Bases, References, Prefix, Expansions,   \* the inputs of the IRI factory
          MaxSteps       \* how many operations are applied

VARIABLES work,          \* "literals" or "iris"
          acc,           \* the literal
          steps,         \* how many operations were applied
          factory,       \* the IRI factory
          resolved       \* the last reference and the IRI it was resolved to, if any
vars == <<dyn, work, acc, steps, factory, resolved>>

Storages == {"plain", "special"}
NullLiteral == make_typed_from_value(Nothing, "plain")
OperandOf(l) == Operand(l, value(l))
SampleOperands == {OperandOf(make_typed_from_value(r, "plain")) : r \in Samples}

Init ==
    /\ dyn = <<>>
    /\ steps = 0
    /\ resolved = <<>>
    /\ \/ /\ work = "literals"
          /\ acc \in {make_typed_from_value(r, st) : r \in Samples \cup Firsts, st \in Storages}
          /\ factory = Factory(<<>>)
       \/ /\ work = "iris"
          /\ acc = NullLiteral
          /\ \E base \in Bases : factory = Factory(base)

-----------------------------------------------------------------------------
(* Literals                                                                *)

Becomes(l) ==
    /\ steps' = steps + 1
    /\ acc' = l
    /\ UNCHANGED <<dyn, work, factory, resolved>>
\* Once an operation did not return there are no more.
Computes == work = "literals" /\ steps < MaxSteps /\ acc.dt # "failed"
\* An operation with some results, made in the storage of the literal
Gives(Results(_)) ==
    /\ Computes
    /\ \E o \in {OperandOf(acc)} : \E r \in Results(o) :
           Becomes(make_typed_from_value(r, IF acc.st = "none" THEN "plain" ELSE acc.st))

\* add, sub, mul, div; pos, neg, abs, round, floor, ceil
Arithmetic == Gives(LAMBDA o :
    {arithmetic(op, o, b) : op \in {"add", "sub", "mul", "div"}, b \in SampleOperands})
Unary == Gives(LAMBDA o :
    {numeric_unop(op, o) : op \in {"pos", "neg", "abs", "round", "floor", "ceil"}})
FromMultiplicity == Gives(LAMBDA o :
    {make_from_multiplicity(n, t) : n \in Multiplicities, t \in Numerics})

\* as_eq and the others, as_order_eq and the others
Comparisons(c) == {as_comparison(op, c) : op \in {"eq", "ne", "lt", "le", "gt", "ge"}}
Compare == Gives(LAMBDA o : UNION {Comparisons(compare(o, b)) : b \in SampleOperands})
Order == Gives(LAMBDA o : UNION {Comparisons(order(o, b)) : b \in SampleOperands})

\* as_ebv, logical_and, logical_or, logical_not. A value that cannot be read has no
\* effective boolean value to ask for.
Readable(o) == o.dt \in Numerics => o.val # {}
Connected(x, y) == {logical_and(x, y), logical_or(x, y), Not(x)}
Logical == Gives(LAMBDA o : {as_ebv(o)} \cup
    {make_boolean(b) : b \in When(Readable(o),
                                  UNION {Connected(ebv(o), ebv(b)) : b \in SampleOperands})})

\* cast: to the datatype it has, a literal only changes its storage.
Cast == Gives(LAMBDA o : {cast_impl(o, t) : t \in CastTypes \ {o.dt}})

\* contains, str_starts_with, str_ends_with, substr_before, substr_after
TextOf(o) == When(is_string_like(o) /\ IsText(o.lex), {o})
TextOps == {"contains", "starts", "ends", "before", "after"}
Texts == UNION {TextOf(b) : b \in SampleOperands}
StringBinary == Gives(LAMBDA o :
    {string_binop(op, t, b) : op \in TextOps, t \in TextOf(o), b \in Texts})
\* concat, as_strlen, uppercase, lowercase, as_language_tag, language_tag_matches_range,
\* as_language_tag_eq
StringUnary == Gives(LAMBDA o : UNION {{concat(t, b) : b \in Texts} \cup
    {as_strlen(t), SameKind(MapChars(Upper, t.lex), t), SameKind(MapChars(Lower, t.lex), t),
     Simple(Text(t.lang))} : t \in TextOf(o)})
Language == Gives(LAMBDA o :
    UNION {{as_language_tag_matches_range(t, b), as_language_tag_eq(t, b)} :
    t \in TextOf(o), b \in Texts})
Doubles == {cast_to_value(b, "double") : b \in {b \in SampleOperands : b.dt \in Numerics}}
Substr == Gives(LAMBDA o :
    UNION {substr(t, start, len) : t \in TextOf(o), start \in Doubles, len \in Doubles})

\* year, month, day, hours, minutes, seconds, timezone, tz
Parts == Gives(LAMBDA o : {time_part(part, o) : part \in
    {"year", "month", "day", "hours", "minutes", "seconds", "timezone", "tz"}})

\* to_node_storage, and try_get_in_node_storage where the storage has not got it: only what
\* is in the id alone is always there.
Move == Computes /\ \E st \in Storages : Becomes(to_node_storage(acc, st))
TryGetAbsent == Computes /\ (acc.form # "inlined" \/ acc.dt = "langString") /\ Becomes(NullLiteral)

\* DatatypeRegistry::add by the user, before anything else; a bound: only for the literals
\* whose operations look at the entries of such datatypes.
Register(t) ==
    /\ work = "literals" /\ steps = 0 /\ acc.dt \notin Fixed
    /\ dyn' = add(dyn, t)
    /\ UNCHANGED <<work, acc, steps, factory, resolved>>

-----------------------------------------------------------------------------
(* IRIs                                                                    *)

Resolves == work = "iris" /\ steps < MaxSteps
Answered(ref, iris) ==
    /\ resolved' = <<ref, iris>>
    /\ steps' = steps + 1
    /\ UNCHANGED <<dyn, work, acc, factory>>
Reset(factories) ==
    /\ factory' \in (IF factories = {} THEN {factory} ELSE factories)
    /\ resolved' = <<>>
    /\ steps' = steps + 1
    /\ UNCHANGED <<dyn, work, acc>>

SetBase == Resolves /\ \E base \in Bases \cup References : Reset(set_base(factory, base))
AssignPrefix == Resolves /\ \E e \in Expansions : Reset(assign_prefix(factory, Prefix, e))
FromRelative == Resolves /\ \E ref \in References : Answered(ref, from_relative(factory, ref))
FromMaybeRelative ==
    Resolves /\ \E ref \in References : Answered(ref, from_maybe_relative(factory, ref))
FromPrefix == Resolves /\ HasPrefix(factory, Prefix) /\ \E local \in References :
    Answered(factory.prefixes[Prefix] \o local, from_prefix(factory, Prefix, local))

Next ==
    \/ Arithmetic \/ Unary \/ FromMultiplicity \/ Compare \/ Order \/ Logical \/ Cast
    \/ StringBinary \/ StringUnary \/ Language \/ Substr \/ Parts \/ Move \/ TryGetAbsent
    \/ \E t \in DOMAIN Dynamic : Register(t)
    \/ SetBase \/ AssignPrefix \/ FromRelative \/ FromMaybeRelative \/ FromPrefix

Spec == Init /\ [][Next]_vars

-----------------------------------------------------------------------------
(* Properties                                                              *)

\* What two literals are to each other does not depend on which of them is asked: the
\* common type is searched with the lesser datatype first, whichever side that is, the
\* texts that cannot be read are those of either side, and the orderings for ORDER BY are
\* mirrored too (DatatypeRegistry::get_common_type_conversion, Literal::compare_impl).
Mirrored(c, d) == d = IF c = Terminates THEN Terminates ELSE Reverse3(c)
MirroredBoth(a, b, c, d) == Mirrored(c, d) /\ Mirrored(Ordered(a, b, c), Ordered(b, a, d))
ComparesAlike(a, b) == MirroredBoth(a, b, compare(a, b), compare(b, a))
ComparisonsMirror ==
    work = "literals" /\ acc.dt # "failed" =>
        \A o \in {OperandOf(acc)}, b \in SampleOperands : ComparesAlike(o, b)

\* Decimals and integers are computed exactly or not at all: a sum, difference or product
\* is the exact one, a quotient is cut off below the last digit, a rounded number is the
\* nearest whole one, the larger of two (BigDecimal, Numeric::add and the others). An
\* integer is added and multiplied without a check, and wraps around.
AsDecimal(o) == IF o.dt = "decimal" THEN Val(o) ELSE <<Val(o)[1], 0>>
Exact(o) == o.dt \in Integral \cup {"decimal"} /\ o.val # {}
Scaled(d, e) == d[1] * 10 ^ (e - d[2])
ExactValue(op, a, b) ==
    LET e == LargerExponent(a, b)
    IN CASE op = "add" -> <<Scaled(a, e) + Scaled(b, e), e>>
         [] op = "sub" -> <<Scaled(a, e) - Scaled(b, e), e>>
         [] op = "mul" -> <<a[1] * b[1], a[2] + b[2]>>
IsQuotient(a, b, q) ==
    LET rest == Abs(Scaled(a, a[2] + b[2] + q[2]) - q[1] * b[1] * 10 ^ a[2])
    IN rest < Abs(b[1]) * 10 ^ a[2] /\ (q[1] = 0 \/ SignOf(q[1]) = SignOf(a[1]) * SignOf(b[1]))
IsRound(d, n) == LET twice == 2 * (d[1] - n * 10 ^ d[2])
                 IN -(10 ^ d[2]) <= twice /\ twice < 10 ^ d[2]

\* The exponents with which TLC's own integers do not overflow
MaxCheckedExponent == 4
IsExact(op, a, b, r) ==
    r.dt = "decimal" =>
        IF op # "div" THEN normalize(r.data) = normalize(ExactValue(op, a, b))
        ELSE a[2] + b[2] + r.data[2] <= MaxCheckedExponent => IsQuotient(a, b, r.data)
RoundsWell(d, r) == r.dt = "decimal" => IsRound(d, r.data[1])
ArithmeticIsExact ==
    work = "literals" => \A a \in {o \in {OperandOf(acc)} : Exact(o)} :
        /\ \A b \in SampleOperands, op \in {"add", "sub", "mul", "div"} :
               Exact(b) => IsExact(op, AsDecimal(a), AsDecimal(b), arithmetic(op, a, b))
        /\ RoundsWell(AsDecimal(a), numeric_unop("round", a))

\* A date and a duration are added as XML Schema's appendix E does it: the months move the
\* date to the same day of another month, or to its last day, and the days are counted from
\* there (add_duration_to_date_time). This holds for the years of our era.
DaysBeforeMonth(y, m) ==
    LET Length[k \in 0..12] == IF k = 0 THEN 0 ELSE Length[k - 1] + last_day_in_month(y, k)
    IN Length[m - 1]
DayNumber(d) == LET y == d[1] - 1
                IN 365 * y + (y \div 4) - (y \div 100) + (y \div 400) + DaysBeforeMonth(d[1], d[2]) + d[3]
MonthsLater(d, n) ==
    LET y == d[1] + ((d[2] - 1 + n) \div 12)
        m == ((d[2] - 1 + n) % 12) + 1
    IN <<y, m, IF d[3] <= last_day_in_month(y, m) THEN d[3] ELSE last_day_in_month(y, m)>>
AddsUp(d, span, sum) ==
    LET moved == MonthsLater(d, span[1])
    IN sum.dt = "date" /\ moved[1] >= 1 /\ sum.data[1] >= 1 =>
           /\ DayNumber(sum.data) - DayNumber(moved) = span[2] \div Day
           /\ sum.data[4] = d[4]
DatesAddUp ==
    work = "literals" /\ acc.dt = "date" =>
        \A a \in {OperandOf(acc)}, b \in SampleOperands : b.dt \in Durations /\ Val(a)[1] >= 1 =>
            AddsUp(Val(a), convert(b.dt, "duration", Val(b)), arithmetic("add", a, b))

\* A literal that is moved to a storage is the literal that is made there of its value,
\* however that is kept: packed, as a value, or as text that has to be written and read
\* (to_node_storage, make_typed_unchecked, the datatypes' inlining and serialization).
\* Two values are lost and left out: the least decimal, whose digits are read before the
\* sign, and a duration of no months and a negative number of days, whose canonical form
\* has its sign in the middle.
WrittenBadly(t, v) ==
    \/ t = "decimal" /\ normalize(v)[1] = MinUnscaled
    \/ t = "duration" /\ v[1] = 0 /\ v[2] < 0
Reduced(t, v) == IF t = "decimal" THEN normalize(v) ELSE v
Same(t, v, moved, made) ==
    /\ moved.dt = t /\ moved.form = made.form /\ moved.st = made.st
    /\ {Reduced(t, x) : x \in value(moved)} = {Reduced(t, v)}
MovedIsSame ==
    work = "literals" /\ acc.dt \in Fixed =>
        \A v \in {v \in value(acc) : ~WrittenBadly(acc.dt, v)}, st \in Storages :
            Same(acc.dt, v, to_node_storage(acc, st),
                 make_typed_from_value([dt |-> acc.dt, data |-> v, lang |-> acc.lang], st))

\* A reference is resolved as RFC 3986, section 5.2, says, against the base that was set
\* last (IRIFactory::from_relative, to_absolute, set_base).
ResolvesAsRfc ==
    resolved # <<>> => \A iri \in resolved[2] : RfcParts(resolved[1]).scheme = {} =>
                           iri = RfcResolved(factory.base, resolved[1])
=============================================================================
