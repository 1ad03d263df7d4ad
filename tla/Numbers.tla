------------------------------ MODULE Numbers -------------------------------
(***************************************************************************)
(* The numeric datatypes: BigDecimal, the integers, float and double.      *)
(*                                                                         *)
(* A decimal is <<unscaled, exponent>>, an integer <<n>>.  A floating      *)
(* point number is <<kind, n>>: n / Grid for a finite one.  Doubles lie on *)
(* that grid and floats on every FloatStep-th point of it, so that they    *)
(* round and overflow; there is no negative zero.                          *)
(*                                                                         *)
(* What may fail is a set of at most one value.                            *)
(***************************************************************************)
EXTENDS Integers, Sequences, Datatypes

CONSTANTS Bits,               \* [integer datatype -> width of its C++ type]
          IdWidth,            \* the bits of a LiteralID
          ExponentBits,       \* the bits an inlined decimal keeps for its exponent
          MaxExponent,        \* the largest exponent of a decimal
          MaxScaleIncrease,   \* default_max_scale_increase
          Grid, FloatStep,
          MaxDouble, MaxFloat \* the largest n of a double and of a float

ASSUME NumbersAssumption ==
    /\ \A t \in DOMAIN Bits : Bits[t] \in 1..15
    /\ IdWidth \in 1..15 /\ ExponentBits \in 1..IdWidth
    /\ {MaxExponent, MaxScaleIncrease} \subseteq 0..9
    /\ {Grid, FloatStep, MaxDouble, MaxFloat} \subseteq 1..10000

Less == -1
Equivalent == 0
Greater == 1
Unordered == 2
Cmps == {Less, Equivalent, Greater}
Cmp(a, b) == IF a < b THEN Less ELSE IF a > b THEN Greater ELSE Equivalent
Reverse3(c) == IF c = Unordered THEN c ELSE -c

Abs(n) == IF n < 0 THEN -n ELSE n
SignOf(n) == IF n < 0 THEN -1 ELSE 1
\* C++ division: towards zero, the remainder has the sign of the dividend.
Quot(a, b) == SignOf(a) * SignOf(b) * (Abs(a) \div Abs(b))
Rem(a, b) == a - b * Quot(a, b)

\* The values that b bits hold.
Signed(b) == (-(2 ^ (b - 1)))..(2 ^ (b - 1) - 1)
Unsigned(b) == 0..(2 ^ b - 1)

-----------------------------------------------------------------------------
(* BigDecimal: the digits are an Int128                                    *)

UnscaledValues == Signed(Bits["integer"])
MinUnscaled == -(2 ^ (Bits["integer"] - 1))
Checked(n) == {n} \cap UnscaledValues
Pow(n) == {p \in {10 ^ k : k \in {n} \cap 0..9} : p \in UnscaledValues}

normalize(d) ==
    LET n == CHOOSE k \in 0..d[2] :
                 /\ d[1] % (10 ^ k) = 0
                 /\ k < d[2] => d[1] % (10 ^ (k + 1)) # 0
    IN IF d[1] = 0 THEN <<0, 0>> ELSE <<d[1] \div (10 ^ n), d[2] - n>>

\* The digits of a decimal at a larger exponent.
ScaledTo(d, exponent) ==
    UNION {Checked(d[1] * p) : p \in Pow(exponent - d[2])}
LargerExponent(a, b) == IF a[2] > b[2] THEN a[2] ELSE b[2]

\* Mutation: only the left side is scaled.
add_or_sub_left(a, b, sign) ==
    LET e == LargerExponent(a, b)
    IN UNION {{normalize(<<u, e>>) : u \in Checked(t + sign * b[1])} : t \in ScaledTo(a, e)}

\* add and sub: both sides get the larger exponent.
add_or_sub(a, b, sign) ==
    LET e == LargerExponent(a, b)
    IN UNION {{normalize(<<u, e>>) : u \in Checked(t + sign * o)} :
                 t \in ScaledTo(a, e), o \in ScaledTo(b, e)}

mul(a, b) ==
    {normalize(<<u, e>>) : u \in Checked(a[1] * b[1]), e \in {a[2] + b[2]} \cap 0..MaxExponent}

\* round_away_from_zero: a tie is moved towards positive infinity.
RoundsAway(neg, rem, by, mode) ==
    CASE mode = "round" -> IF neg THEN Abs(rem) > Abs(by) \div 2
                           ELSE Abs(rem) >= (Abs(by) \div 2) + (Abs(by) % 2)
      [] mode = "floor" -> neg
      [] mode = "ceil" -> ~neg
      [] mode = "trunc" -> FALSE

\* handle_rounding: the truncated quotient of a division with a remainder.
handle_rounding(v, e, rem, by, mode) ==
    LET neg == (rem < 0) # (by < 0)
    IN IF rem # 0 /\ RoundsAway(neg, rem, by, mode)
       THEN {<<u, e>> : u \in Checked(v + (IF neg THEN -1 ELSE 1))}
       ELSE {<<v, e>>}

\* div: what is left of the division is divided on, a digit at a time, while there is
\* room for one and the scale has not grown by as much as it may.
NextDigit(q, neg, by) ==
    LET digit == (10 * Abs(q.rem)) \div Abs(by)
        res == 10 * q.res + (IF neg THEN -digit ELSE digit)
    IN IF q.rem = 0 \/ q.ex = MaxExponent \/ res \notin UnscaledValues THEN q
       ELSE [res |-> res, ex |-> q.ex + 1,
             rem |-> SignOf(q.rem) * ((10 * Abs(q.rem)) % Abs(by))]

LongDivision(t, ex, by) ==
    LET neg == (t < 0) # (by < 0)
        Step[k \in 0..MaxScaleIncrease] ==
            IF k = 0 THEN [res |-> Quot(t, by), ex |-> ex, rem |-> Rem(t, by)]
            ELSE NextDigit(Step[k - 1], neg, by)
    IN Step[MaxScaleIncrease]

div(a, b, mode) ==
    LET ex == IF a[2] >= b[2] THEN a[2] - b[2] ELSE 0
        scaled == IF a[2] >= b[2] THEN {a[1]} ELSE ScaledTo(a, b[2])
    IN IF a[1] = 0 THEN {<<0, 0>>}
       ELSE UNION {LET q == LongDivision(t, ex, b[1])
                   IN handle_rounding(q.res, q.ex, q.rem, b[1], mode) :
                      t \in {t \in scaled : ~(t = MinUnscaled /\ b[1] = -1)}}

\* round, floor and ceil: where the power of ten does not fit, the number is less than one.
round(d, mode) ==
    LET half == \E p \in Pow(d[2] - 1) : 5 * p \in UnscaledValues
                    /\ (d[1] >= 5 * p \/ d[1] < -5 * p)
        away == CASE mode = "round" -> half [] mode = "floor" -> d[1] < 0
                  [] mode = "ceil" -> d[1] >= 0 [] mode = "trunc" -> FALSE
    IN IF Pow(d[2]) # {}
       THEN UNION {handle_rounding(Quot(d[1], p), 0, Rem(d[1], p), p, mode) : p \in Pow(d[2])}
       ELSE {<<IF d[1] # 0 /\ away THEN SignOf(d[1]) ELSE 0, 0>>}

\* operator<=>: the side with the smaller exponent is scaled; if it cannot be, it is the
\* one further from zero.
compare_decimal(a, b) ==
    LET Sized(d) == IF d[1] >= 0 THEN Greater ELSE Less
        ByScale(s, o) == IF ScaledTo(s, o[2]) = {} THEN Sized(s)
                         ELSE Cmp(CHOOSE u \in ScaledTo(s, o[2]) : TRUE, o[1])
    IN IF (a[1] >= 0) # (b[1] >= 0) THEN Sized(a)
       ELSE IF a[1] = 0 \/ b[1] = 0 \/ a[2] = b[2] THEN Cmp(a[1], b[1])
       ELSE IF a[2] < b[2] THEN ByScale(a, b) ELSE Reverse3(ByScale(b, a))

\* unary_minus_checked, abs_checked
unary_minus(d) == {<<u, d[2]>> : u \in Checked(-d[1])}
abs_checked(d) == IF d[1] >= 0 THEN {d} ELSE unary_minus(d)

-----------------------------------------------------------------------------
(* float and double                                                        *)

Finite(n) == <<0, n>>
Inf == <<1, 0>>
NegInf == <<2, 0>>
NaN == <<3, 0>>
IsFinite(f) == f[1] = 0
Signum(f) == IF f = Inf THEN 1 ELSE IF f = NegInf THEN -1
             ELSE IF f[2] > 0 THEN 1 ELSE IF f[2] < 0 THEN -1 ELSE 0

\* The quotient p / q as the nearest whole number, a tie to the even one.
Nearest(p, q) ==
    LET r == 2 * (p % q)
    IN (p \div q) + (IF r > q \/ (r = q /\ (p \div q) % 2 = 1) THEN 1 ELSE 0)

\* p / q in the units of the grid, as a number of the type.
Rounded(t, p, q) ==
    LET n == IF t = "float" THEN FloatStep * Nearest(p, q * FloatStep) ELSE Nearest(p, q)
        max == IF t = "float" THEN MaxFloat ELSE MaxDouble
    IN IF n > max THEN Inf ELSE IF n < -max THEN NegInf ELSE Finite(n)

Infinity(sign) == IF sign = 0 THEN NaN ELSE IF sign > 0 THEN Inf ELSE NegInf

add_float(t, a, b, sign) ==
    IF NaN \in {a, b} THEN NaN
    ELSE IF IsFinite(a) /\ IsFinite(b) THEN Rounded(t, a[2] + sign * b[2], 1)
    ELSE IF IsFinite(a) THEN Infinity(sign * Signum(b))
    ELSE IF IsFinite(b) \/ Signum(a) = sign * Signum(b) THEN a ELSE NaN

mul_float(t, a, b) ==
    IF NaN \in {a, b} THEN NaN
    ELSE IF IsFinite(a) /\ IsFinite(b) THEN Rounded(t, a[2] * b[2], Grid)
    ELSE Infinity(Signum(a) * Signum(b))

\* A division by zero, or of an infinity by a number, is an infinity.
div_float(t, a, b) ==
    IF NaN \in {a, b} \/ (~IsFinite(a) /\ ~IsFinite(b)) THEN NaN
    ELSE IF ~IsFinite(b) THEN Finite(0)
    ELSE IF ~IsFinite(a) THEN (IF b[2] < 0 THEN Infinity(-Signum(a)) ELSE a)
    ELSE IF b[2] = 0 THEN Infinity(Signum(a))
    ELSE Rounded(t, SignOf(b[2]) * a[2] * Grid, Abs(b[2]))

neg_float(f) == IF IsFinite(f) THEN Finite(-f[2]) ELSE IF f = NaN THEN f ELSE Infinity(-Signum(f))
abs_float(f) == IF f \in {Inf, NegInf} THEN Inf ELSE <<f[1], Abs(f[2])>>

\* xsd_round, floor and ceil: xsd_round moves a tie towards positive infinity.
round_float(f, mode) ==
    IF ~IsFinite(f) THEN f
    ELSE Finite(Grid * (CASE mode = "round" -> (2 * f[2] + Grid) \div (2 * Grid)
                          [] mode = "floor" -> f[2] \div Grid
                          [] mode = "ceil" -> -((-f[2]) \div Grid)))

compare_float(a, b) ==
    IF NaN \in {a, b} THEN Unordered
    ELSE IF IsFinite(a) /\ IsFinite(b) THEN Cmp(a[2], b[2])
    ELSE IF IsFinite(a) THEN -Signum(b) ELSE IF IsFinite(b) THEN Signum(a)
    ELSE Cmp(Signum(a), Signum(b))

\* floating_cast reads the decimal's text as a floating point number.
floating_cast(t, d) == Rounded(t, Grid * d[1], 10 ^ d[2])

\* from_floating reads the shortest text of the number as a decimal.
from_floating(f) ==
    IF ~IsFinite(f) THEN {}
    ELSE {d \in {normalize(<<f[2] * (1000 \div Grid), 3>>)} : Abs(d[1]) < -MinUnscaled}
-----------------------------------------------------------------------------
(* The integer datatypes                                                   *)

\* The values of an integer datatype: what its C++ type holds, and the sign that
\* from_string and from_supertype check where the C++ type is an Int128.
IntegerValues(t) ==
    CASE t \in {"integer", "long", "int", "short", "byte"} -> Signed(Bits[t])
      [] t \in {"unsignedLong", "unsignedInt", "unsignedShort", "unsignedByte"} -> Unsigned(Bits[t])
      [] t = "nonNegativeInteger" -> {n \in UnscaledValues : n >= 0}
      [] t = "positiveInteger" -> {n \in UnscaledValues : n > 0}
      [] t = "nonPositiveInteger" -> {n \in UnscaledValues : n <= 0}
      [] t = "negativeInteger" -> {n \in UnscaledValues : n < 0}

\* Numeric::add, sub and mul: std::is_integral does not hold for __int128 without the
\* compiler's extensions, which the build turns off, so an Int128 is added unchecked; the
\* overflow wraps around.
Wrap(n) == ((n - MinUnscaled) % (2 ^ Bits["integer"])) + MinUnscaled
neg_integer(n) == Checked(-n)

-----------------------------------------------------------------------------
(* Numeric operations; a result is its datatype and its value              *)

Of(t, values) == {[dt |-> t, data |-> v] : v \in values}

integer_binary(op, a, b) ==
    CASE op = "add" -> Of("integer", {<<Wrap(a[1] + b[1])>>})
      [] op = "sub" -> Of("integer", {<<Wrap(a[1] - b[1])>>})
      [] op = "mul" -> Of("integer", {<<Wrap(a[1] * b[1])>>})
      [] op = "div" -> Of("decimal", IF b[1] = 0 THEN {}
                                     ELSE div(<<a[1], 0>>, <<b[1], 0>>, "trunc"))
decimal_binary(op, a, b) ==
    Of("decimal", CASE op = "add" -> add_or_sub(a, b, 1)
                    [] op = "sub" -> add_or_sub(a, b, -1)
                    [] op = "mul" -> mul(a, b)
                    [] op = "div" -> IF b[1] = 0 THEN {} ELSE div(a, b, "trunc"))
floating_binary(t, op, a, b) ==
    Of(t, {CASE op = "add" -> add_float(t, a, b, 1)
             [] op = "sub" -> add_float(t, a, b, -1)
             [] op = "mul" -> mul_float(t, a, b)
             [] op = "div" -> div_float(t, a, b)})
binary_op(t, op, a, b) ==
    CASE t = "integer" -> integer_binary(op, a, b)
      [] t = "decimal" -> decimal_binary(op, a, b)
      [] t \in {"float", "double"} -> floating_binary(t, op, a, b)

integer_unary(op, a) ==
    IF op = "neg" \/ (op = "abs" /\ a[1] < 0) THEN {<<n>> : n \in neg_integer(a[1])} ELSE {a}
decimal_unary(op, a) ==
    CASE op = "neg" -> unary_minus(a) [] op = "abs" -> abs_checked(a)
      [] op = "pos" -> {a} [] op \in {"round", "floor", "ceil"} -> round(a, op)
floating_unary(op, a) ==
    {CASE op = "neg" -> neg_float(a) [] op = "abs" -> abs_float(a)
       [] op = "pos" -> a [] op \in {"round", "floor", "ceil"} -> round_float(a, op)}
unary_op(t, op, a) ==
    Of(t, CASE t = "integer" -> integer_unary(op, a)
            [] t = "decimal" -> decimal_unary(op, a)
            [] t \in {"float", "double"} -> floating_unary(op, a))

compare_numbers(t, a, b) ==
    IF t \in {"float", "double"} THEN compare_float(a, b)
    ELSE IF t = "decimal" THEN compare_decimal(a, b) ELSE Cmp(a[1], b[1])

\* from_multiplicity: a count that a float does not hold is an error.
from_multiplicity(t, n) ==
    Of(t, CASE t = "integer" -> {<<n>>}
            [] t = "decimal" -> {<<n, 0>>}
            [] t \in {"float", "double"} ->
                   {f \in {Rounded(t, Grid * n, 1)} : f = Finite(Grid * n)})

effective_boolean(t, a) ==
    IF t \in {"float", "double"} THEN a # NaN /\ a # Finite(0) ELSE a[1] # 0

-----------------------------------------------------------------------------
(* Conversions between numeric datatypes, one step up or down              *)

promote_number(t, to, a) ==
    CASE t = "decimal" -> floating_cast(to, a)
      [] t = "float" -> a
      [] to = "decimal" -> <<a[1], 0>>
      [] OTHER -> a

\* inverse_convert: a decimal loses its fraction, an integer must be of the subtype.
demote_number(t, from, a) ==
    CASE from = "double" /\ t = "float" -> {IF IsFinite(a) THEN Rounded(t, a[2], 1) ELSE a}
      [] t = "decimal" -> from_floating(a)
      [] from = "decimal" -> UNION {{<<r[1]>> : r \in round(a, "trunc")}}
      [] OTHER -> {v \in {a} : v[1] \in IntegerValues(t)}

-----------------------------------------------------------------------------
(* Inlining into the bits of a LiteralID                                   *)

\* The odd part of a finite number of the grid, which stands for its significand.
Significand(n) == CHOOSE m \in 0..Abs(n) : \E k \in 0..14 :
                      m * 2 ^ k = Abs(n) /\ (n # 0 => m % 2 = 1)

\* try_pack_integral and unpack_integral: two's complement in so many bits.
PackSigned(n, b) == {m \in {n % (2 ^ b)} : n \in Signed(b)}
UnpackSigned(m, b) == IF m >= 2 ^ (b - 1) THEN m - 2 ^ b ELSE m

\* The natural number that an integer of an unsigned or one-sided datatype packs as, and
\* back.
Offset(t, n) == CASE t = "positiveInteger" -> n - 1
                  [] t = "negativeInteger" -> -n - 1
                  [] t = "nonPositiveInteger" -> -n
                  [] OTHER -> n
\* Mutation: a positive number is packed as it is less one, and not so unpacked.
FromNoOffset(t, m) == CASE t = "positiveInteger" -> m
                        [] t = "negativeInteger" -> -(m + 1)
                        [] t = "nonPositiveInteger" -> -m
                        [] OTHER -> m
FromOffset(t, m) == CASE t = "positiveInteger" -> m + 1
                      [] t = "negativeInteger" -> -(m + 1)
                      [] t = "nonPositiveInteger" -> -m
                      [] OTHER -> m

SignedIntegers == {"integer", "long", "int", "short", "byte"}

\* try_into_inlined; a set of at most one packed value.
pack_number(t, a) ==
    CASE t = "float" -> {a}
      [] t = "double" -> {f \in {a} : IsFinite(f) /\ Significand(f[2]) \in Unsigned(IdWidth - 2)}
      [] t = "decimal" -> UNION {{<<u, e>> : u \in PackSigned(d[1], IdWidth - ExponentBits),
                                   e \in {d[2]} \cap Unsigned(ExponentBits)} : d \in {normalize(a)}}
      [] t \in SignedIntegers -> {<<u>> : u \in PackSigned(a[1], IdWidth)}
      [] OTHER -> {<<u>> : u \in {Offset(t, a[1])} \cap Unsigned(IdWidth)}

\* from_inlined
unpack_number(t, p) ==
    CASE t \in {"float", "double"} -> p
      [] t = "decimal" -> <<UnpackSigned(p[1], IdWidth - ExponentBits), p[2]>>
      [] t \in SignedIntegers -> <<UnpackSigned(p[1], IdWidth)>>
      [] OTHER -> <<FromOffset(t, p[1])>>
=============================================================================
