------------------------------ MODULE DateTime ------------------------------
(***************************************************************************)
(* The time datatypes: the calendar, time points with an optional time     *)
(* zone, durations, and what the datatypes convert to.                     *)
(*                                                                         *)
(* A value is a sequence of numbers, the time zone (minutes, or NoTz) last:*)
(* a date is <<y, m, d, tz>>, a gYearMonth <<y, m, tz>>, a dateTime        *)
(* <<local ticks since 1970, tz>>, a time <<ticks of the day, tz>>.  A     *)
(* duration is <<months, ticks>>, its two subtypes hold one of them.       *)
(***************************************************************************)
EXTENDS Numbers

CONSTANTS MinutesPerHour, SecondsPerMinute, MillisPerSecond, TicksPerMilli,
          MaxYear,        \* the largest year; a year is in -MaxYear .. MaxYear
          MaxCount,       \* the largest number of months or ticks of a duration
          ShortBits,      \* the bits an inlined gYearMonth keeps for its year
          SecondsBits     \* the bits an inlined duration keeps for its seconds

ASSUME DateTimeAssumption ==
    /\ {MinutesPerHour, SecondsPerMinute, MillisPerSecond, TicksPerMilli} \subseteq 1..1000
    /\ {MaxYear, MaxCount} \subseteq 1..20000 /\ {ShortBits, SecondsBits} \subseteq 1..IdWidth

Second == MillisPerSecond * TicksPerMilli
Minute == SecondsPerMinute * Second
Hour == MinutesPerHour * Minute
Day == 24 * Hour
MaxTz == 14 * MinutesPerHour
NoTz == 10000
TimeZones == ((-MaxTz)..MaxTz) \cup {NoTz}
Years == (-MaxYear)..MaxYear
Counts == (-MaxCount)..MaxCount

When(condition, values) == IF condition THEN values ELSE {}

-----------------------------------------------------------------------------
(* Calendar                                                                *)

\* YearMonthDay::to_time_point: days since 1970-01-01, the years counted from March in eras
\* of 400 years.
to_time_point(y, m, d) ==
    LET from_march == IF m <= 2 THEN y - 1 ELSE y
        yoe == from_march % 400
        doy == ((153 * (IF m > 2 THEN m - 3 ELSE m + 9) + 2) \div 5) + d - 1
    IN (from_march \div 400) * 146097 + yoe * 365 + (yoe \div 4) - (yoe \div 100) + doy - 719468

\* YearMonthDay(time_point)
FromDays(days) ==
    LET z == days + 719468
        doe == z % 146097
        yoe == (doe - (doe \div 1460) + (doe \div 36524) - (doe \div 146096)) \div 365
        doy == doe - (365 * yoe + (yoe \div 4) - (yoe \div 100))
        mp == (5 * doy + 2) \div 153
        m == IF mp < 10 THEN mp + 3 ELSE mp - 9
    IN <<yoe + (z \div 146097) * 400 + (IF m <= 2 THEN 1 ELSE 0), m,
         doy - ((153 * mp + 2) \div 5) + 1>>

IsLeap(y) == y % 4 = 0 /\ (y % 100 # 0 \/ y % 400 = 0)
last_day_in_month(y, m) ==
    CASE m = 2 -> IF IsLeap(y) THEN 29 ELSE 28 [] m \in {4, 6, 9, 11} -> 30 [] OTHER -> 31
date_ok(y, m, d) == m \in 1..12 /\ d \in 1..last_day_in_month(y, m)

\* construct_timepoint, deconstruct_timepoint (which throws where the year does not fit)
construct_timepoint(y, m, d, time_of_day) == Day * to_time_point(y, m, d) + time_of_day
DateOf(tp) == FromDays(tp \div Day)
Fits(tp) == {t \in {tp} : DateOf(t)[1] \in Years}

\* Timezone::to_sys; a time point without a time zone is taken as UTC.
to_sys(tp, tz) == tp - (IF tz = NoTz THEN 0 ELSE Minute * tz)
compare_time_points(a, b) == Cmp(to_sys(a[1], a[2]), to_sys(b[1], b[2]))
timepoint_sub(a, b) == {to_sys(a[1], a[2]) - to_sys(b[1], b[2])} \cap Counts

\* Mutation: the day of the month is kept whatever the month.
NoClamp(y, m, d) == d
\* add_duration_to_date_time: a day the month does not have becomes its last.
ClampedDay(y, m, d) == IF date_ok(y, m, d) THEN d ELSE last_day_in_month(y, m)

\* The month number of a date is divided towards zero, and its remainder made positive.
InMonth(y, m, d, time_of_day, ticks) ==
    IF y \notin Years THEN {}
    ELSE Fits(construct_timepoint(y, m, ClampedDay(y, m, d), time_of_day) + ticks)
MonthOf(total, d, time_of_day, ticks) ==
    InMonth(Quot(total, 12), (Abs(total) % 12) + 1, d, time_of_day, ticks)
FromDate(from, months, time_of_day, ticks) ==
    MonthOf(12 * from[1] + from[2] + months - 1, from[3], time_of_day, ticks)
add_duration_to_date_time(tp, months, ticks) == FromDate(DateOf(tp), months, tp % Day, ticks)

-----------------------------------------------------------------------------
(* Inlining helpers: whole seconds, and a time zone only where it fits     *)

\* encode_tz and decode_tz: zero stands for no time zone.
encode_tz(tz) == IF tz = NoTz THEN 0 ELSE tz + MaxTz + 1
decode_tz(n) == IF n = 0 THEN NoTz ELSE n - (MaxTz + 1)

PackOne(n) == {<<p>> : p \in PackSigned(n, IdWidth)}
UnpackOne(p) == UnpackSigned(p[1], IdWidth)
PackSeconds(ticks) == When(ticks % Second = 0, PackOne(ticks \div Second))
PackTz(v) == {[v EXCEPT ![Len(v)] = encode_tz(@)]}
UnpackTz(v) == [v EXCEPT ![Len(v)] = decode_tz(@)]

-----------------------------------------------------------------------------
(* The datatypes, each as its operations on one value:                     *)
(*   parse      from_string of the fields of a lexical form                *)
(*   write      serialize_canonical_string, to the fields                  *)
(*   pack       try_into_inlined; unpack, from_inlined                     *)
(*   promote    to xsd:date, xsd:dateTime or xsd:duration                  *)
(*   demote     back from there                                            *)
(* parse, pack and demote may fail.  Times of day are hours, minutes and   *)
(* ticks in a lexical form; 1972 stands for a missing year.                *)

gYear(op, v) ==
    CASE op = "parse" -> When(v[2] \in TimeZones, {v})
      [] op = "write" -> v
      [] op = "pack" -> When(v[2] = NoTz, PackOne(v[1]))
      [] op = "unpack" -> <<UnpackOne(v), NoTz>>
      [] op = "promote" -> <<v[1], 1, 1, v[2]>>
      [] op = "demote" -> {<<v[1], v[4]>>}

gMonth(op, v) ==
    CASE op = "parse" -> When(v[1] \in 1..12 /\ v[2] \in TimeZones, {v})
      [] op = "write" -> v
      [] op = "pack" -> PackTz(v)
      [] op = "unpack" -> UnpackTz(v)
      [] op = "promote" -> <<1972, v[1], last_day_in_month(1972, v[1]), v[2]>>
      [] op = "demote" -> {<<v[2], v[4]>>}

gDay(op, v) ==
    CASE op = "parse" -> When(v[1] \in 1..31 /\ v[2] \in TimeZones, {v})
      [] op = "write" -> v
      [] op = "pack" -> PackTz(v)
      [] op = "unpack" -> UnpackTz(v)
      [] op = "promote" -> <<1972, 1, v[1], v[2]>>
      [] op = "demote" -> {<<v[3], v[4]>>}

gYearMonth(op, v) ==
    CASE op = "parse" -> When(v[2] \in 1..12 /\ v[3] \in TimeZones, {v})
      [] op = "write" -> v
      [] op = "pack" -> When(v[3] = NoTz /\ v[1] \in Signed(ShortBits), {<<v[1], v[2]>>})
      [] op = "unpack" -> v \o <<NoTz>>
      [] op = "promote" -> <<v[1], v[2], last_day_in_month(v[1], v[2]), v[3]>>
      [] op = "demote" -> {<<v[1], v[2], v[4]>>}

gMonthDay(op, v) ==
    CASE op = "parse" -> When(date_ok(1972, v[1], v[2]) /\ v[3] \in TimeZones, {v})
      [] op = "write" -> v
      [] op = "pack" -> PackTz(v)
      [] op = "unpack" -> UnpackTz(v)
      [] op = "promote" -> <<1972, v[1], v[2], v[3]>>
      [] op = "demote" -> {<<v[2], v[3], v[4]>>}

date(op, v) ==
    CASE op = "parse" -> When(date_ok(v[1], v[2], v[3]) /\ v[4] \in TimeZones, {v})
      [] op = "write" -> v
      [] op = "pack" -> When(v[4] = NoTz, PackOne(to_time_point(v[1], v[2], v[3])))
      [] op = "unpack" -> FromDays(UnpackOne(v)) \o <<NoTz>>
      [] op = "promote" -> <<construct_timepoint(v[1], v[2], v[3], 0), v[4]>>
      [] op = "demote" -> {DateOf(v[1]) \o <<v[2]>>}

\* The ranges the parsers check: each field may be equal to its limit, the sum too.
ReadClock(h, mi, s) ==
    {n \in {h * Hour + mi * Minute + s} :
        h \in 0..24 /\ mi \in 0..MinutesPerHour /\ s \in 0..Minute /\ n <= Day}
ClockOf(ticks) == <<ticks \div Hour, (ticks % Hour) \div Minute, ticks % Minute>>

time(op, v) ==
    CASE op = "parse" -> {<<clock, v[4]>> :
                            clock \in When(v[4] \in TimeZones, ReadClock(v[1], v[2], v[3]))}
      [] op = "write" -> ClockOf(v[1]) \o <<v[2]>>
      [] op = "pack" -> When(v[1] % Second = 0, {<<v[1] \div Second, encode_tz(v[2])>>})
      [] op = "unpack" -> <<Second * v[1], decode_tz(v[2])>>
      [] op = "promote" -> <<construct_timepoint(1972, 1, 1, v[1]), v[2]>>
      [] op = "demote" -> {<<v[1] % Day, v[2]>>}

\* 24 o'clock is midnight of the day after.
ReadDateTime(f) ==
    {<<construct_timepoint(f[1], f[2], f[3], clock), f[7]>> :
        clock \in When(date_ok(f[1], f[2], f[3]), ReadClock(f[4], f[5], f[6]))}

dateTime(op, v) ==
    CASE op = "parse" -> When(v[7] \in TimeZones, ReadDateTime(v))
      [] op = "write" -> DateOf(v[1]) \o ClockOf(v[1] % Day) \o <<v[2]>>
      [] op = "pack" -> When(v[2] = NoTz, PackSeconds(v[1]))
      [] op = "unpack" -> <<Second * UnpackOne(v), NoTz>>

\* A dateTimeStamp is a dateTime that has a time zone; only UTC ones are inlined.
dateTimeStamp(op, v) ==
    CASE op = "parse" -> When(v[7] \in TimeZones \ {NoTz}, ReadDateTime(v))
      [] op = "write" -> DateOf(v[1]) \o ClockOf(v[1] % Day) \o <<v[2]>>
      [] op = "pack" -> When(v[2] = 0, PackSeconds(v[1]))
      [] op = "unpack" -> <<Second * UnpackOne(v), 0>>
      [] op = "promote" -> v
      [] op = "demote" -> When(v[2] # NoTz, {v})

\* The fields of a duration are <<sign, years, months, days, hours, minutes, ticks>>.
InRange(v) == \A i \in DOMAIN v : v[i] \in Counts
ReadDuration(f) ==
    {v \in {<<f[1] * (12 * f[2] + f[3]),
              f[1] * (f[4] * Day + f[5] * Hour + f[6] * Minute + f[7])>>} :
        InRange(v) /\ \A i \in 2..7 : f[i] >= 0}

DurationText(sign, months, ticks) ==
    <<sign, months \div 12, months % 12, ticks \div Day>> \o ClockOf(ticks % Day)

\* The sign is that of the months: a negative number of days has a sign of its own.
WriteDuration(v) == IF v[1] < 0 THEN DurationText(-1, -v[1], -v[2])
                    ELSE DurationText(1, v[1], v[2])

\* The sign is packed apart, and what it leaves of the ticks has to be positive.
PackDuration(months, ticks, sign) ==
    When(ticks % Second = 0,
         {<<sign, s, m>> : s \in {ticks \div Second} \cap Unsigned(SecondsBits),
                           m \in {months} \cap Unsigned(IdWidth - SecondsBits - 1)})

duration(op, v) ==
    CASE op = "parse" -> ReadDuration(v)
      [] op = "write" -> WriteDuration(v)
      [] op = "pack" -> IF v[1] < 0 THEN PackDuration(-v[1], -v[2], 1)
                        ELSE PackDuration(v[1], v[2], 0)
      [] op = "unpack" -> IF v[1] = 1 THEN <<-v[3], -(v[2] * Second)>> ELSE <<v[3], v[2] * Second>>

\* The subtypes of xsd:duration take their own part of one, and drop the other part unless
\* their own is zero.
dayTimeDuration(op, v) ==
    CASE op = "parse" -> {<<d[2]>> : d \in When(v[2] = 0 /\ v[3] = 0, ReadDuration(v))}
      [] op = "write" -> DurationText(SignOf(v[1]), 0, Abs(v[1]))
      [] op = "pack" -> When(v[1] % TicksPerMilli = 0, PackOne(v[1] \div TicksPerMilli))
      [] op = "unpack" -> <<TicksPerMilli * UnpackOne(v)>>
      [] op = "promote" -> <<0, v[1]>>
      [] op = "demote" -> When(v[2] # 0 \/ v[1] = 0, {<<v[2]>>})

yearMonthDuration(op, v) ==
    CASE op = "parse" -> {<<d[1]>> : d \in {d \in ReadDuration(v) : d[2] = 0}}
      [] op = "write" -> DurationText(SignOf(v[1]), Abs(v[1]), 0)
      [] op = "pack" -> PackOne(v[1])
      [] op = "unpack" -> <<UnpackOne(v)>>
      [] op = "promote" -> <<v[1], 0>>
      [] op = "demote" -> When(v[1] # 0 \/ v[2] = 0, {<<v[1]>>})

TimeDatatypes ==
    Timepoints \cup Durations \cup {"gYear", "gMonth", "gDay", "gYearMonth", "gMonthDay"}
time_datatype(t, op, v) ==
    CASE t = "gYear" -> gYear(op, v) [] t = "gMonth" -> gMonth(op, v) [] t = "gDay" -> gDay(op, v)
      [] t = "gYearMonth" -> gYearMonth(op, v) [] t = "gMonthDay" -> gMonthDay(op, v)
      [] t = "date" -> date(op, v) [] t = "time" -> time(op, v)
      [] t = "dateTime" -> dateTime(op, v) [] t = "dateTimeStamp" -> dateTimeStamp(op, v)
      [] t = "duration" -> duration(op, v) [] t = "dayTimeDuration" -> dayTimeDuration(op, v)
      [] t = "yearMonthDuration" -> yearMonthDuration(op, v)

\* Up to dateTime the dates without all their fields take two steps.
Above(t) == IF t \in DOMAIN Promoted THEN Promoted[t] ELSE Supertype[t]
promote_time(t, to, v) ==
    LET Further(u) == IF Above(t) = to THEN u ELSE date("promote", u)
    IN IF t = to THEN v ELSE Further(time_datatype(t, "promote", v))
demote_time(t, from, v) ==
    LET halfway == IF Above(t) = from THEN {v} ELSE date("demote", v)
    IN IF t = from THEN {v} ELSE UNION {time_datatype(t, "demote", d) : d \in halfway}

-----------------------------------------------------------------------------
(* Comparison and arithmetic                                               *)

\* The time points whose sums with two durations decide how these compare.
DurationAnchors == {construct_timepoint(1696, 9, 1, 0), construct_timepoint(1697, 2, 1, 0),
                    construct_timepoint(1903, 3, 1, 0), construct_timepoint(1903, 7, 1, 0)}

Agreed(answers) == IF \E c \in Cmps : answers = {{c}} THEN CHOOSE c \in Cmps : answers = {{c}}
                   ELSE Unordered
compare_durations(a, b) ==
    LET At(tp) == {Cmp(l, r) : l \in add_duration_to_date_time(tp, a[1], a[2]),
                               r \in add_duration_to_date_time(tp, b[1], b[2])}
    IN Agreed({At(tp) : tp \in DurationAnchors})

compare_times(t, a, b) ==
    CASE t = "duration" -> compare_durations(a, b)
      [] t \in {"dayTimeDuration", "yearMonthDuration"} -> Cmp(a[1], b[1])
      [] OTHER -> compare_time_points(promote_time(t, "dateTime", a),
                                      promote_time(t, "dateTime", b))

\* timepoint_duration_add and timepoint_duration_sub: what is added to a date or a time is
\* added to its time point, of which only the date or the time of day is kept.
add_to_timepoint(t, v, d, sign) ==
    LET Back(n) == CASE t = "date" -> DateOf(n) [] t = "time" -> <<n % Day>> [] OTHER -> <<n>>
        Sums(tp) == add_duration_to_date_time(tp[1], sign * d[1], sign * d[2])
    IN {Back(n) \o <<Last(v)>> : n \in Sums(promote_time(t, "dateTime", v))}

\* A date and a time have no handler for the overflow, which leaves a noexcept function.
TerminatesOnOverflow == {"date", "time"}

\* timepoint_duration_operand: a time takes no months.
duration_operand(t) == IF t = "time" THEN "dayTimeDuration" ELSE "duration"
AsDuration(t, v) == IF t = "time" THEN <<0, v[1]>> ELSE v

\* duration_add and duration_sub: the parts of a duration have the same sign.
SameSigns(d) == ~(d[1] < 0 /\ d[2] > 0) /\ ~(d[1] > 0 /\ d[2] < 0)
add_durations(t, a, b, sign) ==
    {v \in {[i \in DOMAIN a |-> a[i] + sign * b[i]]} :
        InRange(v) /\ (t = "duration" => SameSigns(v))}

\* duration_div: the counts are divided as decimals, rounded down.
divide_durations(t, a, b) ==
    IF t = "duration" \/ b[1] = 0 THEN {} ELSE div(<<a[1], 0>>, <<b[1], 0>>, "floor")

\* duration_scalar_mul and duration_scalar_div by a double. std::round moves a tie away from
\* zero; a number divided by an infinity is zero.
HalfAway(p, q) == SignOf(p) * SignOf(q) * ((2 * Abs(p) + Abs(q)) \div (2 * Abs(q)))
scale_duration(op, v, f) ==
    IF ~IsFinite(f) THEN When(op = "div" /\ f # NaN, {[i \in DOMAIN v |-> 0]})
    ELSE IF op = "div" /\ f[2] = 0 THEN {}
    ELSE {w \in {[i \in DOMAIN v |-> IF op = "mul" THEN HalfAway(v[i] * f[2], Grid)
                                     ELSE HalfAway(v[i] * Grid, f[2])]} : InRange(w)}
=============================================================================
