------------------------------ MODULE MCValues ------------------------------
(***************************************************************************)
(* A small instance of Values: integers of twelve bits, days of 48 ticks,  *)
(* two datatypes of the user's.                                            *)
(***************************************************************************)
EXTENDS Values

MCDynamic == [d1 |-> 1, d2 |-> 2]
MCBits == [integer |-> 12, long |-> 10, int |-> 9, short |-> 8, byte |-> 6,
           unsignedLong |-> 10, unsignedInt |-> 9, unsignedShort |-> 8, unsignedByte |-> 6]
MCSpecialized == {"integer", "nonNegativeInteger", "positiveInteger", "nonPositiveInteger",
    "negativeInteger", "long", "unsignedLong", "decimal", "double", "date", "dateTime",
    "dateTimeStamp", "gYearMonth", "duration", "dayTimeDuration", "yearMonthDuration"}

De == <<4, 5>>
Other == <<5, 6, Hyphen, 7>>
Of1(t, v) == [dt |-> t, data |-> v, lang |-> <<>>]
Str(s) == Of1("string", Text(s))

MCSamples ==
    {Str(<<>>), Str(<<1>>), Str(<<1, 12, 1>>), Str(De), Of1("string", <<1, 15, 1>>),
     Tagged(Text(<<1, 2>>), De), Tagged(Text(<<2>>), Other),
     Of1("boolean", <<1>>), Of1("integer", <<7>>), Of1("integer", <<-2048>>),
     Of1("positiveInteger", <<1000>>), Of1("negativeInteger", <<-3>>),
     Of1("unsignedByte", <<40>>),
     Of1("decimal", <<-25, 1>>), Of1("decimal", <<1999, 2>>), Of1("decimal", <<3, 0>>),
     Of1("float", Finite(20)), Of1("double", Finite(-13)), Of1("double", Inf),
     Of1("date", <<2000, 1, 31, NoTz>>), Of1("date", <<2001, 2, 28, 3>>),
     Of1("gYearMonth", <<1971, 2, NoTz>>),
     Of1("gMonthDay", <<2, 29, 2>>),
     Of1("time", <<47, NoTz>>), Of1("dateTime", <<3000, NoTz>>),
     Of1("dateTimeStamp", <<3001, -2>>),
     Of1("duration", <<1, 49>>), Of1("duration", <<0, -49>>), Of1("duration", <<13, 0>>),
     Of1("dayTimeDuration", <<97>>), Of1("yearMonthDuration", <<-11>>),
     Of1("d2", Text(<<1>>)), Of1("d2", Text(<<2>>))}
\* Numbers at the limits of their types and of the bits they are packed into, numbers,
\* dates and durations as texts, among them a last day that is not one and 24 o'clock
MCFirsts ==
    {Of1("positiveInteger", <<9>>), Of1("nonNegativeInteger", <<300>>),
     Of1("nonPositiveInteger", <<-256>>),
     Of1("long", <<511>>), Of1("int", <<-128>>), Of1("short", <<-7>>), Of1("byte", <<-32>>),
     Of1("unsignedLong", <<1023>>), Of1("unsignedInt", <<511>>), Of1("unsignedShort", <<0>>),
     Of1("integer", <<2047>>), Of1("decimal", <<2047, 4>>), Of1("decimal", <<-5, 1>>),
     Of1("decimal", <<-2047, 0>>),
     Of1("float", NaN), Of1("float", NegInf), Of1("double", Finite(800)),
     Of1("double", Finite(4)),
     Of1("string", <<1, 30, 1>>), Of1("string", <<1, -20480, 1>>),
     Of1("string", <<1, 204801, 2>>),
     Of1("string", <<2, 3, 0>>), Of1("string", <<3, 1>>), Of1("anyURI", Text(<<1>>)),
     Of1("d1", Text(<<3>>)),
     Of1("string", <<48, 2001, 2, 29, NoTz>>), Of1("string", <<48, 2004, 2, 29, 0>>),
     Of1("string", <<11, 1999, 12, 31, 24, 0, 0, -14>>),
     Of1("string", <<10, -1, 1, 2, 3, 4, 0, 1>>),
     Of1("gYear", <<1999, NoTz>>), Of1("gYear", <<-4, 5>>),
     Of1("gMonth", <<12, -14>>), Of1("gDay", <<31, NoTz>>),
     Of1("gYearMonth", <<9, 12, NoTz>>), Of1("date", <<-1, 3, 1, NoTz>>),
     Of1("time", <<0, 14>>),
     Of1("duration", <<-1000, -1000>>), Of1("duration", <<0, 0>>),
     Of1("dayTimeDuration", <<-1>>)}
MCCastTypes == (Fixed \ {"langString", "base64Binary", "hexBinary"}) \cup {"d1"}

MCTags == {De}
MCPrefix == <<"p">>
MCBases == {<<"s", ":", "/", "a", "/", "b", "?", "q">>, <<"s", ":", "/", "/", "h">>}
MCReferences ==
    {<<>>, <<"a">>, <<".", ".">>, <<".", ".", "/", "a", "/", ".">>, <<"/", ".", ".", "/", "b">>,
     <<"/", "/", "g", "/", "a", "/", ".", ".", "/", "b">>, <<"?", "q">>, <<"#", "f">>,
     <<"a", "/", ".", "/", "b", "?", "q", "#", "f">>, <<"s", ":", "/", "a", "/", ".", ".", "/", "b">>,
     <<"a", "/", ".", ".", "/", ".", ".", "/", ".", ".", "/", "b">>, <<"a", " ">>}
MCExpansions == {<<"s", ":", "/", "b", "/">>, <<"b", "/">>}
=============================================================================
