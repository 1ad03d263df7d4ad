----------------------------- MODULE Datatypes ------------------------------
(***************************************************************************)
(* The datatype registry: which datatypes there are, what each of them can *)
(* do, which other datatypes its values convert to, and the search for the *)
(* common type of two datatypes.                                           *)
(*                                                                         *)
(* A datatype is named by a string.  Dynamic datatypes are those without a *)
(* fixed id; their IRIs are ordered as their numbers in Dynamic are.       *)
(***************************************************************************)
EXTENDS Integers, Sequences, SequencesExt, FiniteSets

CONSTANT Dynamic       \* [name of a dynamic datatype -> number], ordered as the IRIs

\* FixedIdMappings: every datatype with a fixed id, in the order of the ids.
FixedIds ==
    <<"string", "langString", "boolean", "base64Binary", "hexBinary", "gYear", "gMonth",
      "gDay", "gYearMonth", "gMonthDay", "anyURI",
      "float", "double", "decimal", "integer", "nonPositiveInteger", "long",
      "nonNegativeInteger", "negativeInteger", "int", "unsignedLong", "positiveInteger",
      "short", "unsignedInt", "byte", "unsignedShort", "unsignedByte",
      "date", "time", "dateTime", "dateTimeStamp",
      "duration", "dayTimeDuration", "yearMonthDuration">>
Fixed == Range(FixedIds)
Datatypes == Fixed \cup DOMAIN Dynamic

\* The order of two datatype ids: fixed ids first, dynamic ones by their IRI.
IdOf == [t \in Datatypes |-> IF t \in Fixed THEN CHOOSE i \in DOMAIN FixedIds : FixedIds[i] = t
                             ELSE Len(FixedIds) + Dynamic[t]]

\* The tag in a fixed id's upper bits.
Numerics == Range(SubSeq(FixedIds, 12, 27))
Timepoints == Range(SubSeq(FixedIds, 28, 31))
Durations == Range(SubSeq(FixedIds, 32, 34))

\* The impl-numeric datatypes have operations of their own; those of every other numeric
\* datatype are xsd:integer's.
NumericImpls == {"float", "double", "decimal", "integer"}
numeric_impl_type(t) == IF t \in NumericImpls THEN t ELSE "integer"

-----------------------------------------------------------------------------
(* Conversion tables                                                       *)

Supertype == [integer |-> "decimal", long |-> "integer", int |-> "long", short |-> "int",
    byte |-> "short", nonNegativeInteger |-> "integer", unsignedLong |-> "nonNegativeInteger",
    unsignedInt |-> "unsignedLong", unsignedShort |-> "unsignedInt",
    unsignedByte |-> "unsignedShort", positiveInteger |-> "nonNegativeInteger",
    nonPositiveInteger |-> "integer", negativeInteger |-> "nonPositiveInteger",
    dateTimeStamp |-> "dateTime", dayTimeDuration |-> "duration",
    yearMonthDuration |-> "duration"]

Promoted == [decimal |-> "float", float |-> "double", anyURI |-> "string",
    gYear |-> "date", gMonth |-> "date", gDay |-> "date", gYearMonth |-> "date",
    gMonthDay |-> "date", date |-> "dateTime", time |-> "dateTime"]

\* make_subtype_layer and make_promotion_layer: everything a datatype reaches one step
\* after the other.
supertypes[t \in Datatypes] ==
    IF t \in DOMAIN Supertype THEN <<Supertype[t]>> \o supertypes[Supertype[t]] ELSE <<>>
promotions[t \in Datatypes] ==
    IF t \in DOMAIN Promoted THEN <<Promoted[t]>> \o promotions[Promoted[t]] ELSE <<>>

\* make_conversion_table: a level for the datatype and one for each supertype, each level
\* with the promotions of its first datatype behind it.
conversion_table ==
    [t \in Datatypes |-> [i \in 1..(1 + Len(supertypes[t])) |->
        LET s == (<<t>> \o supertypes[t])[i] IN <<s>> \o promotions[s]]]

subtype_rank(t) == Len(conversion_table[t])

\* calculate_subtype_offset: the levels to skip before the numeric operations' datatype.
StartOffset == [t \in Numerics |->
    (CHOOSE i \in 1..subtype_rank(t) : conversion_table[t][i][1] = numeric_impl_type(t)) - 1]

-----------------------------------------------------------------------------
(* get_common_type_conversion                                              *)

LOCAL Positive(n) == IF n > 0 THEN n ELSE 0

\* Two levels of the same subtype rank are compared at one pair of places only, where the
\* promotion ranks are equal.
MeetAt(lesser, greater) ==
    lesser[1 + Positive(Len(lesser) - Len(greater))]
        = greater[1 + Positive(Len(greater) - Len(lesser))]

\* find_conv_impl: both tables are walked from where their ranks are equal. What is found
\* is the common type with the datatypes the two converters take; a set of at most one.
find_conv_impl(lesser, greater, lesser_off, greater_off) ==
    LET diff == (subtype_rank(greater) - greater_off) - (subtype_rank(lesser) - lesser_off)
        L(i) == conversion_table[lesser][lesser_off + i]
        G(i) == conversion_table[greater][greater_off + diff + i]
        met == {i \in 1..(subtype_rank(lesser) - lesser_off) : MeetAt(L(i), G(i))}
    IN {[target |-> L(i)[1 + Positive(Len(L(i)) - Len(G(i)))], lhs |-> lesser, rhs |-> greater] :
            i \in {i \in met : \A j \in met : i <= j}}

\* Mutation: the converters stay where the search left them.
KeepOrder(conv) == conv
Swap(conv) == [target |-> conv.target, lhs |-> conv.rhs, rhs |-> conv.lhs]

\* The search wants the lesser subtype rank first; if that is the right side, the
\* converters are swapped back afterwards.
CommonType(lhs, rhs, lhs_off, rhs_off) ==
    IF subtype_rank(lhs) - lhs_off < subtype_rank(rhs) - rhs_off
    THEN find_conv_impl(lhs, rhs, lhs_off, rhs_off)
    ELSE {Swap(c) : c \in find_conv_impl(rhs, lhs, rhs_off, lhs_off)}

get_common_type_conversion == [p \in Datatypes \X Datatypes |-> CommonType(p[1], p[2], 0, 0)]

get_common_numeric_op_type_conversion ==
    [p \in Numerics \X Numerics |-> CommonType(p[1], p[2], StartOffset[p[1]], StartOffset[p[2]])]

get_numeric_op_impl_conversion(t) == conversion_table[t][1 + StartOffset[t]][1]

-----------------------------------------------------------------------------
(* The registry itself: fixed datatypes have a slot each; dynamic ones are *)
(* appended and the array is sorted by IRI.                                *)

\* lower_bound: the first place not before the datatype.
LowerBound(dyn, t) ==
    CHOOSE n \in 1..(Len(dyn) + 1) :
        /\ \A i \in 1..(n - 1) : IdOf[dyn[i]] < IdOf[t]
        /\ n <= Len(dyn) => IdOf[dyn[n]] >= IdOf[t]

find_map_entry(dyn, t) ==
    \/ t \in Fixed
    \/ LET at == LowerBound(dyn, t) IN at <= Len(dyn) /\ dyn[at] = t

Sorted(dyn) == SortSeq(dyn, LAMBDA a, b : IdOf[a] < IdOf[b])

\* add: a datatype that is registered again replaces its entry.
add(dyn, t) == IF t \in Range(dyn) THEN dyn ELSE Sorted(Append(dyn, t))
=============================================================================
