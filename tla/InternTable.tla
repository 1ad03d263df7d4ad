----------------------------- MODULE InternTable -----------------------------
(***************************************************************************)
(* What a node storage promises of one node type: a table from ids to       *)
(* values in which a value has one id.  Looking up a value that is not      *)
(* there puts it at some unused id that is not reserved; an entry stays     *)
(* until it is erased, and the reserved entries cannot be erased.           *)
(***************************************************************************)
EXTENDS Integers

CONSTANTS Values, MinId, Reserved, MaxIx

VARIABLE table

Init == table = Reserved

\* find_or_make_id with the id it answers.
FindOrMakeId(v, id) ==
    \/ /\ id \in DOMAIN table /\ table[id] = v
       /\ UNCHANGED table
    \/ /\ \A other \in DOMAIN table : table[other] # v
       /\ id >= MinId /\ id \notin DOMAIN table
       /\ table' = [i \in DOMAIN table \union {id} |-> IF i = id THEN v ELSE table[i]]

Erase(id) ==
    /\ id \in DOMAIN table /\ id >= MinId
    /\ table' = [i \in DOMAIN table \ {id} |-> table[i]]

Clear == table' = Reserved

Next ==
    \/ \E v \in Values, id \in 1 .. MaxIx : FindOrMakeId(v, id)
    \/ \E id \in 1 .. MaxIx : Erase(id)

Spec == Init /\ [][Next]_table

SpecWithClear == Init /\ [][Next \/ Clear]_table
=============================================================================
