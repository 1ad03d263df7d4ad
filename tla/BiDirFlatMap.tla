----------------------------- MODULE BiDirFlatMap -----------------------------
(***************************************************************************)
(* The two-way map of a node storage                                       *)
(* (storage/reference_node_storage/detail/BiDirFlatMap.hpp): a vector from  *)
(* id to value, a hash set that finds the id of a value, and the freelist   *)
(* of the vector.  The state and the actions of the map; NodeTypeStorage    *)
(* adds the storage around it and the specification.                       *)
(*                                                                         *)
(* Ids start at 1, the null id is 0: id i is element i of forward, which    *)
(* is slot i - 1 of the C++ vector and index i - 1 of the freelist.         *)
(***************************************************************************)
EXTENDS Integers, Sequences

CONSTANTS
    Values,     \* the views that can be stored (IRIs, labels, literals)
    Nothing,    \* std::nullopt, an element of forward_ without a value
    Hash,       \* hash of each value; different values may collide
    BitmapBits,
    MaxIx

ASSUME WidthAssumption == BitmapBits \in Nat \ {0} /\ MaxIx \in Nat
ASSUME NothingAssumption == Nothing \notin Values
ASSUME HashAssumption == DOMAIN Hash = Values

VARIABLES
    forward,  \* forward_: the value, or Nothing, of each id
    backward, \* backward_: the keys [hash, id]
    freelist  \* freelist_

mapVars == <<forward, backward, freelist>>

FL == INSTANCE IndexFreeList

NullId == 0

Key(v, id) == [hash |-> Hash[v], id |-> id]

\* lookup_value(): is there a value at this id?
HasValue(id) == id \in 1 .. Len(forward) /\ forward[id] # Nothing

\* lookup_id(): a key with the hash of v whose value is v.
KeysOf(v) == {k \in backward : k.hash = Hash[v] /\ forward[k.id] = v}

LookupId(v) == IF KeysOf(v) = {} THEN NullId ELSE (CHOOSE k \in KeysOf(v) : TRUE).id

(***************************************************************************)
(* insert_assume_not_present(): the vector grows by one element at most,    *)
(* so the index taken from the freelist must not be beyond its end.         *)
(***************************************************************************)
AssignedIxAssertion == freelist.next_free_ix <= Len(forward)

Grown(ix) == IF ix >= Len(forward) THEN Append(forward, Nothing) ELSE forward

InsertAssumeNotPresent(v, id) ==
    LET ix == freelist.next_free_ix
    IN  /\ ix < MaxIx
        /\ AssignedIxAssertion
        /\ FL!InBounds(freelist)
        /\ id = ix + 1
        /\ freelist' = FL!OccupiedNext(freelist)
        /\ forward' = [Grown(ix) EXCEPT ![id] = v]
        /\ backward' = backward \union {Key(v, id)}

(***************************************************************************)
(* erase_assume_present()                                                  *)
(***************************************************************************)

\* Mutation: the keys are compared by hash alone, the search by id is left out.
KeysWithHash(id) == {k \in backward : k.hash = Hash[forward[id]]}
ErasedKeys(id) == {k \in backward : k.hash = Hash[forward[id]] /\ k.id = id}

\* Mutation: the id is vacated, not translated to the index.
VacatedUntranslated(id) == FL!Vacated(freelist, id)
VacatedId(id) == FL!Vacated(freelist, id - 1)

EraseAssumePresent(id) ==
    /\ HasValue(id)
    /\ backward' = backward \ ErasedKeys(id)
    /\ forward' = [forward EXCEPT ![id] = Nothing]
    /\ freelist' = VacatedId(id)

\* shrink_to_fit(): the vector and the set only give back spare capacity.
ShrinkToFit ==
    /\ freelist' = FL!Shrunk(freelist)
    /\ UNCHANGED <<forward, backward>>

(***************************************************************************)
(* reserve_until(min_id) of an empty map, the only way it is called: it     *)
(* returns before it touches the freelist when there is nothing to reserve. *)
(***************************************************************************)
\* Mutation: the freelist is not told about the reserved ids.
FreelistUntold(fl, min_id) == fl
ReservedUntil(fl, min_id) ==
    IF min_id - 1 <= 0 THEN fl ELSE FL!OccupiedUntil(fl, min_id - 1)
=============================================================================
