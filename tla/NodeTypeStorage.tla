--------------------------- MODULE NodeTypeStorage ---------------------------
(***************************************************************************)
(* One store of UnsyncReferenceNodeStorage: the BiDirFlatMap of one node    *)
(* type (IRIs, blank nodes, variables, or the literals of one datatype)     *)
(* with the operations of the node storage on it.  The stores do not share  *)
(* state, so each is an instance of this module: MinId is min_iri_id and    *)
(* Reserved the fixed datatype IRIs for the IRI store, MinId = 1 and        *)
(* Reserved empty for all the others.                                      *)
(***************************************************************************)
EXTENDS BiDirFlatMap

CONSTANTS
    MinId,   \* the first id that is given out
    Reserved \* the reserved entries: a function from some ids below MinId

ASSUME MinIdAssumption == MinId \in Nat \ {0} /\ MinId - 1 <= MaxIx
ASSUME ReservedAssumption ==
    /\ DOMAIN Reserved \subseteq 1 .. MinId - 1
    /\ Reserved \in [DOMAIN Reserved -> Values]
    /\ \A i, j \in DOMAIN Reserved : Reserved[i] = Reserved[j] => i = j

Ids == 1 .. MaxIx

\* init(): the ids below MinId are reserved, the reserved entries inserted.
ReservedForward ==
    [id \in 1 .. MinId - 1 |-> IF id \in DOMAIN Reserved THEN Reserved[id] ELSE Nothing]
ReservedBackward == {Key(Reserved[id], id) : id \in DOMAIN Reserved}

Init ==
    /\ forward = ReservedForward
    /\ backward = ReservedBackward
    /\ freelist = ReservedUntil(FL!EmptyFreeList, MinId)

(***************************************************************************)
(* find_or_make_id(): the id of a value that is there, a new id otherwise.  *)
(***************************************************************************)
FindOrMakeId(v, id) ==
    \/ /\ LookupId(v) # NullId
       /\ id = LookupId(v)
       /\ UNCHANGED mapVars
    \/ /\ LookupId(v) = NullId
       /\ InsertAssumeNotPresent(v, id)

(***************************************************************************)
(* erase_*(): the IRIs of the fixed datatypes cannot be erased; for the     *)
(* other node types MinId is 1 and there is no such id.                     *)
(***************************************************************************)
IsFixed(id) == id < MinId /\ id # NullId

EraseId(id) ==
    /\ ~IsFixed(id)
    /\ EraseAssumePresent(id)

\* clear(): every container of the map is cleared, then init() runs again.
Clear ==
    /\ forward' = ReservedForward
    /\ backward' = ReservedBackward
    /\ freelist' = ReservedUntil(FL!Cleared(freelist), MinId)

Next ==
    \/ \E v \in Values, id \in Ids : FindOrMakeId(v, id)
    \/ \E id \in Ids : EraseId(id)
    \/ ShrinkToFit

\* SyncReferenceNodeStorage and every user that never calls clear().
Spec == Init /\ [][Next]_mapVars

\* UnsyncReferenceNodeStorage: clear() as well.
SpecWithClear == Init /\ [][Next \/ Clear]_mapVars

-----------------------------------------------------------------------------
(***************************************************************************)
(* Properties.                                                             *)
(***************************************************************************)
Present == {id \in 1 .. Len(forward) : forward[id] # Nothing}

TypeOK ==
    /\ forward \in Seq(Values \union {Nothing})
    /\ backward \subseteq [hash : {Hash[v] : v \in Values}, id : Nat \ {0}]
    /\ freelist \in FL!FreeLists

\* forward_ and backward_ are the two directions of one injective map: every
\* key leads to a value with its hash, every value is found by its own id, and
\* no value has two ids, also when the hashes of values collide.
TwoWayMap ==
    /\ TypeOK
    /\ backward = {Key(forward[id], id) : id \in Present}
    /\ \A i, j \in Present : forward[i] = forward[j] => i = j
    /\ \A id \in Present : LookupId(forward[id]) = id

\* The freelist knows exactly the elements of the vector that are in use or
\* reserved: nothing is handed out twice, nothing is lost, and the assertion of
\* insert_assume_not_present (BiDirFlatMap.hpp:306) holds at the next insert.
FreelistMatches ==
    /\ \A ix \in 0 .. Len(forward) : FL!IsOccupied(freelist, ix)
            <=> ix < MinId - 1 \/ ix + 1 \in Present
    /\ freelist.next_free_ix <= Len(forward)

\* What storage/README.md requires of a node storage: the reserved IRIs are
\* always present with their ids, whatever is erased or cleared, and no other
\* value ever gets an id below MinId, where it would be taken for a datatype.
ReservedStay ==
    \A id \in 1 .. MinId - 1 :
        IF id \in DOMAIN Reserved
        THEN HasValue(id) /\ forward[id] = Reserved[id]
        ELSE ~HasValue(id)

Table == INSTANCE InternTable WITH table <- [id \in Present |-> forward[id]]

\* The store implements the interning table every user of a node storage
\* relies on: one id per value, kept until the value is erased.
ImplementsInternTableWithClear == Table!SpecWithClear
=============================================================================
