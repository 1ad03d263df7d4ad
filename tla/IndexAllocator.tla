---------------------------- MODULE IndexAllocator ----------------------------
(***************************************************************************)
(* What IndexFreeList promises: a set of indices in use, from which the     *)
(* least free index is taken, any index is given back, and all the indices  *)
(* below a bound can be taken at once.                                      *)
(***************************************************************************)
EXTENDS Integers

CONSTANT MaxIx \* bound of the model, as in IndexFreeList

VARIABLE occupied

Init == occupied = {}

\* The least free index is handed out.
Allocate(ix) ==
    /\ ix \notin occupied
    /\ 0 .. ix - 1 \subseteq occupied
    /\ occupied' = occupied \union {ix}

Reserve(ix) == occupied' = occupied \union 0 .. ix - 1

Release(ix) ==
    /\ ix \in occupied
    /\ occupied' = occupied \ {ix}

Next ==
    \/ \E ix \in 0 .. MaxIx : Allocate(ix)
    \/ \E ix \in 0 .. MaxIx : Reserve(ix)
    \/ \E ix \in 0 .. MaxIx : Release(ix)

Spec == Init /\ [][Next]_occupied
=============================================================================
