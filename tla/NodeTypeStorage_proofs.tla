----------------------- MODULE NodeTypeStorage_proofs -----------------------
(***************************************************************************)
(* One store of the unsynchronized storage, for any values, hashes that     *)
(* collide in any way, reserved entries and widths of a word: the vector    *)
(* and the hash set are the two directions of one map, the freelist knows   *)
(* the holes of the vector, and the store is an interning table.            *)
(*                                                                         *)
(* clear() is included for the stores that have reserved ids; for the       *)
(* others the code leaves the freelist behind the vector.                   *)
(***************************************************************************)
EXTENDS NodeTypeStorage, TLAPS

FLP == INSTANCE IndexFreeList_proofs

-----------------------------------------------------------------------------
(***************************************************************************)
(* What the freelist does, from its own proofs.                             *)
(***************************************************************************)
Good(fl) == fl \in FL!FreeLists /\ FL!IsLowestFree(fl)

LEMMA Widths == FLP!BitmapBitsAssumption /\ FLP!MaxIxAssumption
  BY WidthAssumption DEF FLP!BitmapBitsAssumption, FLP!MaxIxAssumption

\* The freelist of the map is the freelist of those proofs.
LEMMA SameFreeList ==
    ASSUME NEW fl, NEW ix
    PROVE  /\ Good(fl) <=> FLP!Good(fl)
           /\ FL!IsOccupied(fl, ix) <=> FLP!IsOccupied(fl, ix)
           /\ FL!OccupiedNext(fl) = FLP!OccupiedNext(fl)
           /\ FL!OccupiedUntil(fl, ix) = FLP!OccupiedUntil(fl, ix)
           /\ FL!Vacated(fl, ix) = FLP!Vacated(fl, ix)
           /\ FL!Shrunk(fl) = FLP!Shrunk(fl)
           /\ FL!EmptyFreeList = FLP!EmptyFreeList
<1> USE DEF FL!Slot, FLP!Slot, FL!Offset, FLP!Offset, FL!Offsets, FLP!Offsets
<1>1. FL!IsOccupied(fl, ix) <=> FLP!IsOccupied(fl, ix)
  BY DEF FL!IsOccupied, FLP!IsOccupied
<1>2. Good(fl) <=> FLP!Good(fl)
  BY DEF Good, FLP!Good, FL!FreeLists, FLP!FreeLists, FL!Words, FLP!Words,
         FL!IsLowestFree, FLP!IsLowestFree, FL!IsOccupied, FLP!IsOccupied
<1>3. /\ FL!OccupiedNext(fl) = FLP!OccupiedNext(fl)
      /\ FL!OccupiedUntil(fl, ix) = FLP!OccupiedUntil(fl, ix)
  BY DEF FL!OccupiedNext, FLP!OccupiedNext, FL!OccupiedUntil, FLP!OccupiedUntil,
         FL!SearchNextFree, FLP!SearchNextFree, FL!NotFullFrom, FLP!NotFullFrom,
         FL!Full, FLP!Full, FL!Compose, FLP!Compose, FL!CountrOne, FLP!CountrOne,
         FL!FilledUntil, FLP!FilledUntil, FL!BelowOffset, FLP!BelowOffset
<1>4. /\ FL!Vacated(fl, ix) = FLP!Vacated(fl, ix)
      /\ FL!Shrunk(fl) = FLP!Shrunk(fl)
      /\ FL!EmptyFreeList = FLP!EmptyFreeList
  BY DEF FL!Vacated, FLP!Vacated, FL!Shrunk, FLP!Shrunk, FL!UsedWords, FLP!UsedWords,
         FL!EmptyFreeList, FLP!EmptyFreeList
<1> QED
  BY <1>1, <1>2, <1>3, <1>4

LEMMA EmptyFreeListIsFree ==
    /\ Good(FL!EmptyFreeList)
    /\ \A jx \in Nat : ~FL!IsOccupied(FL!EmptyFreeList, jx)
<1>1. Good(FL!EmptyFreeList)
  BY SameFreeList, Widths, FLP!EmptyIsGood
<1>2. ASSUME NEW jx \in Nat PROVE ~FL!IsOccupied(FL!EmptyFreeList, jx)
  <2>1. FLP!Slot(jx) \in Nat
    BY Widths, FLP!Parts
  <2> QED
    BY <2>1 DEF FL!IsOccupied, FL!EmptyFreeList, FL!Slot, FLP!Slot
<1> QED
  BY <1>1, <1>2

LEMMA OccupiedNextIsFree ==
    ASSUME NEW fl, Good(fl)
    PROVE  /\ Good(FL!OccupiedNext(fl))
           /\ \A jx \in Nat : FL!IsOccupied(FL!OccupiedNext(fl), jx)
                                  <=> FL!IsOccupied(fl, jx) \/ jx = fl.next_free_ix
<1>1. FLP!Good(fl) /\ FL!OccupiedNext(fl) = FLP!OccupiedNext(fl)
  BY SameFreeList
<1>2. FLP!Good(FLP!OccupiedNext(fl))
  BY <1>1, Widths, FLP!OccupiedNextIsGood
<1>3. ASSUME NEW jx \in Nat
      PROVE  FLP!IsOccupied(FLP!OccupiedNext(fl), jx)
                 <=> FLP!IsOccupied(fl, jx) \/ jx = fl.next_free_ix
  BY <1>1, Widths, FLP!OccupiedNextTakesOne
<1> QED
  BY <1>1, <1>2, <1>3, SameFreeList

LEMMA OccupiedUntilIsFree ==
    ASSUME NEW fl, Good(fl), NEW ix \in Nat
    PROVE  /\ Good(FL!OccupiedUntil(fl, ix))
           /\ \A jx \in Nat : FL!IsOccupied(FL!OccupiedUntil(fl, ix), jx)
                                  <=> FL!IsOccupied(fl, jx) \/ jx < ix
<1>1. FLP!Good(fl) /\ FL!OccupiedUntil(fl, ix) = FLP!OccupiedUntil(fl, ix)
  BY SameFreeList
<1>2. FLP!Good(FLP!OccupiedUntil(fl, ix))
  BY <1>1, Widths, FLP!OccupiedUntilIsGood
<1>3. ASSUME NEW jx \in Nat
      PROVE  FLP!IsOccupied(FLP!OccupiedUntil(fl, ix), jx) <=> FLP!IsOccupied(fl, jx) \/ jx < ix
  BY <1>1, Widths, FLP!OccupiedUntilTakesAllBelow
<1> QED
  BY <1>1, <1>2, <1>3, SameFreeList

LEMMA VacatedIsFree ==
    ASSUME NEW fl, Good(fl), NEW ix \in Nat, FL!IsOccupied(fl, ix)
    PROVE  /\ Good(FL!Vacated(fl, ix))
           /\ \A jx \in Nat : FL!IsOccupied(FL!Vacated(fl, ix), jx)
                                  <=> FL!IsOccupied(fl, jx) /\ jx # ix
<1>1. FLP!Good(fl) /\ FLP!IsOccupied(fl, ix) /\ FL!Vacated(fl, ix) = FLP!Vacated(fl, ix)
  BY SameFreeList
<1>2. /\ FLP!Good(FLP!Vacated(fl, ix))
      /\ \A jx \in Nat : FLP!IsOccupied(FLP!Vacated(fl, ix), jx) <=> FLP!IsOccupied(fl, jx) /\ jx # ix
  BY <1>1, Widths, FLP!VacatedIsGood
<1> QED
  BY <1>1, <1>2, SameFreeList

LEMMA ShrunkIsFree ==
    ASSUME NEW fl, Good(fl)
    PROVE  /\ Good(FL!Shrunk(fl))
           /\ \A jx \in Nat : FL!IsOccupied(FL!Shrunk(fl), jx) <=> FL!IsOccupied(fl, jx)
<1>1. FLP!Good(fl) /\ FL!Shrunk(fl) = FLP!Shrunk(fl)
  BY SameFreeList
<1>2. /\ FLP!Good(FLP!Shrunk(fl))
      /\ \A jx \in Nat : FLP!IsOccupied(FLP!Shrunk(fl), jx) <=> FLP!IsOccupied(fl, jx)
  BY <1>1, Widths, FLP!ShrunkIsGood
<1> QED
  BY <1>1, <1>2, SameFreeList

\* init() leaves exactly the ids below MinId occupied, and so does clear() when
\* there are such ids: reserve_until then builds the bitmap anew.
LEMMA ReservedUntilOccupies ==
    LET fl == ReservedUntil(FL!EmptyFreeList, MinId)
    IN  Good(fl) /\ \A jx \in Nat : FL!IsOccupied(fl, jx) <=> jx < MinId - 1
<1>1. CASE MinId = 1
  BY <1>1, EmptyFreeListIsFree DEF ReservedUntil
<1>2. CASE MinId > 1
  <2>1. MinId - 1 \in Nat /\ ~(MinId - 1 <= 0)
    BY <1>2, MinIdAssumption
  <2> QED
    BY <2>1, EmptyFreeListIsFree, OccupiedUntilIsFree DEF ReservedUntil
<1> QED
  BY <1>1, <1>2, MinIdAssumption

LEMMA ClearedIsAsEmpty ==
    ASSUME MinId > 1, freelist \in FL!FreeLists
    PROVE  ReservedUntil(FL!Cleared(freelist), MinId) = ReservedUntil(FL!EmptyFreeList, MinId)
<1>1. FL!Cleared(freelist).occupied_bitmap = FL!EmptyFreeList.occupied_bitmap
  BY DEF FL!Cleared, FL!EmptyFreeList, FL!FreeLists
<1>2. ~(MinId - 1 <= 0)
  BY MinIdAssumption
<1> QED
  BY <1>1, <1>2 DEF ReservedUntil, FL!OccupiedUntil

-----------------------------------------------------------------------------
(***************************************************************************)
(* The invariant.                                                          *)
(***************************************************************************)
\* The vector has the reserved elements at least; no value is twice in it.
Vector ==
    /\ forward \in Seq(Values \union {Nothing})
    /\ MinId - 1 <= Len(forward)
    /\ \A i, j \in Present : forward[i] = forward[j] => i = j

\* The hash set has the keys of what is in the vector.
Keys == \A k : k \in backward <=> \E id \in Present : k = Key(forward[id], id)

\* The freelist knows what is in the vector.
Holes ==
    /\ Good(freelist)
    /\ \A ix \in Nat : FL!IsOccupied(freelist, ix) <=> ix < MinId - 1 \/ ix + 1 \in Present

IInv == Vector /\ Keys /\ Holes /\ ReservedStay

LEMMA PresentIds ==
    ASSUME Vector, NEW id \in Present
    PROVE  id \in Nat \ {0} /\ id <= Len(forward) /\ forward[id] \in Values /\ HasValue(id)
  BY DEF Vector, Present, HasValue

\* A value that is in the vector is found at its id, and only then.
LEMMA LookupFinds ==
    ASSUME Vector, Keys, NEW v \in Values
    PROVE  IF LookupId(v) = NullId THEN \A id \in Present : forward[id] # v
           ELSE LookupId(v) \in Present /\ forward[LookupId(v)] = v
<1>1. \A id \in Present : forward[id] = v => Key(v, id) \in KeysOf(v)
  BY DEF Keys, KeysOf, Key
<1>2. \A k \in KeysOf(v) : k.id \in Present /\ k.id # NullId /\ forward[k.id] = v
  BY PresentIds DEF Keys, KeysOf, Key, NullId
<1> QED
  BY <1>1, <1>2 DEF LookupId

LEMMA IsFixedBelow ==
    ASSUME Vector, NEW id \in Present, ~IsFixed(id)
    PROVE  id >= MinId
  BY PresentIds, MinIdAssumption DEF IsFixed, NullId

-----------------------------------------------------------------------------
\* What init() leaves.
LEMMA InitKeeps ==
    ASSUME forward = ReservedForward, backward = ReservedBackward,
           freelist = ReservedUntil(FL!EmptyFreeList, MinId)
    PROVE  IInv
<1>1. MinId - 1 \in Nat /\ NothingAssumption
  BY MinIdAssumption, NothingAssumption
<1>2. /\ forward \in Seq(Values \union {Nothing}) /\ Len(forward) = MinId - 1
      /\ \A id \in 1 .. MinId - 1 :
            forward[id] = IF id \in DOMAIN Reserved THEN Reserved[id] ELSE Nothing
  BY <1>1, ReservedAssumption DEF ReservedForward
<1>3. /\ \A id : id \in Present <=> id \in DOMAIN Reserved
      /\ \A id \in DOMAIN Reserved : forward[id] = Reserved[id]
  BY <1>1, <1>2, ReservedAssumption, NothingAssumption DEF Present
<1>4. Vector
  BY <1>1, <1>2, <1>3, ReservedAssumption DEF Vector
<1>5. Keys
  BY <1>3 DEF Keys, ReservedBackward
<1>6. Holes
  <2>1. \A ix \in Nat : ix + 1 \in Present => ix < MinId - 1
    BY <1>1, <1>3, ReservedAssumption
  <2> QED
    BY <2>1, ReservedUntilOccupies DEF Holes
<1>7. ReservedStay
  BY <1>2, <1>3, ReservedAssumption, NothingAssumption DEF ReservedStay, HasValue
<1> QED
  BY <1>4, <1>5, <1>6, <1>7 DEF IInv

\* A new value goes to the end of the vector or into a hole of it, never to an
\* element in use or to a reserved one.
LEMMA InsertDoes ==
    ASSUME IInv, NEW v \in Values, NEW id \in Ids, InsertAssumeNotPresent(v, id)
    PROVE  /\ id \in Nat /\ id >= MinId /\ id \notin Present
           /\ forward' \in Seq(Values \union {Nothing}) /\ Len(forward') >= Len(forward)
           /\ Present' = Present \union {id} /\ forward'[id] = v
           /\ \A j \in 1 .. Len(forward) : j # id => forward'[j] = forward[j]
<1> DEFINE ix == freelist.next_free_ix
           n  == Len(forward)
<1>1. /\ ix \in Nat /\ ix <= n /\ id = ix + 1 /\ n \in Nat
      /\ forward' = [Grown(ix) EXCEPT ![id] = v]
  BY DEF IInv, Vector, Holes, Good, FL!FreeLists, InsertAssumeNotPresent, AssignedIxAssertion
<1>2. id >= MinId /\ id \notin Present
  BY <1>1, MinIdAssumption DEF IInv, Holes, Good, FL!IsLowestFree
<1> HIDE DEF ix
<1>3. /\ forward \in Seq(Values \union {Nothing}) /\ Grown(ix) \in Seq(Values \union {Nothing})
      /\ Len(Grown(ix)) = (IF ix >= n THEN n + 1 ELSE n) /\ id \in 1 .. Len(Grown(ix))
      /\ \A j \in 1 .. n : Grown(ix)[j] = forward[j]
  BY <1>1 DEF IInv, Vector, Grown
<1>4. /\ forward' \in Seq(Values \union {Nothing}) /\ Len(forward') = Len(Grown(ix))
      /\ \A j \in 1 .. Len(Grown(ix)) : forward'[j] = IF j = id THEN v ELSE Grown(ix)[j]
  BY <1>1, <1>3
<1>5. \A j \in 1 .. Len(forward') : j # id => j \in 1 .. n /\ forward'[j] = forward[j]
  BY <1>1, <1>3, <1>4
<1>6. /\ Len(forward') >= n /\ id \in 1 .. Len(forward') /\ forward'[id] = v /\ v # Nothing
      /\ \A j \in 1 .. n : j # id => j \in 1 .. Len(forward') /\ forward'[j] = forward[j]
  BY <1>1, <1>3, <1>4, NothingAssumption
<1>7. \A j : j \in Present' <=> j \in Present \/ j = id
  BY <1>5, <1>6 DEF Present
<1>8. Present' = Present \union {id}
  BY <1>7
<1> QED
  BY <1>1, <1>2, <1>4, <1>6, <1>8

LEMMA InsertKeeps ==
    ASSUME IInv, NEW v \in Values, NEW id \in Ids, InsertAssumeNotPresent(v, id), LookupId(v) = NullId
    PROVE  IInv'
<1>1. /\ id \in Nat /\ id >= MinId /\ id \notin Present
      /\ forward' \in Seq(Values \union {Nothing}) /\ Len(forward') >= Len(forward)
      /\ Present' = Present \union {id} /\ forward'[id] = v
      /\ \A j \in 1 .. Len(forward) : j # id => forward'[j] = forward[j]
  BY InsertDoes
<1>2. \A j \in Present : j # id /\ forward[j] # v /\ forward'[j] = forward[j]
  BY <1>1, LookupFinds DEF IInv, Present
<1>3. Vector'
  <2>1. \A i, j \in Present' : forward'[i] = forward'[j] => i = j
    BY <1>1, <1>2 DEF IInv, Vector
  <2>2. Len(forward) \in Nat /\ Len(forward') \in Nat /\ MinId - 1 <= Len(forward)
    BY <1>1 DEF IInv, Vector
  <2> QED
    BY <1>1, <2>1, <2>2, MinIdAssumption DEF Vector
<1>4. Keys'
  <2>1. backward' = backward \union {Key(v, id)}
    BY DEF InsertAssumeNotPresent
  <2>2. \A k : k \in backward' <=> \E j \in Present' : k = Key(forward'[j], j)
    BY <1>1, <1>2, <2>1 DEF IInv, Keys
  <2> QED
    BY <2>2 DEF Keys, Key
<1>5. Holes'
  <2>1. Good(freelist) /\ freelist' = FL!OccupiedNext(freelist) /\ id = freelist.next_free_ix + 1
    BY DEF IInv, Holes, InsertAssumeNotPresent
  <2>2. freelist.next_free_ix \in Nat
    BY <2>1 DEF Good, FL!FreeLists
  <2>3. Good(freelist') /\ \A jx \in Nat : FL!IsOccupied(freelist', jx)
                              <=> FL!IsOccupied(freelist, jx) \/ jx = freelist.next_free_ix
    BY <2>1, OccupiedNextIsFree
  <2>4. \A jx \in Nat : FL!IsOccupied(freelist', jx) <=> jx < MinId - 1 \/ jx + 1 \in Present'
    BY <1>1, <2>1, <2>2, <2>3 DEF IInv, Holes
  <2> QED
    BY <2>3, <2>4 DEF Holes, Good, FL!IsLowestFree, FL!IsOccupied, FL!FreeLists
<1>6. ReservedStay'
  <2>1. \A j \in 1 .. MinId - 1 : j # id /\ j \in 1 .. Len(forward)
    BY <1>1, MinIdAssumption DEF IInv, Vector
  <2>2. \A j \in 1 .. MinId - 1 : j \in 1 .. Len(forward') /\ forward'[j] = forward[j]
    BY <1>1, <2>1 DEF IInv, Vector
  <2> QED
    BY <2>1, <2>2 DEF IInv, ReservedStay, HasValue
<1> QED
  BY <1>3, <1>4, <1>5, <1>6 DEF IInv

\* Erasing takes one id out of all three, and not a reserved one.
LEMMA EraseDoes ==
    ASSUME IInv, NEW id \in Ids, EraseId(id)
    PROVE  /\ id \in Nat /\ id >= MinId /\ id \in Present
           /\ forward' \in Seq(Values \union {Nothing}) /\ Len(forward') = Len(forward)
           /\ Present' = Present \ {id}
           /\ \A j \in 1 .. Len(forward) : j # id => forward'[j] = forward[j]
<1>1. id \in Present
  BY DEF EraseId, EraseAssumePresent, HasValue, Present
<1>2. id \in Nat /\ id >= MinId
  BY <1>1, IsFixedBelow, PresentIds DEF IInv, EraseId
<1>3. forward \in Seq(Values \union {Nothing}) /\ forward' = [forward EXCEPT ![id] = Nothing]
      /\ id \in 1 .. Len(forward)
  BY <1>1 DEF IInv, Vector, EraseId, EraseAssumePresent, Present
<1>4. /\ forward' \in Seq(Values \union {Nothing}) /\ Len(forward') = Len(forward)
      /\ \A j \in 1 .. Len(forward) : forward'[j] = IF j = id THEN Nothing ELSE forward[j]
  BY <1>3
<1>5. \A j : j \in Present' <=> j \in Present /\ j # id
  BY <1>4 DEF Present
<1> QED
  BY <1>1, <1>2, <1>4, <1>5

LEMMA EraseKeeps ==
    ASSUME IInv, NEW id \in Ids, EraseId(id)
    PROVE  IInv'
<1>1. /\ id \in Nat /\ id >= MinId /\ id \in Present
      /\ forward' \in Seq(Values \union {Nothing}) /\ Len(forward') = Len(forward)
      /\ Present' = Present \ {id}
      /\ \A j \in 1 .. Len(forward) : j # id => forward'[j] = forward[j]
  BY EraseDoes
<1>2. \A j \in Present' : j \in Present /\ j # id /\ forward'[j] = forward[j]
  BY <1>1 DEF Present
<1>3. Vector'
  BY <1>1, <1>2 DEF IInv, Vector
<1>4. Keys'
  <2>1. backward' = backward \ ErasedKeys(id)
    BY DEF EraseId, EraseAssumePresent
  <2>2. \A k : k \in ErasedKeys(id) <=> k = Key(forward[id], id)
    BY <1>1 DEF IInv, Keys, ErasedKeys, Key
  <2>3. \A k : k \in backward' <=> \E j \in Present' : k = Key(forward'[j], j)
    BY <1>1, <1>2, <2>1, <2>2 DEF IInv, Keys, Key
  <2> QED
    BY <2>3 DEF Keys, Key
<1>5. Holes'
  <2>1. Good(freelist) /\ freelist' = FL!Vacated(freelist, id - 1) /\ id - 1 \in Nat
    BY <1>1, PresentIds DEF IInv, Holes, EraseId, EraseAssumePresent, VacatedId
  <2>2. FL!IsOccupied(freelist, id - 1)
    BY <1>1, <2>1 DEF IInv, Holes
  <2>3. Good(freelist') /\ \A jx \in Nat : FL!IsOccupied(freelist', jx)
                              <=> FL!IsOccupied(freelist, jx) /\ jx # id - 1
    BY <2>1, <2>2, VacatedIsFree
  <2>4. \A jx \in Nat : FL!IsOccupied(freelist', jx) <=> jx < MinId - 1 \/ jx + 1 \in Present'
    BY <1>1, <2>1, <2>3, MinIdAssumption DEF IInv, Holes
  <2> QED
    BY <2>3, <2>4 DEF Holes, Good, FL!IsLowestFree, FL!IsOccupied, FL!FreeLists
<1>6. ReservedStay'
  <2>1. \A j \in 1 .. MinId - 1 : j # id /\ j \in 1 .. Len(forward)
    BY <1>1, MinIdAssumption DEF IInv, Vector
  <2> QED
    BY <1>1, <2>1 DEF IInv, ReservedStay, HasValue
<1> QED
  BY <1>3, <1>4, <1>5, <1>6 DEF IInv

LEMMA ShrinkKeeps ==
    ASSUME IInv, ShrinkToFit
    PROVE  IInv'
<1>1. UNCHANGED <<forward, backward>> /\ freelist' = FL!Shrunk(freelist) /\ Good(freelist)
  BY DEF ShrinkToFit, IInv, Holes
<1>2. Vector' /\ Keys' /\ ReservedStay' /\ Present' = Present
  BY <1>1 DEF IInv, Vector, Keys, Key, ReservedStay, HasValue, Present
<1>3. Good(freelist') /\ \A jx \in Nat : FL!IsOccupied(freelist', jx) <=> FL!IsOccupied(freelist, jx)
  BY <1>1, ShrunkIsFree
<1>4. Holes'
  BY <1>2, <1>3 DEF IInv, Holes, Good, FL!IsLowestFree, FL!IsOccupied, FL!FreeLists
<1> QED
  BY <1>2, <1>4 DEF IInv

-----------------------------------------------------------------------------
LEMMA InitIInv == Init => IInv
  BY InitKeeps DEF Init

LEMMA StepKeepsIInv == IInv /\ [Next]_mapVars => IInv'
<1> SUFFICES ASSUME IInv, [Next]_mapVars PROVE IInv'
  OBVIOUS
<1>1. ASSUME NEW v \in Values, NEW id \in Ids, FindOrMakeId(v, id) PROVE IInv'
  <2>1. CASE UNCHANGED mapVars
    BY <2>1 DEF mapVars, IInv, Vector, Keys, Key, Holes, Good, Present, ReservedStay, HasValue,
       FL!IsLowestFree, FL!IsOccupied, FL!FreeLists
  <2>2. CASE LookupId(v) = NullId /\ InsertAssumeNotPresent(v, id)
    BY <2>2, InsertKeeps
  <2> QED
    BY <1>1, <2>1, <2>2 DEF FindOrMakeId
<1>2. ASSUME NEW id \in Ids, EraseId(id) PROVE IInv'
  BY <1>2, EraseKeeps
<1>3. CASE ShrinkToFit
  BY <1>3, ShrinkKeeps
<1>4. CASE UNCHANGED mapVars
  BY <1>4 DEF mapVars, IInv, Vector, Keys, Key, Holes, Good, Present, ReservedStay, HasValue,
     FL!IsLowestFree, FL!IsOccupied, FL!FreeLists
<1> QED
  BY <1>1, <1>2, <1>3, <1>4 DEF Next

\* After clear() the store is as init() leaves it.
LEMMA ClearIsInit == MinId > 1 /\ IInv /\ Clear => Init'
  BY ClearedIsAsEmpty DEF Clear, IInv, Holes, Good, Init, ReservedForward, ReservedBackward, Key,
     ReservedUntil, FL!EmptyFreeList, FL!OccupiedUntil, FL!SearchNextFree, FL!NotFullFrom, FL!Full,
     FL!Compose, FL!CountrOne, FL!FilledUntil, FL!BelowOffset, FL!Slot, FL!Offset, FL!Offsets

LEMMA ClearKeepsIInv == MinId > 1 /\ IInv /\ Clear => IInv'
  BY ClearIsInit, InitIInv, PTL

LEMMA IInvHolds ==
    /\ Spec => []IInv
    /\ MinId > 1 => (SpecWithClear => []IInv)
<1>1. Spec => []IInv
  BY InitIInv, StepKeepsIInv, PTL DEF Spec
<1>2. MinId > 1 => (SpecWithClear => []IInv)
  <2> SUFFICES ASSUME MinId > 1 PROVE SpecWithClear => []IInv
    OBVIOUS
  <2>1. IInv /\ [Next \/ Clear]_mapVars => IInv'
    BY StepKeepsIInv, ClearKeepsIInv
  <2> QED
    BY InitIInv, <2>1, PTL DEF SpecWithClear
<1> QED
  BY <1>1, <1>2

LEMMA IInvIsTwoWay == IInv => TwoWayMap
<1> SUFFICES ASSUME IInv PROVE TwoWayMap
  OBVIOUS
<1>1. Vector /\ Keys
  BY DEF IInv
<1>2. backward = {Key(forward[id], id) : id \in Present}
  BY <1>1 DEF Keys
<1>3. TypeOK
  <2>1. backward \subseteq [hash : {Hash[v] : v \in Values}, id : Nat \ {0}]
    BY <1>1, <1>2, PresentIds DEF Key
  <2> QED
    BY <1>1, <2>1 DEF TypeOK, Vector, IInv, Holes, Good
<1>4. ASSUME NEW id \in Present PROVE LookupId(forward[id]) = id
  <2>1. forward[id] \in Values
    BY <1>1, PresentIds
  <2> QED
    BY <1>1, <2>1, LookupFinds DEF Vector
<1> QED
  BY <1>1, <1>2, <1>3, <1>4 DEF TwoWayMap, Vector

LEMMA IInvIsFreelistMatches == IInv => FreelistMatches
<1> SUFFICES ASSUME IInv PROVE FreelistMatches
  OBVIOUS
<1>1. Len(forward) \in Nat /\ MinId - 1 <= Len(forward) /\ freelist.next_free_ix \in Nat
  BY DEF IInv, Vector, Holes, Good, FL!FreeLists
<1>2. ~FL!IsOccupied(freelist, Len(forward))
  <2>1. Len(forward) + 1 \notin Present
    BY <1>1 DEF Present
  <2> QED
    BY <1>1, <2>1, MinIdAssumption DEF IInv, Holes
<1>3. freelist.next_free_ix <= Len(forward)
  <2>1. Len(forward) < freelist.next_free_ix => FL!IsOccupied(freelist, Len(forward))
    BY <1>1 DEF IInv, Holes, Good, FL!IsLowestFree
  <2> QED
    BY <1>1, <1>2, <2>1
<1> QED
  BY <1>1, <1>3 DEF IInv, Holes, FreelistMatches

\* The vector and the hash set stay the two directions of one injective map,
\* whatever hashes collide and however ids are reused.
THEOREM StoreIsTwoWay ==
    /\ Spec => []TwoWayMap
    /\ MinId > 1 => (SpecWithClear => []TwoWayMap)
  BY IInvHolds, IInvIsTwoWay, PTL

\* The freelist always knows the holes of the vector, so the index it hands out next
\* is in the vector or right behind it, as insert_assume_not_present asserts.
THEOREM FreelistKnowsTheHoles ==
    /\ Spec => []FreelistMatches
    /\ MinId > 1 => (SpecWithClear => []FreelistMatches)
  BY IInvHolds, IInvIsFreelistMatches, PTL

\* The fixed datatypes keep their ids, and no other value gets an id below MinId.
THEOREM ReservedAlwaysStay ==
    /\ Spec => []ReservedStay
    /\ MinId > 1 => (SpecWithClear => []ReservedStay)
<1>1. IInv => ReservedStay
  BY DEF IInv
<1> QED
  BY IInvHolds, <1>1, PTL

-----------------------------------------------------------------------------
(***************************************************************************)
(* The store as an interning table.                                        *)
(***************************************************************************)
LEMMA InitRefines == Init => Table!Init
<1> SUFFICES ASSUME Init PROVE Table!Init
  OBVIOUS
<1>1. \A id : id \in Present <=> id \in DOMAIN Reserved
  <2>1. \A id \in 1 .. MinId - 1 :
            forward[id] = IF id \in DOMAIN Reserved THEN Reserved[id] ELSE Nothing
    BY DEF Init, ReservedForward
  <2>2. Len(forward) = MinId - 1
    BY MinIdAssumption DEF Init, ReservedForward
  <2> QED
    BY <2>1, <2>2, ReservedAssumption, NothingAssumption DEF Present
<1>2. \A id \in DOMAIN Reserved : forward[id] = Reserved[id]
  BY ReservedAssumption DEF Init, ReservedForward
<1>3. Present = DOMAIN Reserved
  BY <1>1
<1>4. [id \in Present |-> forward[id]] = Reserved
  BY <1>2, <1>3, ReservedAssumption
<1> QED
  BY <1>4 DEF Table!Init

LEMMA FindOrMakeRefines ==
    ASSUME IInv, NEW v \in Values, NEW id \in Ids, FindOrMakeId(v, id)
    PROVE  Table!FindOrMakeId(v, id)
<1>1. CASE LookupId(v) # NullId /\ id = LookupId(v) /\ UNCHANGED mapVars
  <2>1. id \in Present /\ forward[id] = v
    BY <1>1, LookupFinds DEF IInv
  <2>2. [i \in Present |-> forward[i]]' = [i \in Present |-> forward[i]]
    BY <1>1 DEF mapVars, Present
  <2> QED
    BY <2>1, <2>2 DEF Table!FindOrMakeId
<1>2. CASE LookupId(v) = NullId /\ InsertAssumeNotPresent(v, id)
  <2>1. /\ id >= MinId /\ id \notin Present /\ Present' = Present \union {id} /\ forward'[id] = v
        /\ \A j \in 1 .. Len(forward) : j # id => forward'[j] = forward[j]
    BY <1>2, InsertDoes
  <2>2. \A j \in Present : j # id /\ forward[j] # v /\ forward'[j] = forward[j]
    BY <1>2, <2>1, LookupFinds DEF IInv, Present
  <2>3. [i \in Present |-> forward[i]]' =
            [i \in Present \union {id} |-> IF i = id THEN v ELSE [j \in Present |-> forward[j]][i]]
    BY <2>1, <2>2
  <2> QED
    BY <2>1, <2>2, <2>3 DEF Table!FindOrMakeId
<1> QED
  BY <1>1, <1>2 DEF FindOrMakeId

LEMMA EraseRefines ==
    ASSUME IInv, NEW id \in Ids, EraseId(id)
    PROVE  Table!Erase(id)
<1>1. /\ id >= MinId /\ id \in Present /\ Present' = Present \ {id}
      /\ \A j \in 1 .. Len(forward) : j # id => forward'[j] = forward[j]
  BY EraseDoes
<1>2. [i \in Present |-> forward[i]]' = [i \in Present \ {id} |-> [j \in Present |-> forward[j]][i]]
  BY <1>1 DEF Present
<1> QED
  BY <1>1, <1>2 DEF Table!Erase

LEMMA StepRefines ==
    IInv /\ [Next]_mapVars => [Table!Next]_([id \in Present |-> forward[id]])
<1> SUFFICES ASSUME IInv, [Next]_mapVars
             PROVE  Table!Next \/ UNCHANGED [id \in Present |-> forward[id]]
  OBVIOUS
<1>1. ASSUME NEW v \in Values, NEW id \in Ids, FindOrMakeId(v, id) PROVE Table!Next
  BY <1>1, FindOrMakeRefines DEF Table!Next, Ids
<1>2. ASSUME NEW id \in Ids, EraseId(id) PROVE Table!Next
  BY <1>2, EraseRefines DEF Table!Next, Ids
<1>3. CASE ShrinkToFit \/ UNCHANGED mapVars
  BY <1>3 DEF ShrinkToFit, mapVars, Present
<1> QED
  BY <1>1, <1>2, <1>3 DEF Next

LEMMA ClearRefines == MinId > 1 /\ IInv /\ Clear => Table!Clear
<1>1. Init' => (Table!Init)'
  BY InitRefines, PTL
<1> QED
  BY <1>1, ClearIsInit DEF Table!Init, Table!Clear

\* The vector, the hash set and the freelist together are a table in which a value has
\* one id until it is erased.
THEOREM StoreIsInternTable ==
    /\ Spec => ImplementsInternTableWithClear
    /\ MinId > 1 => (SpecWithClear => ImplementsInternTableWithClear)
<1> DEFINE table == [id \in Present |-> forward[id]]
<1>1. IInv /\ [Next]_mapVars => [Table!Next \/ Table!Clear]_table
  BY StepRefines
<1>2. Spec => ImplementsInternTableWithClear
  BY InitRefines, IInvHolds, <1>1, PTL DEF Spec, ImplementsInternTableWithClear, Table!SpecWithClear
<1>3. MinId > 1 => (SpecWithClear => ImplementsInternTableWithClear)
  <2> SUFFICES ASSUME MinId > 1 PROVE SpecWithClear => ImplementsInternTableWithClear
    OBVIOUS
  <2>1. IInv /\ [Next \/ Clear]_mapVars => [Table!Next \/ Table!Clear]_table
    BY <1>1, ClearRefines
  <2> QED
    BY InitRefines, IInvHolds, <2>1, PTL
       DEF SpecWithClear, ImplementsInternTableWithClear, Table!SpecWithClear
<1> QED
  BY <1>2, <1>3
=============================================================================
