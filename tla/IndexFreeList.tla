---------------------------- MODULE IndexFreeList ----------------------------
(***************************************************************************)
(* The freelist of vector indices below every node storage                 *)
(* (storage/reference_node_storage/detail/IndexFreeList.hpp): a bitmap of   *)
(* fixed-width words, bit n set when slot n of the vector is taken, and the *)
(* cached index of the next free slot.                                      *)
(*                                                                         *)
(* A word is the set of the offsets whose bit is 1.  The bitmap is a        *)
(* sequence of words; C++ slot s is element s + 1.  The code writes 64 in   *)
(* compose() and bitmap_bits everywhere else; the only instantiations use   *)
(* a 64-bit word, so both are BitmapBits here.                              *)
(*                                                                         *)
(* The operations are operators on a freelist value, so that BiDirFlatMap   *)
(* can apply several of them in one step; the actions at the end make the   *)
(* freelist a component of its own.                                         *)
(***************************************************************************)
EXTENDS Integers, Sequences

CONSTANTS
    BitmapBits, \* bits of one word (64 in the code)
    MaxIx       \* bound of the model: only indices below MaxIx are handed out

ASSUME BitmapBitsAssumption == BitmapBits \in Nat \ {0}
ASSUME MaxIxAssumption == MaxIx \in Nat

VARIABLE freelist \* [next_free_ix, occupied_bitmap]

vars == <<freelist>>

Offsets == 0 .. BitmapBits - 1
Words == SUBSET Offsets
FreeLists == [next_free_ix : Nat, occupied_bitmap : Seq(Words)]

(***************************************************************************)
(* decompose() and compose().                                              *)
(***************************************************************************)
Slot(ix) == ix \div BitmapBits

Offset(ix) == ix % BitmapBits

Compose(slot_ix, offset) == slot_ix * BitmapBits + offset

\* The bit of index ix, 0 when the bitmap has no such word.
IsOccupied(fl, ix) ==
    /\ Slot(ix) < Len(fl.occupied_bitmap)
    /\ Offset(ix) \in fl.occupied_bitmap[Slot(ix) + 1]

Full(word) == word = Offsets

\* std::countr_one of a word that is not full: its lowest 0 bit.
CountrOne(word) ==
    CHOOSE n \in Offsets : n \notin word /\ \A k \in 0 .. n - 1 : k \in word

(***************************************************************************)
(* search_next_free(): the first word from slot_ix on with a 0 bit, and the *)
(* lowest such bit; one past the last bit when there is none.              *)
(***************************************************************************)
NotFullFrom(bitmap, slot_ix) ==
    {s \in slot_ix .. Len(bitmap) - 1 : ~Full(bitmap[s + 1])}

SearchNextFree(bitmap, slot_ix) ==
    IF NotFullFrom(bitmap, slot_ix) = {}
    THEN Compose(Len(bitmap), 0)
    ELSE LET s == CHOOSE s \in NotFullFrom(bitmap, slot_ix) :
                      \A t \in NotFullFrom(bitmap, slot_ix) : s <= t
         IN  Compose(s, CountrOne(bitmap[s + 1]))

(***************************************************************************)
(* occupy_next_available(): push_back adds at most one word, so the write   *)
(* of the bit is inside the bitmap only when InBounds holds.               *)
(***************************************************************************)
InBounds(fl) == Slot(fl.next_free_ix) <= Len(fl.occupied_bitmap)

OccupiedNext(fl) ==
    LET ix     == fl.next_free_ix
        grown  == IF Slot(ix) >= Len(fl.occupied_bitmap)
                  THEN Append(fl.occupied_bitmap, {})
                  ELSE fl.occupied_bitmap
        bitmap == [grown EXCEPT ![Slot(ix) + 1] = @ \union {Offset(ix)}]
    IN  [next_free_ix |-> SearchNextFree(bitmap, Slot(ix)),
         occupied_bitmap |-> bitmap]

(***************************************************************************)
(* occupy_until(ix): every index below ix becomes occupied.  When the       *)
(* bitmap is too short it is rebuilt; otherwise the bits of ix and above    *)
(* in the word of ix are kept.                                             *)
(***************************************************************************)

\* Mutation: the mask 1 << offset instead of (1 << offset) - 1, off by one bit.
UpToOffset(ix) == {o \in Offsets : o <= Offset(ix)}
BelowOffset(ix) == {o \in Offsets : o < Offset(ix)}

FilledUntil(bitmap, ix) ==
    IF Slot(ix) >= Len(bitmap)
    THEN [s \in 1 .. Slot(ix) + 1 |->
              IF s <= Slot(ix) THEN Offsets ELSE BelowOffset(ix)]
    ELSE [s \in 1 .. Len(bitmap) |->
              IF s <= Slot(ix) THEN Offsets
              ELSE IF s = Slot(ix) + 1 THEN bitmap[s] \union BelowOffset(ix)
                   ELSE bitmap[s]]

OccupiedUntil(fl, ix) ==
    LET bitmap == FilledUntil(fl.occupied_bitmap, ix)
    IN  [next_free_ix |-> SearchNextFree(bitmap, Slot(ix)),
         occupied_bitmap |-> bitmap]

\* Mutation: vacate without the update of next_free_ix_.
VacatedBitOnly(fl, ix) ==
    [fl EXCEPT !.occupied_bitmap[Slot(ix) + 1] = @ \ {Offset(ix)}]

\* vacate(ix)
Vacated(fl, ix) ==
    [next_free_ix |-> IF ix < fl.next_free_ix THEN ix ELSE fl.next_free_ix,
     occupied_bitmap |->
         [fl.occupied_bitmap EXCEPT ![Slot(ix) + 1] = @ \ {Offset(ix)}]]

\* shrink_to_fit(): the words behind the last non-zero one are dropped.
\* Mutation: the reverse iterator is taken one word too far.
OneWordLess(bitmap) == IF bitmap = <<>> THEN 0 ELSE Len(bitmap) - 1

UsedWords(bitmap) ==
    CHOOSE n \in 0 .. Len(bitmap) :
        /\ n > 0 => bitmap[n] # {}
        /\ \A s \in n + 1 .. Len(bitmap) : bitmap[s] = {}

Shrunk(fl) ==
    [next_free_ix |-> fl.next_free_ix,
     occupied_bitmap |->
         [s \in 1 .. UsedWords(fl.occupied_bitmap) |-> fl.occupied_bitmap[s]]]

\* clear(): empties the bitmap and leaves next_free_ix_ as it is.
Cleared(fl) == [fl EXCEPT !.occupied_bitmap = <<>>]

\* The constructor.
EmptyFreeList == [next_free_ix |-> 0, occupied_bitmap |-> <<>>]

-----------------------------------------------------------------------------
(***************************************************************************)
(* The freelist as a component.  vacate is only called on an index that is *)
(* in use (erase_assume_present requires a value at the id), clear() only   *)
(* by BiDirFlatMap::clear, whose callers NodeTypeStorage models.           *)
(***************************************************************************)
Init == freelist = EmptyFreeList

OccupyNextAvailable(ix) ==
    /\ freelist.next_free_ix < MaxIx
    /\ InBounds(freelist)
    /\ ix = freelist.next_free_ix
    /\ freelist' = OccupiedNext(freelist)

OccupyUntil(ix) ==
    /\ ix <= MaxIx
    /\ freelist' = OccupiedUntil(freelist, ix)

Vacate(ix) ==
    /\ IsOccupied(freelist, ix)
    /\ freelist' = Vacated(freelist, ix)

ShrinkToFit == freelist' = Shrunk(freelist)

Next ==
    \/ \E ix \in 0 .. MaxIx : OccupyNextAvailable(ix)
    \/ \E ix \in 0 .. MaxIx : OccupyUntil(ix)
    \/ \E ix \in 0 .. MaxIx : Vacate(ix)
    \/ ShrinkToFit

Spec == Init /\ [][Next]_vars

-----------------------------------------------------------------------------
(***************************************************************************)
(* Properties.                                                             *)
(***************************************************************************)

\* The freelist is a cached index and a bitmap whose words are in width.
TypeOK == freelist \in FreeLists

\* The precondition search_next_free states, "all slots before slot_ix, offset
\* are occupied", kept between the calls: the cached index is the LOWEST free
\* index.  Vacating, growing by a word and dropping words must all keep it.
IsLowestFree(fl) ==
    /\ ~IsOccupied(fl, fl.next_free_ix)
    /\ \A ix \in 0 .. fl.next_free_ix - 1 : IsOccupied(fl, ix)

NextIsLowestFree == IsLowestFree(freelist)

\* occupy_next_available adds one word at most before it writes the bit: the
\* bit must be in the words there are.  shrink_to_fit drops words and must not
\* drop the one below the cached index.
WriteInBounds == TypeOK /\ InBounds(freelist)

\* The indices in use, as the abstract allocator sees them.
OccupiedIndices ==
    {ix \in 0 .. Compose(Len(freelist.occupied_bitmap), 0) : IsOccupied(freelist, ix)}

Allocator == INSTANCE IndexAllocator WITH occupied <- OccupiedIndices

\* The bitmap and its cached index implement an allocator that always hands out
\* the least index that is not in use and never one that is.
ImplementsAllocator == Allocator!Spec
=============================================================================
