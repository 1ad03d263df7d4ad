------------------------ MODULE IndexFreeList_proofs ------------------------
(***************************************************************************)
(* The freelist, for words of any width and a vector of any length: its     *)
(* cached index always is the lowest free one, and the bit an insert writes *)
(* lies inside the bitmap.                                                 *)
(***************************************************************************)
EXTENDS IndexFreeList, WellFoundedInduction, TLAPS

\* A nonempty set of naturals has a least element.
LEMMA LeastElement ==
    ASSUME NEW S \in SUBSET Nat, S # {}
    PROVE  \E m \in S : \A n \in S : m <= n
<1> DEFINE LessThan == {p \in Nat \X Nat : p[1] < p[2]}
<1>1. IsWellFoundedOn(LessThan, Nat)
  BY NatLessThanWellFounded DEF OpToRel
<1> HIDE DEF LessThan
<1>2. \E m \in S : \A n \in S : ~ (<<n, m>> \in LessThan)
  BY <1>1, WFMin
<1>3. ASSUME NEW n \in S, NEW m \in S, ~(<<n, m>> \in LessThan)
      PROVE  m <= n
  BY <1>3 DEF LessThan
<1> QED
  BY <1>2, <1>3

\* A nonempty set of naturals with an upper bound has a greatest element.
LEMMA GreatestElement ==
    ASSUME NEW bound \in Nat, NEW S \in SUBSET (0 .. bound), S # {}
    PROVE  \E m \in S : \A n \in S : n <= m
<1> DEFINE Mirror == {bound - n : n \in S}
<1>1. Mirror \in SUBSET Nat /\ Mirror # {}
  <2>1. PICK any \in S : TRUE
    OBVIOUS
  <2>2. bound - any \in Mirror
    OBVIOUS
  <2>3. \A n \in S : bound - n \in Nat
    OBVIOUS
  <2> QED
    BY <2>2, <2>3
<1>2. PICK least \in Mirror : \A n \in Mirror : least <= n
  BY <1>1, LeastElement
<1>3. PICK m \in S : least = bound - m
  OBVIOUS
<1>4. \A n \in S : n <= m
  <2> TAKE n \in S
  <2>1. bound - n \in Mirror
    OBVIOUS
  <2> QED
    BY <1>2, <1>3, <2>1
<1> QED
  BY <1>4

-----------------------------------------------------------------------------
(***************************************************************************)
(* Indices as pairs of slot and offset: what decompose() and compose() do.  *)
(***************************************************************************)

\* Euclidean division by the width of a word.
LEMMA DivMod ==
    ASSUME NEW ix \in Nat
    PROVE  /\ ix \div BitmapBits \in Nat
           /\ ix % BitmapBits \in 0 .. BitmapBits - 1
           /\ ix = (ix \div BitmapBits) * BitmapBits + (ix % BitmapBits)
  BY BitmapBitsAssumption

\* Multiplying with the width of a word is monotone.
LEMMA TimesMonotone ==
    ASSUME NEW a \in Nat, NEW b \in Nat, a < b
    PROVE  a * BitmapBits + BitmapBits <= b * BitmapBits
  BY BitmapBitsAssumption

\* The parts of an index, which compose() puts together again.
LEMMA Parts ==
    ASSUME NEW ix \in Nat
    PROVE  Slot(ix) \in Nat /\ Offset(ix) \in Offsets /\ ix = Compose(Slot(ix), Offset(ix))
  BY DivMod DEF Slot, Offset, Offsets, Compose

\* compose() is strictly monotone in the slot, whatever the offsets.
LEMMA ComposeMonotone ==
    ASSUME NEW s \in Nat, NEW o \in Offsets, NEW t \in Nat, NEW p \in Offsets, s < t
    PROVE  Compose(s, o) < Compose(t, p)
<1>1. s * BitmapBits + BitmapBits <= t * BitmapBits
  BY TimesMonotone
<1>2. s * BitmapBits \in Nat /\ t * BitmapBits \in Nat
  BY BitmapBitsAssumption
<1> QED
  BY <1>1, <1>2, BitmapBitsAssumption DEF Compose, Offsets

\* decompose() is the inverse of compose().
LEMMA PartsOfCompose ==
    ASSUME NEW s \in Nat, NEW o \in Offsets
    PROVE  Compose(s, o) \in Nat /\ Slot(Compose(s, o)) = s /\ Offset(Compose(s, o)) = o
<1> DEFINE ix == Compose(s, o)
<1>1. ix \in Nat /\ s * BitmapBits \in Nat
  BY BitmapBitsAssumption DEF Compose, Offsets
<1>2. Slot(ix) \in Nat /\ Offset(ix) \in Offsets /\ ix = Compose(Slot(ix), Offset(ix))
  BY <1>1, Parts
<1>3. Slot(ix) = s
  <2>1. ~(Slot(ix) < s)
    BY <1>1, <1>2, ComposeMonotone
  <2>2. ~(s < Slot(ix))
    BY <1>1, <1>2, ComposeMonotone
  <2> QED
    BY <1>2, <2>1, <2>2
<1>4. Offset(ix) = o
  BY <1>1, <1>2, <1>3, BitmapBitsAssumption DEF Compose, Offsets
<1> QED
  BY <1>1, <1>3, <1>4

\* Indices are ordered by slot, then by offset.
LEMMA OrderOfIndices ==
    ASSUME NEW ix \in Nat, NEW jx \in Nat
    PROVE  ix < jx <=> \/ Slot(ix) < Slot(jx)
                       \/ (Slot(ix) = Slot(jx) /\ Offset(ix) < Offset(jx))
<1>1. /\ Slot(ix) \in Nat /\ Offset(ix) \in Offsets /\ ix = Compose(Slot(ix), Offset(ix))
      /\ Slot(jx) \in Nat /\ Offset(jx) \in Offsets /\ jx = Compose(Slot(jx), Offset(jx))
  BY Parts
<1>2. CASE Slot(ix) < Slot(jx)
  BY <1>1, <1>2, ComposeMonotone
<1>3. CASE Slot(jx) < Slot(ix)
  BY <1>1, <1>3, ComposeMonotone
<1>4. CASE Slot(ix) = Slot(jx)
  <2>1. Slot(ix) * BitmapBits \in Nat
    BY <1>1, BitmapBitsAssumption
  <2> QED
    BY <1>1, <1>4, <2>1, BitmapBitsAssumption DEF Compose, Offsets
<1> QED
  BY <1>1, <1>2, <1>3, <1>4

-----------------------------------------------------------------------------
(***************************************************************************)
(* The searches.                                                           *)
(***************************************************************************)

\* countr_one finds the lowest 0 bit of a word that has one.
LEMMA CountrOneIsLowest ==
    ASSUME NEW word \in Words, ~Full(word)
    PROVE  /\ CountrOne(word) \in Offsets /\ CountrOne(word) \notin word
           /\ \A k \in Offsets : k < CountrOne(word) => k \in word
<1>1. Offsets \ word \in SUBSET Nat /\ Offsets \ word # {}
  <2>1. Offsets \subseteq Nat
    BY BitmapBitsAssumption DEF Offsets
  <2>2. word \subseteq Offsets /\ word # Offsets
    BY DEF Words, Full
  <2> QED
    BY <2>1, <2>2
<1>2. PICK m \in Offsets \ word : \A n \in Offsets \ word : m <= n
  BY <1>1, LeastElement
<1>3. \E n \in Offsets : n \notin word /\ \A k \in 0 .. n - 1 : k \in word
  <2>1. \A k \in 0 .. m - 1 : k \in word
    BY <1>2, BitmapBitsAssumption DEF Offsets
  <2> QED
    BY <1>2, <2>1
<1>4. /\ CountrOne(word) \in Offsets /\ CountrOne(word) \notin word
      /\ \A k \in 0 .. CountrOne(word) - 1 : k \in word
  BY <1>3 DEF CountrOne
<1> QED
  BY <1>4, BitmapBitsAssumption DEF Offsets

\* search_next_free, called where its precondition holds, finds the lowest free
\* index of the bitmap.
LEMMA SearchFindsLowest ==
    ASSUME NEW bitmap \in Seq(Words), NEW start \in 0 .. Len(bitmap),
           \A s \in 0 .. start - 1 : Full(bitmap[s + 1]),
           NEW fl, fl = [next_free_ix |-> SearchNextFree(bitmap, start),
                         occupied_bitmap |-> bitmap]
    PROVE  fl \in FreeLists /\ IsLowestFree(fl)
<1> DEFINE next == SearchNextFree(bitmap, start)
           NotFull == NotFullFrom(bitmap, start)
<1>1. CASE NotFull = {}
  <2>1. next = Compose(Len(bitmap), 0)
    BY <1>1 DEF SearchNextFree
  <2>2. next \in Nat /\ Slot(next) = Len(bitmap) /\ Offset(next) = 0
    BY <2>1, PartsOfCompose, BitmapBitsAssumption DEF Offsets
  <2>3. \A s \in 0 .. Len(bitmap) - 1 : Full(bitmap[s + 1])
    <3> TAKE s \in 0 .. Len(bitmap) - 1
    <3>1. CASE s < start
      BY <3>1
    <3>2. CASE s >= start
      <4>1. s \in start .. Len(bitmap) - 1
        BY <3>2
      <4>2. s \notin NotFullFrom(bitmap, start)
        BY <1>1
      <4> QED
        BY <4>1, <4>2 DEF NotFullFrom
    <3> QED
      BY <3>1, <3>2
  <2>4. \A ix \in 0 .. next - 1 : IsOccupied(fl, ix)
    <3> TAKE ix \in 0 .. next - 1
    <3>1. ix \in Nat /\ ix < next
      BY <2>2
    <3>2. Slot(ix) \in Nat /\ Offset(ix) \in Offsets
      BY <3>1, Parts
    <3>3. Slot(ix) < Len(bitmap)
      BY <2>2, <3>1, <3>2, OrderOfIndices, BitmapBitsAssumption DEF Offsets
    <3> QED
      BY <2>3, <3>2, <3>3 DEF IsOccupied, Full
  <2>5. ~IsOccupied(fl, next)
    BY <2>2 DEF IsOccupied
  <2> QED
    BY <2>2, <2>4, <2>5 DEF FreeLists, IsLowestFree
<1>2. CASE NotFull # {}
  <2>1. NotFull \in SUBSET Nat
    BY DEF NotFullFrom
  <2>2. \E s \in NotFull : \A t \in NotFull : s <= t
    BY <1>2, <2>1, LeastElement
  <2> DEFINE slot == CHOOSE s \in NotFull : \A t \in NotFull : s <= t
             offset == CountrOne(bitmap[slot + 1])
  <2>3. slot \in NotFull /\ \A t \in NotFull : slot <= t
    BY <2>2
  <2> HIDE DEF slot
  <2>4. slot \in start .. Len(bitmap) - 1 /\ ~Full(bitmap[slot + 1])
    BY <2>3 DEF NotFullFrom
  <2>5. bitmap[slot + 1] \in Words
    BY <2>4
  <2>6. /\ offset \in Offsets /\ offset \notin bitmap[slot + 1]
        /\ \A k \in Offsets : k < offset => k \in bitmap[slot + 1]
    BY <2>4, <2>5, CountrOneIsLowest
  <2>7. next = Compose(slot, offset)
    BY <1>2 DEF SearchNextFree, slot
  <2> HIDE DEF offset, next
  <2>8. next \in Nat /\ Slot(next) = slot /\ Offset(next) = offset
    BY <2>4, <2>6, <2>7, PartsOfCompose
  <2>9. \A s \in 0 .. slot - 1 : Full(bitmap[s + 1])
    BY <2>3, <2>4 DEF NotFullFrom
  <2>10. \A ix \in 0 .. next - 1 : IsOccupied(fl, ix)
    <3> TAKE ix \in 0 .. next - 1
    <3>1. ix \in Nat /\ ix < next
      BY <2>8
    <3>2. Slot(ix) \in Nat /\ Offset(ix) \in Offsets
      BY <3>1, Parts
    <3>3. Slot(ix) < slot \/ (Slot(ix) = slot /\ Offset(ix) < offset)
      BY <2>8, <3>1, OrderOfIndices
    <3>4. Slot(ix) < Len(bitmap)
      BY <2>4, <3>2, <3>3
    <3>5. Offset(ix) \in bitmap[Slot(ix) + 1]
      BY <2>4, <2>6, <2>9, <3>2, <3>3 DEF Full
    <3> QED
      BY <3>4, <3>5 DEF IsOccupied
  <2>11. ~IsOccupied(fl, next)
    BY <2>6, <2>8 DEF IsOccupied
  <2> QED
    BY <2>8, <2>10, <2>11 DEF FreeLists, IsLowestFree, next
<1> QED
  BY <1>1, <1>2

\* Below the word of the lowest free index, every word is there and full.
LEMMA FullBelowNext ==
    ASSUME NEW fl \in FreeLists, IsLowestFree(fl)
    PROVE  \A s \in 0 .. Slot(fl.next_free_ix) - 1 :
               s < Len(fl.occupied_bitmap) /\ Full(fl.occupied_bitmap[s + 1])
<1>1. fl.next_free_ix \in Nat /\ fl.occupied_bitmap \in Seq(Words)
  BY DEF FreeLists
<1>2. Slot(fl.next_free_ix) \in Nat /\ Offset(fl.next_free_ix) \in Offsets
  BY <1>1, Parts
<1> TAKE s \in 0 .. Slot(fl.next_free_ix) - 1
<1>3. s \in Nat /\ s < Slot(fl.next_free_ix)
  BY <1>2
<1>4. ASSUME NEW o \in Offsets
      PROVE  s < Len(fl.occupied_bitmap) /\ o \in fl.occupied_bitmap[s + 1]
  <2> DEFINE ix == Compose(s, o)
  <2>1. ix \in Nat /\ Slot(ix) = s /\ Offset(ix) = o
    BY <1>3, PartsOfCompose
  <2> HIDE DEF ix
  <2>2. ix < fl.next_free_ix
    BY <1>1, <1>3, <2>1, OrderOfIndices
  <2>3. IsOccupied(fl, ix)
    BY <1>1, <2>1, <2>2 DEF IsLowestFree
  <2> QED
    BY <2>1, <2>3 DEF IsOccupied
<1>5. 0 \in Offsets
  BY BitmapBitsAssumption DEF Offsets
<1>6. s < Len(fl.occupied_bitmap)
  BY <1>4, <1>5
<1>7. fl.occupied_bitmap[s + 1] \in Words
  BY <1>1, <1>3, <1>6
<1> QED
  BY <1>4, <1>6, <1>7 DEF Full, Words

\* So the bit that occupy_next_available writes is in the bitmap it has then.
LEMMA LowestFreeInBounds ==
    ASSUME NEW fl \in FreeLists, IsLowestFree(fl)
    PROVE  InBounds(fl)
<1>1. Slot(fl.next_free_ix) \in Nat /\ Len(fl.occupied_bitmap) \in Nat
  BY Parts DEF FreeLists
<1>2. CASE Slot(fl.next_free_ix) = 0
  BY <1>1, <1>2 DEF InBounds
<1>3. CASE Slot(fl.next_free_ix) # 0
  <2>1. Slot(fl.next_free_ix) - 1 \in 0 .. Slot(fl.next_free_ix) - 1
    BY <1>1, <1>3
  <2>2. Slot(fl.next_free_ix) - 1 < Len(fl.occupied_bitmap)
    BY <2>1, FullBelowNext
  <2> QED
    BY <1>1, <2>2 DEF InBounds
<1> QED
  BY <1>2, <1>3

-----------------------------------------------------------------------------
(***************************************************************************)
(* The operations keep the cached index the lowest free one.                *)
(***************************************************************************)
Good(fl) == fl \in FreeLists /\ IsLowestFree(fl)

\* The freelist the constructor makes.
LEMMA EmptyIsGood == Good(EmptyFreeList)
  BY Parts, BitmapBitsAssumption
     DEF Good, EmptyFreeList, FreeLists, IsLowestFree, IsOccupied, Words

\* occupy_next_available, with or without a word pushed back.
LEMMA OccupiedNextIsGood ==
    ASSUME NEW fl, Good(fl)
    PROVE  Good(OccupiedNext(fl))
<1> DEFINE ix == fl.next_free_ix
           old == fl.occupied_bitmap
           grown == IF Slot(ix) >= Len(old) THEN Append(old, {}) ELSE old
           bitmap == [grown EXCEPT ![Slot(ix) + 1] = @ \union {Offset(ix)}]
<1>1. ix \in Nat /\ old \in Seq(Words)
  BY DEF Good, FreeLists
<1>2. Slot(ix) \in Nat /\ Offset(ix) \in Offsets
  BY <1>1, Parts
<1>3. Slot(ix) <= Len(old)
  BY LowestFreeInBounds DEF Good, InBounds
<1>4. {} \in Words
  BY DEF Words
<1>5. /\ grown \in Seq(Words) /\ Slot(ix) < Len(grown)
      /\ \A s \in 0 .. Slot(ix) - 1 : grown[s + 1] = old[s + 1]
  BY <1>1, <1>2, <1>3, <1>4
<1> HIDE DEF grown
<1>6. grown[Slot(ix) + 1] \union {Offset(ix)} \in Words
  BY <1>2, <1>5 DEF Words
<1>7. /\ bitmap \in Seq(Words) /\ Len(bitmap) = Len(grown)
      /\ \A s \in 0 .. Slot(ix) - 1 : bitmap[s + 1] = grown[s + 1]
  BY <1>2, <1>5, <1>6
<1>8. \A s \in 0 .. Slot(ix) - 1 : Full(bitmap[s + 1])
  BY <1>5, <1>7, FullBelowNext DEF Good
<1>9. OccupiedNext(fl) = [next_free_ix |-> SearchNextFree(bitmap, Slot(ix)),
                          occupied_bitmap |-> bitmap]
  BY DEF OccupiedNext, grown
<1> HIDE DEF bitmap
<1>10. bitmap \in Seq(Words) /\ Slot(ix) \in 0 .. Len(bitmap)
  BY <1>2, <1>5, <1>7
<1> QED
  BY <1>8, <1>9, <1>10, SearchFindsLowest DEF Good

\* occupy_next_available takes the cached index and no other.
LEMMA OccupiedNextTakesOne ==
    ASSUME NEW fl, Good(fl), NEW jx \in Nat
    PROVE  IsOccupied(OccupiedNext(fl), jx) <=> IsOccupied(fl, jx) \/ jx = fl.next_free_ix
<1> DEFINE ix == fl.next_free_ix
           old == fl.occupied_bitmap
           grown == IF Slot(ix) >= Len(old) THEN Append(old, {}) ELSE old
           bitmap == [grown EXCEPT ![Slot(ix) + 1] = @ \union {Offset(ix)}]
<1>1. ix \in Nat /\ old \in Seq(Words)
  BY DEF Good, FreeLists
<1>2. /\ Slot(ix) \in Nat /\ Offset(ix) \in Offsets
      /\ Slot(jx) \in Nat /\ Offset(jx) \in Offsets
      /\ jx = ix <=> Slot(jx) = Slot(ix) /\ Offset(jx) = Offset(ix)
  BY <1>1, Parts
<1>3. Slot(ix) <= Len(old)
  BY LowestFreeInBounds DEF Good, InBounds
<1>4. /\ grown \in Seq(Words) /\ Slot(ix) < Len(grown)
      /\ \A s \in Nat : s < Len(old) => s < Len(grown) /\ grown[s + 1] = old[s + 1]
      /\ \A s \in Nat : s < Len(grown) /\ ~(s < Len(old)) => grown[s + 1] = {}
  BY <1>1, <1>2, <1>3 DEF Words
<1> HIDE DEF grown
<1>5. /\ Len(bitmap) = Len(grown)
      /\ bitmap[Slot(ix) + 1] = grown[Slot(ix) + 1] \union {Offset(ix)}
      /\ \A s \in Nat : s < Len(grown) /\ s # Slot(ix) => bitmap[s + 1] = grown[s + 1]
  <2>1. grown[Slot(ix) + 1] \union {Offset(ix)} \in Words
    BY <1>2, <1>4 DEF Words
  <2>2. Slot(ix) + 1 \in 1 .. Len(grown)
    BY <1>2, <1>4
  <2> QED
    BY <1>2, <1>4, <2>1, <2>2
<1>6. OccupiedNext(fl).occupied_bitmap = bitmap
  BY DEF OccupiedNext, grown
<1> HIDE DEF bitmap
<1>7. CASE Slot(jx) = Slot(ix)
  BY <1>1, <1>2, <1>4, <1>5, <1>6, <1>7 DEF IsOccupied
<1>8. CASE Slot(jx) # Slot(ix)
  BY <1>1, <1>2, <1>4, <1>5, <1>6, <1>8 DEF IsOccupied
<1> QED
  BY <1>7, <1>8

\* occupy_until takes the indices below its bound and no other.
LEMMA OccupiedUntilTakesAllBelow ==
    ASSUME NEW fl, Good(fl), NEW ix \in Nat, NEW jx \in Nat
    PROVE  IsOccupied(OccupiedUntil(fl, ix), jx) <=> IsOccupied(fl, jx) \/ jx < ix
<1> DEFINE old == fl.occupied_bitmap
           bitmap == FilledUntil(old, ix)
<1>1. old \in Seq(Words)
  BY DEF Good, FreeLists
<1>2. /\ Slot(ix) \in Nat /\ Slot(jx) \in Nat /\ Offset(jx) \in Offsets
      /\ jx < ix <=> \/ Slot(jx) < Slot(ix)
                    \/ (Slot(jx) = Slot(ix) /\ Offset(jx) < Offset(ix))
  BY Parts, OrderOfIndices
<1>3. OccupiedUntil(fl, ix).occupied_bitmap = bitmap
  BY DEF OccupiedUntil
<1>4. CASE Slot(ix) >= Len(old)
  <2>1. bitmap = [s \in 1 .. Slot(ix) + 1 |->
                      IF s <= Slot(ix) THEN Offsets ELSE BelowOffset(ix)]
    BY <1>4 DEF FilledUntil
  <2>2. Len(bitmap) = Slot(ix) + 1
    BY <1>2, <2>1
  <2>3. Slot(jx) < Slot(ix) => bitmap[Slot(jx) + 1] = Offsets
    BY <1>2, <2>1
  <2>4. bitmap[Slot(ix) + 1] = BelowOffset(ix)
    BY <1>2, <2>1
  <2> HIDE DEF bitmap
  <2> QED
    BY <1>1, <1>2, <1>3, <1>4, <2>2, <2>3, <2>4 DEF IsOccupied, BelowOffset
<1>5. CASE Slot(ix) < Len(old)
  <2>1. bitmap = [s \in 1 .. Len(old) |->
                      IF s <= Slot(ix) THEN Offsets
                      ELSE IF s = Slot(ix) + 1 THEN old[s] \union BelowOffset(ix)
                           ELSE old[s]]
    BY <1>1, <1>2, <1>5 DEF FilledUntil
  <2>2. Len(bitmap) = Len(old)
    BY <1>1, <2>1
  <2>3. Slot(jx) < Slot(ix) => bitmap[Slot(jx) + 1] = Offsets
    BY <1>1, <1>2, <1>5, <2>1
  <2>4. bitmap[Slot(ix) + 1] = old[Slot(ix) + 1] \union BelowOffset(ix)
    BY <1>1, <1>2, <1>5, <2>1
  <2>5. Slot(ix) < Slot(jx) /\ Slot(jx) < Len(old) => bitmap[Slot(jx) + 1] = old[Slot(jx) + 1]
    BY <1>1, <1>2, <1>5, <2>1
  <2> HIDE DEF bitmap
  <2>6. CASE Slot(jx) < Slot(ix)
    BY <1>1, <1>2, <1>3, <1>5, <2>2, <2>3, <2>6 DEF IsOccupied
  <2>7. CASE Slot(jx) = Slot(ix)
    BY <1>1, <1>2, <1>3, <1>5, <2>2, <2>4, <2>7 DEF IsOccupied, BelowOffset
  <2>8. CASE Slot(ix) < Slot(jx)
    BY <1>1, <1>2, <1>3, <1>5, <2>2, <2>5, <2>8 DEF IsOccupied
  <2> QED
    BY <1>2, <2>6, <2>7, <2>8
<1> QED
  BY <1>1, <1>2, <1>4, <1>5

\* occupy_until, whether the bitmap is rebuilt or filled up.
LEMMA OccupiedUntilIsGood ==
    ASSUME NEW fl, Good(fl), NEW ix \in Nat
    PROVE  Good(OccupiedUntil(fl, ix))
<1> DEFINE old == fl.occupied_bitmap
           bitmap == FilledUntil(old, ix)
<1>1. old \in Seq(Words) /\ Slot(ix) \in Nat
  BY Parts DEF Good, FreeLists
<1>2. Offsets \in Words /\ BelowOffset(ix) \in Words
  BY DEF Words, BelowOffset
<1>3. /\ bitmap \in Seq(Words) /\ Slot(ix) <= Len(bitmap)
      /\ \A s \in 0 .. Slot(ix) - 1 : bitmap[s + 1] = Offsets
  <2>1. CASE Slot(ix) >= Len(old)
    <3>1. bitmap = [s \in 1 .. Slot(ix) + 1 |->
                        IF s <= Slot(ix) THEN Offsets ELSE BelowOffset(ix)]
      BY <2>1 DEF FilledUntil
    <3> HIDE DEF bitmap
    <3> QED
      BY <1>1, <1>2, <3>1
  <2>2. CASE Slot(ix) < Len(old)
    <3>1. bitmap = [s \in 1 .. Len(old) |->
                        IF s <= Slot(ix) THEN Offsets
                        ELSE IF s = Slot(ix) + 1 THEN old[s] \union BelowOffset(ix)
                             ELSE old[s]]
      BY <1>1, <2>2 DEF FilledUntil
    <3>2. \A s \in 1 .. Len(old) : old[s] \union BelowOffset(ix) \in Words
      BY <1>1, <1>2 DEF Words
    <3> HIDE DEF bitmap
    <3> QED
      BY <1>1, <1>2, <2>2, <3>1, <3>2
  <2> QED
    BY <1>1, <2>1, <2>2
<1>4. OccupiedUntil(fl, ix) = [next_free_ix |-> SearchNextFree(bitmap, Slot(ix)),
                               occupied_bitmap |-> bitmap]
  BY DEF OccupiedUntil
<1> HIDE DEF bitmap
<1>5. \A s \in 0 .. Slot(ix) - 1 : Full(bitmap[s + 1])
  BY <1>3 DEF Full
<1>6. bitmap \in Seq(Words) /\ Slot(ix) \in 0 .. Len(bitmap)
  BY <1>1, <1>3
<1> QED
  BY <1>4, <1>5, <1>6, SearchFindsLowest DEF Good

\* vacate of an index in use: it becomes the cached one when it is lower, and
\* the others stay.
LEMMA VacatedIsGood ==
    ASSUME NEW fl, Good(fl), NEW ix \in Nat, IsOccupied(fl, ix)
    PROVE  /\ Good(Vacated(fl, ix))
           /\ \A jx \in Nat :
                 IsOccupied(Vacated(fl, ix), jx) <=> IsOccupied(fl, jx) /\ jx # ix
<1> DEFINE old == fl.occupied_bitmap
           new == Vacated(fl, ix)
           bitmap == new.occupied_bitmap
<1>1. fl.next_free_ix \in Nat /\ old \in Seq(Words)
  BY DEF Good, FreeLists
<1>2. Slot(ix) \in Nat /\ Offset(ix) \in Offsets /\ Slot(ix) < Len(old)
  BY Parts DEF IsOccupied
<1>3. /\ new.next_free_ix = IF ix < fl.next_free_ix THEN ix ELSE fl.next_free_ix
      /\ bitmap = [old EXCEPT ![Slot(ix) + 1] = @ \ {Offset(ix)}]
  BY DEF Vacated
<1>4. bitmap \in Seq(Words) /\ Len(bitmap) = Len(old)
  BY <1>1, <1>2, <1>3 DEF Words
<1>5. new \in FreeLists
  <2>1. new = [next_free_ix |-> new.next_free_ix, occupied_bitmap |-> bitmap]
    BY DEF Vacated
  <2> QED
    BY <1>1, <1>3, <1>4, <2>1 DEF FreeLists
<1>6. \A jx \in Nat : IsOccupied(new, jx) <=> IsOccupied(fl, jx) /\ jx # ix
  <2> TAKE jx \in Nat
  <2>1. Slot(jx) \in Nat /\ Offset(jx) \in Offsets
    BY Parts
  <2>2. jx = ix <=> Slot(jx) = Slot(ix) /\ Offset(jx) = Offset(ix)
    BY Parts
  <2> QED
    BY <1>1, <1>2, <1>3, <1>4, <2>1, <2>2 DEF IsOccupied
<1> HIDE DEF new
<1>7. IsLowestFree(new)
  BY <1>1, <1>3, <1>6 DEF Good, IsLowestFree
<1> QED
  BY <1>5, <1>6, <1>7 DEF Good, new

\* shrink_to_fit drops words without a bit, so no index changes.
LEMMA ShrunkIsGood ==
    ASSUME NEW fl, Good(fl)
    PROVE  /\ Good(Shrunk(fl))
           /\ \A jx \in Nat : IsOccupied(Shrunk(fl), jx) <=> IsOccupied(fl, jx)
<1> DEFINE old == fl.occupied_bitmap
           used == UsedWords(old)
           new == Shrunk(fl)
           bitmap == [s \in 1 .. used |-> old[s]]
<1>1. fl.next_free_ix \in Nat /\ old \in Seq(Words)
  BY DEF Good, FreeLists
<1>2. \E n \in 0 .. Len(old) :
          (n > 0 => old[n] # {}) /\ \A s \in n + 1 .. Len(old) : old[s] = {}
  <2> DEFINE Nonzero == {s \in 1 .. Len(old) : old[s] # {}}
  <2>1. CASE Nonzero = {}
    <3>1. 0 \in 0 .. Len(old)
      BY <1>1
    <3>2. \A s \in 0 + 1 .. Len(old) : old[s] = {}
      BY <2>1
    <3> QED
      BY <3>1, <3>2
  <2>2. CASE Nonzero # {}
    <3>1. Nonzero \in SUBSET (0 .. Len(old)) /\ Len(old) \in Nat
      BY <1>1
    <3>2. PICK m \in Nonzero : \A n \in Nonzero : n <= m
      BY <2>2, <3>1, GreatestElement
    <3> QED
      BY <1>1, <3>2
  <2> QED
    BY <2>1, <2>2
<1>3. used \in 0 .. Len(old) /\ \A s \in used + 1 .. Len(old) : old[s] = {}
  BY <1>2 DEF UsedWords
<1> HIDE DEF used
<1>4. bitmap \in Seq(Words) /\ Len(bitmap) = used
  BY <1>1, <1>3
<1>5. new = [next_free_ix |-> fl.next_free_ix, occupied_bitmap |-> bitmap]
  BY DEF Shrunk, used
<1> HIDE DEF new
<1>6. new \in FreeLists
  BY <1>1, <1>4, <1>5 DEF FreeLists
<1>7. \A jx \in Nat : IsOccupied(new, jx) <=> IsOccupied(fl, jx)
  <2> TAKE jx \in Nat
  <2>1. Slot(jx) \in Nat
    BY Parts
  <2>2. CASE Slot(jx) < used
    BY <1>1, <1>3, <1>4, <1>5, <2>1, <2>2 DEF IsOccupied
  <2>3. CASE ~(Slot(jx) < used)
    <3>1. Slot(jx) < Len(old) => old[Slot(jx) + 1] = {}
      BY <1>1, <1>3, <2>1, <2>3
    <3> QED
      BY <1>1, <1>3, <1>4, <1>5, <2>1, <2>3, <3>1 DEF IsOccupied
  <2> QED
    BY <2>2, <2>3
<1>8. IsLowestFree(new)
  BY <1>1, <1>5, <1>7 DEF Good, IsLowestFree
<1> QED
  BY <1>6, <1>7, <1>8 DEF Good, new

-----------------------------------------------------------------------------
(***************************************************************************)
(* The theorems.  The invariant is inductive as it stands once the type is  *)
(* added to it: IInv says that the freelist is good.                       *)
(***************************************************************************)
IInv == TypeOK /\ NextIsLowestFree

\* Every step of the freelist keeps the invariant.
LEMMA StepKeepsIInv == IInv /\ [Next]_vars => IInv'
<1> SUFFICES ASSUME IInv, [Next]_vars PROVE Good(freelist')
  BY DEF IInv, TypeOK, NextIsLowestFree, Good
<1>1. Good(freelist)
  BY DEF IInv, TypeOK, NextIsLowestFree, Good
<1>2. ASSUME NEW ix \in 0 .. MaxIx, OccupyNextAvailable(ix) PROVE Good(freelist')
  BY <1>1, <1>2, OccupiedNextIsGood DEF OccupyNextAvailable
<1>3. ASSUME NEW ix \in 0 .. MaxIx, OccupyUntil(ix) PROVE Good(freelist')
  BY <1>1, <1>3, OccupiedUntilIsGood DEF OccupyUntil
<1>4. ASSUME NEW ix \in 0 .. MaxIx, Vacate(ix) PROVE Good(freelist')
  BY <1>1, <1>4, VacatedIsGood DEF Vacate
<1>5. CASE ShrinkToFit
  BY <1>1, <1>5, ShrunkIsGood DEF ShrinkToFit
<1>6. CASE UNCHANGED vars
  BY <1>1, <1>6 DEF vars
<1> QED
  BY <1>2, <1>3, <1>4, <1>5, <1>6 DEF Next

\* So the invariant holds in every reachable state.
LEMMA IInvHolds == Spec => []IInv
<1>1. Init => IInv
  BY EmptyIsGood DEF Init, IInv, TypeOK, NextIsLowestFree, Good
<1> QED
  BY <1>1, StepKeepsIInv, PTL DEF Spec

\* The freelist is always a cached index and a bitmap of words in width.
THEOREM TypeCorrect == Spec => []TypeOK
<1>1. IInv => TypeOK
  BY DEF IInv
<1> QED
  BY <1>1, IInvHolds, PTL

\* Whatever is occupied, vacated, reserved and shrunk, the cached index is the
\* lowest free one: no index in use is ever handed out, and none is lost.
THEOREM LowestFreeAlways == Spec => []NextIsLowestFree
<1>1. IInv => NextIsLowestFree
  BY DEF IInv
<1> QED
  BY <1>1, IInvHolds, PTL

\* occupy_next_available never writes behind its bitmap.
THEOREM WritesInBounds == Spec => []WriteInBounds
<1>1. IInv => WriteInBounds
  BY LowestFreeInBounds DEF IInv, TypeOK, NextIsLowestFree, WriteInBounds
<1> QED
  BY <1>1, IInvHolds, PTL

-----------------------------------------------------------------------------
(***************************************************************************)
(* The refinement: an index is in use in the abstract allocator exactly     *)
(* when its bit is set.                                                    *)
(***************************************************************************)
InUse(fl) == {ix \in 0 .. Compose(Len(fl.occupied_bitmap), 0) : IsOccupied(fl, ix)}

\* The bound of the set leaves no index out: a bit that is set is in a word.
LEMMA InUseIsOccupied ==
    ASSUME NEW fl, Good(fl), NEW jx \in Nat
    PROVE  jx \in InUse(fl) <=> IsOccupied(fl, jx)
<1> DEFINE n == Len(fl.occupied_bitmap)
<1>1. n \in Nat
  BY DEF Good, FreeLists
<1>2. 0 \in Offsets
  BY BitmapBitsAssumption DEF Offsets
<1>3. Slot(jx) \in Nat /\ Offset(jx) \in Offsets /\ jx = Compose(Slot(jx), Offset(jx))
  BY Parts
<1>4. Slot(jx) < n => jx < Compose(n, 0)
  BY <1>1, <1>2, <1>3, ComposeMonotone
<1>5. Compose(n, 0) \in Nat
  BY <1>1, <1>2, PartsOfCompose
<1> HIDE DEF n
<1>6. IsOccupied(fl, jx) => Slot(jx) < n
  BY DEF IsOccupied, n
<1> QED
  BY <1>4, <1>5, <1>6 DEF InUse, n

\* The indices in use are a set of numbers.
LEMMA InUseInNat ==
    ASSUME NEW fl, Good(fl)
    PROVE  InUse(fl) \subseteq Nat
  BY DEF InUse

\* Every step of the freelist is a step of the allocator, or none.
LEMMA StepImplementsAllocator ==
    IInv /\ IInv' /\ [Next]_vars => [Allocator!Next]_OccupiedIndices
<1> DEFINE abs == InUse(freelist)
           next == InUse(freelist')
<1> SUFFICES ASSUME IInv, IInv', [Next]_vars
             PROVE  Allocator!Next \/ next = abs
  BY DEF InUse, OccupiedIndices
<1>1. Good(freelist) /\ Good(freelist')
  BY DEF IInv, TypeOK, NextIsLowestFree, Good
<1>2. abs \subseteq Nat /\ next \subseteq Nat
  BY <1>1, InUseInNat
<1>3. \A jx \in Nat : /\ jx \in abs <=> IsOccupied(freelist, jx)
                      /\ jx \in next <=> IsOccupied(freelist', jx)
  BY <1>1, InUseIsOccupied
<1>4. abs = OccupiedIndices /\ next = OccupiedIndices'
  BY DEF InUse, OccupiedIndices
<1> HIDE DEF abs, next
<1>5. MaxIx \in Nat
  BY MaxIxAssumption
<1>6. ASSUME NEW ix \in 0 .. MaxIx, OccupyNextAvailable(ix) PROVE Allocator!Allocate(ix)
  <2>1. ix = freelist.next_free_ix /\ freelist' = OccupiedNext(freelist)
    BY <1>6 DEF OccupyNextAvailable
  <2>2. \A jx \in Nat : jx \in next <=> jx \in abs \/ jx = ix
    BY <1>1, <1>3, <2>1, OccupiedNextTakesOne
  <2>3. next = abs \union {ix}
    <3>1. {ix} \subseteq Nat
      BY <1>5
    <3>2. \A jx \in Nat : jx \in next <=> jx \in abs \/ jx \in {ix}
      BY <1>5, <2>2
    <3> QED
      BY <1>2, <3>1, <3>2
  <2>4. ix \notin abs /\ \A jx \in 0 .. ix - 1 : jx \in abs
    BY <1>1, <1>3, <1>5, <2>1 DEF Good, IsLowestFree
  <2> QED
    BY <1>4, <2>3, <2>4 DEF Allocator!Allocate
<1>7. ASSUME NEW ix \in 0 .. MaxIx, OccupyUntil(ix) PROVE Allocator!Reserve(ix)
  <2>1. freelist' = OccupiedUntil(freelist, ix)
    BY <1>7 DEF OccupyUntil
  <2>2. \A jx \in Nat : jx \in next <=> jx \in abs \/ jx < ix
    BY <1>1, <1>3, <1>5, <2>1, OccupiedUntilTakesAllBelow
  <2>3. next = abs \union 0 .. ix - 1
    <3>1. 0 .. ix - 1 \subseteq Nat
      BY <1>5
    <3>2. \A jx \in Nat : jx \in next <=> jx \in abs \/ jx \in 0 .. ix - 1
      BY <1>5, <2>2
    <3> QED
      BY <1>2, <3>1, <3>2
  <2> QED
    BY <1>4, <2>3 DEF Allocator!Reserve
<1>8. ASSUME NEW ix \in 0 .. MaxIx, Vacate(ix) PROVE Allocator!Release(ix)
  <2>1. IsOccupied(freelist, ix) /\ freelist' = Vacated(freelist, ix)
    BY <1>8 DEF Vacate
  <2>2. \A jx \in Nat : jx \in next <=> jx \in abs /\ jx # ix
    BY <1>1, <1>3, <1>5, <2>1, VacatedIsGood
  <2>3. next = abs \ {ix} /\ ix \in abs
    <3>1. \A x : x \in next <=> x \in abs \ {ix}
      BY <1>2, <1>5, <2>2
    <3>2. ix \in abs
      BY <1>3, <1>5, <2>1
    <3> QED
      BY <3>1, <3>2
  <2> QED
    BY <1>4, <2>3 DEF Allocator!Release
<1>9. CASE ShrinkToFit
  <2>1. \A jx \in Nat : jx \in next <=> jx \in abs
    BY <1>1, <1>3, <1>9, ShrunkIsGood DEF ShrinkToFit
  <2> QED
    BY <1>2, <2>1
<1>10. CASE UNCHANGED vars
  BY <1>10 DEF vars, abs, next
<1> QED
  BY <1>6, <1>7, <1>8, <1>9, <1>10 DEF Next, Allocator!Next

\* The bitmap with its cached index implements the allocator that hands out the
\* least index not in use: for every width of a word and every bound.
THEOREM FreeListImplementsAllocator == Spec => ImplementsAllocator
<1>1. Init => Allocator!Init
  BY Parts DEF Init, Allocator!Init, OccupiedIndices, IsOccupied, EmptyFreeList
<1> QED
  BY <1>1, IInvHolds, StepImplementsAllocator, PTL DEF Spec, ImplementsAllocator, Allocator!Spec
=============================================================================
