-------------------------- MODULE BufWriter_proofs --------------------------
(***************************************************************************)
(* Theorems about BufWriter: no writer loses, repeats or moves a byte as    *)
(* long as its sink takes what it gets, and a std::ostream that fails has   *)
(* received a prefix of the text, for every size of the buffer, every text  *)
(* in every partition, and any number of faults.                           *)
(***************************************************************************)
EXTENDS BufWriter, SequenceTheorems, WellFoundedInduction, TLAPS

\* A nonempty set of naturals has a least element.
LEMMA LeastElement ==
    ASSUME NEW S \in SUBSET Nat, S # {}
    PROVE  \E m \in S : \A n \in S : m <= n
<1> DEFINE LessThan == {p \in Nat \X Nat : p[1] < p[2]}
<1>1. IsWellFoundedOn(LessThan, Nat)
  BY NatLessThanWellFounded DEF OpToRel
<1> HIDE DEF LessThan
<1>2. \E m \in S : \A n \in S : ~ (<<n, m>> \in LessThan)
  BY <1>1, WFMin
<1>3. ASSUME NEW n \in S, NEW m \in S, ~(<<n, m>> \in LessThan)
      PROVE  m <= n
  BY <1>3 DEF LessThan
<1> QED
  BY <1>2, <1>3

(***************************************************************************)
(* The inductive invariant.                                                *)
(***************************************************************************)

\* What the variables are, and what the places of write_str() say: a string only
\* grows, an array keeps its size; the string is not empty when room is asked
\* for; only a fault makes a call fail, and only files and streams have faults.
Places ==
    /\ buffer \in Seq(Nat) /\ str \in Seq(Nat) /\ given \in Seq(Nat) /\ sink \in Seq(Nat)
    /\ writeAreaSize \in Int
    /\ pc = "flush" => str # <<>>
    /\ kind # "string" => Len(buffer) = BufSize
    /\ pc \in {"failed", "abandoned"} => faults > 0
    /\ faults > 0 => kind \in {"cfile", "ostream"}

\* Where the bytes of the text are while the sink has taken everything.
NothingLostYet == faults = 0 => given = IF kind = "string" THEN Filled \o str ELSE Whole

IInv == TypeOK /\ Places /\ NothingLostYet /\ StreamGetsAPrefix

-----------------------------------------------------------------------------
(***************************************************************************)
(* std::bit_ceil().                                                        *)
(***************************************************************************)

\* Division with rest, for a quotient that is known.
LEMMA MultipleRest ==
    ASSUME NEW c \in Nat, NEW d \in Nat \ {0}, NEW f \in Nat, NEW r \in 0 .. d - 1,
           c = f * d + r
    PROVE  c % d = r
<1> DEFINE q == c \div d
           s == c % d
<1>1. q \in Nat /\ s \in 0 .. d - 1 /\ c = d * q + s
  OBVIOUS
<1> HIDE DEF q, s
<1>2. ~(q > f)
  <2> SUFFICES ASSUME q > f PROVE FALSE
    OBVIOUS
  <2>1. d * (q - f - 1) >= 0 /\ d * q = f * d + d + d * (q - f - 1)
    BY <1>1
  <2> QED
    BY <1>1, <2>1
<1>3. ~(q < f)
  <2> SUFFICES ASSUME q < f PROVE FALSE
    OBVIOUS
  <2>1. d * (f - q - 1) >= 0 /\ f * d = d * q + d + d * (f - q - 1)
    BY <1>1
  <2> QED
    BY <1>1, <2>1
<1>4. d * q = f * d /\ f * d \in Int
  BY <1>1, <1>2, <1>3
<1>5. s = r
  BY <1>1, <1>4
<1> QED
  BY <1>5 DEF s

\* Twice a power of two is one.
LEMMA Doubled ==
    ASSUME NEW c \in Nat \ {0}, IsPowerOfTwo(c)
    PROVE  IsPowerOfTwo(2 * c)
<1> SUFFICES ASSUME NEW d \in 2 .. 2 * c, (2 * c) % d = 0, d % 2 # 0
             PROVE  FALSE
  BY DEF IsPowerOfTwo
<1> d \in Nat \ {0, 1}
  OBVIOUS
<1> DEFINE e == (2 * c) \div d
<1>1. e \in Nat /\ 2 * c = d * e
  OBVIOUS
<1> HIDE DEF e
<1> DEFINE h == d \div 2
<1>2. h \in Nat /\ d = 2 * h + 1
  OBVIOUS
<1> HIDE DEF h
<1>3. 2 * c = 2 * (h * e) + e /\ h * e \in Nat
  BY <1>1, <1>2
<1> DEFINE f == c - h * e
<1>4. f \in Int /\ e = 2 * f
  BY <1>1, <1>3
<1>5. c = d * f
  <2>1. 2 * c = 2 * (d * f) /\ d * f \in Int
    BY <1>1, <1>4
  <2> QED
    BY <2>1
<1> HIDE DEF f
<1>6. f \in Nat \ {0}
  BY <1>1, <1>4, <1>5
<1>7. d <= c /\ c % d = 0
  <2>1. c = d * (f - 1) + d /\ d * (f - 1) >= 0
    BY <1>5, <1>6
  <2>2. c % d = 0
    <3>1. c = f * d + 0 /\ 0 \in 0 .. d - 1
      BY <1>5, <1>6
    <3> QED
      BY <3>1, <1>6, MultipleRest
  <2> QED
    BY <2>1, <2>2
<1>8. d \in 2 .. c
  BY <1>7
<1> QED
  BY <1>7, <1>8 DEF IsPowerOfTwo

\* There is a power of two between every number and its double.
LEMMA PowersOfTwoExist ==
    ASSUME NEW n \in Nat \ {0}
    PROVE  \E c \in n .. 2 * n - 1 : IsPowerOfTwo(c)
<1> DEFINE P(m) == \E c \in m .. 2 * m - 1 : IsPowerOfTwo(c)
           Bad == {m \in Nat \ {0} : ~P(m)}
<1> SUFFICES ASSUME Bad # {} PROVE FALSE
  OBVIOUS
<1>1. PICK m \in Bad : \A k \in Bad : m <= k
  BY LeastElement
<1>2. P(1)
  <2>1. 1 \in 1 .. 2 * 1 - 1 /\ IsPowerOfTwo(1)
    BY DEF IsPowerOfTwo
  <2> QED
    BY <2>1
<1> DEFINE half == (m + 1) \div 2
<1>3. m \in Nat /\ m > 1 /\ half \in Nat \ {0} /\ half < m /\ m <= 2 * half /\ 2 * half <= m + 1
  BY <1>2
<1> HIDE DEF half
<1>4. PICK c \in half .. 2 * half - 1 : IsPowerOfTwo(c)
  BY <1>1, <1>3
<1>5. CASE c >= m
  <2>1. c \in m .. 2 * m - 1
    BY <1>3, <1>4, <1>5
  <2> QED
    BY <1>1, <1>4, <2>1
<1>6. CASE c < m
  <2>1. 2 * c \in m .. 2 * m - 1 /\ c \in Nat \ {0}
    BY <1>3, <1>4, <1>6
  <2> QED
    BY <1>1, <1>4, <2>1, Doubled
<1> QED
  BY <1>3, <1>4, <1>5, <1>6

\* The string that grows is as long as it was asked to be.
LEMMA BitCeilSuffices ==
    ASSUME NEW n \in Nat
    PROVE  BitCeil(n) \in Nat /\ BitCeil(n) >= n
<1> DEFINE S == {c \in 1 .. 2 * n + 1 : c >= n /\ IsPowerOfTwo(c)}
<1>1. S # {} /\ S \in SUBSET Nat
  <2>1. CASE n = 0
    <3>1. IsPowerOfTwo(1)
      BY DEF IsPowerOfTwo
    <3> QED
      BY <2>1, <3>1
  <2>2. CASE n # 0
    BY <2>2, PowersOfTwoExist
  <2> QED
    BY <2>1, <2>2
<1>2. Min(S) \in S
  BY <1>1, LeastElement DEF Min
<1> QED
  BY <1>2 DEF BitCeil

-----------------------------------------------------------------------------
(***************************************************************************)
(* Sequences of bytes.                                                     *)
(***************************************************************************)

\* A function from 1 .. n to bytes is a sequence.
LEMMA BytesOf ==
    ASSUME NEW n \in Nat, NEW f \in [1 .. n -> Nat]
    PROVE  f \in Seq(Nat) /\ Len(f) = n
<1>1. f \in Seq(Nat)
  BY SeqDef
<1>2. DOMAIN f = 1 .. n /\ DOMAIN f = 1 .. Len(f) /\ Len(f) \in Nat
  BY <1>1, LenProperties
<1> QED
  BY <1>1, <1>2

\* Three pieces of the text.
LEMMA Regroup ==
    ASSUME NEW a \in Seq(Nat), NEW b \in Seq(Nat), NEW c \in Seq(Nat)
    PROVE  (a \o b) \o c = a \o (b \o c)
  BY ConcatAssociative, SMT

\* The filled part of a buffer.
LEMMA PartOf ==
    ASSUME NEW b \in Seq(Nat), NEW n \in 0 .. Len(b)
    PROVE  /\ SubSeq(b, 1, n) \in Seq(Nat) /\ Len(SubSeq(b, 1, n)) = n
           /\ \A i \in 1 .. n : SubSeq(b, 1, n)[i] = b[i]
<1>1. \A i \in 1 .. n : b[i] \in Nat
  OBVIOUS
<1> QED
  BY <1>1, SubSeqProperties

\* Two buffers that agree on their filled part.
LEMMA SamePart ==
    ASSUME NEW b \in Seq(Nat), NEW c \in Seq(Nat), NEW n \in Nat,
           n <= Len(b), n <= Len(c), \A i \in 1 .. n : b[i] = c[i]
    PROVE  SubSeq(b, 1, n) = SubSeq(c, 1, n)
<1> DEFINE x == SubSeq(b, 1, n)
           y == SubSeq(c, 1, n)
<1>1. x \in Seq(Nat) /\ Len(x) = n /\ \A i \in 1 .. n : x[i] = b[i]
  BY PartOf
<1>2. y \in Seq(Nat) /\ Len(y) = n /\ \A i \in 1 .. n : y[i] = c[i]
  BY PartOf
<1> HIDE DEF x, y
<1>3. x = y
  BY <1>1, <1>2, SeqEqual
<1> QED
  BY <1>3 DEF x, y

\* A string in two parts.
LEMMA InTwoParts ==
    ASSUME NEW s \in Seq(Nat), NEW n \in 0 .. Len(s)
    PROVE  /\ SubSeq(s, n + 1, Len(s)) \in Seq(Nat)
           /\ Len(SubSeq(s, n + 1, Len(s))) = Len(s) - n
           /\ SubSeq(s, 1, n) \o SubSeq(s, n + 1, Len(s)) = s
<1>1. \A i \in n + 1 .. Len(s) : s[i] \in Nat
  OBVIOUS
<1>2. /\ SubSeq(s, n + 1, Len(s)) \in Seq(Nat)
      /\ Len(SubSeq(s, n + 1, Len(s))) = Len(s) - n
  BY <1>1, SubSeqProperties
<1>3. SubSeq(s, 1, n) \o SubSeq(s, n + 1, Len(s)) = SubSeq(s, 1, Len(s))
  <2>1. 1 \in 1 .. Len(s) + 1 /\ n \in 1 - 1 .. Len(s) /\ Len(s) \in n .. Len(s)
    OBVIOUS
  <2> QED
    BY <2>1, ConcatAdjacentSubSeq
<1> QED
  BY <1>2, <1>3, SubSeqFull

\* A string that begins with another one.
LEMMA BeginsWith ==
    ASSUME NEW s \in Seq(Nat), NEW t \in Seq(Nat)
    PROVE  IsPrefix(s, s \o t)
<1> DEFINE u == s \o t
<1>1. /\ u \in Seq(Nat) /\ Len(u) = Len(s) + Len(t)
      /\ \A i \in 1 .. Len(s) : u[i] = s[i]
  BY ConcatProperties
<1> HIDE DEF u
<1>2. SubSeq(s, 1, Len(s)) = SubSeq(u, 1, Len(s)) /\ Len(s) <= Len(u)
  BY <1>1, SamePart
<1> QED
  BY <1>2 DEF IsPrefix, u

\* What memcpy() leaves in the buffer: the filled part is longer by a part of the
\* string.
LEMMA Copied ==
    ASSUME buffer \in Seq(Nat), str \in Seq(Nat), NEW at \in Nat,
           NEW n \in 0 .. Len(str), at + n <= Len(buffer)
    PROVE  /\ CopiedTo(at, n) \in Seq(Nat) /\ Len(CopiedTo(at, n)) = Len(buffer)
           /\ SubSeq(CopiedTo(at, n), 1, at + n) = SubSeq(buffer, 1, at) \o SubSeq(str, 1, n)
<1> DEFINE c == CopiedTo(at, n)
           x == SubSeq(c, 1, at + n)
           f == SubSeq(buffer, 1, at)
           p == SubSeq(str, 1, n)
           y == f \o p
<1>1. /\ c \in Seq(Nat) /\ Len(c) = Len(buffer)
      /\ \A i \in 1 .. at : c[i] = buffer[i]
      /\ \A i \in at + 1 .. at + n : c[i] = str[i - at]
  <2>1. DOMAIN buffer = 1 .. Len(buffer) /\ Len(buffer) \in Nat
    OBVIOUS
  <2>2. \A i \in 1 .. Len(buffer) : c[i] \in Nat
    BY <2>1 DEF CopiedTo
  <2>3. c \in [1 .. Len(buffer) -> Nat]
    BY <2>1, <2>2 DEF CopiedTo
  <2>4. c \in Seq(Nat) /\ Len(c) = Len(buffer)
    <3> HIDE DEF c
    <3> QED
      BY <2>1, <2>3, BytesOf
  <2>5. \A i \in 1 .. at : c[i] = buffer[i]
    BY <2>1 DEF CopiedTo
  <2>6. \A i \in at + 1 .. at + n : c[i] = str[i - at]
    BY <2>1 DEF CopiedTo
  <2> QED
    BY <2>4, <2>5, <2>6
<1>2. x \in Seq(Nat) /\ Len(x) = at + n /\ \A i \in 1 .. at + n : x[i] = c[i]
  <2> HIDE DEF c
  <2> QED
    BY <1>1, PartOf
<1>3. f \in Seq(Nat) /\ Len(f) = at /\ \A i \in 1 .. at : f[i] = buffer[i]
  BY PartOf
<1>4. p \in Seq(Nat) /\ Len(p) = n /\ \A i \in 1 .. n : p[i] = str[i]
  BY PartOf
<1> HIDE DEF c, x, f, p
<1>5. /\ y \in Seq(Nat) /\ Len(y) = at + n
      /\ \A i \in 1 .. at + n : y[i] = IF i <= at THEN f[i] ELSE p[i - at]
  BY <1>3, <1>4, ConcatProperties
<1> HIDE DEF y
<1>6. ASSUME NEW i \in 1 .. at + n PROVE x[i] = y[i]
  <2>1. CASE i <= at
    <3>1. i \in 1 .. at
      BY <2>1
    <3> QED
      BY <1>1, <1>2, <1>3, <1>5, <2>1, <3>1
  <2>2. CASE i > at
    <3>1. i \in at + 1 .. at + n /\ i - at \in 1 .. n /\ ~(i <= at)
      BY <2>2
    <3> QED
      BY <1>1, <1>2, <1>4, <1>5, <3>1
  <2> QED
    BY <2>1, <2>2
<1>7. x = y
  BY <1>2, <1>5, <1>6, SeqEqual
<1> QED
  BY <1>1, <1>7 DEF c, x, f, p, y

-----------------------------------------------------------------------------
(***************************************************************************)
(* Every action keeps the invariant.                                       *)
(***************************************************************************)

\* The filled part of the buffer is a sequence of bytes.
LEMMA FilledIsBytes ==
    TypeOK /\ Places => Filled \in Seq(Nat) /\ Len(Filled) = writeArea
  BY PartOf DEF TypeOK, Places, Filled

\* A sink that has taken everything has received a prefix of the text.
LEMMA WholePrefix ==
    TypeOK /\ Places /\ NothingLostYet /\ kind # "string" /\ faults = 0
        => IsPrefix(sink, given)
<1> SUFFICES ASSUME TypeOK, Places, NothingLostYet, kind # "string", faults = 0
             PROVE  IsPrefix(sink, given)
  OBVIOUS
<1>1. Filled \in Seq(Nat) /\ sink \in Seq(Nat) /\ str \in Seq(Nat)
  BY FilledIsBytes DEF Places
<1>2. CASE pc = "done"
  <2>1. given = sink \o <<>>
    BY <1>1, <1>2, ConcatEmptySeq DEF NothingLostYet, Whole
  <2>2. <<>> \in Seq(Nat)
    OBVIOUS
  <2> QED
    BY <1>1, <2>1, <2>2, BeginsWith
<1>3. CASE pc # "done"
  <2>1. given = (sink \o Filled) \o str
    BY <1>3 DEF NothingLostYet, Whole
  <2>3. given = sink \o (Filled \o str)
    BY <1>1, <2>1, Regroup
  <2>2. Filled \o str \in Seq(Nat)
    BY <1>1, ConcatProperties
  <2> QED
    BY <1>1, <2>2, <2>3, BeginsWith
<1> QED
  BY <1>2, <1>3

LEMMA InitIsGood == Init => IInv
<1> SUFFICES ASSUME Init PROVE IInv
  OBVIOUS
<1>1. PICK size \in Nat : /\ buffer = [i \in 1 .. size |-> 0]
                          /\ kind # "string" => size = BufSize
  BY SizesAssumption DEF Init
<1>2. buffer \in Seq(Nat) /\ Len(buffer) = size
  <2>1. buffer \in [1 .. size -> Nat]
    BY <1>1
  <2> QED
    BY <2>1, BytesOf
<1>3. Places
  <2>1. <<>> \in Seq(Nat)
    BY EmptySeq
  <2>2. writeAreaSize \in Int
    <3>1. writeAreaSize = Len(buffer)
      BY DEF Init
    <3> QED
      BY <1>2, <3>1
  <2>3. pc \notin {"failed", "abandoned"} /\ ~(faults > 0) /\ pc # "flush"
    BY DEF Init
  <2>4. kind # "string" => Len(buffer) = BufSize
    BY <1>1, <1>2
  <2> QED
    BY <1>2, <2>1, <2>2, <2>3, <2>4 DEF Init, Places
<1>4. TypeOK
  BY <1>2, SizesAssumption DEF Init, TypeOK
<1>5. Filled = <<>>
  BY SubSeqEmpty DEF Init, Filled
<1>6. given = IF kind = "string" THEN Filled \o str ELSE Whole
  BY <1>5 DEF Init, Whole
<1>7. NothingLostYet
  BY <1>6 DEF NothingLostYet
<1>8. StreamGetsAPrefix
  BY <1>3, <1>4, <1>7, WholePrefix DEF Init, StreamGetsAPrefix
<1> QED
  BY <1>3, <1>4, <1>7, <1>8 DEF IInv

\* write_str() is called.
LEMMA WriteStrKeeps ==
    ASSUME IInv, NEW n \in 0 .. MaxBytes, WriteStr(n)
    PROVE  IInv'
<1> DEFINE bytes == [i \in 1 .. n |-> Len(given) + i]
<1> USE DEF IInv
<1>1. bytes \in Seq(Nat) /\ Len(bytes) = n
  <2>1. Len(given) \in Nat
    BY LenProperties DEF Places
  <2>2. bytes \in [1 .. n -> Nat] /\ n \in Nat
    BY <2>1, SizesAssumption
  <2> HIDE DEF bytes
  <2> QED
    BY <2>2, BytesOf
<1>2. /\ pc = "idle" /\ str = <<>> /\ Len(given) + n <= MaxBytes
      /\ str' = bytes /\ given' = given \o bytes
      /\ pc' = IF n = 0 THEN "idle" ELSE "copy"
      /\ UNCHANGED <<kind, buffer, writeArea, writeAreaSize, sink, faults>>
  BY DEF WriteStr, TypeOK
<1>3. n = 0 => bytes = <<>>
  BY <1>1
<1> HIDE DEF bytes
<1>4. given' \in Seq(Nat) /\ Len(given') <= MaxBytes
  BY <1>1, <1>2, ConcatProperties DEF Places
<1>5. Places'
  BY <1>1, <1>2, <1>4 DEF Places
<1>6. TypeOK'
  BY <1>1, <1>2, <1>3, <1>4 DEF TypeOK
<1>7. NothingLostYet'
  <2> SUFFICES ASSUME faults = 0
               PROVE  given' = IF kind = "string" THEN Filled \o bytes
                               ELSE (sink \o Filled) \o bytes
    BY <1>2 DEF NothingLostYet, Whole, Filled
  <2>1. Filled \in Seq(Nat) /\ sink \in Seq(Nat)
    BY FilledIsBytes DEF Places
  <2>2. (sink \o Filled) \in Seq(Nat)
    BY <2>1, ConcatProperties
  <2>3. given = IF kind = "string" THEN Filled ELSE sink \o Filled
    BY <1>2, <2>1, <2>2, ConcatEmptySeq DEF NothingLostYet, Whole
  <2> QED
    BY <1>2, <2>3
<1>8. StreamGetsAPrefix'
  <2>1. (TypeOK /\ Places /\ NothingLostYet /\ kind # "string" /\ faults = 0
            => IsPrefix(sink, given))'
    BY WholePrefix, PTL
  <2>2. kind = "ostream" => faults = 0
    BY <1>2 DEF StreamGetsAPrefix, TypeOK
  <2> QED
    BY <1>2, <1>5, <1>6, <1>7, <2>1, <2>2 DEF StreamGetsAPrefix
<1> QED
  BY <1>5, <1>6, <1>7, <1>8

\* A part of the string is copied.
LEMMA CopyKeeps ==
    ASSUME IInv, Copy
    PROVE  IInv'
<1> DEFINE n == IF Len(str) < writeAreaSize THEN Len(str) ELSE writeAreaSize
           front == SubSeq(str, 1, n)
           rest == SubSeq(str, n + 1, Len(str))
<1> USE DEF IInv
<1>1. /\ buffer \in Seq(Nat) /\ str \in Seq(Nat) /\ sink \in Seq(Nat) /\ Len(str) \in Nat
      /\ writeArea \in Nat /\ writeAreaSize \in Nat
      /\ writeArea + writeAreaSize = Len(buffer) /\ pc = "copy"
  BY DEF Places, TypeOK, Copy
<1>2. n \in 0 .. Len(str) /\ n <= writeAreaSize /\ (n # Len(str) => n = writeAreaSize)
  BY <1>1
<1>3. /\ buffer' = CopiedTo(writeArea, n)
      /\ writeArea' = writeArea + n /\ writeAreaSize' = writeAreaSize - n
      /\ str' = IF n = Len(str) THEN <<>> ELSE rest
      /\ pc' = IF n = Len(str) THEN "idle" ELSE "flush"
      /\ UNCHANGED <<kind, given, sink, faults>>
  BY DEF Copy, RemovePrefix
<1> HIDE DEF n
<1>4. rest \in Seq(Nat) /\ Len(rest) = Len(str) - n /\ front \o rest = str
  BY <1>1, <1>2, InTwoParts
<1>5. front \in Seq(Nat)
  BY <1>1, <1>2, PartOf
<1>6. /\ buffer' \in Seq(Nat) /\ Len(buffer') = Len(buffer)
      /\ Filled' = Filled \o front
  <2>1. writeArea + n <= Len(buffer) /\ Len(buffer) \in Nat
    BY <1>1, <1>2, LenProperties
  <2>2. SubSeq(CopiedTo(writeArea, n), 1, writeArea + n) = SubSeq(buffer, 1, writeArea) \o front
    BY <1>1, <1>2, <2>1, Copied
  <2>3. CopiedTo(writeArea, n) \in Seq(Nat) /\ Len(CopiedTo(writeArea, n)) = Len(buffer)
    BY <1>1, <1>2, <2>1, Copied
  <2>4. Filled' = SubSeq(CopiedTo(writeArea, n), 1, writeArea + n)
    BY <1>3 DEF Filled
  <2> QED
    BY <1>3, <2>2, <2>3, <2>4 DEF Filled
<1> HIDE DEF front, rest
<1>7. str' \in Seq(Nat) /\ str' = rest /\ (pc' = "flush" <=> str' # <<>>)
  <2>1. rest = <<>> <=> Len(rest) = 0
    BY <1>4, EmptySeq
  <2>2. CASE n = Len(str)
    BY <1>1, <1>3, <1>4, <2>1, <2>2
  <2>3. CASE n # Len(str)
    BY <1>1, <1>2, <1>3, <1>4, <2>1, <2>3
  <2> QED
    BY <2>2, <2>3
<1>8. Places'
  BY <1>1, <1>2, <1>3, <1>6, <1>7 DEF Places
<1>9. TypeOK'
  <2>1. writeArea' \in 0 .. Len(buffer') /\ writeArea' + writeAreaSize' = Len(buffer')
    <3>1. n \in Nat /\ Len(buffer) \in Nat
      BY <1>1, <1>2, LenProperties
    <3>2. writeArea + n \in 0 .. Len(buffer)
      BY <1>1, <1>2, <3>1
    <3>3. (writeArea + n) + (writeAreaSize - n) = Len(buffer)
      <4>1. writeArea \in Nat /\ writeAreaSize \in Nat
        BY <1>1
      <4>2. (writeArea + n) + (writeAreaSize - n) = writeArea + writeAreaSize
        BY <3>1, <4>1
      <4> QED
        BY <1>1, <4>2
    <3> QED
      BY <1>3, <1>6, <3>2, <3>3
  <2>2. pc' = "flush" => writeAreaSize' = 0
    BY <1>1, <1>2, <1>3
  <2> QED
    BY <1>3, <1>7, <2>1, <2>2 DEF TypeOK
<1>10. NothingLostYet'
  <2>1. Filled \in Seq(Nat)
    BY FilledIsBytes
  <2>2. Filled' \o str' = Filled \o str
    <3>1. (Filled \o front) \o rest = Filled \o (front \o rest)
      BY <1>4, <1>5, <2>1, Regroup
    <3> QED
      BY <1>4, <1>6, <1>7, <3>1
  <2>3. Filled' \in Seq(Nat)
    BY <1>5, <1>6, <2>1, ConcatProperties
  <2>4. (sink \o Filled') \o str' = (sink \o Filled) \o str
    <3>1. (sink \o Filled') \o str' = sink \o (Filled' \o str')
      BY <1>1, <1>7, <2>3, Regroup
    <3>2. (sink \o Filled) \o str = sink \o (Filled \o str)
      BY <1>1, <2>1, Regroup
    <3> QED
      BY <2>2, <3>1, <3>2
  <2> QED
    BY <1>1, <1>3, <2>2, <2>4 DEF NothingLostYet, Whole
<1>11. StreamGetsAPrefix'
  BY <1>1, <1>3 DEF StreamGetsAPrefix
<1> QED
  BY <1>8, <1>9, <1>10, <1>11

\* The write area begins inside the buffer, or at its end.
LEMMA AreaInside ==
    ASSUME TypeOK, Places
    PROVE  /\ buffer \in Seq(Nat) /\ sink \in Seq(Nat) /\ str \in Seq(Nat)
           /\ writeArea \in Nat /\ Len(buffer) \in Nat /\ writeArea <= Len(buffer)
           /\ Len(str) \in Nat
<1>1. buffer \in Seq(Nat) /\ sink \in Seq(Nat) /\ str \in Seq(Nat)
  BY DEF Places
<1>2. Len(buffer) \in Nat /\ Len(str) \in Nat
  BY <1>1, LenProperties
<1>3. writeArea \in 0 .. Len(buffer)
  BY DEF TypeOK
<1> QED
  BY <1>1, <1>2, <1>3

\* What a write of the first n bytes of the buffer leaves in the sink.
LEMMA SinkGrows ==
    ASSUME TypeOK, Places, NEW n \in 0 .. writeArea
    PROVE  /\ SubSeq(buffer, 1, n) \in Seq(Nat)
           /\ sink \o SubSeq(buffer, 1, n) \in Seq(Nat)
<1>1. n \in 0 .. Len(buffer) /\ buffer \in Seq(Nat) /\ sink \in Seq(Nat)
  BY AreaInside
<1>2. SubSeq(buffer, 1, n) \in Seq(Nat)
  BY <1>1, PartOf
<1> QED
  BY <1>1, <1>2, ConcatProperties

\* A write of a part of the buffer, after others that succeeded, leaves a prefix
\* of the text in the sink.
LEMMA PartPrefix ==
    ASSUME TypeOK, Places, NothingLostYet, kind # "string", faults = 0, pc # "done",
           NEW n \in 0 .. writeArea
    PROVE  IsPrefix(sink \o SubSeq(buffer, 1, n), given)
<1> DEFINE front == SubSeq(buffer, 1, n)
           rest == SubSeq(Filled, n + 1, Len(Filled))
<1>1. Filled \in Seq(Nat) /\ Len(Filled) = writeArea /\ n \in 0 .. Len(Filled)
  BY FilledIsBytes
<1>2. rest \in Seq(Nat) /\ SubSeq(Filled, 1, n) \o rest = Filled
  BY <1>1, InTwoParts
<1>3. SubSeq(Filled, 1, n) = front
  <2>1. \A i \in 1 .. writeArea : Filled[i] = buffer[i]
    BY PartOf DEF TypeOK, Places, Filled
  <2>2. n \in Nat /\ n <= writeArea /\ writeArea \in Nat /\ writeArea <= Len(buffer)
    BY AreaInside
  <2>3. \A i \in 1 .. n : Filled[i] = buffer[i]
    BY <2>1, <2>2
  <2>4. n <= Len(Filled) /\ n <= Len(buffer) /\ buffer \in Seq(Nat)
    BY <1>1, <2>2, AreaInside
  <2> QED
    BY <1>1, <2>2, <2>3, <2>4, SamePart
<1>4. /\ front \in Seq(Nat) /\ sink \o front \in Seq(Nat)
      /\ sink \in Seq(Nat) /\ str \in Seq(Nat)
  BY SinkGrows DEF Places
<1> HIDE DEF front, rest
<1>5. given = (sink \o front) \o (rest \o str)
  <2>1. given = (sink \o (front \o rest)) \o str
    BY <1>2, <1>3 DEF NothingLostYet, Whole
  <2>2. sink \o (front \o rest) = (sink \o front) \o rest
    BY <1>2, <1>4, Regroup
  <2>3. ((sink \o front) \o rest) \o str = (sink \o front) \o (rest \o str)
    BY <1>2, <1>4, Regroup
  <2> QED
    BY <2>1, <2>2, <2>3
<1>6. rest \o str \in Seq(Nat)
  BY <1>2, <1>4, ConcatProperties
<1>7. IsPrefix(sink \o front, (sink \o front) \o (rest \o str))
  BY <1>4, <1>6, BeginsWith
<1> QED
  BY <1>5, <1>7 DEF front

\* Nothing is lost when the whole buffer goes to the sink.
LEMMA WholeMoves ==
    ASSUME TypeOK, Places
    PROVE  /\ sink \o Filled \in Seq(Nat)
           /\ ((sink \o Filled) \o <<>>) \o str = (sink \o Filled) \o str
<1>1. Filled \in Seq(Nat) /\ sink \in Seq(Nat)
  BY FilledIsBytes DEF Places
<1>2. sink \o Filled \in Seq(Nat)
  BY <1>1, ConcatProperties
<1>3. (sink \o Filled) \o <<>> = sink \o Filled
  BY <1>2, ConcatEmptySeq
<1> QED
  BY <1>2, <1>3

\* flush() of a string makes room for all that is to be written.
LEMMA FlushStringKeeps ==
    ASSUME IInv, Flush, FlushString
    PROVE  IInv'
<1> DEFINE size == BitCeil(Len(buffer) + Len(str))
<1> USE DEF IInv
<1>1. /\ buffer \in Seq(Nat) /\ str \in Seq(Nat) /\ str # <<>>
      /\ writeArea \in Nat /\ writeArea <= Len(buffer) /\ Len(buffer) \in Nat
      /\ kind = "string" /\ pc = "flush"
  BY LenProperties DEF Places, TypeOK, Flush, FlushString
<1>2. Len(str) \in Nat /\ Len(str) > 0
  BY <1>1, EmptySeq, LenProperties
<1>3. /\ buffer' = [i \in 1 .. size |-> IF i <= Len(buffer) THEN buffer[i] ELSE 0]
      /\ writeArea' = writeArea /\ writeAreaSize' = size - writeArea
      /\ pc' = IF size - writeArea = 0 THEN "failed" ELSE "copy"
      /\ UNCHANGED <<kind, str, given, sink, faults>>
  BY DEF Flush, FlushString, AfterFlush
<1>4. size \in Nat /\ size >= Len(buffer) + Len(str)
  <2>1. Len(buffer) + Len(str) \in Nat
    BY <1>1, <1>2
  <2> QED
    BY <2>1, BitCeilSuffices
<1> HIDE DEF size
<1>5. pc' = "copy" /\ writeArea <= size
  BY <1>1, <1>2, <1>3, <1>4
<1>6. /\ buffer' \in Seq(Nat) /\ Len(buffer') = size
      /\ \A i \in 1 .. writeArea : buffer'[i] = buffer[i]
  <2>1. \A i \in 1 .. Len(buffer) : buffer[i] \in Nat
    BY <1>1, ElementOfSeq
  <2>2. buffer' \in [1 .. size -> Nat]
    BY <1>1, <1>3, <1>4, <2>1
  <2>3. \A i \in 1 .. writeArea : buffer'[i] = buffer[i]
    BY <1>1, <1>2, <1>3, <1>4
  <2> QED
    BY <1>4, <2>2, <2>3, BytesOf
<1>7. Filled' = Filled
  <2>1. SubSeq(buffer', 1, writeArea) = SubSeq(buffer, 1, writeArea)
    BY <1>1, <1>4, <1>5, <1>6, SamePart
  <2> QED
    BY <1>3, <2>1 DEF Filled
<1>8. Places'
  <2>1. writeAreaSize' \in Int
    BY <1>1, <1>3, <1>4
  <2> QED
    BY <1>1, <1>3, <1>5, <1>6, <2>1 DEF Places
<1>9. TypeOK'
  <2>1. writeArea' \in 0 .. Len(buffer') /\ writeArea' + writeAreaSize' = Len(buffer')
    BY <1>1, <1>3, <1>4, <1>5, <1>6
  <2> QED
    BY <1>3, <1>5, <2>1 DEF TypeOK
<1>10. NothingLostYet' /\ StreamGetsAPrefix'
  BY <1>1, <1>3, <1>7 DEF NothingLostYet, StreamGetsAPrefix
<1> QED
  BY <1>8, <1>9, <1>10

\* What is common to the flushes of an array: it is full, and not empty.
LEMMA ArrayIsFull ==
    ASSUME IInv, Flush, kind # "string"
    PROVE  /\ writeAreaSize = 0 /\ writeArea = Len(buffer) /\ Len(buffer) \in Nat \ {0}
           /\ pc = "flush" /\ str # <<>> /\ (kind = "ostream" => faults = 0)
           /\ pc' = IF writeAreaSize' = 0 THEN "failed" ELSE "copy"
           /\ UNCHANGED <<kind, str, given>>
<1> USE DEF IInv
<1>1. writeAreaSize = 0 /\ pc = "flush" /\ str # <<>> /\ Len(buffer) = BufSize
  BY DEF Flush, TypeOK, Places
<1>2. writeArea \in Nat /\ writeArea + writeAreaSize = Len(buffer)
  BY <1>1, AreaInside DEF TypeOK
<1>3. writeArea = Len(buffer) /\ Len(buffer) \in Nat \ {0}
  BY <1>1, <1>2, SizesAssumption
<1>4. kind = "ostream" => faults = 0
  BY <1>1 DEF StreamGetsAPrefix, TypeOK
<1> QED
  BY <1>1, <1>3, <1>4 DEF Flush, AfterFlush

\* flush() of a FILE, to which fwrite() has taken n bytes.
LEMMA FlushCFileKeeps ==
    ASSUME IInv, Flush, FlushCFile
    PROVE  IInv'
<1> USE DEF IInv
<1>1. PICK n \in 0 .. writeArea :
          /\ Fwrite(n) /\ writeArea' = writeArea - n /\ writeAreaSize' = writeAreaSize + n
          /\ UNCHANGED buffer /\ kind = "cfile"
  BY DEF FlushCFile
<1>2. /\ writeAreaSize = 0 /\ writeArea = Len(buffer) /\ Len(buffer) \in Nat \ {0}
      /\ pc = "flush" /\ str # <<>>
      /\ pc' = IF writeAreaSize' = 0 THEN "failed" ELSE "copy"
      /\ UNCHANGED <<kind, str, given>>
  BY <1>1, ArrayIsFull
<1>3. faults \in Nat /\ faults <= MaxFaults /\ MaxFaults \in Nat
  <2>1. faults \in 0 .. MaxFaults
    BY DEF TypeOK
  <2> QED
    BY <2>1, SizesAssumption
<1>4. /\ faults' \in Nat /\ faults' <= MaxFaults
      /\ n < writeArea => faults' > 0
      /\ ~(n < writeArea) => faults' = faults /\ n = writeArea
  <2>1. CASE n < writeArea
    BY <1>1, <1>3, <2>1 DEF Fwrite
  <2>2. CASE ~(n < writeArea)
    BY <1>1, <1>2, <1>3, <2>2 DEF Fwrite
  <2> QED
    BY <2>1, <2>2
<1>5. sink' \in Seq(Nat)
  BY <1>1, SinkGrows DEF Fwrite
<1>6. n \in Nat /\ writeArea' \in 0 .. Len(buffer) /\ writeAreaSize' = n
      /\ writeArea' + writeAreaSize' = Len(buffer)
  BY <1>1, <1>2
<1>7. pc' \in {"copy", "failed"} /\ (pc' = "failed" => faults' > 0)
  BY <1>1, <1>2, <1>4, <1>6
<1>8. Places'
  BY <1>1, <1>2, <1>5, <1>6, <1>7 DEF Places
<1>9. TypeOK'
  <2>1. faults' \in 0 .. MaxFaults
    BY <1>3, <1>4
  <2> QED
    BY <1>1, <1>2, <1>6, <1>7, <2>1 DEF TypeOK
<1>10. NothingLostYet'
  <2> SUFFICES ASSUME faults' = 0
               PROVE  given = (sink' \o Filled') \o str
    BY <1>1, <1>2, <1>7 DEF NothingLostYet, Whole
  <2>1. n = writeArea /\ faults = 0 /\ writeArea' = 0
    BY <1>1, <1>2, <1>4
  <2>2. sink' = sink \o Filled
    BY <1>1, <2>1 DEF Fwrite, Filled
  <2>3. Filled' = <<>>
    BY <2>1, SubSeqEmpty DEF Filled
  <2>4. given = (sink \o Filled) \o str
    BY <1>1, <1>2, <2>1 DEF NothingLostYet, Whole
  <2> QED
    BY <2>2, <2>3, <2>4, WholeMoves
<1>11. StreamGetsAPrefix'
  BY <1>1, <1>2 DEF StreamGetsAPrefix
<1> QED
  BY <1>8, <1>9, <1>10, <1>11

\* A flush after which the whole buffer is free and the sink has its bytes.
LEMMA EmptyingKeeps ==
    ASSUME IInv, Flush, kind # "string", sink' = sink \o Filled, Emptied,
           UNCHANGED <<buffer, faults>>
    PROVE  IInv'
<1> USE DEF IInv
<1>1. /\ writeAreaSize = 0 /\ writeArea = Len(buffer) /\ Len(buffer) \in Nat \ {0}
      /\ pc = "flush" /\ str # <<>> /\ (kind = "ostream" => faults = 0)
      /\ pc' = IF writeAreaSize' = 0 THEN "failed" ELSE "copy"
      /\ UNCHANGED <<kind, str, given>>
  BY ArrayIsFull
<1>2. writeArea' = 0 /\ writeAreaSize' = Len(buffer) /\ pc' = "copy"
  BY <1>1 DEF Emptied
<1>3. sink' \in Seq(Nat)
  BY WholeMoves
<1>4. Places'
  <2>1. writeAreaSize' \in Int
    BY <1>1, <1>2
  <2> QED
    BY <1>1, <1>2, <1>3, <2>1 DEF Places
<1>5. TypeOK'
  <2>1. writeArea' \in 0 .. Len(buffer') /\ writeArea' + writeAreaSize' = Len(buffer')
    BY <1>1, <1>2
  <2> QED
    BY <1>1, <1>2, <2>1 DEF TypeOK
<1>6. NothingLostYet'
  <2> SUFFICES ASSUME faults = 0
               PROVE  given = (sink' \o Filled') \o str
    BY <1>1, <1>2 DEF NothingLostYet, Whole
  <2>1. Filled' = <<>>
    BY <1>2, SubSeqEmpty DEF Filled
  <2>2. given = (sink \o Filled) \o str
    BY <1>1 DEF NothingLostYet, Whole
  <2> QED
    BY <2>1, <2>2, WholeMoves
<1>7. StreamGetsAPrefix'
  <2>1. (TypeOK /\ Places /\ NothingLostYet /\ kind # "string" /\ faults = 0
            => IsPrefix(sink, given))'
    BY WholePrefix, PTL
  <2> QED
    BY <1>1, <1>4, <1>5, <1>6, <2>1 DEF StreamGetsAPrefix
<1> QED
  BY <1>4, <1>5, <1>6, <1>7

\* flush() of a stream that fails.
LEMMA FailingKeeps ==
    ASSUME IInv, Flush, kind = "ostream", StreamFails, KeepArea, UNCHANGED buffer
    PROVE  IInv'
<1> USE DEF IInv
<1>1. /\ writeAreaSize = 0 /\ writeArea = Len(buffer)
      /\ pc = "flush" /\ str # <<>> /\ faults = 0
      /\ pc' = IF writeAreaSize' = 0 THEN "failed" ELSE "copy"
      /\ UNCHANGED <<kind, str, given>>
  BY ArrayIsFull
<1>2. PICK n \in 0 .. writeArea : sink' = sink \o SubSeq(buffer, 1, n)
  BY <1>1 DEF StreamFails
<1>3. pc' = "failed" /\ faults' = 1 /\ MaxFaults > 0 /\ UNCHANGED <<writeArea, writeAreaSize>>
  BY <1>1 DEF StreamFails, KeepArea
<1>4. Places'
  BY <1>1, <1>2, <1>3, SinkGrows DEF Places
<1>5. TypeOK'
  <2>1. faults' \in 0 .. MaxFaults
    BY <1>3, SizesAssumption
  <2> QED
    BY <1>1, <1>3, <2>1 DEF TypeOK
<1>6. NothingLostYet'
  BY <1>3 DEF NothingLostYet
<1>7. StreamGetsAPrefix'
  <2>1. IsPrefix(sink', given')
    BY <1>1, <1>2, PartPrefix
  <2> QED
    BY <1>3, <2>1 DEF StreamGetsAPrefix
<1> QED
  BY <1>4, <1>5, <1>6, <1>7

LEMMA FlushKeeps ==
    ASSUME IInv, Flush
    PROVE  IInv'
<1>1. CASE FlushString
  BY <1>1, FlushStringKeeps
<1>2. CASE FlushCFile
  BY <1>2, FlushCFileKeeps
<1>3. CASE FlushOStream
  <2>1. CASE StreamTakesAll /\ Emptied
    <3>1. kind # "string" /\ sink' = sink \o Filled /\ UNCHANGED <<buffer, faults>>
      BY <1>3, <2>1 DEF FlushOStream, StreamTakesAll
    <3> QED
      BY <2>1, <3>1, EmptyingKeeps
  <2>2. CASE StreamFails /\ KeepArea
    BY <1>3, <2>2, FailingKeeps DEF FlushOStream
  <2> QED
    BY <1>3, <2>1, <2>2 DEF FlushOStream
<1>4. CASE FlushIterator
  <2>1. kind # "string" /\ sink' = sink \o Filled /\ Emptied /\ UNCHANGED <<buffer, faults>>
    BY <1>4 DEF FlushIterator
  <2> QED
    BY <2>1, EmptyingKeeps
<1> QED
  BY <1>1, <1>2, <1>3, <1>4 DEF Flush

\* finalize() of a string cuts it to what was written.
LEMMA FinalizeStringKeeps ==
    ASSUME IInv, Finalize, FinalizeString
    PROVE  IInv'
<1> USE DEF IInv
<1>1. /\ kind = "string" /\ buffer' = Filled /\ pc' = IF pc = "idle" THEN "done" ELSE "abandoned"
      /\ pc \in {"idle", "failed"}
      /\ UNCHANGED <<kind, writeArea, writeAreaSize, str, given, sink, faults>>
  BY DEF Finalize, FinalizeString, Finished
<1>2. pc = "idle" /\ pc' = "done" /\ str = <<>>
  BY <1>1 DEF Places, TypeOK
<1>3. Filled \in Seq(Nat) /\ Len(Filled) = writeArea /\ writeArea \in Nat
  BY FilledIsBytes, AreaInside
<1>4. Filled' = Filled
  <2>1. Filled' = SubSeq(Filled, 1, Len(Filled))
    BY <1>1, <1>3 DEF Filled
  <2> QED
    BY <1>3, <2>1, SubSeqFull
<1>5. Places'
  BY <1>1, <1>2, <1>3 DEF Places
<1>6. TypeOK'
  <2>1. writeArea' \in 0 .. Len(buffer')
    BY <1>1, <1>3
  <2> QED
    BY <1>1, <1>2, <2>1 DEF TypeOK
<1>7. NothingLostYet' /\ StreamGetsAPrefix'
  BY <1>1, <1>4 DEF NothingLostYet, StreamGetsAPrefix
<1> QED
  BY <1>5, <1>6, <1>7

\* finalize() when the sink has taken everything, and takes the rest.
LEMMA FinalizedWhole ==
    ASSUME IInv, kind # "string", pc = "idle", faults = 0, pc' = "done",
           sink' = sink \o Filled,
           UNCHANGED <<kind, buffer, writeArea, writeAreaSize, str, given, faults>>
    PROVE  IInv'
<1> USE DEF IInv
<1>1. str = <<>>
  BY DEF TypeOK
<1>2. sink' \in Seq(Nat)
  BY WholeMoves
<1>3. Places'
  BY <1>2 DEF Places
<1>4. TypeOK'
  BY <1>1 DEF TypeOK
<1>5. NothingLostYet'
  <2>1. given = (sink \o Filled) \o <<>>
    BY <1>1 DEF NothingLostYet, Whole
  <2>2. given = sink'
    BY <1>2, <2>1, ConcatEmptySeq
  <2> QED
    BY <2>2 DEF NothingLostYet, Whole
<1>6. StreamGetsAPrefix'
  <2>1. (TypeOK /\ Places /\ NothingLostYet /\ kind # "string" /\ faults = 0
            => IsPrefix(sink, given))'
    BY WholePrefix, PTL
  <2> QED
    BY <1>3, <1>4, <1>5, <2>1 DEF StreamGetsAPrefix
<1> QED
  BY <1>3, <1>4, <1>5, <1>6

LEMMA FinalizeCFileKeeps ==
    ASSUME IInv, Finalize, FinalizeCFile
    PROVE  IInv'
<1> USE DEF IInv
<1>1. PICK n \in 0 .. writeArea :
          Fwrite(n) /\ pc' = Finished(n = writeArea) /\ UNCHANGED buffer /\ kind = "cfile"
  BY DEF FinalizeCFile
<1>2. pc \in {"idle", "failed"} /\ UNCHANGED <<kind, writeArea, writeAreaSize, str, given>>
  BY DEF Finalize
<1>3. faults \in Nat /\ faults <= MaxFaults /\ MaxFaults \in Nat /\ writeArea \in Nat
  <2>1. faults \in 0 .. MaxFaults
    BY DEF TypeOK
  <2> QED
    BY <2>1, SizesAssumption, AreaInside
<1>4. CASE n = writeArea /\ faults = 0
  <2>1. sink' = sink \o Filled /\ faults' = faults
    BY <1>1, <1>3, <1>4 DEF Fwrite, Filled
  <2>2. pc = "idle" /\ pc' = "done"
    BY <1>1, <1>2, <1>4 DEF Places, Finished
  <2> QED
    BY <1>1, <1>2, <1>4, <2>1, <2>2, FinalizedWhole
<1>5. CASE ~(n = writeArea /\ faults = 0)
  <2>1. faults' \in Nat /\ faults' <= MaxFaults /\ faults' > 0
    <3>1. CASE n < writeArea
      BY <1>1, <1>3, <3>1 DEF Fwrite
    <3>2. CASE ~(n < writeArea)
      BY <1>1, <1>3, <1>5, <3>2 DEF Fwrite
    <3> QED
      BY <3>1, <3>2
  <2>2. pc' \in {"done", "abandoned"} /\ (pc' = "done" => pc = "idle")
    BY <1>1 DEF Finished
  <2>3. sink' \in Seq(Nat)
    BY <1>1, SinkGrows DEF Fwrite
  <2>4. Places'
    BY <1>1, <1>2, <2>1, <2>2, <2>3 DEF Places
  <2>5. TypeOK'
    <3>1. faults' \in 0 .. MaxFaults
      BY <1>3, <2>1
    <3> QED
      BY <1>1, <1>2, <2>2, <3>1 DEF TypeOK
  <2>6. NothingLostYet'
    BY <2>1 DEF NothingLostYet
  <2>7. StreamGetsAPrefix'
    BY <1>1, <1>2 DEF StreamGetsAPrefix
  <2> QED
    BY <2>4, <2>5, <2>6, <2>7
<1> QED
  BY <1>4, <1>5

LEMMA FinalizeOStreamKeeps ==
    ASSUME IInv, Finalize, FinalizeOStream
    PROVE  IInv'
<1> USE DEF IInv
<1>1. /\ pc \in {"idle", "failed"} /\ kind = "ostream"
      /\ UNCHANGED <<kind, buffer, writeArea, writeAreaSize, str, given>>
  BY DEF Finalize, FinalizeOStream
<1>2. CASE StreamTakesAll /\ pc' = Finished(TRUE)
  <2>1. faults = 0 /\ faults' = faults /\ sink' = sink \o Filled
    BY <1>2 DEF StreamTakesAll
  <2>2. pc = "idle" /\ pc' = "done"
    BY <1>1, <1>2, <2>1 DEF Places, Finished
  <2> QED
    BY <1>1, <2>1, <2>2, FinalizedWhole
<1>3. CASE StreamFails /\ pc' = Finished(FALSE)
  <2>1. pc' = "abandoned" /\ faults' = 1 /\ MaxFaults > 0
    BY <1>3 DEF StreamFails, Finished
  <2>2. sink' \in Seq(Nat) /\ IsPrefix(sink', given)
    <3>1. CASE faults = 0
      <4>1. PICK n \in 0 .. writeArea : sink' = sink \o SubSeq(buffer, 1, n)
        BY <1>3, <3>1 DEF StreamFails
      <4> QED
        BY <1>1, <3>1, <4>1, SinkGrows, PartPrefix
    <3>2. CASE faults # 0
      <4>1. sink' = sink
        BY <1>3, <3>2 DEF StreamFails
      <4> QED
        BY <1>1, <4>1 DEF StreamGetsAPrefix, Places
    <3> QED
      BY <3>1, <3>2
  <2>3. Places'
    BY <1>1, <2>1, <2>2 DEF Places
  <2>4. TypeOK'
    <3>1. faults' \in 0 .. MaxFaults
      BY <2>1, SizesAssumption
    <3> QED
      BY <1>1, <2>1, <3>1 DEF TypeOK
  <2>5. NothingLostYet' /\ StreamGetsAPrefix'
    BY <1>1, <2>1, <2>2 DEF NothingLostYet, StreamGetsAPrefix
  <2> QED
    BY <2>3, <2>4, <2>5
<1> QED
  BY <1>2, <1>3 DEF FinalizeOStream

LEMMA FinalizeIteratorKeeps ==
    ASSUME IInv, Finalize, FinalizeIterator
    PROVE  IInv'
<1> USE DEF IInv
<1>1. /\ kind = "iterator" /\ sink' = sink \o Filled /\ pc' = Finished(TRUE)
      /\ UNCHANGED <<kind, buffer, writeArea, writeAreaSize, str, given, faults>>
      /\ pc \in {"idle", "failed"}
  BY DEF Finalize, FinalizeIterator
<1>2. faults = 0
  BY <1>1 DEF TypeOK, Places
<1>3. pc = "idle" /\ pc' = "done"
  BY <1>1, <1>2 DEF Places, Finished
<1> QED
  BY <1>1, <1>2, <1>3, FinalizedWhole

LEMMA FinalizeKeeps ==
    ASSUME IInv, Finalize
    PROVE  IInv'
  BY FinalizeStringKeeps, FinalizeCFileKeeps, FinalizeOStreamKeeps, FinalizeIteratorKeeps
     DEF Finalize

\* A string is written again from its beginning.
LEMMA ClearKeeps ==
    ASSUME IInv, Clear
    PROVE  IInv'
<1> USE DEF IInv
<1>1. /\ kind = "string" /\ pc \in {"idle", "done"} /\ pc' = "idle" /\ given' = <<>>
      /\ writeArea' = 0 /\ writeAreaSize' = Len(buffer)
      /\ UNCHANGED <<kind, buffer, str, sink, faults>>
  BY DEF Clear, Emptied
<1>2. str = <<>>
  BY <1>1 DEF TypeOK
<1>3. Len(buffer) \in Nat /\ <<>> \in Seq(Nat) /\ Len(<<>>) = 0
  BY AreaInside, EmptySeq
<1>4. Filled' = <<>>
  BY <1>1, SubSeqEmpty DEF Filled
<1>5. Places'
  <2>1. writeAreaSize' \in Int
    BY <1>1, <1>3
  <2> QED
    BY <1>1, <1>3, <2>1 DEF Places
<1>6. TypeOK'
  <2>1. writeArea' \in 0 .. Len(buffer') /\ writeArea' + writeAreaSize' = Len(buffer')
    BY <1>1, <1>3
  <2>2. Len(given') <= MaxBytes
    BY <1>1, <1>3, SizesAssumption
  <2> QED
    BY <1>1, <1>2, <2>1, <2>2 DEF TypeOK
<1>7. NothingLostYet' /\ StreamGetsAPrefix'
  BY <1>1, <1>2, <1>4 DEF NothingLostYet, StreamGetsAPrefix
<1> QED
  BY <1>5, <1>6, <1>7

-----------------------------------------------------------------------------
(***************************************************************************)
(* The theorems.                                                           *)
(***************************************************************************)

LEMMA IInvAlways == Spec => []IInv
<1>1. ASSUME IInv, [Next]_vars PROVE IInv'
  <2>1. CASE \E n \in 0 .. MaxBytes : WriteStr(n)
    BY <1>1, <2>1, WriteStrKeeps
  <2>2. CASE Copy
    BY <1>1, <2>2, CopyKeeps
  <2>3. CASE Flush
    BY <1>1, <2>3, FlushKeeps
  <2>4. CASE Finalize
    BY <1>1, <2>4, FinalizeKeeps
  <2>5. CASE Clear
    BY <1>1, <2>5, ClearKeeps
  <2>6. CASE UNCHANGED vars
    BY <1>1, <2>6 DEF IInv, TypeOK, Places, NothingLostYet, Whole, Filled,
                      StreamGetsAPrefix, vars
  <2> QED
    BY <1>1, <2>1, <2>2, <2>3, <2>4, <2>5, <2>6 DEF Next
<1> QED
  BY InitIsGood, <1>1, PTL DEF Spec

\* Whatever is written, in whatever pieces, through a buffer of whatever size: as
\* long as the sink takes what it gets, no byte is lost, repeated or moved by
\* write_str(), flush() and finalize().
THEOREM NothingIsLost == Spec => []NothingLost
<1>1. IInv => NothingLost
  BY DEF IInv, NothingLostYet, NothingLost
<1> QED
  BY IInvAlways, <1>1, PTL

\* A std::ostream that fails, at any write, has a prefix of the text, and nothing
\* that needs the stream reports success afterwards.
THEOREM StreamsGetPrefixes == Spec => []StreamGetsAPrefix
<1>1. IInv => StreamGetsAPrefix
  BY DEF IInv
<1> QED
  BY IInvAlways, <1>1, PTL

\* What the documentation of write_str() says holds of the stream and the
\* iterator: when every call returned true, the sink has the text.  (Of the FILE
\* it is false, as the run ShortWrite shows.)
THEOREM OthersMeanWritten == Spec => [](kind # "cfile" => TrueMeansWritten)
<1>1. IInv => (kind # "cfile" => TrueMeansWritten)
  <2> SUFFICES ASSUME IInv, kind # "cfile", pc = "done", kind # "string"
               PROVE  sink = given
    BY DEF TrueMeansWritten
  <2>1. faults = 0
    BY DEF IInv, TypeOK, Places, StreamGetsAPrefix
  <2> QED
    BY <2>1 DEF IInv, NothingLostYet, Whole
<1> QED
  BY IInvAlways, <1>1, PTL
=============================================================================
