-------------------------- MODULE QuadWriter_proofs --------------------------
(***************************************************************************)
(* Theorems about QuadWriter: for any nodes and quads, in any order and any *)
(* number, with flush() anywhere and a failure of any write, the text says  *)
(* the accepted quads and the state is what is open in the text.           *)
(***************************************************************************)
EXTENDS QuadWriter, SequenceTheorems, WellFoundedInduction, TLAPS

\* A nonempty set of naturals has a least element.
LEMMA LeastElement ==
    ASSUME NEW S \in SUBSET Nat, S # {}
    PROVE  \E m \in S : \A n \in S : m <= n
<1> DEFINE LessThan == {p \in Nat \X Nat : p[1] < p[2]}
<1>1. IsWellFoundedOn(LessThan, Nat)
  BY NatLessThanWellFounded DEF OpToRel
<1> HIDE DEF LessThan
<1>2. \E m \in S : \A n \in S : ~ (<<n, m>> \in LessThan)
  BY <1>1, WFMin
<1>3. ASSUME NEW n \in S, NEW m \in S, ~(<<n, m>> \in LessThan)
      PROVE  m <= n
  BY <1>3 DEF LessThan
<1> QED
  BY <1>2, <1>3

-----------------------------------------------------------------------------
(***************************************************************************)
(* Reading token by token.                                                 *)
(***************************************************************************)

\* The readings of the first 0, 1, ... tokens, for a reader that has read r.
AreReadings(f, r, tokens, m) ==
    f = [n \in 0 .. m |-> IF n = 0 THEN r ELSE ReadToken(f[n - 1], tokens[n])]

\* They exist.
LEMMA ReadingsExist ==
    ASSUME NEW r, NEW tokens, NEW n \in Nat
    PROVE  \E f : AreReadings(f, r, tokens, n)
<1> DEFINE Exist(m) == \E f : AreReadings(f, r, tokens, m)
           Bad == {m \in Nat : ~Exist(m)}
<1>1. Exist(0)
  <2>1. [k \in 0 .. 0 |-> r] =
            [k \in 0 .. 0 |-> IF k = 0 THEN r
                              ELSE ReadToken([j \in 0 .. 0 |-> r][k - 1], tokens[k])]
    OBVIOUS
  <2> QED
    BY <2>1 DEF AreReadings
<1>2. ASSUME NEW m \in Nat, Exist(m) PROVE Exist(m + 1)
  <2>1. PICK f : f = [k \in 0 .. m |-> IF k = 0 THEN r ELSE ReadToken(f[k - 1], tokens[k])]
    BY <1>2 DEF AreReadings
  <2> DEFINE h == [k \in 0 .. m + 1 |-> IF k <= m THEN f[k] ELSE ReadToken(f[m], tokens[k])]
  <2>2. ASSUME NEW k \in 0 .. m + 1
        PROVE  h[k] = IF k = 0 THEN r ELSE ReadToken(h[k - 1], tokens[k])
    <3>1. CASE k = 0
      BY <2>1, <3>1
    <3>2. CASE k # 0 /\ k <= m
      <4>1. k \in 0 .. m /\ k - 1 \in 0 .. m + 1 /\ k - 1 <= m
        BY <3>2
      <4>2. h[k] = f[k] /\ h[k - 1] = f[k - 1]
        BY <3>2, <4>1
      <4>3. f[k] = ReadToken(f[k - 1], tokens[k])
        BY <2>1, <3>2, <4>1
      <4> QED
        BY <3>2, <4>2, <4>3
    <3>3. CASE k = m + 1
      <4>1. h[k] = ReadToken(f[m], tokens[k]) /\ h[k - 1] = f[m] /\ k # 0
        BY <3>3
      <4> QED
        BY <4>1
    <3> QED
      BY <3>1, <3>2, <3>3
  <2>3. h = [k \in 0 .. m + 1 |-> IF k = 0 THEN r ELSE ReadToken(h[k - 1], tokens[k])]
    BY <2>2
  <2> HIDE DEF h
  <2> QED
    BY <2>3 DEF AreReadings
<1> HIDE DEF Exist
<1>3. Bad = {}
  <2> SUFFICES ASSUME Bad # {} PROVE FALSE
    OBVIOUS
  <2>1. PICK m \in Bad : \A k \in Bad : m <= k
    BY LeastElement
  <2>2. m # 0 /\ m \in Nat
    BY <1>1, <2>1
  <2>3. m - 1 \in Nat /\ m - 1 \notin Bad /\ (m - 1) + 1 = m
    BY <2>1, <2>2
  <2> QED
    BY <1>2, <2>1, <2>3
<1> QED
  BY <1>3 DEF Exist

\* The last of them is what the reader has read.
LEMMA ReadFromReads ==
    ASSUME NEW r, NEW tokens, Len(tokens) \in Nat
    PROVE  \E f : /\ AreReadings(f, r, tokens, Len(tokens))
                  /\ ReadFrom(r, tokens) = f[Len(tokens)]
<1> DEFINE Next1(f) == [n \in 0 .. Len(tokens) |->
                           IF n = 0 THEN r ELSE ReadToken(f[n - 1], tokens[n])]
           read == CHOOSE f : f = Next1(f)
<1>1. \E f : f = Next1(f)
  <2>1. PICK f : AreReadings(f, r, tokens, Len(tokens))
    BY ReadingsExist
  <2>2. f = Next1(f)
    BY <2>1 DEF AreReadings
  <2> QED
    BY <2>2
<1>2. read = Next1(read)
  <2> HIDE DEF Next1
  <2> QED
    BY <1>1
<1>3. ReadFrom(r, tokens) = read[Len(tokens)]
  BY DEF ReadFrom
<1> HIDE DEF read
<1> QED
  BY <1>2, <1>3 DEF AreReadings

\* From the at-th on, g are the readings of the m tokens s.
GoesOn(g, at, s, m) == \A n \in 1 .. m : g[at + n] = ReadToken(g[at + n - 1], s[n])

\* Two readers that read the same from the same place go the same way.
LEMMA SameReadings ==
    ASSUME NEW f, NEW g, NEW m \in Nat, NEW r, NEW at \in Nat, NEW s,
           AreReadings(f, r, s, m), GoesOn(g, at, s, m), f[0] = g[at]
    PROVE  f[m] = g[at + m]
<1> DEFINE Bad == {n \in 0 .. m : f[n] # g[at + n]}
<1> SUFFICES ASSUME Bad # {} PROVE FALSE
  <2>1. m \in 0 .. m
    OBVIOUS
  <2> QED
    BY <2>1
<1>1. PICK n \in Bad : \A k \in Bad : n <= k
  <2>1. Bad \in SUBSET Nat
    OBVIOUS
  <2> HIDE DEF Bad
  <2> QED
    BY <2>1, LeastElement
<1>2. n \in Nat /\ n # 0 /\ n <= m /\ f[n] # g[at + n]
  BY <1>1
<1>3. n - 1 \in 0 .. m /\ n - 1 \notin Bad
  BY <1>1, <1>2
<1>4. f[n - 1] = g[at + n - 1]
  <2>1. at + (n - 1) = at + n - 1
    BY <1>2
  <2> QED
    BY <1>3, <2>1
<1>5. n \in 1 .. m /\ n \in 0 .. m
  BY <1>2
<1>6. f[n] = ReadToken(f[n - 1], s[n])
  BY <1>2, <1>5 DEF AreReadings
<1>7. g[at + n] = ReadToken(g[at + n - 1], s[n])
  BY <1>5 DEF GoesOn
<1> QED
  BY <1>2, <1>4, <1>6, <1>7

\* Nothing more to read.
LEMMA ReadFromEmpty ==
    ASSUME NEW r, NEW s, Len(s) = 0
    PROVE  ReadFrom(r, s) = r
<1>1. PICK f : AreReadings(f, r, s, Len(s)) /\ ReadFrom(r, s) = f[Len(s)]
  BY ReadFromReads
<1>2. f = [n \in 0 .. 0 |-> IF n = 0 THEN r ELSE ReadToken(f[n - 1], s[n])]
  BY <1>1 DEF AreReadings
<1>3. f[0] = r
  BY <1>2
<1> QED
  BY <1>1, <1>3

\* One token more.
LEMMA ReadFromOne ==
    ASSUME NEW r, NEW s, Len(s) = 1
    PROVE  ReadFrom(r, s) = ReadToken(r, s[1])
<1>1. PICK f : AreReadings(f, r, s, Len(s)) /\ ReadFrom(r, s) = f[Len(s)]
  <2>1. Len(s) \in Nat
    OBVIOUS
  <2> QED
    BY <2>1, ReadFromReads
<1>2. f = [n \in 0 .. 1 |-> IF n = 0 THEN r ELSE ReadToken(f[n - 1], s[n])]
  BY <1>1 DEF AreReadings
<1>3. f[0] = r
  BY <1>2
<1>4. f[1] = ReadToken(f[1 - 1], s[1])
  BY <1>2
<1>5. f[1] = ReadToken(f[0], s[1])
  BY <1>4
<1> QED
  BY <1>1, <1>3, <1>5

\* A text in two parts is read part by part.
LEMMA ReadFromBoth ==
    ASSUME NEW S, NEW s \in Seq(S), NEW t \in Seq(S), NEW r
    PROVE  ReadFrom(r, s \o t) = ReadFrom(ReadFrom(r, s), t)
<1> DEFINE u == s \o t
           m == Len(s)
           k == Len(t)
           r1 == ReadFrom(r, s)
<1>1. /\ u \in Seq(S) /\ Len(u) = m + k /\ m \in Nat /\ k \in Nat
      /\ \A i \in 1 .. m + k : u[i] = IF i <= m THEN s[i] ELSE t[i - m]
  BY ConcatProperties, LenProperties
<1> HIDE DEF u, m, k, r1
<1>2. PICK g : AreReadings(g, r, u, m + k) /\ ReadFrom(r, u) = g[m + k]
  BY <1>1, ReadFromReads
<1>3. PICK f : AreReadings(f, r, s, m) /\ r1 = f[m]
  <2>1. \E f : AreReadings(f, r, s, Len(s)) /\ ReadFrom(r, s) = f[Len(s)]
    BY <1>1, ReadFromReads DEF m
  <2> QED
    BY <2>1 DEF m, r1
<1>4. PICK h : AreReadings(h, r1, t, k) /\ ReadFrom(r1, t) = h[k]
  <2>1. \E h : AreReadings(h, r1, t, Len(t)) /\ ReadFrom(r1, t) = h[Len(t)]
    BY <1>1, ReadFromReads DEF k
  <2> QED
    BY <2>1 DEF k
<1>5. g[0] = r /\ \A n \in 1 .. m + k : g[n] = ReadToken(g[n - 1], u[n])
  <2>1. g = [n \in 0 .. m + k |-> IF n = 0 THEN r ELSE ReadToken(g[n - 1], u[n])]
    BY <1>2 DEF AreReadings
  <2>2. 0 \in 0 .. m + k /\ \A n \in 1 .. m + k : n \in 0 .. m + k /\ n # 0
    BY <1>1
  <2> QED
    BY <2>1, <2>2
<1>6. f[0] = r /\ h[0] = r1
  <2>1. f = [n \in 0 .. m |-> IF n = 0 THEN r ELSE ReadToken(f[n - 1], s[n])]
    BY <1>3 DEF AreReadings
  <2>2. h = [n \in 0 .. k |-> IF n = 0 THEN r1 ELSE ReadToken(h[n - 1], t[n])]
    BY <1>4 DEF AreReadings
  <2>3. 0 \in 0 .. m /\ 0 \in 0 .. k
    BY <1>1
  <2> QED
    BY <2>1, <2>2, <2>3
<1>7. f[m] = g[m]
  <2>1. GoesOn(g, 0, s, m)
    <3> SUFFICES ASSUME NEW n \in 1 .. m
                 PROVE  g[0 + n] = ReadToken(g[0 + n - 1], s[n])
      BY DEF GoesOn
    <3>1. 0 + n = n /\ 0 + n - 1 = n - 1 /\ n \in 1 .. m + k /\ n <= m
      BY <1>1
    <3> QED
      BY <1>1, <1>5, <3>1
  <2>2. f[0] = g[0] /\ m \in Nat /\ 0 \in Nat
    BY <1>1, <1>5, <1>6
  <2>3. AreReadings(f, r, s, m)
    BY <1>3
  <2>4. f[m] = g[0 + m]
    BY <2>1, <2>2, <2>3, SameReadings, Zenon
  <2> QED
    BY <1>1, <2>4
<1>8. h[k] = g[m + k]
  <2>1. GoesOn(g, m, t, k)
    <3> SUFFICES ASSUME NEW n \in 1 .. k
                 PROVE  g[m + n] = ReadToken(g[m + n - 1], t[n])
      BY DEF GoesOn
    <3>1. PICK j \in 1 .. m + k : j = m + n
      BY <1>1
    <3>2. ~(j <= m) /\ j - m = n
      BY <1>1, <3>1
    <3>3. g[j] = ReadToken(g[j - 1], u[j])
      BY <1>5
    <3>4. u[j] = t[n]
      BY <1>1, <3>2
    <3>5. g[j] = ReadToken(g[j - 1], t[n])
      BY <3>3, <3>4
    <3>6. j - 1 = m + n - 1
      BY <1>1, <3>1
    <3> QED
      BY <3>1, <3>5, <3>6, Zenon
  <2>2. h[0] = g[m]
    BY <1>3, <1>6, <1>7
  <2> QED
    BY <1>1, <1>4, <2>1, <2>2, SameReadings
<1> QED
  BY <1>2, <1>4, <1>8 DEF u, r1

-----------------------------------------------------------------------------
(***************************************************************************)
(* Calls and their writes.                                                 *)
(***************************************************************************)
States ==
    {st \in [graph : (Nodes \ {DefaultGraph}) \union {Null},
             subject : Nodes \union {Null}, predicate : Nodes \union {Null}] :
        st.subject = Null <=> st.predicate = Null}
Tokens == [mark : {"node", "comma", "semicolon", "dot", "open", "close", "prefix"},
           node : Nodes \union {Null}]
WriteType == [state : States, token : Tokens]

\* What a reader may have read, and whether it is legal and says these quads.
QuadType == Nodes \X Nodes \X Nodes \X Nodes
ReadType == [format : Formats, graph : Nodes, nodes : Seq(Nodes), quads : Seq(QuadType),
             legal : BOOLEAN]
Fine(r, said) == r \in ReadType /\ r.legal /\ QuadsOf(r) = said

\* The writes take a reader from r to r2, and before each of them it is fine.
Leads(r, writes, r2, said) ==
    /\ writes \in Seq(WriteType)
    /\ ReadFrom(r, TokensOf(writes)) = r2
    /\ \A i \in 1 .. Len(writes) :
           Fine(ReadFrom(r, TokensOf(SubSeq(writes, 1, i - 1))), said)

LEMMA TokensAreThere ==
    ASSUME NEW w \in Seq(WriteType)
    PROVE  /\ TokensOf(w) \in Seq(Tokens) /\ Len(TokensOf(w)) = Len(w)
           /\ \A i \in 1 .. Len(w) : TokensOf(w)[i] = w[i].token
<1> DEFINE t == TokensOf(w)
<1>1. DOMAIN w = 1 .. Len(w) /\ Len(w) \in Nat
  BY LenProperties
<1>2. \A i \in 1 .. Len(w) : w[i] \in WriteType
  BY ElementOfSeq
<1>3. \A i \in 1 .. Len(w) : w[i].token \in Tokens
  BY <1>2 DEF WriteType
<1>4. t = [i \in 1 .. Len(w) |-> w[i].token]
  BY <1>1 DEF TokensOf
<1>5. t \in [1 .. Len(w) -> Tokens]
  BY <1>3, <1>4
<1> HIDE DEF t
<1>6. t \in Seq(Tokens)
  BY <1>1, <1>5, SeqDef
<1>7. DOMAIN t = 1 .. Len(w) /\ DOMAIN t = 1 .. Len(t) /\ Len(t) \in Nat
  BY <1>5, <1>6, LenProperties
<1>8. Len(t) = Len(w)
  BY <1>1, <1>7
<1> QED
  BY <1>4, <1>6, <1>8 DEF t

LEMMA TokensOfBoth ==
    ASSUME NEW s \in Seq(WriteType), NEW t \in Seq(WriteType)
    PROVE  TokensOf(s \o t) = TokensOf(s) \o TokensOf(t)
<1> DEFINE u == s \o t
           x == TokensOf(u)
           a == TokensOf(s)
           b == TokensOf(t)
           y == a \o b
           m == Len(s)
           k == Len(t)
<1>1. /\ u \in Seq(WriteType) /\ Len(u) = m + k /\ m \in Nat /\ k \in Nat
      /\ \A i \in 1 .. m + k : u[i] = IF i <= m THEN s[i] ELSE t[i - m]
  BY ConcatProperties, LenProperties
<1> HIDE DEF u
<1>2. x \in Seq(Tokens) /\ Len(x) = m + k /\ \A i \in 1 .. m + k : x[i] = u[i].token
  BY <1>1, TokensAreThere
<1>3. a \in Seq(Tokens) /\ Len(a) = m /\ \A i \in 1 .. m : a[i] = s[i].token
  BY TokensAreThere
<1>4. b \in Seq(Tokens) /\ Len(b) = k /\ \A i \in 1 .. k : b[i] = t[i].token
  BY TokensAreThere
<1> HIDE DEF x, a, b, m, k
<1>5. /\ y \in Seq(Tokens) /\ Len(y) = m + k
      /\ \A i \in 1 .. m + k : y[i] = IF i <= m THEN a[i] ELSE b[i - m]
  BY <1>1, <1>3, <1>4, ConcatProperties
<1> HIDE DEF y
<1>6. ASSUME NEW i \in 1 .. m + k PROVE x[i] = y[i]
  <2>1. CASE i <= m
    <3>1. i \in 1 .. m
      BY <1>1, <2>1
    <3> QED
      BY <1>1, <1>2, <1>3, <1>5, <2>1, <3>1
  <2>2. CASE ~(i <= m)
    <3>1. i - m \in 1 .. k
      BY <1>1, <2>2
    <3> QED
      BY <1>1, <1>2, <1>4, <1>5, <2>2, <3>1
  <2> QED
    BY <2>1, <2>2
<1>7. x = y
  BY <1>2, <1>5, <1>6, SeqEqual
<1> QED
  BY <1>7 DEF x, y, u, a, b

\* The first writes of two pieces.
LEMMA FirstOfBoth ==
    ASSUME NEW s \in Seq(WriteType), NEW t \in Seq(WriteType), NEW n \in 0 .. Len(s) + Len(t)
    PROVE  SubSeq(s \o t, 1, n) = IF n <= Len(s) THEN SubSeq(s, 1, n)
                                  ELSE s \o SubSeq(t, 1, n - Len(s))
<1> DEFINE u == s \o t
           m == Len(s)
           k == Len(t)
           x == SubSeq(u, 1, n)
<1>1. /\ u \in Seq(WriteType) /\ Len(u) = m + k /\ m \in Nat /\ k \in Nat
      /\ \A i \in 1 .. m + k : u[i] = IF i <= m THEN s[i] ELSE t[i - m]
  BY ConcatProperties, LenProperties
<1> HIDE DEF u
<1>2. x \in Seq(WriteType) /\ Len(x) = n /\ \A i \in 1 .. n : x[i] = u[i]
  <2>1. \A i \in 1 .. n : u[i] \in WriteType
    BY <1>1, ElementOfSeq
  <2> QED
    BY <1>1, <2>1, SubSeqProperties
<1> HIDE DEF x
<1>3. CASE n <= m
  <2> DEFINE y == SubSeq(s, 1, n)
  <2>1. y \in Seq(WriteType) /\ Len(y) = n /\ \A i \in 1 .. n : y[i] = s[i]
    <3>1. \A i \in 1 .. n : s[i] \in WriteType
      BY <1>1, <1>3, ElementOfSeq
    <3> QED
      BY <1>1, <3>1, SubSeqProperties
  <2> HIDE DEF y
  <2>2. ASSUME NEW i \in 1 .. n PROVE x[i] = y[i]
    <3>1. i \in 1 .. m + k /\ i <= m
      BY <1>1, <1>3
    <3> QED
      BY <1>1, <1>2, <2>1, <3>1
  <2>3. x = y
    BY <1>2, <2>1, <2>2, SeqEqual
  <2> QED
    BY <1>3, <2>3 DEF x, y, u
<1>4. CASE ~(n <= m)
  <2> DEFINE z == SubSeq(t, 1, n - m)
             y == s \o z
  <2>0. n - m \in 1 .. k
    BY <1>1, <1>4
  <2>1. z \in Seq(WriteType) /\ Len(z) = n - m /\ \A i \in 1 .. n - m : z[i] = t[i]
    <3>1. \A i \in 1 .. n - m : t[i] \in WriteType
      BY <1>1, <2>0, ElementOfSeq
    <3> QED
      BY <1>1, <2>0, <3>1, SubSeqProperties
  <2> HIDE DEF z
  <2>2. /\ y \in Seq(WriteType) /\ Len(y) = m + (n - m)
        /\ \A i \in 1 .. m + (n - m) : y[i] = IF i <= m THEN s[i] ELSE z[i - m]
    BY <1>1, <2>0, <2>1, ConcatProperties
  <2>3. m + (n - m) = n
    BY <1>1
  <2> HIDE DEF y
  <2>4. ASSUME NEW i \in 1 .. n PROVE x[i] = y[i]
    <3>1. i \in 1 .. m + k
      BY <1>1
    <3>2. CASE i <= m
      BY <1>1, <1>2, <2>2, <2>3, <3>1, <3>2
    <3>3. CASE ~(i <= m)
      <4>1. i - m \in 1 .. n - m
        BY <1>1, <3>3
      <4>2. x[i] = t[i - m]
        BY <1>1, <1>2, <3>1, <3>3
      <4>3. y[i] = z[i - m]
        BY <2>2, <2>3, <3>3
      <4> QED
        BY <2>1, <4>1, <4>2, <4>3
    <3> QED
      BY <3>2, <3>3
  <2>5. x = y
    BY <1>2, <2>2, <2>3, <2>4, SeqEqual
  <2> QED
    BY <1>4, <2>5 DEF x, y, z, u
<1> QED
  BY <1>3, <1>4

\* A call without writes.
LEMMA LeadsNowhere ==
    ASSUME NEW r, NEW said
    PROVE  Leads(r, <<>>, r, said)
<1>1. PICK none \in Seq(WriteType) : none = <<>>
  BY EmptySeq
<1>2. Len(none) = 0
  BY <1>1, EmptySeq
<1>3. Len(TokensOf(none)) = 0
  BY <1>2, TokensAreThere
<1>4. ReadFrom(r, TokensOf(none)) = r
  BY <1>3, ReadFromEmpty
<1>5. Leads(r, none, r, said)
  BY <1>2, <1>4 DEF Leads
<1> QED
  BY <1>1, <1>5

\* One write.
LEMMA LeadsOne ==
    ASSUME NEW r, NEW said, NEW st \in States, NEW token \in Tokens, Fine(r, said)
    PROVE  Leads(r, Write(st, token), ReadToken(r, token), said)
<1> DEFINE e == [state |-> st, token |-> token]
<1>1. e \in WriteType
  BY DEF WriteType
<1>2. PICK w \in Seq(WriteType) : w = <<e>>
  <2> HIDE DEF e
  <2>1. <<e>> \in Seq(WriteType)
    BY <1>1
  <2> QED
    BY <2>1, Zenon
<1>3. Len(w) = 1 /\ w[1] = e
  BY <1>2
<1>4. e.token = token
  OBVIOUS
<1>5. w = Write(st, token)
  BY <1>2 DEF Write
<1> HIDE DEF e
<1>6. Len(TokensOf(w)) = 1 /\ TokensOf(w)[1] = token
  BY <1>3, <1>4, TokensAreThere
<1>7. ReadFrom(r, TokensOf(w)) = ReadToken(r, token)
  BY <1>6, ReadFromOne
<1>8. ASSUME NEW i \in 1 .. Len(w)
      PROVE  Fine(ReadFrom(r, TokensOf(SubSeq(w, 1, i - 1))), said)
  <2>1. i - 1 = 0
    BY <1>3
  <2>2. SubSeq(w, 1, i - 1) = <<>>
    BY <2>1, SubSeqEmpty
  <2>3. ReadFrom(r, TokensOf(<<>>)) = r
    BY LeadsNowhere DEF Leads
  <2> QED
    BY <2>2, <2>3
<1>9. Leads(r, w, ReadToken(r, token), said)
  BY <1>7, <1>8 DEF Leads
<1> QED
  BY <1>5, <1>9

\* One piece after the other.
LEMMA LeadsBoth ==
    ASSUME NEW r, NEW s, NEW r1, NEW t, NEW r2, NEW said,
           Leads(r, s, r1, said), Leads(r1, t, r2, said)
    PROVE  Leads(r, s \o t, r2, said)
<1>1. s \in Seq(WriteType) /\ t \in Seq(WriteType)
  BY DEF Leads
<1>2. s \o t \in Seq(WriteType) /\ Len(s \o t) = Len(s) + Len(t)
  BY <1>1, ConcatProperties
<1>3. Len(s) \in Nat /\ Len(t) \in Nat
  BY <1>1, LenProperties
<1>4. ASSUME NEW u \in Seq(WriteType)
      PROVE  ReadFrom(r, TokensOf(s \o u)) = ReadFrom(r1, TokensOf(u))
  <2>1. TokensOf(s \o u) = TokensOf(s) \o TokensOf(u)
    BY <1>1, TokensOfBoth
  <2>2. TokensOf(s) \in Seq(Tokens) /\ TokensOf(u) \in Seq(Tokens)
    BY <1>1, TokensAreThere
  <2>3. ReadFrom(r, TokensOf(s) \o TokensOf(u)) = ReadFrom(ReadFrom(r, TokensOf(s)), TokensOf(u))
    BY <2>2, ReadFromBoth
  <2>4. ReadFrom(r, TokensOf(s)) = r1
    BY DEF Leads
  <2> QED
    BY <2>1, <2>3, <2>4
<1>5. ReadFrom(r, TokensOf(s \o t)) = r2
  <2>1. ReadFrom(r1, TokensOf(t)) = r2
    BY DEF Leads
  <2> QED
    BY <1>1, <1>4, <2>1
<1>6. ASSUME NEW i \in 1 .. Len(s) + Len(t)
      PROVE  Fine(ReadFrom(r, TokensOf(SubSeq(s \o t, 1, i - 1))), said)
  <2>1. i - 1 \in 0 .. Len(s) + Len(t)
    BY <1>3
  <2>2. SubSeq(s \o t, 1, i - 1) = IF i - 1 <= Len(s) THEN SubSeq(s, 1, i - 1)
                                   ELSE s \o SubSeq(t, 1, i - 1 - Len(s))
    BY <1>1, <2>1, FirstOfBoth
  <2>3. CASE i <= Len(s)
    <3>1. i \in 1 .. Len(s) /\ i - 1 <= Len(s)
      BY <1>3, <2>3
    <3>2. Fine(ReadFrom(r, TokensOf(SubSeq(s, 1, i - 1))), said)
      BY <3>1 DEF Leads
    <3> QED
      BY <2>2, <3>1, <3>2
  <2>4. CASE ~(i <= Len(s))
    <3> DEFINE j == i - Len(s)
               u == SubSeq(t, 1, j - 1)
    <3>1. j \in 1 .. Len(t)
      BY <1>3, <2>4
    <3>2. Fine(ReadFrom(r1, TokensOf(u)), said)
      BY <3>1 DEF Leads
    <3>3. u \in Seq(WriteType)
      <4>1. \A n \in 1 .. j - 1 : t[n] \in WriteType
        BY <1>1, <1>3, <3>1, ElementOfSeq
      <4>2. j - 1 \in Int
        BY <1>3, <3>1
      <4> QED
        BY <4>1, <4>2, SubSeqProperties
    <3>4. SubSeq(s \o t, 1, i - 1) = s \o u
      <4>1. CASE i - 1 <= Len(s)
        <5>1. i - 1 = Len(s) /\ j - 1 = 0
          BY <1>3, <2>4, <4>1
        <5>2. SubSeq(s, 1, i - 1) = s
          BY <1>1, <5>1, SubSeqFull
        <5>3. u = <<>>
          BY <5>1, SubSeqEmpty
        <5> QED
          BY <1>1, <2>2, <4>1, <5>2, <5>3, ConcatEmptySeq
      <4>2. CASE ~(i - 1 <= Len(s))
        <5>1. i - 1 - Len(s) = j - 1
          BY <1>3
        <5> QED
          BY <2>2, <4>2, <5>1
      <4> QED
        BY <4>1, <4>2
    <3> HIDE DEF u
    <3> QED
      BY <1>4, <3>2, <3>3, <3>4
  <2> QED
    BY <2>3, <2>4
<1> QED
  BY <1>2, <1>5, <1>6 DEF Leads

\* A piece that is left out under a condition.
LEMMA LeadsWhen ==
    ASSUME NEW r, NEW c \in BOOLEAN, NEW w, NEW r1, NEW said, c => Leads(r, w, r1, said)
    PROVE  Leads(r, When(c, w), IF c THEN r1 ELSE r, said)
  BY LeadsNowhere DEF When

\* What a call leaves: of one that succeeds the whole text, of one that fails a
\* text that says the same quads as before.
LEMMA CallReads ==
    ASSUME NEW w, NEW r2, NEW said, Leads(Reading, w, r2, said), text \in Seq(Tokens),
           UNCHANGED format
    PROVE  /\ (\E st : Succeeds(w, st)) => text' \in Seq(Tokens) /\ Reading' = r2
           /\ Fails(w) => /\ text' \in Seq(Tokens) /\ state' \in States
                          /\ Fine(Reading', said)
<1>1. ASSUME NEW u \in Seq(WriteType), text' = text \o TokensOf(u)
      PROVE  text' \in Seq(Tokens) /\ Reading' = ReadFrom(Reading, TokensOf(u))
  <2>1. TokensOf(u) \in Seq(Tokens)
    BY TokensAreThere
  <2>2. text' \in Seq(Tokens)
    BY <1>1, <2>1, ConcatProperties
  <2>3. NothingRead' = NothingRead
    BY DEF NothingRead
  <2>4. Reading' = ReadFrom(NothingRead, text')
    BY <2>3 DEF Reading, ReadFrom
  <2>5. ReadFrom(NothingRead, text \o TokensOf(u)) = ReadFrom(ReadFrom(NothingRead, text), TokensOf(u))
    BY <2>1, ReadFromBoth
  <2> QED
    BY <1>1, <2>2, <2>4, <2>5 DEF Reading
<1>2. w \in Seq(WriteType) /\ ReadFrom(Reading, TokensOf(w)) = r2
  BY DEF Leads
<1>3. ASSUME NEW st, Succeeds(w, st)
      PROVE  text' \in Seq(Tokens) /\ Reading' = r2
  BY <1>1, <1>2, <1>3 DEF Succeeds
<1>4. ASSUME Fails(w)
      PROVE  text' \in Seq(Tokens) /\ state' \in States /\ Fine(Reading', said)
  <2>1. PICK i \in DOMAIN w : /\ text' = text \o TokensOf(SubSeq(w, 1, i - 1))
                              /\ state' = w[i].state
    BY <1>4 DEF Fails
  <2>2. i \in 1 .. Len(w) /\ Len(w) \in Nat
    BY <1>2, LenProperties
  <2>3. w[i] \in WriteType
    BY <1>2, <2>2, ElementOfSeq
  <2>4. SubSeq(w, 1, i - 1) \in Seq(WriteType)
    <3>1. \A n \in 1 .. i - 1 : w[n] \in WriteType
      BY <1>2, <2>2, ElementOfSeq
    <3>2. i - 1 \in Int
      BY <2>2
    <3> QED
      BY <3>1, <3>2, SubSeqProperties
  <2>5. Fine(ReadFrom(Reading, TokensOf(SubSeq(w, 1, i - 1))), said)
    BY <2>2 DEF Leads
  <2>6. text' \in Seq(Tokens) /\ Reading' = ReadFrom(Reading, TokensOf(SubSeq(w, 1, i - 1)))
    BY <1>1, <2>1, <2>4
  <2>7. state' \in States
    BY <2>1, <2>3 DEF WriteType
  <2> QED
    BY <2>5, <2>6, <2>7
<1> QED
  BY <1>3, <1>4

-----------------------------------------------------------------------------
(***************************************************************************)
(* What each token does to a reader.                                       *)
(***************************************************************************)
AddNode(r, n) == [r EXCEPT !.nodes = Append(@, n)]

LEMMA NodeLeads ==
    ASSUME NEW r, NEW said, Fine(r, said), NEW st \in States, NEW n \in Nodes
    PROVE  Leads(r, WriteNode(st, n), AddNode(r, n), said)
<1>1. [mark |-> "node", node |-> n] \in Tokens
  BY DEF Tokens
<1>2. ReadToken(r, [mark |-> "node", node |-> n]) = AddNode(r, n)
  BY DEF ReadToken, AddNode
<1> QED
  BY <1>1, <1>2, LeadsOne DEF WriteNode

LEMMA MarkLeads ==
    ASSUME NEW r, NEW said, Fine(r, said), NEW st \in States
    PROVE  /\ Leads(r, Punct(st, "comma"), EndObject(r, 2), said)
           /\ Leads(r, Punct(st, "semicolon"), EndObject(r, 1), said)
           /\ Leads(r, Punct(st, "dot"), EndObject(r, 0), said)
           /\ Leads(r, Punct(st, "open"), OpenBlock(r), said)
           /\ Leads(r, Punct(st, "close"), CloseBlock(r), said)
           /\ r.nodes = <<>> => Leads(r, Punct(st, "prefix"), r, said)
<1> DEFINE T(mark) == [mark |-> mark, node |-> Null]
<1>1. /\ T("comma") \in Tokens /\ T("semicolon") \in Tokens /\ T("dot") \in Tokens
      /\ T("open") \in Tokens /\ T("close") \in Tokens /\ T("prefix") \in Tokens
  BY DEF Tokens
<1>2. /\ ReadToken(r, T("comma")) = EndObject(r, 2)
      /\ ReadToken(r, T("semicolon")) = EndObject(r, 1)
      /\ ReadToken(r, T("dot")) = EndObject(r, 0)
      /\ ReadToken(r, T("open")) = OpenBlock(r)
      /\ ReadToken(r, T("close")) = CloseBlock(r)
      /\ r.nodes = <<>> => ReadToken(r, T("prefix")) = r
  BY DEF ReadToken
<1>3. \A token \in Tokens : Leads(r, Write(st, token), ReadToken(r, token), said)
  BY LeadsOne
<1>4. \A mark : Punct(st, mark) = Write(st, T(mark))
  BY DEF Punct
<1> HIDE DEF T
<1> QED
  BY <1>1, <1>2, <1>3, <1>4

\* The reader is in graph g and has read n nodes of the quad q, after these quads.
Place(q, i) == IF i = 4 THEN q[1] ELSE q[i + 1]
HasRead(r, g, n, q, quads) ==
    /\ r \in ReadType /\ r.legal /\ r.format = format
    /\ r.graph = g /\ r.quads = quads
    /\ Len(r.nodes) = n /\ \A i \in 1 .. n : r.nodes[i] = Place(q, i)

LEMMA NodeIsRead ==
    ASSUME NEW r, NEW g, NEW n \in 0 .. 3, NEW q, NEW quads, HasRead(r, g, n, q, quads),
           Place(q, n + 1) \in Nodes
    PROVE  HasRead(AddNode(r, Place(q, n + 1)), g, n + 1, q, quads)
<1> DEFINE x == Place(q, n + 1)
           s == Append(r.nodes, x)
           r1 == AddNode(r, x)
<1>1. r.nodes \in Seq(Nodes) /\ Len(r.nodes) = n /\ r \in ReadType
  BY DEF HasRead, ReadType
<1>2. /\ s \in Seq(Nodes) /\ Len(s) = n + 1 /\ s[n + 1] = x
      /\ \A i \in 1 .. n : s[i] = r.nodes[i]
  <2> HIDE DEF x
  <2> QED
    BY <1>1, AppendProperties DEF x
<1>3. r1 = [r EXCEPT !.nodes = s]
  BY DEF AddNode
<1>4. \A i \in 1 .. n + 1 : s[i] = Place(q, i)
  BY <1>2 DEF HasRead
<1> HIDE DEF x, s, r1
<1>5. /\ r1 \in ReadType /\ r1.legal = r.legal /\ r1.format = r.format /\ r1.graph = r.graph
      /\ r1.quads = r.quads /\ r1.nodes = s
  BY <1>1, <1>2, <1>3 DEF ReadType
<1>6. HasRead(r1, g, n + 1, q, quads)
  BY <1>2, <1>4, <1>5 DEF HasRead
<1> QED
  BY <1>6 DEF r1, x

\* An object ends: its quad is there, and the reader keeps some of the nodes.
LEMMA ObjectEnds ==
    ASSUME NEW r \in ReadType, Complete(r), NEW k \in 0 .. 2, k = 0 \/ r.format \in PrefixFormats
    PROVE  LET r1 == EndObject(r, k)
           IN  /\ r1 \in ReadType /\ r1.legal = r.legal /\ r1.format = r.format
               /\ r1.graph = r.graph /\ r1.quads = Append(r.quads, QuadRead(r))
               /\ Len(r1.nodes) = k /\ \A i \in 1 .. k : r1.nodes[i] = r.nodes[i]
<1> DEFINE s == SubSeq(r.nodes, 1, k)
           qs == Append(r.quads, QuadRead(r))
           r1 == EndObject(r, k)
<1>1. r.nodes \in Seq(Nodes) /\ r.quads \in Seq(QuadType) /\ r.graph \in Nodes
  BY DEF ReadType
<1>2. Len(r.nodes) \in {3, 4}
  BY DEF Complete
<1>3. /\ r.nodes[1] \in Nodes /\ r.nodes[2] \in Nodes /\ r.nodes[3] \in Nodes
      /\ Len(r.nodes) = 4 => r.nodes[4] \in Nodes
  <2>1. \A i \in 1 .. Len(r.nodes) : r.nodes[i] \in Nodes
    BY <1>1, ElementOfSeq
  <2> QED
    BY <1>2, <2>1
<1>4. QuadRead(r) \in QuadType
  BY <1>1, <1>3 DEF QuadRead, QuadType
<1>5. qs \in Seq(QuadType)
  BY <1>1, <1>4, AppendProperties
<1>6. s \in Seq(Nodes) /\ Len(s) = k /\ \A i \in 1 .. k : s[i] = r.nodes[i]
  <2>1. \A i \in 1 .. k : r.nodes[i] \in Nodes
    BY <1>3
  <2> QED
    BY <2>1, SubSeqProperties
<1>7. r1 = [r EXCEPT !.quads = qs, !.nodes = s]
  BY DEF EndObject
<1> HIDE DEF s, qs, r1
<1>8. /\ r1 \in ReadType /\ r1.legal = r.legal /\ r1.format = r.format
      /\ r1.graph = r.graph /\ r1.quads = qs /\ r1.nodes = s
  BY <1>5, <1>6, <1>7 DEF ReadType
<1> QED
  BY <1>6, <1>8 DEF r1, qs

\* A block opens, and closes.
LEMMA BlockOpens ==
    ASSUME NEW r, NEW g \in Nodes, NEW q, NEW any, NEW quads,
           HasRead(r, DefaultGraph, 1, any, quads), Place(any, 1) = g, format = "TriG"
    PROVE  HasRead(OpenBlock(r), g, 0, q, quads)
<1> DEFINE r1 == OpenBlock(r)
<1>1. r \in ReadType /\ r.nodes[1] = g
  BY DEF HasRead
<1>2. r1 = [r EXCEPT !.graph = g, !.nodes = <<>>]
  BY <1>1 DEF OpenBlock, HasRead
<1>3. <<>> \in Seq(Nodes) /\ Len(<<>>) = 0
  BY EmptySeq
<1> HIDE DEF r1
<1>4. /\ r1 \in ReadType /\ r1.legal = r.legal /\ r1.format = r.format
      /\ r1.graph = g /\ r1.quads = r.quads /\ r1.nodes = <<>>
  BY <1>1, <1>2, <1>3 DEF ReadType
<1>5. HasRead(r1, g, 0, q, quads)
  BY <1>3, <1>4 DEF HasRead
<1> QED
  BY <1>5 DEF r1

LEMMA BlockCloses ==
    ASSUME NEW r, NEW g, NEW q, NEW quads, HasRead(r, g, 0, q, quads), g # DefaultGraph
    PROVE  HasRead(CloseBlock(r), DefaultGraph, 0, q, quads)
<1> DEFINE r1 == CloseBlock(r)
<1>1. r \in ReadType /\ r.nodes = <<>> /\ r.nodes \in Seq(Nodes)
  BY EmptySeq DEF HasRead, ReadType
<1>2. r1 = [r EXCEPT !.graph = DefaultGraph]
  BY <1>1 DEF CloseBlock, HasRead
<1> HIDE DEF r1
<1>3. /\ r1 \in ReadType /\ r1.legal = r.legal /\ r1.format = r.format
      /\ r1.graph = DefaultGraph /\ r1.quads = r.quads /\ r1.nodes = r.nodes
  BY <1>1, <1>2, NodesAssumption DEF ReadType
<1>4. HasRead(r1, DefaultGraph, 0, q, quads)
  BY <1>3 DEF HasRead
<1> QED
  BY <1>4 DEF r1

\* What a reader in the middle of a statement says.
LEMMA HalfReadIsFine ==
    ASSUME NEW r, NEW g, NEW n \in Nat, NEW q, NEW quads, HasRead(r, g, n, q, quads),
           HasPrefix => n < 3
    PROVE  Fine(r, quads)
<1>1. ~(r.format \in PrefixFormats /\ Complete(r))
  BY DEF HasRead, Complete, HasPrefix, PrefixFormats
<1> QED
  BY <1>1 DEF Fine, HasRead, QuadsOf

\* And at its end.
LEMMA ReadIsFine ==
    ASSUME NEW r, NEW g, NEW q, NEW quads, HasRead(r, g, 3, q, quads), HasPrefix
    PROVE  /\ Fine(r, Append(quads, <<g, q[2], q[3], q[4]>>)) /\ Complete(r)
           /\ r.nodes[1] = q[2] /\ r.nodes[2] = q[3]
<1>1. Complete(r) /\ r.format \in PrefixFormats
  BY DEF HasRead, Complete, HasPrefix
<1>2. r.nodes[1] = q[2] /\ r.nodes[2] = q[3] /\ r.nodes[3] = q[4]
  BY DEF HasRead, Place
<1>3. QuadRead(r) = <<g, q[2], q[3], q[4]>>
  BY <1>2 DEF QuadRead, HasRead
<1> QED
  BY <1>1, <1>2, <1>3 DEF Fine, HasRead, QuadsOf

\* Subject, predicate and object one after the other.
LEMMA StatementLeads ==
    ASSUME NEW r, NEW g, NEW q, NEW quads, NEW st \in States, HasRead(r, g, 0, q, quads),
           q[2] \in Nodes, q[3] \in Nodes, q[4] \in Nodes
    PROVE  \E r3 : /\ Leads(r, WriteNode(st, q[2]) \o WriteNode(st, q[3]) \o WriteNode(st, q[4]),
                            r3, quads)
                   /\ HasRead(r3, g, 3, q, quads)
<1> DEFINE r1 == AddNode(r, q[2])
           r2 == AddNode(r1, q[3])
           r3 == AddNode(r2, q[4])
<1>1. Place(q, 1) = q[2] /\ Place(q, 2) = q[3] /\ Place(q, 3) = q[4]
  BY DEF Place
<1>2. HasRead(r1, g, 1, q, quads)
  <2>1. HasRead(AddNode(r, Place(q, 0 + 1)), g, 0 + 1, q, quads)
    BY <1>1, NodeIsRead
  <2> QED
    BY <1>1, <2>1
<1> HIDE DEF r1
<1>3. HasRead(r2, g, 2, q, quads)
  <2>1. HasRead(AddNode(r1, Place(q, 1 + 1)), g, 1 + 1, q, quads)
    BY <1>1, <1>2, NodeIsRead
  <2> QED
    BY <1>1, <2>1
<1> HIDE DEF r2
<1>4. HasRead(r3, g, 3, q, quads)
  <2>1. HasRead(AddNode(r2, Place(q, 2 + 1)), g, 2 + 1, q, quads)
    BY <1>1, <1>3, NodeIsRead
  <2> QED
    BY <1>1, <2>1
<1>5. Fine(r, quads) /\ Fine(r1, quads) /\ Fine(r2, quads)
  BY <1>2, <1>3, HalfReadIsFine
<1>6. Leads(r, WriteNode(st, q[2]), r1, quads)
  BY <1>5, NodeLeads DEF r1
<1>7. Leads(r1, WriteNode(st, q[3]), r2, quads)
  BY <1>5, NodeLeads DEF r2
<1>8. Leads(r2, WriteNode(st, q[4]), r3, quads)
  BY <1>5, NodeLeads
<1> HIDE DEF r3
<1>9. Leads(r, WriteNode(st, q[2]) \o WriteNode(st, q[3]), r2, quads)
  BY <1>6, <1>7, LeadsBoth
<1>10. Leads(r, WriteNode(st, q[2]) \o WriteNode(st, q[3]) \o WriteNode(st, q[4]), r3, quads)
  BY <1>8, <1>9, LeadsBoth
<1> QED
  BY <1>4, <1>10

-----------------------------------------------------------------------------
(***************************************************************************)
(* What is open in the text.                                               *)
(***************************************************************************)

\* A reader of a format with prefixes has read what the state st says is open, and
\* these quads.
GraphOf(st) == IF st.graph = Null THEN DefaultGraph ELSE st.graph
Open(r, st, said) ==
    /\ Fine(r, said) /\ r.format = format /\ r.graph = GraphOf(st)
    /\ IF st.subject = Null THEN Len(r.nodes) = 0
       ELSE /\ Len(r.nodes) = 3
            /\ r.nodes[1] = st.subject /\ r.nodes[2] = st.predicate

\* Nothing of a statement is open.
LEMMA NothingOpen ==
    ASSUME NEW r, NEW st, NEW said, Open(r, st, said), st.subject = Null, NEW q
    PROVE  HasRead(r, GraphOf(st), 0, q, said)
<1>1. ~Complete(r)
  BY DEF Open, Complete
<1> QED
  BY <1>1 DEF Open, Fine, QuadsOf, HasRead

\* The open statement ends, and k of its nodes are kept, which are those of q.
LEMMA StatementEnds ==
    ASSUME NEW r, NEW st, NEW said, Open(r, st, said), st.subject # Null, HasPrefix,
           NEW q, NEW k \in 0 .. 2,
           k >= 1 => q[2] = st.subject, k >= 2 => q[3] = st.predicate
    PROVE  HasRead(EndObject(r, k), GraphOf(st), k, q, said)
<1> DEFINE r1 == EndObject(r, k)
<1>1. Complete(r) /\ r \in ReadType /\ r.legal /\ r.format = format /\ r.format \in PrefixFormats
  BY DEF Open, Fine, Complete, HasPrefix
<1>2. /\ r1 \in ReadType /\ r1.legal = r.legal /\ r1.format = r.format
      /\ r1.graph = r.graph /\ r1.quads = Append(r.quads, QuadRead(r))
      /\ Len(r1.nodes) = k /\ \A i \in 1 .. k : r1.nodes[i] = r.nodes[i]
  BY <1>1, ObjectEnds
<1> HIDE DEF r1
<1>3. r1.quads = said
  BY <1>1, <1>2 DEF Open, Fine, QuadsOf
<1>4. ASSUME NEW i \in 1 .. k PROVE r1.nodes[i] = Place(q, i)
  <2>1. CASE i = 1
    BY <1>2, <2>1 DEF Open, Place
  <2>2. CASE i = 2
    BY <1>2, <2>2 DEF Open, Place
  <2> QED
    BY <2>1, <2>2
<1>5. HasRead(r1, GraphOf(st), k, q, said)
  BY <1>1, <1>2, <1>3, <1>4 DEF HasRead, Open
<1> QED
  BY <1>5 DEF r1

\* After a statement its subject and predicate are open.
LEMMA ReadIsOpen ==
    ASSUME NEW r, NEW st, NEW q, NEW quads, HasRead(r, GraphOf(st), 3, q, quads), HasPrefix,
           st \in States, q[2] \in Nodes, q[3] \in Nodes
    PROVE  /\ AbbreviatedState(st, q) \in States
           /\ Open(r, AbbreviatedState(st, q), Append(quads, <<GraphOf(st), q[2], q[3], q[4]>>))
<1> DEFINE after == AbbreviatedState(st, q)
<1>1. /\ after \in States /\ after.graph = st.graph
      /\ after.subject = q[2] /\ after.predicate = q[3] /\ after.subject # Null
  BY NodesAssumption DEF AbbreviatedState, States
<1>2. GraphOf(after) = GraphOf(st)
  BY <1>1 DEF GraphOf
<1> HIDE DEF after
<1>3. /\ Fine(r, Append(quads, <<GraphOf(st), q[2], q[3], q[4]>>))
      /\ r.nodes[1] = q[2] /\ r.nodes[2] = q[3]
  BY ReadIsFine
<1>4. r.format = format /\ r.graph = GraphOf(st) /\ Len(r.nodes) = 3
  BY DEF HasRead
<1> QED
  BY <1>1, <1>2, <1>3, <1>4 DEF Open, after

LEMMA QuadsHaveNodes ==
    ASSUME NEW q \in Quads
    PROVE  /\ q[1] \in Nodes \union {Null}
           /\ q[2] \in Nodes /\ q[3] \in Nodes /\ q[4] \in Nodes
  BY NodesAssumption

\* An abbreviated statement.
LEMMA AbbreviatedLeads ==
    ASSUME HasPrefix, NEW r, NEW st \in States, NEW said, Open(r, st, said), NEW q \in Quads
    PROVE  \E r3 : /\ Leads(r, AbbreviatedWrites(st, q), r3, said)
                   /\ HasRead(r3, GraphOf(st), 3, q, said)
<1> DEFINE after == AbbreviatedState(st, q)
           g == GraphOf(st)
<1>1. q[2] \in Nodes /\ q[3] \in Nodes /\ q[4] \in Nodes
  BY QuadsHaveNodes
<1>2. after \in States
  BY <1>1, NodesAssumption DEF AbbreviatedState, States
<1>3. Fine(r, said)
  BY DEF Open
<1>4. Place(q, 2) = q[3] /\ Place(q, 3) = q[4]
  BY DEF Place
<1>5. q[2] # Null
  BY <1>1, NodesAssumption
<1> HIDE DEF after, g
<1>6. CASE SamePredicate(st, q)
  <2> DEFINE r2 == EndObject(r, 2)
             r3 == AddNode(r2, q[4])
  <2>1. HasRead(r2, g, 2, q, said)
    BY <1>5, <1>6, StatementEnds DEF SamePredicate, g
  <2>2. Leads(r, Punct(st, "comma"), r2, said)
    BY <1>3, MarkLeads
  <2> HIDE DEF r2
  <2>3. HasRead(r3, g, 3, q, said)
    <3>1. HasRead(AddNode(r2, Place(q, 2 + 1)), g, 2 + 1, q, said)
      BY <1>1, <1>4, <2>1, NodeIsRead
    <3> QED
      BY <1>4, <3>1
  <2>4. Fine(r2, said)
    BY <2>1, HalfReadIsFine
  <2>5. Leads(r2, WriteNode(st, q[4]), r3, said)
    BY <1>1, <2>4, NodeLeads
  <2> HIDE DEF r3
  <2>6. Leads(r, Punct(st, "comma") \o WriteNode(st, q[4]), r3, said)
    BY <2>2, <2>5, LeadsBoth
  <2>7. AbbreviatedWrites(st, q) = Punct(st, "comma") \o WriteNode(st, q[4])
    BY <1>6 DEF AbbreviatedWrites
  <2> QED
    BY <2>3, <2>6, <2>7 DEF g
<1>7. CASE ~SamePredicate(st, q) /\ SameSubject(st, q)
  <2> DEFINE r1 == EndObject(r, 1)
             r2 == AddNode(r1, q[3])
             r3 == AddNode(r2, q[4])
  <2>1. HasRead(r1, g, 1, q, said)
    BY <1>5, <1>7, StatementEnds DEF SameSubject, g
  <2>2. Leads(r, Punct(st, "semicolon"), r1, said)
    BY <1>3, MarkLeads
  <2> HIDE DEF r1
  <2>3. HasRead(r2, g, 2, q, said)
    <3>1. HasRead(AddNode(r1, Place(q, 1 + 1)), g, 1 + 1, q, said)
      BY <1>1, <1>4, <2>1, NodeIsRead
    <3> QED
      BY <1>4, <3>1
  <2>4. Fine(r1, said)
    BY <2>1, HalfReadIsFine
  <2>5. Leads(r1, WriteNode(st, q[3]), r2, said)
    BY <1>1, <2>4, NodeLeads
  <2> HIDE DEF r2
  <2>6. HasRead(r3, g, 3, q, said)
    <3>1. HasRead(AddNode(r2, Place(q, 2 + 1)), g, 2 + 1, q, said)
      BY <1>1, <1>4, <2>3, NodeIsRead
    <3> QED
      BY <1>4, <3>1
  <2>7. Fine(r2, said)
    BY <2>3, HalfReadIsFine
  <2>8. Leads(r2, WriteNode(after, q[4]), r3, said)
    BY <1>1, <1>2, <2>7, NodeLeads
  <2> HIDE DEF r3
  <2>9. Leads(r, Punct(st, "semicolon") \o WriteNode(st, q[3]), r2, said)
    BY <2>2, <2>5, LeadsBoth
  <2>10. Leads(r, Punct(st, "semicolon") \o WriteNode(st, q[3]) \o WriteNode(after, q[4]), r3, said)
    BY <2>8, <2>9, LeadsBoth
  <2>11. AbbreviatedWrites(st, q) =
            Punct(st, "semicolon") \o WriteNode(st, q[3]) \o WriteNode(after, q[4])
    BY <1>7 DEF AbbreviatedWrites, after
  <2> QED
    BY <2>6, <2>10, <2>11 DEF g
<1>8. CASE ~SamePredicate(st, q) /\ ~SameSubject(st, q)
  <2> DEFINE c == st.subject # Null
             dot == When(c, Punct(st, "dot"))
             r0 == IF c THEN EndObject(r, 0) ELSE r
             nodes == WriteNode(after, q[2]) \o WriteNode(after, q[3]) \o WriteNode(after, q[4])
  <2>1. HasRead(r0, g, 0, q, said)
    <3>1. CASE c
      BY <3>1, StatementEnds DEF g
    <3>2. CASE ~c
      BY <3>2, NothingOpen DEF g
    <3> QED
      BY <3>1, <3>2
  <2>2. Leads(r, dot, r0, said)
    BY <1>3, MarkLeads, LeadsWhen
  <2> HIDE DEF r0
  <2>3. PICK r3 : Leads(r0, nodes, r3, said) /\ HasRead(r3, g, 3, q, said)
    BY <1>1, <1>2, <2>1, StatementLeads
  <2>4. Leads(r, dot \o nodes, r3, said)
    BY <2>2, <2>3, LeadsBoth
  <2>5. AbbreviatedWrites(st, q) = dot \o nodes
    BY <1>8 DEF AbbreviatedWrites, after
  <2> QED
    BY <2>3, <2>4, <2>5 DEF g
<1> QED
  BY <1>6, <1>7, <1>8

\* SerializationState::flush() closes what is open.
LEMMA FlushLeads ==
    ASSUME HasPrefix, NEW r, state \in States, NEW said, Open(r, state, said), NEW q
    PROVE  \E r2 : Leads(r, FlushWrites, r2, said) /\ HasRead(r2, DefaultGraph, 0, q, said)
<1> DEFINE c == state.predicate # Null \/ state.subject # Null
           d == state.graph # Null
           r1 == IF c THEN EndObject(r, 0) ELSE r
           r2 == IF d THEN CloseBlock(r1) ELSE r1
<1>1. c <=> state.subject # Null
  BY DEF States
<1>2. HasRead(r1, GraphOf(state), 0, q, said)
  <2>1. CASE c
    BY <1>1, <2>1, StatementEnds
  <2>2. CASE ~c
    BY <1>1, <2>2, NothingOpen
  <2> QED
    BY <2>1, <2>2
<1>3. Leads(r, When(c, Punct(state, "dot")), r1, said)
  <2>1. Fine(r, said)
    BY DEF Open
  <2> QED
    BY <2>1, MarkLeads, LeadsWhen
<1> HIDE DEF r1
<1>4. Fine(r1, said)
  BY <1>2, HalfReadIsFine
<1>5. HasRead(r2, DefaultGraph, 0, q, said)
  <2>1. CASE d
    <3>1. GraphOf(state) # DefaultGraph
      BY <2>1 DEF GraphOf, States
    <3> QED
      BY <1>2, <2>1, <3>1, BlockCloses
  <2>2. CASE ~d
    BY <1>2, <2>2 DEF GraphOf
  <2> QED
    BY <2>1, <2>2
<1>6. Leads(r1, When(d, Punct(state, "close")), r2, said)
  BY <1>4, MarkLeads, LeadsWhen
<1> HIDE DEF r2
<1>7. Leads(r, FlushWrites, r2, said)
  BY <1>3, <1>6, LeadsBoth DEF FlushWrites
<1> QED
  BY <1>5, <1>7

\* A reader that is in no statement is where the state without one says.
LEMMA NothingReadIsOpen ==
    ASSUME HasPrefix, NEW r, NEW st, NEW q, NEW said, HasRead(r, GraphOf(st), 0, q, said),
           st.subject = Null
    PROVE  Open(r, st, said)
<1>1. Fine(r, said)
  BY HalfReadIsFine
<1> QED
  BY <1>1 DEF Open, HasRead

\* The block of another graph is opened, after what was open is closed.
LEMMA GraphLeads ==
    ASSUME HasPrefix, NEW r, state \in States, NEW said, Open(r, state, said),
           NEW graph \in Nodes \union {Null}
    PROVE  \E r2 : /\ Leads(r, GraphWrites(graph), r2, said)
                   /\ Open(r2, GraphState(graph), said)
<1>1. CASE ~OtherGraph(graph)
  <2>1. GraphWrites(graph) = <<>> /\ GraphState(graph) = state
    BY <1>1 DEF GraphWrites, GraphState, When
  <2> QED
    BY <2>1, LeadsNowhere
<1>2. CASE OtherGraph(graph)
  <2> DEFINE c == PrintGraph(graph)
             any == <<graph, graph, graph, graph>>
             st == GraphState(graph)
             open == WriteNode(AllNull, graph) \o Punct(AllNull, "open")
  <2>1. PICK r1 : Leads(r, FlushWrites, r1, said) /\ HasRead(r1, DefaultGraph, 0, any, said)
    BY FlushLeads
  <2>2. AllNull \in States
    BY DEF AllNull, Closed, States
  <2>3. GraphWrites(graph) = FlushWrites \o When(c, open)
    BY <1>2 DEF GraphWrites, When
  <2>4. CASE c
    <3> DEFINE r2 == AddNode(r1, graph)
               r3 == OpenBlock(r2)
    <3>1. graph \in Nodes /\ graph # Null
      BY <2>4 DEF PrintGraph
    <3>2. Place(any, 1) = graph
      BY DEF Place
    <3> HIDE DEF any
    <3>3. HasRead(r2, DefaultGraph, 1, any, said)
      <4>1. HasRead(AddNode(r1, Place(any, 0 + 1)), DefaultGraph, 0 + 1, any, said)
        BY <2>1, <3>1, <3>2, NodeIsRead
      <4> QED
        BY <3>2, <4>1
    <3>4. Leads(r1, WriteNode(AllNull, graph), r2, said)
      <4>1. Fine(r1, said)
        BY <2>1, HalfReadIsFine
      <4> QED
        BY <2>2, <3>1, <4>1, NodeLeads
    <3> HIDE DEF r2
    <3>5. format = "TriG"
      BY <1>2 DEF OtherGraph, HasPrefix, HasGraph, PrefixFormats
    <3>6. HasRead(r3, graph, 0, any, said)
      BY <3>1, <3>2, <3>3, <3>5, BlockOpens
    <3>7. Leads(r2, Punct(AllNull, "open"), r3, said)
      <4>1. Fine(r2, said)
        BY <3>3, HalfReadIsFine
      <4> QED
        BY <2>2, <4>1, MarkLeads
    <3> HIDE DEF r3
    <3>8. Leads(r1, open, r3, said)
      BY <3>4, <3>7, LeadsBoth
    <3> HIDE DEF open
    <3>9. Leads(r, FlushWrites \o open, r3, said)
      BY <2>1, <3>8, LeadsBoth
    <3>10. st.graph = graph /\ st.subject = Null
      BY <1>2, <2>4 DEF GraphState, AllNull, Closed
    <3>11. Open(r3, st, said)
      BY <3>1, <3>6, <3>10, NothingReadIsOpen DEF GraphOf
    <3>12. GraphWrites(graph) = FlushWrites \o open
      BY <2>3, <2>4 DEF When
    <3> QED
      BY <3>9, <3>11, <3>12
  <2>5. CASE ~c
    <3>1. Leads(r1, <<>>, r1, said)
      BY LeadsNowhere
    <3>2. Leads(r, FlushWrites \o <<>>, r1, said)
      BY <2>1, <3>1, LeadsBoth
    <3>3. st = AllNull
      BY <1>2, <2>5 DEF GraphState
    <3>4. GraphOf(st) = DefaultGraph /\ st.subject = Null
      BY <3>3 DEF GraphOf, AllNull, Closed
    <3>5. Open(r1, st, said)
      BY <2>1, <3>4, NothingReadIsOpen
    <3>6. GraphWrites(graph) = FlushWrites \o <<>>
      BY <2>3, <2>5 DEF When
    <3> QED
      BY <3>2, <3>5, <3>6
  <2> QED
    BY <2>4, <2>5
<1> QED
  BY <1>1, <1>2

\* The state after it.
LEMMA GraphStateIs ==
    ASSUME HasPrefix, state \in States, NEW graph \in Nodes \union {Null},
           ~HasGraph => state.graph = Null
    PROVE  /\ GraphState(graph) \in States
           /\ ~HasGraph => GraphState(graph).graph = Null
           /\ GraphOf(GraphState(graph)) = IF HasGraph /\ graph # Null THEN graph ELSE DefaultGraph
<1>1. CASE ~OtherGraph(graph)
  <2>1. GraphState(graph) = state /\ (HasGraph => graph = state.graph)
    BY <1>1 DEF GraphState, OtherGraph
  <2> QED
    BY <2>1 DEF GraphOf
<1>2. CASE OtherGraph(graph) /\ PrintGraph(graph)
  <2>1. GraphState(graph) = [Closed EXCEPT !.graph = graph] /\ HasGraph
    BY <1>2 DEF GraphState, OtherGraph, AllNull
  <2>2. graph \in Nodes \ {DefaultGraph} /\ graph # Null
    BY <1>2 DEF PrintGraph
  <2> QED
    BY <2>1, <2>2 DEF GraphOf, Closed, States
<1>3. CASE OtherGraph(graph) /\ ~PrintGraph(graph)
  <2>1. GraphState(graph) = Closed /\ HasGraph /\ graph \in {Null, DefaultGraph}
    BY <1>3 DEF GraphState, OtherGraph, AllNull, PrintGraph
  <2> QED
    BY <2>1, NodesAssumption DEF GraphOf, Closed, States
<1> QED
  BY <1>1, <1>2, <1>3

\* A quad on a line of its own.
LEMMA LineLeads ==
    ASSUME ~HasPrefix, state \in States, NEW r, NEW said, NEW q \in Quads,
           HasRead(r, DefaultGraph, 0, q, said)
    PROVE  \E r2 : /\ Leads(r, LineWrites(q), r2, said)
                   /\ \A p : HasRead(r2, DefaultGraph, 0, p, Append(said, Meant(q)))
<1> DEFINE c == HasGraph /\ PrintGraph(q[1])
           nodes == WriteNode(state, q[2]) \o WriteNode(state, q[3]) \o WriteNode(state, q[4])
           label == When(c, WriteNode(state, q[1]))
           dot == Punct(state, "dot")
<1>1. /\ q[1] \in Nodes \union {Null}
      /\ q[2] \in Nodes /\ q[3] \in Nodes /\ q[4] \in Nodes
  BY QuadsHaveNodes
<1>2. PICK r3 : Leads(r, nodes, r3, said) /\ HasRead(r3, DefaultGraph, 3, q, said)
  BY <1>1, StatementLeads
<1> DEFINE r4 == IF c THEN AddNode(r3, q[1]) ELSE r3
           n == IF c THEN 4 ELSE 3
           r5 == EndObject(r4, 0)
<1>3. c => q[1] \in Nodes
  BY <1>1 DEF PrintGraph
<1>4. Leads(r3, label, r4, said)
  <2>1. Fine(r3, said)
    BY <1>2, HalfReadIsFine
  <2>2. c => Leads(r3, WriteNode(state, q[1]), AddNode(r3, q[1]), said)
    BY <1>3, <2>1, NodeLeads
  <2> QED
    BY <2>2, LeadsWhen
<1>5. HasRead(r4, DefaultGraph, n, q, said)
  <2>1. CASE c
    <3>1. Place(q, 4) = q[1]
      BY DEF Place
    <3>2. HasRead(AddNode(r3, Place(q, 3 + 1)), DefaultGraph, 3 + 1, q, said)
      BY <1>2, <1>3, <2>1, <3>1, NodeIsRead
    <3> QED
      BY <2>1, <3>1, <3>2
  <2>2. CASE ~c
    BY <1>2, <2>2
  <2> QED
    BY <2>1, <2>2
<1> HIDE DEF r4
<1>6. Fine(r4, said)
  BY <1>5, HalfReadIsFine
<1>7. Leads(r4, dot, r5, said)
  BY <1>6, MarkLeads
<1>8. Complete(r4)
  <2>1. c => format = "NQuads"
    BY DEF HasGraph, HasPrefix, PrefixFormats
  <2> QED
    BY <1>5, <2>1 DEF HasRead, Complete
<1>9. QuadRead(r4) = Meant(q)
  <2>1. /\ r4.nodes[1] = q[2] /\ r4.nodes[2] = q[3] /\ r4.nodes[3] = q[4]
        /\ c => r4.nodes[4] = q[1]
        /\ Len(r4.nodes) = n /\ r4.graph = DefaultGraph
    BY <1>5 DEF HasRead, Place
  <2>2. (IF c THEN q[1] ELSE DefaultGraph) = IF HasGraph /\ q[1] # Null THEN q[1] ELSE DefaultGraph
    BY <1>1 DEF PrintGraph
  <2> QED
    BY <2>1, <2>2 DEF QuadRead, Meant
<1>10. /\ r5 \in ReadType /\ r5.legal = r4.legal /\ r5.format = r4.format
       /\ r5.graph = r4.graph /\ r5.quads = Append(r4.quads, QuadRead(r4))
       /\ Len(r5.nodes) = 0
  <2>1. r4 \in ReadType
    BY <1>5 DEF HasRead
  <2> QED
    BY <1>8, <2>1, ObjectEnds
<1> HIDE DEF r5
<1>11. \A p : HasRead(r5, DefaultGraph, 0, p, Append(said, Meant(q)))
  BY <1>5, <1>9, <1>10 DEF HasRead
<1>12. Leads(r, nodes \o label \o dot, r5, said)
  <2>1. Leads(r, nodes \o label, r4, said)
    BY <1>2, <1>4, LeadsBoth
  <2> QED
    BY <1>7, <2>1, LeadsBoth
<1>13. LineWrites(q) = nodes \o label \o dot
  BY DEF LineWrites
<1> QED
  BY <1>11, <1>12, <1>13

-----------------------------------------------------------------------------
(***************************************************************************)
(* The inductive invariant.  What is read is fine at any time, also after a *)
(* failure; between two calls of a writer that goes on, what is open in the *)
(* text is what the state says, and nothing is in a format without          *)
(* prefixes.                                                               *)
(***************************************************************************)
Said == [i \in DOMAIN accepted |-> Meant(accepted[i])]
Between ==
    IF HasPrefix THEN Open(Reading, state, Said) /\ (~HasGraph => state.graph = Null)
    ELSE HasRead(Reading, DefaultGraph, 0, Null, Said)
IInv ==
    /\ TypeOK
    /\ state \in States /\ text \in Seq(Tokens)
    /\ Fine(Reading, Said)
    /\ ~broken => Between

\* What a quad means is a quad.
LEMMA MeantIsQuad ==
    ASSUME NEW q \in Quads
    PROVE  Meant(q) \in QuadType
  BY NodesAssumption, QuadsHaveNodes DEF Meant, QuadType

LEMMA SameLength ==
    ASSUME NEW m \in Nat, NEW n \in Nat, 1 .. m = 1 .. n
    PROVE  m = n
  OBVIOUS

LEMMA SaidIsThere ==
    ASSUME accepted \in Seq(Quads)
    PROVE  /\ Said \in Seq(QuadType) /\ Len(Said) = Len(accepted)
           /\ \A i \in 1 .. Len(accepted) : Said[i] = Meant(accepted[i])
<1> DEFINE s == Said
<1>1. DOMAIN accepted = 1 .. Len(accepted) /\ Len(accepted) \in Nat
  BY LenProperties
<1>2. s = [i \in 1 .. Len(accepted) |-> Meant(accepted[i])]
  BY <1>1 DEF Said
<1>3. \A i \in 1 .. Len(accepted) : Meant(accepted[i]) \in QuadType
  BY ElementOfSeq, MeantIsQuad
<1>4. s \in [1 .. Len(accepted) -> QuadType]
  BY <1>2, <1>3
<1> HIDE DEF s
<1>5. s \in Seq(QuadType)
  BY <1>1, <1>4, SeqDef
<1>6. DOMAIN s = 1 .. Len(s) /\ DOMAIN s = 1 .. Len(accepted) /\ Len(s) \in Nat
  BY <1>4, <1>5, LenProperties
<1>7. Len(s) = Len(accepted)
  BY <1>1, <1>6, SameLength
<1> QED
  BY <1>2, <1>5, <1>7 DEF s

\* One more quad.
LEMMA SaidGrows ==
    ASSUME accepted \in Seq(Quads), NEW q \in Quads, accepted' = Append(accepted, q),
           UNCHANGED format
    PROVE  Said' = Append(Said, Meant(q))
<1> DEFINE s == Append(Said, Meant(q))
           t == Said'
           n == Len(accepted)
<1>1. Said \in Seq(QuadType) /\ Len(Said) = n /\ \A i \in 1 .. n : Said[i] = Meant(accepted[i])
  BY SaidIsThere
<1>2. n \in Nat
  BY LenProperties
<1>3. /\ s \in Seq(QuadType) /\ Len(s) = n + 1 /\ s[n + 1] = Meant(q)
      /\ \A i \in 1 .. n : s[i] = Said[i]
  BY <1>1, MeantIsQuad, AppendProperties
<1>4. /\ accepted' \in Seq(Quads) /\ Len(accepted') = n + 1 /\ accepted'[n + 1] = q
      /\ \A i \in 1 .. n : accepted'[i] = accepted[i]
  BY AppendProperties
<1>5. DOMAIN accepted' = 1 .. n + 1
  BY <1>4, LenProperties
<1>6. t = [i \in DOMAIN accepted' |-> Meant(accepted'[i])]
  BY DEF Said, Meant, HasGraph
<1>7. t = [i \in 1 .. n + 1 |-> Meant(accepted'[i])]
  BY <1>5, <1>6
<1>8. \A i \in 1 .. n + 1 : accepted'[i] \in Quads
  BY <1>4, ElementOfSeq
<1>9. \A i \in 1 .. n + 1 : Meant(accepted'[i]) \in QuadType
  BY <1>8, MeantIsQuad
<1>10. t \in [1 .. n + 1 -> QuadType]
  BY <1>7, <1>9
<1> HIDE DEF t, s, n
<1>11. t \in Seq(QuadType)
  BY <1>2, <1>10, SeqDef
<1>12. DOMAIN t = 1 .. Len(t) /\ DOMAIN t = 1 .. n + 1 /\ Len(t) \in Nat
  BY <1>10, <1>11, LenProperties
<1>13. Len(t) = n + 1
  <2>1. n + 1 \in Nat
    BY <1>2
  <2>2. 1 .. Len(t) = 1 .. n + 1
    BY <1>12, Zenon
  <2> QED
    BY <1>12, <2>1, <2>2, SameLength, Zenon
<1>14. ASSUME NEW i \in 1 .. n + 1 PROVE t[i] = s[i]
  <2>1. CASE i = n + 1
    BY <1>3, <1>4, <1>7, <2>1
  <2>2. CASE i # n + 1
    <3>1. i \in 1 .. n
      BY <1>2, <2>2
    <3> QED
      BY <1>1, <1>3, <1>4, <1>7, <3>1
  <2> QED
    BY <2>1, <2>2
<1>15. t = s
  BY <1>3, <1>11, <1>13, <1>14, SeqEqual
<1> QED
  BY <1>15 DEF s, t

\* A reader at the start of a statement has read nothing of any quad.
LEMMA NothingOfAny ==
    ASSUME NEW r, NEW g, NEW p, NEW q, NEW quads, HasRead(r, g, 0, p, quads)
    PROVE  HasRead(r, g, 0, q, quads)
  BY DEF HasRead

\* What is open in the text after a call.
LEMMA OpenNext ==
    ASSUME UNCHANGED format, Open(Reading', state', Said')
    PROVE  Open(Reading, state, Said)'
  BY DEF Open, GraphOf

LEMMA HasReadNext ==
    ASSUME UNCHANGED format, HasRead(Reading', DefaultGraph, 0, Null, Said')
    PROVE  HasRead(Reading, DefaultGraph, 0, Null, Said)'
  BY DEF HasRead, Place

LEMMA InitIInv == Init => IInv
<1> SUFFICES ASSUME Init PROVE IInv
  OBVIOUS
<1>1. format \in Formats /\ state = Closed /\ text = <<>> /\ accepted = <<>> /\ broken = FALSE
  BY DEF Init
<1>2. state \in States /\ state.graph = Null /\ state.subject = Null
  BY <1>1 DEF Closed, States
<1>3. TypeOK
  <2>1. accepted \in Seq(Quads) /\ Len(accepted) = 0
    BY <1>1, EmptySeq
  <2>2. Len(accepted) <= MaxQuads
    BY <2>1, NodesAssumption
  <2>3. /\ state.graph \in (Nodes \ {DefaultGraph}) \union {Null}
        /\ {state.subject, state.predicate} \subseteq Nodes \union {Null}
        /\ state.subject = Null <=> state.predicate = Null
    BY <1>1 DEF Closed
  <2> QED
    BY <1>1, <2>1, <2>2, <2>3 DEF TypeOK
<1>4. text \in Seq(Tokens) /\ Len(text) = 0
  BY <1>1, EmptySeq
<1>5. Reading = NothingRead
  BY <1>4, ReadFromEmpty DEF Reading
<1>6. Said = <<>>
  <2>1. Said \in Seq(QuadType) /\ Len(Said) = 0
    BY <1>1, <1>3, EmptySeq, SaidIsThere DEF TypeOK
  <2> QED
    BY <2>1, EmptySeq
<1>7. HasRead(Reading, DefaultGraph, 0, Null, Said)
  <2>1. <<>> \in Seq(Nodes) /\ <<>> \in Seq(QuadType) /\ Len(<<>>) = 0
    BY EmptySeq
  <2>2. NothingRead \in ReadType
    BY <1>1, <2>1, NodesAssumption DEF NothingRead, ReadType
  <2> QED
    BY <1>5, <1>6, <2>1, <2>2 DEF HasRead, NothingRead
<1>8. Fine(Reading, Said)
  BY <1>7, HalfReadIsFine
<1>9. Between
  <2>1. CASE HasPrefix
    <3>1. Open(Reading, state, Said)
      BY <1>2, <1>7, <2>1, NothingReadIsOpen DEF GraphOf
    <3> QED
      BY <1>2, <2>1, <3>1 DEF Between
  <2>2. CASE ~HasPrefix
    BY <1>7, <2>2 DEF Between
  <2> QED
    BY <2>1, <2>2
<1> QED
  BY <1>2, <1>3, <1>4, <1>8, <1>9 DEF IInv

\* The parts of the type invariant after a call.
LEMMA TypeNext ==
    ASSUME TypeOK, UNCHANGED format, state' \in States, broken' \in BOOLEAN,
           accepted' \in Seq(Quads), Len(accepted') <= MaxQuads
    PROVE  TypeOK'
<1>1. /\ state'.graph \in (Nodes \ {DefaultGraph}) \union {Null}
      /\ state'.subject \in Nodes \union {Null} /\ state'.predicate \in Nodes \union {Null}
      /\ state'.subject = Null <=> state'.predicate = Null
  BY DEF States
<1>2. format' \in Formats
  BY DEF TypeOK
<1> QED
  BY <1>1, <1>2 DEF TypeOK

\* A call that fails in the middle.
LEMMA FailureKeeps ==
    ASSUME IInv, UNCHANGED <<format, accepted>>, NEW w, NEW r2, Leads(Reading, w, r2, Said),
           Fails(w)
    PROVE  IInv'
<1>1. /\ TypeOK /\ text \in Seq(Tokens)
      /\ format' = format /\ accepted' = accepted
  BY DEF IInv
<1>2. text' \in Seq(Tokens) /\ state' \in States /\ Fine(Reading', Said)
  BY <1>1, CallReads
<1>3. Said' = Said
  BY <1>1 DEF Said, Meant, HasGraph
<1>4. broken' = TRUE
  BY DEF Fails
<1>5. accepted' \in Seq(Quads) /\ Len(accepted') <= MaxQuads
  BY <1>1 DEF TypeOK
<1>6. TypeOK'
  BY <1>1, <1>2, <1>4, <1>5, TypeNext
<1>7. Fine(Reading, Said)'
  BY <1>2, <1>3
<1> QED
  BY <1>2, <1>4, <1>6, <1>7 DEF IInv

\* A call that succeeds and leaves the state st.
LEMMA SuccessKeeps ==
    ASSUME IInv, ~broken, UNCHANGED format, NEW w, NEW r2, Leads(Reading, w, r2, Said),
           NEW st \in States, Succeeds(w, st),
           accepted' \in Seq(Quads), Len(accepted') <= MaxQuads,
           IF HasPrefix THEN Open(r2, st, Said') /\ (~HasGraph => st.graph = Null)
           ELSE HasRead(r2, DefaultGraph, 0, Null, Said')
    PROVE  IInv'
<1>1. TypeOK /\ text \in Seq(Tokens)
  BY DEF IInv
<1>2. text' \in Seq(Tokens) /\ Reading' = r2
  BY <1>1, CallReads
<1>3. state' = st /\ broken' = broken
  BY DEF Succeeds
<1>4. TypeOK'
  <2>1. broken \in BOOLEAN
    BY <1>1 DEF TypeOK
  <2>2. broken' \in BOOLEAN /\ state' \in States
    BY <1>3, <2>1, Zenon
  <2> QED
    BY <1>1, <2>2, TypeNext
<1>5. Fine(Reading', Said')
  <2>1. CASE HasPrefix
    BY <1>2, <2>1 DEF Open
  <2>2. CASE ~HasPrefix
    BY <1>2, <2>2, HalfReadIsFine
  <2> QED
    BY <2>1, <2>2
<1>6. (HasPrefix' <=> HasPrefix) /\ (HasGraph' <=> HasGraph)
  BY DEF HasPrefix, HasGraph
<1>7. Between'
  <2>1. CASE HasPrefix
    <3>1. Open(Reading', state', Said')
      BY <1>2, <1>3, <2>1
    <3>2. Open(Reading, state, Said)'
      BY <3>1, OpenNext
    <3>3. (~HasGraph => state.graph = Null)'
      BY <1>3, <1>6, <2>1
    <3> QED
      BY <1>6, <2>1, <3>2, <3>3 DEF Between
  <2>2. CASE ~HasPrefix
    <3>1. HasRead(Reading', DefaultGraph, 0, Null, Said')
      BY <1>2, <2>2
    <3>2. HasRead(Reading, DefaultGraph, 0, Null, Said)'
      BY <3>1, HasReadNext
    <3> QED
      BY <1>6, <2>2, <3>2 DEF Between
  <2> QED
    BY <2>1, <2>2
<1>8. Fine(Reading, Said)'
  BY <1>5
<1> QED
  BY <1>2, <1>3, <1>4, <1>7, <1>8 DEF IInv

LEMMA BeginKeeps ==
    ASSUME IInv, Begin
    PROVE  IInv'
<1>1. /\ HasPrefix /\ ~broken /\ text = <<>>
      /\ UNCHANGED <<format, accepted>>
      /\ Succeeds(Punct(state, "prefix"), state) \/ Fails(Punct(state, "prefix"))
  BY DEF Begin
<1>2. /\ TypeOK /\ state \in States /\ Fine(Reading, Said)
      /\ Open(Reading, state, Said) /\ (~HasGraph => state.graph = Null)
  BY <1>1 DEF IInv, Between
<1>3. Reading.nodes = <<>>
  <2>1. Len(text) = 0
    BY <1>1, EmptySeq
  <2>2. Reading = NothingRead
    BY <2>1, ReadFromEmpty DEF Reading
  <2> QED
    BY <2>2 DEF NothingRead
<1>4. Leads(Reading, Punct(state, "prefix"), Reading, Said)
  BY <1>2, <1>3, MarkLeads
<1>5. Said' = Said
  BY <1>1 DEF Said, Meant, HasGraph
<1>6. accepted' \in Seq(Quads) /\ Len(accepted') <= MaxQuads
  BY <1>1, <1>2 DEF TypeOK
<1>7. CASE Fails(Punct(state, "prefix"))
  BY <1>1, <1>4, <1>7, FailureKeeps
<1>8. CASE Succeeds(Punct(state, "prefix"), state)
  BY <1>1, <1>2, <1>4, <1>5, <1>6, <1>8, SuccessKeeps
<1> QED
  BY <1>1, <1>7, <1>8

LEMMA FlushKeeps ==
    ASSUME IInv, Flush
    PROVE  IInv'
<1>1. /\ HasPrefix /\ ~broken
      /\ UNCHANGED <<format, accepted>>
      /\ Succeeds(FlushWrites, AllNull) \/ Fails(FlushWrites)
  BY DEF Flush
<1>2. TypeOK /\ state \in States /\ Open(Reading, state, Said)
  BY <1>1 DEF IInv, Between
<1>3. PICK r2 : Leads(Reading, FlushWrites, r2, Said) /\ HasRead(r2, DefaultGraph, 0, Null, Said)
  BY <1>1, <1>2, FlushLeads
<1>4. AllNull \in States /\ AllNull.graph = Null /\ AllNull.subject = Null
  BY DEF AllNull, Closed, States
<1>5. Open(r2, AllNull, Said)
  BY <1>1, <1>3, <1>4, NothingReadIsOpen DEF GraphOf
<1>6. Said' = Said
  BY <1>1 DEF Said, Meant, HasGraph
<1>7. accepted' \in Seq(Quads) /\ Len(accepted') <= MaxQuads
  BY <1>1, <1>2 DEF TypeOK
<1>8. CASE Fails(FlushWrites)
  BY <1>1, <1>3, <1>8, FailureKeeps
<1>9. CASE Succeeds(FlushWrites, AllNull)
  BY <1>1, <1>3, <1>4, <1>5, <1>6, <1>7, <1>9, SuccessKeeps
<1> QED
  BY <1>1, <1>8, <1>9

\* Where the writes of a quad lead: to its end, and to a state that says so.
LEMMA QuadLeads ==
    ASSUME IInv, ~broken, NEW q \in Quads
    PROVE  /\ QuadState(q) \in States
           /\ \E r2 :
                /\ Leads(Reading, QuadWrites(q), r2, Said)
                /\ LET said == Append(Said, Meant(q))
                   IN  IF HasPrefix THEN /\ Open(r2, QuadState(q), said)
                                         /\ ~HasGraph => QuadState(q).graph = Null
                       ELSE HasRead(r2, DefaultGraph, 0, Null, said)
<1>1. /\ q[1] \in Nodes \union {Null}
      /\ q[2] \in Nodes /\ q[3] \in Nodes /\ q[4] \in Nodes
  BY QuadsHaveNodes
<1>2. state \in States
  BY DEF IInv
<1>3. CASE HasPrefix
  <2> DEFINE st == GraphState(q[1])
  <2>1. Open(Reading, state, Said) /\ (~HasGraph => state.graph = Null)
    BY <1>3 DEF IInv, Between
  <2>2. PICK r1 : Leads(Reading, GraphWrites(q[1]), r1, Said) /\ Open(r1, st, Said)
    BY <1>1, <1>2, <1>3, <2>1, GraphLeads
  <2>3. /\ st \in States /\ (~HasGraph => st.graph = Null)
        /\ GraphOf(st) = IF HasGraph /\ q[1] # Null THEN q[1] ELSE DefaultGraph
    BY <1>1, <1>2, <1>3, <2>1, GraphStateIs
  <2> HIDE DEF st
  <2>4. PICK r3 : /\ Leads(r1, AbbreviatedWrites(st, q), r3, Said)
                  /\ HasRead(r3, GraphOf(st), 3, q, Said)
    BY <1>3, <2>2, <2>3, AbbreviatedLeads
  <2>5. Leads(Reading, GraphWrites(q[1]) \o AbbreviatedWrites(st, q), r3, Said)
    BY <2>2, <2>4, LeadsBoth
  <2>6. /\ AbbreviatedState(st, q) \in States
        /\ Open(r3, AbbreviatedState(st, q), Append(Said, <<GraphOf(st), q[2], q[3], q[4]>>))
    BY <1>1, <1>3, <2>3, <2>4, ReadIsOpen
  <2>7. <<GraphOf(st), q[2], q[3], q[4]>> = Meant(q)
    BY <2>3 DEF Meant
  <2>8. AbbreviatedState(st, q).graph = st.graph
    BY <2>3 DEF AbbreviatedState, States
  <2>9. /\ QuadWrites(q) = GraphWrites(q[1]) \o AbbreviatedWrites(st, q)
        /\ QuadState(q) = AbbreviatedState(st, q)
    BY <1>3 DEF QuadWrites, QuadState, st
  <2> QED
    BY <1>3, <2>3, <2>5, <2>6, <2>7, <2>8, <2>9
<1>4. CASE ~HasPrefix
  <2>1. HasRead(Reading, DefaultGraph, 0, Null, Said)
    BY <1>4 DEF IInv, Between
  <2>2. HasRead(Reading, DefaultGraph, 0, q, Said)
    BY <2>1, NothingOfAny
  <2>3. PICK r2 : /\ Leads(Reading, LineWrites(q), r2, Said)
                  /\ \A p : HasRead(r2, DefaultGraph, 0, p, Append(Said, Meant(q)))
    BY <1>2, <1>4, <2>2, LineLeads
  <2>4. QuadWrites(q) = LineWrites(q) /\ QuadState(q) = state
    BY <1>4 DEF QuadWrites, QuadState
  <2> QED
    BY <1>2, <1>4, <2>3, <2>4
<1> QED
  BY <1>3, <1>4

LEMMA WriteQuadKeeps ==
    ASSUME IInv, NEW q \in Quads, WriteQuad(q)
    PROVE  IInv'
<1> DEFINE said == Append(Said, Meant(q))
<1>1. /\ ~broken /\ Len(accepted) < MaxQuads /\ UNCHANGED format
      /\ \/ Succeeds(QuadWrites(q), QuadState(q)) /\ accepted' = Append(accepted, q)
         \/ Fails(QuadWrites(q)) /\ UNCHANGED accepted
  BY DEF WriteQuad
<1>2. QuadState(q) \in States
  BY <1>1, QuadLeads
<1>3. PICK r2 : /\ Leads(Reading, QuadWrites(q), r2, Said)
                /\ IF HasPrefix THEN /\ Open(r2, QuadState(q), said)
                                     /\ ~HasGraph => QuadState(q).graph = Null
                   ELSE HasRead(r2, DefaultGraph, 0, Null, said)
  BY <1>1, QuadLeads
<1>4. CASE Fails(QuadWrites(q)) /\ UNCHANGED accepted
  BY <1>1, <1>3, <1>4, FailureKeeps
<1>5. CASE Succeeds(QuadWrites(q), QuadState(q)) /\ accepted' = Append(accepted, q)
  <2>1. accepted \in Seq(Quads)
    BY DEF IInv, TypeOK
  <2>2. accepted' \in Seq(Quads) /\ Len(accepted') = Len(accepted) + 1
    BY <1>5, <2>1, AppendProperties
  <2>3. Len(accepted') <= MaxQuads
    <3>1. Len(accepted) \in Nat
      BY <2>1, LenProperties
    <3> QED
      BY <1>1, <2>2, <3>1, NodesAssumption
  <2>4. Said' = said
    BY <1>1, <1>5, <2>1, SaidGrows
  <2> QED
    BY <1>1, <1>2, <1>3, <1>5, <2>2, <2>3, <2>4, SuccessKeeps
<1> QED
  BY <1>1, <1>4, <1>5

LEMMA NextIInv == IInv /\ [Next]_vars => IInv'
<1> SUFFICES ASSUME IInv, [Next]_vars PROVE IInv'
  OBVIOUS
<1>1. CASE Begin
  BY <1>1, BeginKeeps
<1>2. CASE \E q \in Quads : WriteQuad(q)
  BY <1>2, WriteQuadKeeps
<1>3. CASE Flush
  BY <1>3, FlushKeeps
<1>4. CASE UNCHANGED vars
  <2>1. /\ format' = format /\ state' = state /\ text' = text
        /\ accepted' = accepted /\ broken' = broken
    BY <1>4 DEF vars
  <2>2. Reading' = Reading /\ Said' = Said
    BY <2>1 DEF Reading, NothingRead, ReadFrom, Said, Meant, HasGraph
  <2>3. TypeOK'
    <3>1. TypeOK /\ state' \in States
      BY <2>1 DEF IInv
    <3>2. broken \in BOOLEAN /\ accepted \in Seq(Quads) /\ Len(accepted) <= MaxQuads
      BY <3>1 DEF TypeOK
    <3>3. broken' \in BOOLEAN
      BY <2>1, <3>2, Zenon
    <3>4. accepted' \in Seq(Quads) /\ Len(accepted') <= MaxQuads
      BY <2>1, <3>2
    <3> QED
      BY <2>1, <3>1, <3>3, <3>4, TypeNext
  <2>4. ~broken => Between'
    <3>1. (HasPrefix' <=> HasPrefix) /\ (HasGraph' <=> HasGraph)
      BY <2>1 DEF HasPrefix, HasGraph
    <3>2. Open(Reading, state, Said) => Open(Reading, state, Said)'
      BY <2>1, <2>2, OpenNext
    <3>3. HasRead(Reading, DefaultGraph, 0, Null, Said)
          => HasRead(Reading, DefaultGraph, 0, Null, Said)'
      BY <2>1, <2>2, HasReadNext
    <3> QED
      BY <2>1, <3>1, <3>2, <3>3 DEF IInv, Between
  <2>5. Fine(Reading, Said)'
    BY <2>2 DEF IInv
  <2> QED
    BY <2>1, <2>3, <2>4, <2>5 DEF IInv
<1> QED
  BY <1>1, <1>2, <1>3, <1>4 DEF Next

LEMMA Invariance == Spec => []IInv
  BY InitIInv, NextIInv, PTL DEF Spec

-----------------------------------------------------------------------------
(***************************************************************************)
(* The theorems.                                                           *)
(***************************************************************************)

\* Whatever quads write_quad() is given, in whatever order, with flush() between
\* them and a failure of any write, the text is grammatical and says the accepted
\* quads, in their order and each in its graph.
THEOREM TextsSayTheQuads == Spec => []TextSaysTheQuads
<1>1. IInv => TextSaysTheQuads
  BY DEF IInv, Fine, TextSaysTheQuads, Said
<1> QED
  BY <1>1, Invariance, PTL

\* Between two calls of write_quad() and flush() the SerializationState is exactly
\* what is open in the text.
THEOREM StatesAreOpen == Spec => []StateIsWhatIsOpen
<1>1. IInv => StateIsWhatIsOpen
  <2> SUFFICES ASSUME IInv PROVE StateIsWhatIsOpen
    OBVIOUS
  <2>1. TypeOK
    BY DEF IInv
  <2>2. ASSUME HasPrefix, ~broken
        PROVE  /\ Reading.graph = IF state.graph = Null THEN DefaultGraph ELSE state.graph
               /\ IF state.subject = Null THEN Reading.nodes = <<>>
                  ELSE /\ Complete(Reading)
                       /\ Reading.nodes[1] = state.subject
                       /\ Reading.nodes[2] = state.predicate
    <3>1. Open(Reading, state, Said)
      BY <2>2 DEF IInv, Between
    <3>2. Reading.nodes \in Seq(Nodes)
      BY <3>1 DEF Open, Fine, ReadType
    <3>3. Len(Reading.nodes) = 0 => Reading.nodes = <<>>
      BY <3>2, EmptySeq
    <3> QED
      BY <3>1, <3>3 DEF Open, GraphOf, Complete
  <2> QED
    BY <2>1, <2>2 DEF StateIsWhatIsOpen
<1> QED
  BY <1>1, Invariance, PTL
=============================================================================
