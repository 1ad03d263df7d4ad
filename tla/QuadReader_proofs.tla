------------------------- MODULE QuadReader_proofs -------------------------
(***************************************************************************)
(* Theorems about QuadReader: for any documents, however they are cut into *)
(* chunks and wherever the stream fails.                                   *)
(***************************************************************************)
EXTENDS QuadReader, SequenceTheorems, FiniteSetTheorems, WellFoundedInduction, TLAPS

-----------------------------------------------------------------------------
(***************************************************************************)
(* Induction and recursion on the naturals.                                *)
(***************************************************************************)

\* A nonempty set of naturals has a least element.
LEMMA LeastElement ==
    ASSUME NEW T \in SUBSET Nat, T # {}
    PROVE  \E m \in T : \A n \in T : m <= n
<1> DEFINE LessThan == {p \in Nat \X Nat : p[1] < p[2]}
<1>1. IsWellFoundedOn(LessThan, Nat)
  BY NatLessThanWellFounded DEF OpToRel
<1> HIDE DEF LessThan
<1>2. \E m \in T : \A n \in T : ~ (<<n, m>> \in LessThan)
  BY <1>1, WFMin
<1>3. ASSUME NEW n \in T, NEW m \in T, ~(<<n, m>> \in LessThan)
      PROVE  m <= n
  BY <1>3 DEF LessThan
<1> QED
  BY <1>2, <1>3

\* What holds of 0 and of every successor up to m holds up to m. P is a set.
LEMMA UpTo ==
    ASSUME NEW m \in Nat, NEW P, 0 \in P,
           \A n \in 1 .. m : n - 1 \in P => n \in P
    PROVE  \A n \in 0 .. m : n \in P
<1> DEFINE Bad == {n \in 0 .. m : n \notin P}
<1> SUFFICES ASSUME Bad # {} PROVE FALSE
  OBVIOUS
<1>1. Bad \in SUBSET Nat
  OBVIOUS
<1>2. PICK n \in Bad : \A k \in Bad : n <= k
  <2> HIDE DEF Bad
  <2> QED
    BY <1>1, LeastElement
<1>3. n \in 0 .. m /\ n \notin P /\ n # 0
  BY <1>2
<1>4. n \in 1 .. m /\ n - 1 \in 0 .. m
  BY <1>3
<1>5. n - 1 \in P
  BY <1>2, <1>4
<1> QED
  BY <1>3, <1>4, <1>5

\* What the recursions of the readers do at step n, to the value v so far; c says which
\* of them it is.
StepOf(c, v, n) ==
    CASE c.of = "chunk"     -> S!Callback(v, c.seq[n])
      [] c.of = "subject"   -> X!SubjectStep(v, c.seq[n], c.base, c.i)
      [] c.of = "statement" -> X!AttributeStatement(v, c.s, c.seq[n], c.base, c.lang, c.i)
      [] c.of = "named"     -> X!ObjectStep(v, c.seq[n], c.base, c.i)
      [] c.of = "described" -> X!PropertyAttribute(v, c.seq[n], c.d, c.inh, c.i)

AreSteps(f, c, r, m) ==
    f = [n \in 0 .. m |-> IF n = 0 THEN r ELSE StepOf(c, f[n - 1], n)]

\* Each of them has a value for every number of steps.
LEMMA StepsExist ==
    ASSUME NEW c, NEW r, NEW n \in Nat
    PROVE  \E f : AreSteps(f, c, r, n)
<1> DEFINE Exist == {m \in Nat : \E f : AreSteps(f, c, r, m)}
<1>1. 0 \in Exist
  <2>1. [k \in 0 .. 0 |-> r] =
            [k \in 0 .. 0 |-> IF k = 0 THEN r ELSE StepOf(c, [j \in 0 .. 0 |-> r][k - 1], k)]
    OBVIOUS
  <2> QED
    BY <2>1 DEF AreSteps
<1>2. ASSUME NEW l \in 1 .. n, l - 1 \in Exist PROVE l \in Exist
  <2> DEFINE m == l - 1
  <2>0. m \in Nat /\ l = m + 1
    OBVIOUS
  <2>1. PICK f : f = [k \in 0 .. m |-> IF k = 0 THEN r ELSE StepOf(c, f[k - 1], k)]
    BY <1>2 DEF AreSteps
  <2> DEFINE h == [k \in 0 .. l |-> IF k <= m THEN f[k] ELSE StepOf(c, f[m], k)]
  <2> HIDE DEF m
  <2>2. ASSUME NEW k \in 0 .. l
        PROVE  h[k] = IF k = 0 THEN r ELSE StepOf(c, h[k - 1], k)
    <3>1. CASE k = 0
      BY <2>0, <2>1, <3>1
    <3>2. CASE k # 0 /\ k <= m
      <4>1. k \in 0 .. m /\ k - 1 \in 0 .. l /\ k - 1 <= m
        BY <2>0, <3>2
      <4>2. h[k] = f[k] /\ h[k - 1] = f[k - 1]
        BY <3>2, <4>1
      <4>3. f[k] = StepOf(c, f[k - 1], k)
        BY <2>1, <3>2, <4>1
      <4> QED
        BY <3>2, <4>2, <4>3
    <3>3. CASE k = l
      <4>1. h[k] = StepOf(c, f[m], k) /\ h[k - 1] = f[m] /\ k # 0
        BY <2>0, <3>3
      <4> QED
        BY <4>1
    <3> QED
      BY <2>0, <3>1, <3>2, <3>3
  <2>3. h = [k \in 0 .. l |-> IF k = 0 THEN r ELSE StepOf(c, h[k - 1], k)]
    BY <2>2
  <2>4. l \in Nat
    OBVIOUS
  <2> HIDE DEF h
  <2> QED
    BY <2>3, <2>4 DEF AreSteps
<1>3. \A m \in 0 .. n : m \in Exist
  <2> HIDE DEF Exist
  <2> QED
    BY <1>1, <1>2, UpTo
<1> QED
  BY <1>3

\* serd_reader_read_chunk, callback by callback
LEMMA ChunkSteps ==
    ASSUME NEW s, NEW chunk, Len(chunk) \in Nat
    PROVE  \E f : /\ f[0] = s
                  /\ \A n \in 1 .. Len(chunk) : f[n] = S!Callback(f[n - 1], chunk[n])
                  /\ S!ReadChunk(s, chunk) = f[Len(chunk)]
<1> DEFINE Next1(f) == [n \in 0 .. Len(chunk) |->
                           IF n = 0 THEN s ELSE S!Callback(f[n - 1], chunk[n])]
           after == CHOOSE f : f = Next1(f)
<1>1. \E f : f = Next1(f)
  <2>0. \E c : c.of = "chunk" /\ c.seq = chunk
    <3> WITNESS [of |-> "chunk", seq |-> chunk]
    <3> QED
      OBVIOUS
  <2>c. PICK c : c.of = "chunk" /\ c.seq = chunk
    BY <2>0
  <2>1. PICK f : AreSteps(f, c, s, Len(chunk))
    BY StepsExist
  <2>2. \A v, n : StepOf(c, v, n) = S!Callback(v, chunk[n])
    BY <2>c DEF StepOf
  <2>3. f = Next1(f)
    BY <2>1, <2>2 DEF AreSteps
  <2> QED
    BY <2>3
<1>2. after = Next1(after)
  <2> HIDE DEF Next1
  <2> QED
    BY <1>1
<1>3. S!ReadChunk(s, chunk) = after[Len(chunk)]
  BY DEF S!ReadChunk
<1> HIDE DEF after
<1>4. after[0] = s /\ \A n \in 1 .. Len(chunk) : after[n] = S!Callback(after[n - 1], chunk[n])
  BY <1>2
<1> QED
  BY <1>3, <1>4

-----------------------------------------------------------------------------
(***************************************************************************)
(* Sequences of anything.                                                  *)
(***************************************************************************)
IsSeq(s) == \E T : s \in Seq(T)

LEMMA SeqFacts ==
    ASSUME NEW s, IsSeq(s)
    PROVE  /\ Len(s) \in Nat /\ DOMAIN s = 1 .. Len(s)
           /\ s = <<>> <=> Len(s) = 0
<1>1. PICK T : s \in Seq(T)
  BY DEF IsSeq
<1> QED
  BY <1>1, LenProperties, EmptySeq

LEMMA SeqsEqual ==
    ASSUME NEW s, NEW t, IsSeq(s), IsSeq(t), Len(s) = Len(t),
           \A n \in 1 .. Len(s) : s[n] = t[n]
    PROVE  s = t
<1>1. PICK T : s \in Seq(T)
  BY DEF IsSeq
<1>2. PICK U : t \in Seq(U)
  BY DEF IsSeq
<1>3. s \in Seq(T \cup U) /\ t \in Seq(T \cup U)
  BY <1>1, <1>2, SeqMonotonic
<1> QED
  BY <1>3, SeqEqual

LEMMA SeqByDomain ==
    ASSUME NEW n \in Nat, NEW s, s = [j \in 1 .. n |-> s[j]]
    PROVE  IsSeq(s) /\ Len(s) = n
<1>1. s \in [1 .. n -> {s[j] : j \in 1 .. n}]
  BY Zenon
<1>2. s \in Seq({s[j] : j \in 1 .. n})
  BY <1>1, SeqDef
<1>3. DOMAIN s = 1 .. n /\ DOMAIN s = 1 .. Len(s) /\ Len(s) \in Nat
  BY <1>1, <1>2, LenProperties
<1> QED
  BY <1>2, <1>3 DEF IsSeq

LEMMA Appended ==
    ASSUME NEW s, IsSeq(s), NEW e
    PROVE  /\ IsSeq(Append(s, e)) /\ Len(Append(s, e)) = Len(s) + 1
           /\ DOMAIN Append(s, e) = 1 .. Len(s) + 1
           /\ \A n \in 1 .. Len(s) : Append(s, e)[n] = s[n]
           /\ Append(s, e)[Len(s) + 1] = e
           /\ Append(s, e) # <<>> /\ Last(Append(s, e)) = e
<1>1. PICK T : s \in Seq(T)
  BY DEF IsSeq
<1>2. s \in Seq(T \cup {e}) /\ e \in T \cup {e}
  BY <1>1, SeqMonotonic
<1>3. /\ Append(s, e) \in Seq(T \cup {e}) /\ Append(s, e) # <<>>
      /\ Len(Append(s, e)) = Len(s) + 1
      /\ \A n \in 1 .. Len(s) : Append(s, e)[n] = s[n]
      /\ Append(s, e)[Len(s) + 1] = e
  BY <1>2, AppendProperties
<1>4. IsSeq(Append(s, e))
  BY <1>3 DEF IsSeq
<1>5. DOMAIN Append(s, e) = 1 .. Len(s) + 1
  BY <1>3, <1>4, SeqFacts
<1> QED
  BY <1>3, <1>4, <1>5 DEF Last

LEMMA Concatenated ==
    ASSUME NEW s, NEW t, IsSeq(s), IsSeq(t)
    PROVE  /\ IsSeq(s \o t) /\ Len(s \o t) = Len(s) + Len(t)
           /\ \A n \in 1 .. Len(s) : (s \o t)[n] = s[n]
           /\ \A n \in 1 .. Len(t) : (s \o t)[Len(s) + n] = t[n]
<1>1. PICK T : s \in Seq(T)
  BY DEF IsSeq
<1>2. PICK U : t \in Seq(U)
  BY DEF IsSeq
<1>3. s \in Seq(T \cup U) /\ t \in Seq(T \cup U)
  BY <1>1, <1>2, SeqMonotonic
<1>4. /\ s \o t \in Seq(T \cup U) /\ Len(s \o t) = Len(s) + Len(t)
      /\ \A n \in 1 .. Len(s) + Len(t) :
            (s \o t)[n] = IF n <= Len(s) THEN s[n] ELSE t[n - Len(s)]
  BY <1>3, ConcatProperties
<1>5. Len(s) \in Nat /\ Len(t) \in Nat
  BY SeqFacts
<1>6. ASSUME NEW n \in 1 .. Len(t) PROVE (s \o t)[Len(s) + n] = t[n]
  <2>1. Len(s) + n \in 1 .. Len(s) + Len(t) /\ ~(Len(s) + n <= Len(s)) /\ (Len(s) + n) - Len(s) = n
    BY <1>5
  <2> QED
    BY <1>4, <2>1
<1>7. \A n \in 1 .. Len(s) : (s \o t)[n] = s[n]
  BY <1>4, <1>5
<1> QED
  BY <1>4, <1>6, <1>7 DEF IsSeq

LEMMA TailOf ==
    ASSUME NEW s, IsSeq(s), s # <<>>
    PROVE  /\ IsSeq(Tail(s)) /\ Len(s) = Len(Tail(s)) + 1 /\ Head(s) = s[1]
           /\ \A n \in 1 .. Len(Tail(s)) : Tail(s)[n] = s[n + 1]
<1>1. PICK T : s \in Seq(T)
  BY DEF IsSeq
<1>2. /\ Tail(s) \in Seq(T) /\ Len(Tail(s)) = Len(s) - 1
      /\ \A n \in 1 .. Len(Tail(s)) : Tail(s)[n] = s[n + 1]
  BY <1>1, HeadTailProperties
<1>3. Len(s) \in Nat
  BY SeqFacts
<1>4. Head(s) = s[1]
  BY <1>1
<1> QED
  BY <1>2, <1>3, <1>4 DEF IsSeq

\* The first of a queue moves behind what was taken from it before.
LEMMA MovedOver ==
    ASSUME NEW s, NEW q, IsSeq(s), IsSeq(q), q # <<>>
    PROVE  Append(s, Head(q)) \o Tail(q) = s \o q
<1> DEFINE s1 == Append(s, Head(q))
           q1 == Tail(q)
<1>1. /\ IsSeq(s1) /\ Len(s1) = Len(s) + 1 /\ s1[Len(s) + 1] = q[1]
      /\ \A n \in 1 .. Len(s) : s1[n] = s[n]
  BY Appended, TailOf
<1>2. /\ IsSeq(q1) /\ Len(q) = Len(q1) + 1
      /\ \A n \in 1 .. Len(q1) : q1[n] = q[n + 1]
  BY TailOf
<1>3. Len(s) \in Nat /\ Len(q1) \in Nat
  BY <1>2, SeqFacts
<1> HIDE DEF s1, q1
<1>4. /\ IsSeq(s1 \o q1) /\ Len(s1 \o q1) = Len(s1) + Len(q1)
      /\ \A n \in 1 .. Len(s1) : (s1 \o q1)[n] = s1[n]
      /\ \A n \in 1 .. Len(q1) : (s1 \o q1)[Len(s1) + n] = q1[n]
  <2>1. IsSeq(s1) /\ IsSeq(q1)
    BY <1>1, <1>2
  <2> QED
    BY <2>1, Concatenated
<1>5. /\ IsSeq(s \o q) /\ Len(s \o q) = Len(s) + Len(q)
      /\ \A n \in 1 .. Len(s) : (s \o q)[n] = s[n]
      /\ \A n \in 1 .. Len(q) : (s \o q)[Len(s) + n] = q[n]
  BY Concatenated
<1>6. ASSUME NEW n \in 1 .. Len(s) + Len(q)
      PROVE  (s1 \o q1)[n] = (s \o q)[n]
  <2>1. CASE n <= Len(s)
    <3>1. n \in 1 .. Len(s) /\ n \in 1 .. Len(s1)
      BY <1>1, <1>3, <2>1
    <3> QED
      BY <3>1, <1>1, <1>4, <1>5
  <2>2. CASE n = Len(s) + 1
    <3>1. n \in 1 .. Len(s1) /\ 1 \in 1 .. Len(q)
      BY <1>1, <1>2, <1>3, <2>2
    <3> QED
      BY <3>1, <2>2, <1>1, <1>4, <1>5
  <2>3. CASE n > Len(s) + 1
    <3> DEFINE k == n - (Len(s) + 1)
    <3>1. /\ k \in 1 .. Len(q1) /\ k + 1 \in 1 .. Len(q)
          /\ n = Len(s1) + k /\ n = Len(s) + (k + 1)
      BY <1>1, <1>2, <1>3, <2>3
    <3> HIDE DEF k
    <3> QED
      BY <3>1, <1>2, <1>4, <1>5
  <2>4. n <= Len(s) \/ n = Len(s) + 1 \/ n > Len(s) + 1
    BY <1>2, <1>3
  <2> QED
    BY <2>1, <2>2, <2>3, <2>4, Zenon
<1>7. Len(s1 \o q1) = Len(s \o q)
  BY <1>1, <1>2, <1>3, <1>4, <1>5
<1>8. s1 \o q1 = s \o q
  BY <1>4, <1>5, <1>6, <1>7, SeqsEqual
<1> QED
  BY <1>8 DEF s1, q1

-----------------------------------------------------------------------------
(***************************************************************************)
(* The reader that uses serd: its invariant.                               *)
(***************************************************************************)
SerdFields == {"syntax", "flags", "scoped", "base", "prefixes", "buffer", "last_error",
               "last_error_requires_skip", "end_flag"}

QuadResults(buffer) == [j \in 1 .. Len(buffer) |-> <<"quad">> \o buffer[j]]

\* What was returned, and the quads that wait.
All == given \o QuadResults(serd.buffer)

SerdTypes ==
    /\ DOMAIN serd = SerdFields /\ serd.end_flag \in BOOLEAN
    /\ IsSeq(given) /\ IsSeq(serd.buffer)
    /\ \A k \in 1 .. Len(serd.buffer) : IsSeq(serd.buffer[k])
    /\ failed \in BOOLEAN /\ call \in {"next", "ended"}
    /\ doc \in Documents /\ pos \in 1 .. Len(doc) + 1

Below(set, n) == {j \in set : j < n}

\* As many quads and errors as the chunks that were read have.
Counted ==
    /\ IsFiniteSet(EarlierOf(GoodStatements, <<pos, 1>>))
    /\ Cardinality(QuadsIn(All)) = Cardinality(EarlierOf(GoodStatements, <<pos, 1>>))
    /\ Cardinality(Below(FaultyChunks, pos)) =
          Cardinality(DOMAIN given \ QuadsIn(given)) + IF serd.last_error = S!NoError THEN 0 ELSE 1

\* As long as the stream is good, the reader is as the document up to here says.
Reading ==
    ~failed =>
        /\ serd.base = BaseAt(<<pos, 1>>) /\ serd.prefixes = PrefixesAt(<<pos, 1>>)
        /\ Counted
        /\ serd.last_error_requires_skip => serd.last_error # S!NoError /\ InLine
        /\ serd.end_flag => pos > Len(doc)

\* The statements of the chunks that were read are there.
NoneLost == Cardinality(EarlierOf(GoodStatements, <<pos, 1>>)) <= Cardinality(QuadsIn(All))

\* The failure was told, or what was told is the error behind which a line was skipped.
Told ==
    /\ serd.last_error = S!NoError /\ serd.buffer = <<>> /\ given # <<>>
    /\ Last(given) = <<"error", "Io">> \/ (InLine /\ IsError(Last(given)))

\* After a failure of the stream nothing is lost, and the failure is the last error,
\* unless it was met behind another.
Failing ==
    failed =>
        /\ serd.end_flag /\ ~serd.last_error_requires_skip
        /\ NoneLost
        /\ serd.last_error = "Io" \/ Told

SerdInv ==
    format = "serd" =>
        /\ SerdTypes /\ InOrder(All) /\ Reading /\ Failing
        /\ call = "ended" => S!Ready(serd) = "end"

-----------------------------------------------------------------------------
(***************************************************************************)
(* Places of the document.                                                 *)
(***************************************************************************)

LEMMA DocumentFacts ==
    ASSUME doc \in Documents
    PROVE  /\ Len(doc) \in Nat /\ DOMAIN doc = 1 .. Len(doc)
           /\ \A j \in 1 .. Len(doc) :
                /\ IsSeq(doc[j]) /\ Len(doc[j]) \in Nat /\ DOMAIN doc[j] = 1 .. Len(doc[j])
                /\ \A n \in 1 .. Len(doc[j]) : doc[j][n].k \in {"base", "prefix", "stmt", "syntax"}
<1>1. doc \in Seq(Seq(Callbacks))
  BY DocumentsAssumption
<1>2. Len(doc) \in Nat /\ DOMAIN doc = 1 .. Len(doc) /\ doc \in [1 .. Len(doc) -> Seq(Callbacks)]
  BY <1>1, LenProperties
<1>3. ASSUME NEW j \in 1 .. Len(doc)
      PROVE  /\ IsSeq(doc[j]) /\ Len(doc[j]) \in Nat /\ DOMAIN doc[j] = 1 .. Len(doc[j])
             /\ \A n \in 1 .. Len(doc[j]) : doc[j][n].k \in {"base", "prefix", "stmt", "syntax"}
  <2>1. doc[j] \in Seq(Callbacks)
    BY <1>2
  <2>2. /\ Len(doc[j]) \in Nat /\ DOMAIN doc[j] = 1 .. Len(doc[j])
        /\ doc[j] \in [1 .. Len(doc[j]) -> Callbacks]
    BY <2>1, LenProperties
  <2>3. IsSeq(doc[j])
    BY <2>1 DEF IsSeq
  <2>4. \A n \in 1 .. Len(doc[j]) : doc[j][n].k \in {"base", "prefix", "stmt", "syntax"}
    BY <2>2, DocumentsAssumption
  <2> QED
    BY <2>2, <2>3, <2>4
<1> QED
  BY <1>2, <1>3

LEMMA PlacesArePairs ==
    ASSUME doc \in Documents, NEW q
    PROVE  q \in Places <=>
              \E j \in 1 .. Len(doc) : \E n \in 1 .. Len(doc[j]) : q = <<j, n>>
<1>1. q \in Places <=> \E j \in DOMAIN doc : q \in {j} \X DOMAIN doc[j]
  BY DEF Places
<1>2. \A j \in 1 .. Len(doc) : q \in {j} \X DOMAIN doc[j] <=> \E n \in 1 .. Len(doc[j]) : q = <<j, n>>
  BY DocumentFacts
<1> QED
  BY <1>1, <1>2, DocumentFacts

\* What comes before the first place, behind a place, behind a chunk, behind the last.
LEMMA EarlierThanFirst ==
    ASSUME doc \in Documents, NEW set \in SUBSET Places
    PROVE  EarlierOf(set, <<1, 1>>) = {}
<1> SUFFICES ASSUME NEW q \in set, Before(q, <<1, 1>>) PROVE FALSE
  BY DEF EarlierOf
<1>1. PICK j, n : j \in 1 .. Len(doc) /\ n \in 1 .. Len(doc[j]) /\ q = <<j, n>>
  BY PlacesArePairs
<1>2. j \in Nat /\ n \in Nat /\ j >= 1 /\ n >= 1
  BY <1>1, DocumentFacts
<1> QED
  BY <1>1, <1>2 DEF Before

LEMMA EarlierThanNext ==
    ASSUME doc \in Documents, NEW set \in SUBSET Places,
           NEW j \in 1 .. Len(doc), NEW n \in 1 .. Len(doc[j])
    PROVE  EarlierOf(set, <<j, n + 1>>) =
              EarlierOf(set, <<j, n>>) \cup (set \cap {<<j, n>>})
<1>1. j \in Nat /\ n \in Nat
  BY DocumentFacts
<1>2. ASSUME NEW q \in set
      PROVE  Before(q, <<j, n + 1>>) <=> Before(q, <<j, n>>) \/ q = <<j, n>>
  <2>1. PICK i, m : i \in 1 .. Len(doc) /\ m \in 1 .. Len(doc[i]) /\ q = <<i, m>>
    BY PlacesArePairs
  <2>2. i \in Nat /\ m \in Nat
    BY <2>1, DocumentFacts
  <2> QED
    BY <1>1, <2>1, <2>2 DEF Before
<1> QED
  BY <1>2 DEF EarlierOf

LEMMA EarlierThanChunk ==
    ASSUME doc \in Documents, NEW set \in SUBSET Places, NEW j \in 1 .. Len(doc)
    PROVE  EarlierOf(set, <<j + 1, 1>>) = EarlierOf(set, <<j, Len(doc[j]) + 1>>)
<1>1. j \in Nat /\ Len(doc[j]) \in Nat
  BY DocumentFacts
<1>2. ASSUME NEW q \in set
      PROVE  Before(q, <<j + 1, 1>>) <=> Before(q, <<j, Len(doc[j]) + 1>>)
  <2>1. PICK i, m : i \in 1 .. Len(doc) /\ m \in 1 .. Len(doc[i]) /\ q = <<i, m>>
    BY PlacesArePairs
  <2>2. i \in Nat /\ m \in Nat /\ 1 <= m /\ m <= Len(doc[i]) /\ Len(doc[i]) \in Nat
    BY <2>1, DocumentFacts
  <2>3. q[1] = i /\ q[2] = m
    BY <2>1
  <2>4. Before(q, <<j + 1, 1>>) <=> i <= j
    BY <1>1, <2>2, <2>3 DEF Before
  <2>5. Before(q, <<j, Len(doc[j]) + 1>>) <=> i <= j
    BY <1>1, <2>2, <2>3 DEF Before
  <2> QED
    BY <2>4, <2>5
<1> QED
  BY <1>2 DEF EarlierOf

LEMMA EarlierThanEnd ==
    ASSUME doc \in Documents, NEW set \in SUBSET Places
    PROVE  EarlierOf(set, <<Len(doc) + 1, 1>>) = set
<1>1. ASSUME NEW q \in set PROVE Before(q, <<Len(doc) + 1, 1>>)
  <2>1. PICK i, m : i \in 1 .. Len(doc) /\ m \in 1 .. Len(doc[i]) /\ q = <<i, m>>
    BY PlacesArePairs
  <2>2. i < Len(doc) + 1
    BY <2>1, DocumentFacts
  <2> QED
    BY <2>1, <2>2 DEF Before
<1> QED
  BY <1>1 DEF EarlierOf

\* What comes before a chunk comes before its places.
LEMMA EarlierInChunk ==
    ASSUME doc \in Documents, NEW set \in SUBSET Places, NEW j \in Nat, NEW n \in Nat, n >= 1
    PROVE  EarlierOf(set, <<j, 1>>) \subseteq EarlierOf(set, <<j, n>>)
<1>1. ASSUME NEW q \in set, Before(q, <<j, 1>>)
      PROVE  Before(q, <<j, n>>)
  <2>1. PICK i, m : i \in 1 .. Len(doc) /\ m \in 1 .. Len(doc[i]) /\ q = <<i, m>>
    BY PlacesArePairs
  <2>2. i \in Nat /\ m \in Nat /\ 1 <= m
    BY <2>1, DocumentFacts
  <2> QED
    BY <1>1, <2>1, <2>2 DEF Before
<1> QED
  BY <1>1 DEF EarlierOf

\* A place of its set is the latest behind it.
LEMMA LatestAtNext ==
    ASSUME doc \in Documents, NEW set \in SUBSET Places,
           NEW j \in 1 .. Len(doc), NEW n \in 1 .. Len(doc[j])
    PROVE  LatestOf(EarlierOf(set, <<j, n + 1>>)) =
              IF <<j, n>> \in set THEN {<<j, n>>} ELSE LatestOf(EarlierOf(set, <<j, n>>))
<1> DEFINE pl == <<j, n>>
           old == EarlierOf(set, pl)
           new == EarlierOf(set, <<j, n + 1>>)
<1>1. new = old \cup (set \cap {pl})
  BY EarlierThanNext
<1>2. CASE pl \notin set
  BY <1>1, <1>2
<1>3. CASE pl \in set
  <2>0. j \in Nat /\ n \in Nat
    BY DocumentFacts
  <2>1. \A q \in old : Before(q, pl)
    BY DEF EarlierOf
  <2>2. ASSUME NEW q \in old PROVE ~Before(pl, q)
    <3>1. PICK i, m : i \in 1 .. Len(doc) /\ m \in 1 .. Len(doc[i]) /\ q = <<i, m>>
      BY PlacesArePairs DEF EarlierOf
    <3>2. i \in Nat /\ m \in Nat
      BY <3>1, DocumentFacts
    <3> QED
      BY <2>0, <2>1, <3>1, <3>2 DEF Before
  <2>3. ~Before(pl, pl)
    BY <2>0 DEF Before
  <2>4. new = old \cup {pl}
    BY <1>1, <1>3
  <2> HIDE DEF pl, old, new
  <2>5. LatestOf(new) = {pl}
    BY <2>1, <2>2, <2>3, <2>4 DEF LatestOf
  <2> QED
    BY <1>3, <2>5 DEF pl, new
<1> QED
  BY <1>2, <1>3

\* The base and the prefixes: at the first place, behind a callback, behind a chunk.
LEMMA AtFirst ==
    ASSUME doc \in Documents
    PROVE  BaseAt(<<1, 1>>) = Base /\ PrefixesAt(<<1, 1>>) = [q \in {} |-> ""]
<1>1. \A set \in SUBSET Places : LatestOf(EarlierOf(set, <<1, 1>>)) = {}
  BY EarlierThanFirst DEF LatestOf
<1>2. Bases(<<1, 1>>) = {}
  BY <1>1 DEF Bases
<1>3. \A m : Definitions(m, <<1, 1>>) = {}
  BY <1>1 DEF Definitions
<1>4. {m \in Names : Definitions(m, <<1, 1>>) # {}} = {}
  BY <1>3
<1>5. PrefixesAt(<<1, 1>>) = [q \in {} |-> ""]
  BY <1>4 DEF PrefixesAt
<1> QED
  BY <1>2, <1>5 DEF BaseAt

LEMMA BaseAtNext ==
    ASSUME doc \in Documents, NEW j \in 1 .. Len(doc), NEW n \in 1 .. Len(doc[j])
    PROVE  BaseAt(<<j, n + 1>>) =
              IF IsBase(doc[j][n]) THEN doc[j][n].v ELSE BaseAt(<<j, n>>)
<1> DEFINE pl == <<j, n>>
           set == {q \in Places : IsBase(At(q))}
<1>1. pl \in Places /\ At(pl) = doc[j][n]
  BY PlacesArePairs DEF At
<1>2. pl \in set <=> IsBase(doc[j][n])
  BY <1>1
<1>3. Bases(<<j, n + 1>>) = IF pl \in set THEN {pl} ELSE Bases(pl)
  <2>1. set \in SUBSET Places
    OBVIOUS
  <2> QED
    BY <2>1, LatestAtNext DEF Bases
<1> HIDE DEF pl, set
<1>4. CASE pl \in set
  <2>1. The({pl}) = pl
    BY DEF The
  <2> QED
    BY <1>1, <1>2, <1>3, <1>4, <2>1 DEF BaseAt, pl
<1>5. CASE pl \notin set
  <2>1. Bases(<<j, n + 1>>) = Bases(<<j, n>>)
    BY <1>3, <1>5 DEF pl
  <2>2. BaseAt(<<j, n + 1>>) = BaseAt(<<j, n>>)
    BY <2>1 DEF BaseAt
  <2> QED
    BY <1>2, <1>5, <2>2
<1> QED
  BY <1>4, <1>5

\* The prefixes after a definition
With(prefixes, c) ==
    [q \in DOMAIN prefixes \cup {c.n} |-> IF q = c.n THEN c.v ELSE prefixes[q]]

LEMMA PrefixesAtNext ==
    ASSUME doc \in Documents, NEW j \in 1 .. Len(doc), NEW n \in 1 .. Len(doc[j])
    PROVE  PrefixesAt(<<j, n + 1>>) =
              IF Defines(doc[j][n], doc[j][n].n) THEN With(PrefixesAt(<<j, n>>), doc[j][n])
                                                 ELSE PrefixesAt(<<j, n>>)
<1> SUFFICES ASSUME NEW c, c = doc[j][n], NEW old, old = PrefixesAt(<<j, n>>)
             PROVE  PrefixesAt(<<j, n + 1>>) =
                       IF Defines(c, c.n) THEN With(old, c) ELSE old
  OBVIOUS
<1> DEFINE pl == <<j, n>>
           next == <<j, n + 1>>
           set(m) == {q \in Places : Defines(At(q), m)}
           defined == {m \in Names : Definitions(m, pl) # {}}
<1>1. pl \in Places /\ At(pl) = c
  BY PlacesArePairs DEF At
<1>2. ASSUME NEW m
      PROVE  Definitions(m, next) = IF Defines(c, m) THEN {pl} ELSE Definitions(m, pl)
  <2>1. set(m) \in SUBSET Places
    OBVIOUS
  <2>2. pl \in set(m) <=> Defines(c, m)
    BY <1>1
  <2> HIDE DEF set
  <2>3. LatestOf(EarlierOf(set(m), next)) =
            IF pl \in set(m) THEN {pl} ELSE LatestOf(EarlierOf(set(m), pl))
    BY <2>1, LatestAtNext
  <2> QED
    BY <2>2, <2>3 DEF Definitions, set
<1>3. old = [m \in defined |-> At(The(Definitions(m, pl))).v]
  BY DEF PrefixesAt
<1>4. CASE ~Defines(c, c.n)
  <2>1. \A m : ~Defines(c, m)
    BY <1>4 DEF Defines
  <2>2. \A m : Definitions(m, next) = Definitions(m, pl)
    BY <1>2, <2>1
  <2> QED
    BY <1>4, <2>2 DEF PrefixesAt
<1>5. CASE Defines(c, c.n)
  <2>1. \A m : Defines(c, m) <=> m = c.n
    BY <1>5 DEF Defines
  <2>2. c.n \in Names
    BY <1>1, <1>5 DEF Names, Defines
  <2>3. {m \in Names : Definitions(m, next) # {}} = defined \cup {c.n}
    BY <1>2, <2>1, <2>2
  <2>4. ASSUME NEW m \in defined \cup {c.n}
        PROVE  At(The(Definitions(m, next))).v = IF m = c.n THEN c.v ELSE old[m]
    <3>1. CASE m = c.n
      <4>1. Definitions(m, next) = {pl}
        BY <1>2, <2>1, <3>1
      <4>2. The({pl}) = pl
        BY DEF The
      <4> QED
        BY <1>1, <3>1, <4>1, <4>2
    <3>2. CASE m # c.n
      <4>1. Definitions(m, next) = Definitions(m, pl)
        BY <1>2, <2>1, <3>2
      <4>2. m \in defined
        BY <3>2
      <4> QED
        BY <1>3, <3>2, <4>1, <4>2
    <3> QED
      BY <3>1, <3>2
  <2>5. DOMAIN old = defined
    BY <1>3
  <2>6. PrefixesAt(next) = [m \in defined \cup {c.n} |->
                               At(The(Definitions(m, next))).v]
    BY <2>3 DEF PrefixesAt
  <2> HIDE DEF defined, pl, next
  <2>7. PrefixesAt(next) = [m \in defined \cup {c.n} |-> IF m = c.n THEN c.v ELSE old[m]]
    BY <2>4, <2>6
  <2> QED
    BY <1>5, <2>5, <2>7 DEF next, With
<1> QED
  BY <1>4, <1>5

LEMMA AtNextChunk ==
    ASSUME doc \in Documents, NEW j \in 1 .. Len(doc)
    PROVE  /\ BaseAt(<<j + 1, 1>>) = BaseAt(<<j, Len(doc[j]) + 1>>)
           /\ PrefixesAt(<<j + 1, 1>>) = PrefixesAt(<<j, Len(doc[j]) + 1>>)
<1>1. \A set \in SUBSET Places :
         LatestOf(EarlierOf(set, <<j + 1, 1>>)) = LatestOf(EarlierOf(set, <<j, Len(doc[j]) + 1>>))
  BY EarlierThanChunk
<1>2. Bases(<<j + 1, 1>>) = Bases(<<j, Len(doc[j]) + 1>>)
  BY <1>1 DEF Bases
<1>3. \A m : Definitions(m, <<j + 1, 1>>) = Definitions(m, <<j, Len(doc[j]) + 1>>)
  BY <1>1 DEF Definitions
<1>4. BaseAt(<<j + 1, 1>>) = BaseAt(<<j, Len(doc[j]) + 1>>)
  BY <1>2 DEF BaseAt
<1>5. PrefixesAt(<<j + 1, 1>>) = PrefixesAt(<<j, Len(doc[j]) + 1>>)
  BY <1>3 DEF PrefixesAt
<1> QED
  BY <1>4, <1>5

-----------------------------------------------------------------------------
(***************************************************************************)
(* Terms depend on the reader's configuration, its base and its prefixes.  *)
(***************************************************************************)
Alike(s, u) ==
    /\ s.syntax = u.syntax /\ s.flags = u.flags /\ s.scoped = u.scoped
    /\ s.base = u.base /\ s.prefixes = u.prefixes

LEMMA TermsAlike ==
    ASSUME NEW s, NEW u, Alike(s, u), NEW t
    PROVE  S!MakeTerms(s, t) = S!MakeTerms(u, t)
<1>1. \A r : S!get_iri(s, r) = S!get_iri(u, r)
  BY DEF Alike, S!get_iri, S!Iri, S!AllowsPrefixes
<1>2. \A p, r : S!get_prefixed_iri(s, p, r) = S!get_prefixed_iri(u, p, r)
  BY DEF Alike, S!get_prefixed_iri, S!Expanded, S!AllowsPrefixes
<1>3. \A d : S!IriOf(s, d) = S!IriOf(u, d)
  BY <1>1, <1>2 DEF S!IriOf
<1>4. \A x, d : S!get_literal(s, x, d) = S!get_literal(u, x, d)
  BY <1>3 DEF S!get_literal
<1>5. \A g, b : S!get_bnode(s, g, b) = S!get_bnode(u, g, b)
  BY DEF Alike, S!get_bnode
<1>6. \A g, d : S!TermNode(s, g, d) = S!TermNode(u, g, d)
  BY <1>3, <1>4, <1>5 DEF S!TermNode
<1> QED
  BY <1>6 DEF S!MakeTerms

-----------------------------------------------------------------------------
(***************************************************************************)
(* Results, one more at the end.                                           *)
(***************************************************************************)

LEMMA QuadIsNoError ==
    ASSUME NEW b, IsSeq(b)
    PROVE  ~IsError(<<"quad">> \o b)
<1>1. IsSeq(<<"quad">>) /\ Len(<<"quad">>) = 1 /\ <<"quad">>[1] = "quad"
  <2>1. <<"quad">> \in Seq({"quad"})
    OBVIOUS
  <2> QED
    BY <2>1 DEF IsSeq
<1>2. \A n \in 1 .. 1 : (<<"quad">> \o b)[n] = <<"quad">>[n]
  BY <1>1, Concatenated
<1>3. 1 \in 1 .. 1
  OBVIOUS
<1> QED
  BY <1>1, <1>2, <1>3 DEF IsError

LEMMA QuadsAreFinite ==
    ASSUME NEW r, IsSeq(r)
    PROVE  /\ DOMAIN r = 1 .. Len(r) /\ Len(r) \in Nat /\ QuadsIn(r) \subseteq 1 .. Len(r)
           /\ IsFiniteSet(QuadsIn(r)) /\ Cardinality(QuadsIn(r)) \in Nat
           /\ IsFiniteSet(DOMAIN r \ QuadsIn(r)) /\ Cardinality(DOMAIN r \ QuadsIn(r)) \in Nat
<1>1. DOMAIN r = 1 .. Len(r) /\ Len(r) \in Nat
  BY SeqFacts
<1>2. IsFiniteSet(1 .. Len(r))
  BY <1>1, FS_Interval
<1>3. QuadsIn(r) \subseteq 1 .. Len(r) /\ DOMAIN r \ QuadsIn(r) \subseteq 1 .. Len(r)
  BY <1>1 DEF QuadsIn
<1>4. IsFiniteSet(QuadsIn(r)) /\ IsFiniteSet(DOMAIN r \ QuadsIn(r))
  BY <1>2, <1>3, FS_Subset
<1> QED
  BY <1>1, <1>3, <1>4, FS_CardinalityType

LEMMA OneMoreQuad ==
    ASSUME NEW r, IsSeq(r), NEW e, ~IsError(e)
    PROVE  /\ QuadsIn(Append(r, e)) = QuadsIn(r) \cup {Len(r) + 1}
           /\ Cardinality(QuadsIn(Append(r, e))) = Cardinality(QuadsIn(r)) + 1
           /\ DOMAIN Append(r, e) \ QuadsIn(Append(r, e)) = DOMAIN r \ QuadsIn(r)
<1> DEFINE r1 == Append(r, e)
<1>1. /\ DOMAIN r1 = 1 .. Len(r) + 1 /\ r1[Len(r) + 1] = e
      /\ \A n \in 1 .. Len(r) : r1[n] = r[n]
  BY Appended
<1>2. DOMAIN r = 1 .. Len(r) /\ Len(r) \in Nat /\ IsFiniteSet(QuadsIn(r))
  BY QuadsAreFinite
<1> HIDE DEF r1
<1>3. QuadsIn(r1) = QuadsIn(r) \cup {Len(r) + 1}
  BY <1>1, <1>2 DEF QuadsIn
<1>4. Len(r) + 1 \notin QuadsIn(r) /\ Len(r) + 1 \notin DOMAIN r
  BY <1>2 DEF QuadsIn
<1>5. Cardinality(QuadsIn(r1)) = Cardinality(QuadsIn(r)) + 1
  BY <1>2, <1>3, <1>4, FS_AddElement
<1>6. DOMAIN r1 = DOMAIN r \cup {Len(r) + 1}
  BY <1>1, <1>2
<1> QED
  BY <1>3, <1>4, <1>5, <1>6 DEF r1

LEMMA OneMoreError ==
    ASSUME NEW r, IsSeq(r), NEW e, IsError(e)
    PROVE  /\ QuadsIn(Append(r, e)) = QuadsIn(r)
           /\ Cardinality(DOMAIN Append(r, e) \ QuadsIn(Append(r, e))) =
                 Cardinality(DOMAIN r \ QuadsIn(r)) + 1
<1> DEFINE r1 == Append(r, e)
<1>1. /\ DOMAIN r1 = 1 .. Len(r) + 1 /\ r1[Len(r) + 1] = e
      /\ \A n \in 1 .. Len(r) : r1[n] = r[n]
  BY Appended
<1>2. DOMAIN r = 1 .. Len(r) /\ Len(r) \in Nat /\ IsFiniteSet(DOMAIN r \ QuadsIn(r))
  BY QuadsAreFinite
<1> HIDE DEF r1
<1>3. QuadsIn(r1) = QuadsIn(r)
  BY <1>1, <1>2 DEF QuadsIn
<1>4. Len(r) + 1 \notin QuadsIn(r) /\ Len(r) + 1 \notin DOMAIN r
  BY <1>2 DEF QuadsIn
<1>5. DOMAIN r1 \ QuadsIn(r1) = (DOMAIN r \ QuadsIn(r)) \cup {Len(r) + 1}
  BY <1>1, <1>2, <1>3, <1>4
<1>6. Cardinality(DOMAIN r1 \ QuadsIn(r1)) = Cardinality(DOMAIN r \ QuadsIn(r)) + 1
  BY <1>2, <1>4, <1>5, FS_AddElement
<1> QED
  BY <1>3, <1>6 DEF r1

\* A statement after as many quads as there are statements before it
LEMMA InOrderQuad ==
    ASSUME NEW r, IsSeq(r), InOrder(r), NEW pl \in GoodStatements, NEW e, e = QuadAt(pl),
           ~IsError(e), Cardinality(EarlierOf(GoodStatements, pl)) = Cardinality(QuadsIn(r))
    PROVE  InOrder(Append(r, e))
<1> DEFINE r1 == Append(r, e)
           before(q, j) == {k \in q : k < j}
<1>1. /\ r1[Len(r) + 1] = e /\ \A n \in 1 .. Len(r) : r1[n] = r[n]
  BY Appended
<1>2. Len(r) \in Nat /\ QuadsIn(r) \subseteq 1 .. Len(r)
  BY QuadsAreFinite
<1>3. QuadsIn(r1) = QuadsIn(r) \cup {Len(r) + 1}
  BY OneMoreQuad
<1> HIDE DEF r1
<1> SUFFICES ASSUME NEW j \in QuadsIn(r1)
             PROVE  \E p \in GoodStatements :
                       /\ r1[j] = QuadAt(p)
                       /\ Cardinality(EarlierOf(GoodStatements, p)) =
                             Cardinality(before(QuadsIn(r1), j))
  BY DEF InOrder, r1
<1>4. CASE j \in QuadsIn(r)
  <2>1. before(QuadsIn(r1), j) = before(QuadsIn(r), j)
    BY <1>2, <1>3, <1>4
  <2>2. r1[j] = r[j]
    BY <1>1, <1>2, <1>4
  <2> QED
    BY <1>4, <2>1, <2>2 DEF InOrder
<1>5. CASE j = Len(r) + 1
  <2>1. before(QuadsIn(r1), j) = QuadsIn(r)
    BY <1>2, <1>3, <1>5
  <2> QED
    BY <1>1, <1>5, <2>1
<1> QED
  BY <1>3, <1>4, <1>5

LEMMA InOrderSame ==
    ASSUME NEW r, NEW r1, IsSeq(r), IsSeq(r1), InOrder(r1), Len(r) <= Len(r1),
           \A n \in 1 .. Len(r) : r[n] = r1[n]
    PROVE  InOrder(r)
<1>1. Len(r) \in Nat /\ Len(r1) \in Nat /\ DOMAIN r = 1 .. Len(r) /\ DOMAIN r1 = 1 .. Len(r1)
  BY SeqFacts
<1>2. QuadsIn(r) = {j \in QuadsIn(r1) : j \in 1 .. Len(r)}
  BY <1>1 DEF QuadsIn
<1> SUFFICES ASSUME NEW j \in QuadsIn(r)
             PROVE  \E p \in GoodStatements :
                       /\ r[j] = QuadAt(p)
                       /\ Cardinality(EarlierOf(GoodStatements, p)) =
                             Cardinality({k \in QuadsIn(r) : k < j})
  BY DEF InOrder
<1>3. j \in QuadsIn(r1) /\ r[j] = r1[j] /\ j \in 1 .. Len(r)
  BY <1>2
<1>4. {k \in QuadsIn(r) : k < j} = {k \in QuadsIn(r1) : k < j}
  <2>1. QuadsIn(r1) \subseteq 1 .. Len(r1)
    BY QuadsAreFinite
  <2> QED
    BY <1>1, <1>2, <1>3, <2>1
<1> QED
  BY <1>3, <1>4 DEF InOrder

LEMMA InOrderError ==
    ASSUME NEW r, IsSeq(r), NEW e, IsError(e), InOrder(r)
    PROVE  InOrder(Append(r, e))
<1>1. \A n \in 1 .. Len(r) : Append(r, e)[n] = r[n]
  BY Appended
<1>2. QuadsIn(r) \subseteq 1 .. Len(r) /\ QuadsIn(Append(r, e)) = QuadsIn(r)
  BY QuadsAreFinite, OneMoreError
<1> QED
  BY <1>1, <1>2 DEF InOrder

LEMMA AppendedBehind ==
    ASSUME NEW s, NEW q, IsSeq(s), IsSeq(q), NEW e
    PROVE  s \o Append(q, e) = Append(s \o q, e)
<1> DEFINE l == s \o Append(q, e)
           r == Append(s \o q, e)
<1>0. Len(s) \in Nat /\ Len(q) \in Nat
  BY SeqFacts
<1>1. /\ IsSeq(Append(q, e)) /\ Len(Append(q, e)) = Len(q) + 1
      /\ Append(q, e)[Len(q) + 1] = e /\ \A n \in 1 .. Len(q) : Append(q, e)[n] = q[n]
  BY Appended
<1>2. /\ IsSeq(l) /\ Len(l) = Len(s) + Len(Append(q, e))
      /\ \A n \in 1 .. Len(s) : l[n] = s[n]
      /\ \A n \in 1 .. Len(Append(q, e)) : l[Len(s) + n] = Append(q, e)[n]
  BY <1>1, Concatenated
<1>3. /\ IsSeq(s \o q) /\ Len(s \o q) = Len(s) + Len(q)
      /\ \A n \in 1 .. Len(s) : (s \o q)[n] = s[n]
      /\ \A n \in 1 .. Len(q) : (s \o q)[Len(s) + n] = q[n]
  BY Concatenated
<1>4. /\ IsSeq(r) /\ Len(r) = Len(s \o q) + 1 /\ r[Len(s \o q) + 1] = e
      /\ \A n \in 1 .. Len(s \o q) : r[n] = (s \o q)[n]
  BY <1>3, Appended
<1> HIDE DEF l, r
<1>5. ASSUME NEW n \in 1 .. Len(l) PROVE l[n] = r[n]
  <2>1. CASE n <= Len(s)
    <3>1. n \in 1 .. Len(s) /\ n \in 1 .. Len(s \o q)
      BY <1>0, <1>3, <2>1
    <3> QED
      BY <3>1, <1>2, <1>3, <1>4
  <2>2. CASE n > Len(s)
    <3> DEFINE k == n - Len(s)
    <3>1. k \in 1 .. Len(q) + 1 /\ n = Len(s) + k
      BY <1>0, <1>1, <1>2, <2>2
    <3> HIDE DEF k
    <3>2. l[n] = Append(q, e)[k]
      BY <1>1, <1>2, <3>1
    <3>3. CASE k = Len(q) + 1
      <4>1. n = Len(s \o q) + 1
        BY <1>0, <1>3, <3>1, <3>3
      <4> QED
        BY <1>1, <1>4, <3>2, <3>3, <4>1
    <3>4. CASE k # Len(q) + 1
      <4>1. k \in 1 .. Len(q) /\ n \in 1 .. Len(s \o q)
        BY <1>0, <1>3, <3>1, <3>4
      <4> QED
        BY <1>1, <1>3, <1>4, <3>1, <3>2, <4>1
    <3> QED
      BY <3>3, <3>4
  <2>3. n <= Len(s) \/ n > Len(s)
    BY <1>0, <1>1, <1>2
  <2> QED
    BY <2>1, <2>2, <2>3
<1>6. Len(l) = Len(r)
  BY <1>0, <1>1, <1>2, <1>3, <1>4
<1>7. l = r
  BY <1>2, <1>4, <1>5, <1>6, SeqsEqual
<1> QED
  BY <1>7 DEF l, r

\* What waits, one more at the end, and without the first
LEMMA Buffered ==
    ASSUME NEW b, IsSeq(b)
    PROVE  /\ IsSeq(QuadResults(b)) /\ Len(QuadResults(b)) = Len(b)
           /\ \A j \in 1 .. Len(b) : QuadResults(b)[j] = <<"quad">> \o b[j]
<1>1. Len(b) \in Nat
  BY SeqFacts
<1>2. QuadResults(b) = [j \in 1 .. Len(b) |-> QuadResults(b)[j]]
  BY DEF QuadResults
<1>3. IsSeq(QuadResults(b)) /\ Len(QuadResults(b)) = Len(b)
  BY <1>1, <1>2, SeqByDomain
<1> QED
  BY <1>3 DEF QuadResults

LEMMA BufferedMore ==
    ASSUME NEW b, IsSeq(b), NEW q
    PROVE  QuadResults(Append(b, q)) = Append(QuadResults(b), <<"quad">> \o q)
<1> DEFINE e == <<"quad">> \o q
           l == QuadResults(Append(b, q))
           r == Append(QuadResults(b), e)
<1>0. Len(b) \in Nat
  BY SeqFacts
<1>1. /\ IsSeq(Append(b, q)) /\ Len(Append(b, q)) = Len(b) + 1
      /\ Append(b, q)[Len(b) + 1] = q /\ \A n \in 1 .. Len(b) : Append(b, q)[n] = b[n]
  BY Appended
<1>2. /\ IsSeq(l) /\ Len(l) = Len(b) + 1
      /\ \A n \in 1 .. Len(b) + 1 : l[n] = <<"quad">> \o Append(b, q)[n]
  BY <1>1, Buffered
<1>3. /\ IsSeq(QuadResults(b)) /\ Len(QuadResults(b)) = Len(b)
      /\ \A n \in 1 .. Len(b) : QuadResults(b)[n] = <<"quad">> \o b[n]
  BY Buffered
<1> HIDE DEF e
<1>4. /\ IsSeq(r) /\ Len(r) = Len(b) + 1 /\ r[Len(b) + 1] = e
      /\ \A n \in 1 .. Len(b) : r[n] = QuadResults(b)[n]
  <2>1. Len(QuadResults(b)) = Len(b) /\ IsSeq(QuadResults(b))
    BY <1>3
  <2> QED
    BY <2>1, Appended
<1> HIDE DEF l, r
<1>5. ASSUME NEW n \in 1 .. Len(l) PROVE l[n] = r[n]
  <2>1. CASE n = Len(b) + 1
    BY <1>0, <1>1, <1>2, <1>4, <2>1 DEF e
  <2>2. CASE n # Len(b) + 1
    <3>1. n \in 1 .. Len(b) + 1
      BY <1>2
    <3>2. n \in 1 .. Len(b)
      BY <1>0, <2>2, <3>1
    <3> QED
      BY <1>1, <1>2, <1>3, <1>4, <3>1, <3>2
  <2> QED
    BY <2>1, <2>2
<1>6. Len(l) = Len(r)
  BY <1>2, <1>4
<1>7. l = r
  BY <1>2, <1>4, <1>5, <1>6, SeqsEqual
<1> QED
  BY <1>7 DEF l, r, e

LEMMA BufferedTail ==
    ASSUME NEW b, IsSeq(b), b # <<>>
    PROVE  /\ QuadResults(b) # <<>> /\ Head(QuadResults(b)) = <<"quad">> \o Head(b)
           /\ Tail(QuadResults(b)) = QuadResults(Tail(b))
<1>1. /\ IsSeq(Tail(b)) /\ Len(b) = Len(Tail(b)) + 1 /\ Head(b) = b[1]
      /\ \A n \in 1 .. Len(Tail(b)) : Tail(b)[n] = b[n + 1]
  BY TailOf
<1>0. Len(b) \in Nat /\ Len(Tail(b)) \in Nat /\ 1 \in 1 .. Len(b)
  BY <1>1, SeqFacts
<1>2. /\ IsSeq(QuadResults(b)) /\ Len(QuadResults(b)) = Len(b)
      /\ \A n \in 1 .. Len(b) : QuadResults(b)[n] = <<"quad">> \o b[n]
  BY Buffered
<1>3. QuadResults(b) # <<>>
  BY <1>0, <1>1, <1>2, SeqFacts
<1>4. /\ IsSeq(Tail(QuadResults(b))) /\ Len(QuadResults(b)) = Len(Tail(QuadResults(b))) + 1
      /\ Head(QuadResults(b)) = QuadResults(b)[1]
      /\ \A n \in 1 .. Len(Tail(QuadResults(b))) : Tail(QuadResults(b))[n] = QuadResults(b)[n + 1]
  BY <1>2, <1>3, TailOf
<1>5. /\ IsSeq(QuadResults(Tail(b))) /\ Len(QuadResults(Tail(b))) = Len(Tail(b))
      /\ \A n \in 1 .. Len(Tail(b)) : QuadResults(Tail(b))[n] = <<"quad">> \o Tail(b)[n]
  BY <1>1, Buffered
<1>6. Len(Tail(QuadResults(b))) = Len(Tail(b))
  <2>1. Len(Tail(QuadResults(b))) \in Nat
    BY <1>4, SeqFacts
  <2> QED
    BY <2>1, <1>0, <1>1, <1>2, <1>4
<1>7. ASSUME NEW n \in 1 .. Len(Tail(b))
      PROVE  Tail(QuadResults(b))[n] = QuadResults(Tail(b))[n]
  <2>1. n + 1 \in 1 .. Len(b)
    BY <1>0, <1>1
  <2> QED
    BY <2>1, <1>1, <1>2, <1>4, <1>5, <1>6
<1>8. Tail(QuadResults(b)) = QuadResults(Tail(b))
  BY <1>4, <1>5, <1>6, <1>7, SeqsEqual
<1>9. Head(QuadResults(b)) = <<"quad">> \o Head(b)
  BY <1>0, <1>1, <1>2, <1>4
<1> QED
  BY <1>3, <1>8, <1>9

-----------------------------------------------------------------------------
(***************************************************************************)
(* A chunk, callback by callback: the reader s has read it up to a place.  *)
(***************************************************************************)
AsRead(s, j, n) ==
    /\ DOMAIN s = SerdFields /\ s.end_flag = serd.end_flag
    /\ s.syntax = serd.syntax /\ s.flags = serd.flags /\ s.scoped = serd.scoped
    /\ s.base = BaseAt(<<j, n>>) /\ s.prefixes = PrefixesAt(<<j, n>>)
    /\ IsSeq(s.buffer) /\ \A k \in 1 .. Len(s.buffer) : IsSeq(s.buffer[k])
    /\ InOrder(given \o QuadResults(s.buffer))
    /\ IsFiniteSet(EarlierOf(GoodStatements, <<j, n>>))
    /\ Cardinality(QuadsIn(given \o QuadResults(s.buffer))) =
          Cardinality(EarlierOf(GoodStatements, <<j, n>>))
    /\ s.last_error # S!NoError <=> \E m \in 1 .. n - 1 : Faulty(<<j, m>>)
    /\ s.last_error_requires_skip =>
          s.last_error # S!NoError /\ \E m \in 1 .. n - 1 : doc[j][m].k = "syntax"

LEMMA CallbackFacts ==
    ASSUME doc \in Documents, NEW j \in 1 .. Len(doc), NEW n \in 1 .. Len(doc[j])
    PROVE  /\ <<j, n>> \in Places /\ At(<<j, n>>) = doc[j][n] /\ n \in Nat
           /\ (\E m \in 1 .. (n + 1) - 1 : Faulty(<<j, m>>)) <=>
                 \/ Faulty(<<j, n>>)
                 \/ \E m \in 1 .. n - 1 : Faulty(<<j, m>>)
           /\ (\E m \in 1 .. (n + 1) - 1 : doc[j][m].k = "syntax") <=>
                 \/ doc[j][n].k = "syntax"
                 \/ \E m \in 1 .. n - 1 : doc[j][m].k = "syntax"
<1>1. n \in Nat
  OBVIOUS
<1>2. <<j, n>> \in Places /\ At(<<j, n>>) = doc[j][n]
  BY PlacesArePairs DEF At
<1>3. \A m : m \in 1 .. (n + 1) - 1 <=> m = n \/ m \in 1 .. n - 1
  OBVIOUS
<1> QED
  BY <1>1, <1>2, <1>3

\* A callback with a fault
LEMMA FaultyCallback ==
    ASSUME doc \in Documents, NEW j \in 1 .. Len(doc), NEW n \in 1 .. Len(doc[j]),
           NEW s, AsRead(s, j, n), Faulty(<<j, n>>),
           NEW type, type # S!NoError,
           NEW s1, \/ s1 = S!ReportError(s, type)
                   \/ /\ doc[j][n].k = "syntax"
                      /\ s1 = [S!ReportError(s, type) EXCEPT !.last_error_requires_skip = TRUE]
    PROVE  AsRead(s1, j, n + 1)
<1> DEFINE pl == <<j, n>>
           next == <<j, n + 1>>
<1>1. pl \in Places /\ At(pl) = doc[j][n]
  BY CallbackFacts
<1>2. ~IsBase(doc[j][n]) /\ ~Defines(doc[j][n], doc[j][n].n) /\ pl \notin GoodStatements
  BY <1>1 DEF Faulty, IsBase, Defines, GoodStatements
<1>3. BaseAt(next) = BaseAt(pl)
  BY <1>2, BaseAtNext
<1>4. PrefixesAt(next) = PrefixesAt(pl)
  BY <1>2, PrefixesAtNext
<1>5. EarlierOf(GoodStatements, next) = EarlierOf(GoodStatements, pl)
  <2>1. GoodStatements \in SUBSET Places
    BY DEF GoodStatements
  <2>2. EarlierOf(GoodStatements, next) = EarlierOf(GoodStatements, pl) \cup (GoodStatements \cap {pl})
    BY <2>1, EarlierThanNext
  <2> HIDE DEF pl, next
  <2> QED
    BY <1>2, <2>2
<1>6. \E m \in 1 .. (n + 1) - 1 : Faulty(<<j, m>>)
  BY CallbackFacts
<1>7. s1.last_error_requires_skip => \E m \in 1 .. (n + 1) - 1 : doc[j][m].k = "syntax"
  BY CallbackFacts DEF AsRead, S!ReportError, SerdFields
<1>8. /\ DOMAIN s1 = SerdFields /\ s1.end_flag = s.end_flag /\ s1.last_error = type
      /\ s1.syntax = s.syntax /\ s1.flags = s.flags /\ s1.scoped = s.scoped
      /\ s1.base = s.base /\ s1.prefixes = s.prefixes /\ s1.buffer = s.buffer
  BY DEF AsRead, S!ReportError, SerdFields
<1> HIDE DEF pl, next
<1> QED
  BY <1>3, <1>4, <1>5, <1>6, <1>7, <1>8 DEF AsRead, pl, next

LEMMA GoodStatement ==
    ASSUME doc \in Documents, IsSeq(given), NEW j \in 1 .. Len(doc),
           NEW n \in 1 .. Len(doc[j]), NEW s, AsRead(s, j, n), <<j, n>> \in GoodStatements,
           NEW q, <<"quad">> \o q = QuadAt(<<j, n>>), IsSeq(q),
           NEW s1, s1 = [s EXCEPT !.buffer = Append(@, q)]
    PROVE  AsRead(s1, j, n + 1)
<1> DEFINE pl == <<j, n>>
           next == <<j, n + 1>>
           r == given \o QuadResults(s.buffer)
           e == <<"quad">> \o q
<1>1. pl \in Places /\ At(pl) = doc[j][n] /\ n \in Nat
  BY CallbackFacts
<1>2. doc[j][n].k = "stmt" /\ ~Faulty(pl)
  BY <1>1 DEF GoodStatements
<1>3. BaseAt(next) = BaseAt(pl)
  BY <1>2, BaseAtNext DEF IsBase
<1>4. PrefixesAt(next) = PrefixesAt(pl)
  BY <1>2, PrefixesAtNext DEF Defines
<1>5. EarlierOf(GoodStatements, next) = EarlierOf(GoodStatements, pl) \cup {pl}
  <2>1. GoodStatements \in SUBSET Places
    BY DEF GoodStatements
  <2>2. GoodStatements \cap {pl} = {pl}
    OBVIOUS
  <2> QED
    BY <2>1, <2>2, EarlierThanNext
<1>6. pl \notin EarlierOf(GoodStatements, pl)
  <2>1. ~Before(pl, pl)
    BY <1>1 DEF Before
  <2> QED
    BY <2>1 DEF EarlierOf
<1>7. /\ IsFiniteSet(EarlierOf(GoodStatements, next))
      /\ Cardinality(EarlierOf(GoodStatements, next)) =
            Cardinality(EarlierOf(GoodStatements, pl)) + 1
  <2>1. IsFiniteSet(EarlierOf(GoodStatements, pl))
    BY DEF AsRead
  <2> HIDE DEF pl, next
  <2> QED
    BY <1>5, <1>6, <2>1, FS_AddElement
<1>8. IsSeq(s.buffer) /\ IsSeq(QuadResults(s.buffer)) /\ IsSeq(r)
  <2>1. IsSeq(s.buffer)
    BY DEF AsRead
  <2>2. IsSeq(QuadResults(s.buffer))
    BY <2>1, Buffered
  <2>3. IsSeq(given \o QuadResults(s.buffer))
    BY <2>2, Concatenated
  <2> QED
    BY <2>1, <2>2, <2>3
<1>9. given \o QuadResults(Append(s.buffer, q)) = Append(r, e)
  <2>1. QuadResults(Append(s.buffer, q)) = Append(QuadResults(s.buffer), e)
    BY <1>8, BufferedMore
  <2> HIDE DEF e
  <2>2. given \o Append(QuadResults(s.buffer), e) = Append(r, e)
    BY <1>8, AppendedBehind
  <2> QED
    BY <2>1, <2>2
<1>10. ~IsError(e)
  BY QuadIsNoError
<1>11. InOrder(Append(r, e))
  <2>1. InOrder(r) /\ Cardinality(EarlierOf(GoodStatements, pl)) = Cardinality(QuadsIn(r))
    BY DEF AsRead
  <2> HIDE DEF r, e, pl
  <2>2. e = QuadAt(pl) /\ pl \in GoodStatements
    BY DEF e, pl
  <2> QED
    BY <1>8, <1>10, <2>1, <2>2, InOrderQuad
<1>12. Cardinality(QuadsIn(Append(r, e))) = Cardinality(EarlierOf(GoodStatements, next))
  <2>1. Cardinality(QuadsIn(Append(r, e))) = Cardinality(QuadsIn(r)) + 1
    BY <1>8, <1>10, OneMoreQuad
  <2> QED
    BY <1>7, <2>1 DEF AsRead
<1>13. \A k \in 1 .. Len(Append(s.buffer, q)) : IsSeq(Append(s.buffer, q)[k])
  <2>1. Len(s.buffer) \in Nat /\ Len(Append(s.buffer, q)) = Len(s.buffer) + 1
    BY <1>8, Appended, SeqFacts
  <2>2. /\ Append(s.buffer, q)[Len(s.buffer) + 1] = q
        /\ \A k \in 1 .. Len(s.buffer) : Append(s.buffer, q)[k] = s.buffer[k]
    BY <1>8, Appended
  <2> QED
    BY <2>1, <2>2 DEF AsRead
<1>14. IsSeq(Append(s.buffer, q))
  BY <1>8, Appended
<1>15. /\ s1.last_error # S!NoError <=> \E m \in 1 .. (n + 1) - 1 : Faulty(<<j, m>>)
       /\ s1.last_error_requires_skip =>
             s1.last_error # S!NoError /\ \E m \in 1 .. (n + 1) - 1 : doc[j][m].k = "syntax"
  BY <1>2, CallbackFacts DEF AsRead, SerdFields
<1>16. /\ DOMAIN s1 = SerdFields /\ s1.end_flag = s.end_flag
       /\ s1.syntax = s.syntax /\ s1.flags = s.flags /\ s1.scoped = s.scoped
       /\ s1.base = s.base /\ s1.prefixes = s.prefixes /\ s1.buffer = Append(s.buffer, q)
  BY DEF AsRead, SerdFields
<1>17. /\ InOrder(given \o QuadResults(s1.buffer))
       /\ Cardinality(QuadsIn(given \o QuadResults(s1.buffer))) =
             Cardinality(EarlierOf(GoodStatements, next))
  BY <1>9, <1>11, <1>12, <1>16
<1> HIDE DEF pl, next, r, e
<1> QED
  BY <1>3, <1>4, <1>7, <1>13, <1>14, <1>15, <1>16, <1>17 DEF AsRead, pl, next

LEMMA OneCallback ==
    ASSUME doc \in Documents, IsSeq(given), NEW j \in 1 .. Len(doc),
           NEW n \in 1 .. Len(doc[j]), NEW s, AsRead(s, j, n)
    PROVE  AsRead(S!Callback(s, doc[j][n]), j, n + 1)
<1> DEFINE pl == <<j, n>>
           c == doc[j][n]
           next == <<j, n + 1>>
<1>1. pl \in Places /\ At(pl) = c /\ c.k \in {"base", "prefix", "stmt", "syntax"}
  BY CallbackFacts, DocumentFacts
<1>2. "BadSyntax" # S!NoError
  BY DEF S!NoError
<1>3. CASE c.k = "stmt"
  <2> DEFINE made == S!MakeTerms(s, c.t)
             q == [k \in 1 .. 4 |-> made[k].n]
  <2>1. Alike(s, AsOf(pl))
    <3>1. /\ s.syntax = serd.syntax /\ s.flags = serd.flags /\ s.scoped = serd.scoped
          /\ s.base = BaseAt(pl) /\ s.prefixes = PrefixesAt(pl)
      BY DEF AsRead
    <3> HIDE DEF pl
    <3> QED
      BY <3>1 DEF Alike, AsOf, S!NewSerd
  <2>2. made = TermsAt(pl)
    <3> HIDE DEF pl
    <3> QED
      BY <1>1, <2>1, TermsAlike DEF TermsAt
  <2>3. S!Callback(s, c) = S!Deliver(s, made)
    BY <1>3 DEF S!Callback, S!on_stmt
  <2> HIDE DEF made
  <2>4. CASE S!FirstError(made) # S!NoError
    <3>1. Faulty(pl)
      BY <1>1, <1>3, <2>2, <2>4 DEF Faulty
    <3>2. S!Deliver(s, made) = S!ReportError(s, S!FirstError(made))
      BY <2>4 DEF S!Deliver
    <3> QED
      BY <2>3, <2>4, <3>1, <3>2, FaultyCallback
  <2>5. CASE S!FirstError(made) = S!NoError
    <3>1. pl \in GoodStatements
      BY <1>1, <1>3, <2>2, <2>5 DEF GoodStatements, Faulty
    <3>2. S!Deliver(s, made) = [s EXCEPT !.buffer = Append(@, q)]
      BY <2>5 DEF S!Deliver
    <3>3. <<"quad">> \o q = QuadAt(pl)
      BY <2>2 DEF QuadAt
    <3>4. IsSeq(q)
      <4>1. q = [k \in 1 .. 4 |-> q[k]] /\ 4 \in Nat
        OBVIOUS
      <4> QED
        BY <4>1, SeqByDomain
    <3> HIDE DEF q, pl
    <3>5. pl = <<j, n>>
      BY DEF pl
    <3> QED
      BY <2>3, <3>1, <3>2, <3>3, <3>4, <3>5, GoodStatement
  <2> QED
    BY <2>4, <2>5
<1>4. CASE c.k = "base" /\ ~IsBase(c)
  <2>1. Faulty(pl)
    BY <1>1, <1>4 DEF Faulty
  <2>2. S!Callback(s, c) = S!ReportError(s, "BadSyntax")
    <3>1. s.flags = serd.flags
      BY DEF AsRead
    <3> QED
      BY <1>4, <3>1 DEF S!Callback, S!on_base, IsBase, Parses
  <2> QED
    BY <1>2, <2>1, <2>2, FaultyCallback
<1>5. CASE c.k = "prefix" /\ ~Defines(c, c.n)
  <2>1. Faulty(pl)
    BY <1>1, <1>5 DEF Faulty
  <2>2. S!Callback(s, c) = S!ReportError(s, "BadSyntax")
    <3>1. s.flags = serd.flags
      BY DEF AsRead
    <3> QED
      BY <1>5, <3>1 DEF S!Callback, S!on_prefix, Defines, Parses
  <2> QED
    BY <1>2, <2>1, <2>2, FaultyCallback
<1>6. CASE c.k = "syntax"
  <2>1. Faulty(pl)
    BY <1>1, <1>6 DEF Faulty
  <2>2. S!Callback(s, c) =
           [S!ReportError(s, "BadSyntax") EXCEPT !.last_error_requires_skip = TRUE]
    BY <1>6 DEF S!Callback, S!on_error
  <2> QED
    BY <1>2, <1>6, <2>1, <2>2, FaultyCallback
<1>7. CASE IsBase(c) \/ (c.k = "prefix" /\ Defines(c, c.n))
  <2>1. ~Faulty(pl) /\ pl \notin GoodStatements
    BY <1>1, <1>7 DEF Faulty, GoodStatements, IsBase
  <2>2. EarlierOf(GoodStatements, next) = EarlierOf(GoodStatements, pl)
    <3>1. GoodStatements \in SUBSET Places
      BY DEF GoodStatements
    <3>2. EarlierOf(GoodStatements, next) = EarlierOf(GoodStatements, pl) \cup (GoodStatements \cap {pl})
      BY <3>1, EarlierThanNext
    <3> HIDE DEF pl, next
    <3> QED
      BY <2>1, <3>2
  <2>3. s.flags = serd.flags /\ s.base = BaseAt(pl) /\ s.prefixes = PrefixesAt(pl)
    BY DEF AsRead
  <2> DEFINE s1 == S!Callback(s, c)
  <2>4. /\ s1.base = BaseAt(next) /\ s1.prefixes = PrefixesAt(next)
        /\ DOMAIN s1 = SerdFields /\ s1.end_flag = s.end_flag
        /\ s1.syntax = s.syntax /\ s1.flags = s.flags /\ s1.scoped = s.scoped
        /\ s1.buffer = s.buffer /\ s1.last_error = s.last_error
        /\ s1.last_error_requires_skip = s.last_error_requires_skip
    <3>0. DOMAIN s = SerdFields
      BY DEF AsRead
    <3>1. CASE IsBase(c)
      <4>1. s1 = [s EXCEPT !.base = c.v]
        BY <2>3, <3>1 DEF S!Callback, S!on_base, IsBase, Parses
      <4>2. BaseAt(next) = c.v
        BY <3>1, BaseAtNext
      <4>3. PrefixesAt(next) = PrefixesAt(pl)
        BY <3>1, PrefixesAtNext DEF IsBase, Defines
      <4> HIDE DEF s1, next, pl, c
      <4> QED
        BY <2>3, <3>0, <4>1, <4>2, <4>3 DEF SerdFields
    <3>2. CASE c.k = "prefix" /\ Defines(c, c.n)
      <4> DEFINE new == [x \in DOMAIN s.prefixes \cup {c.n} |->
                            IF x = c.n THEN c.v ELSE s.prefixes[x]]
      <4>1. s1 = [s EXCEPT !.prefixes = new]
        BY <2>3, <3>2 DEF S!Callback, S!on_prefix, Defines, Parses
      <4>2. BaseAt(next) = BaseAt(pl)
        BY <3>2, BaseAtNext DEF IsBase
      <4>3. PrefixesAt(next) = new
        <5>1. PrefixesAt(next) = With(PrefixesAt(pl), c)
          BY <3>2, PrefixesAtNext
        <5> QED
          BY <2>3, <5>1 DEF With
      <4> HIDE DEF s1, next, pl, c, new
      <4> QED
        BY <2>3, <3>0, <4>1, <4>2, <4>3 DEF SerdFields
    <3> QED
      BY <1>7, <3>1, <3>2
  <2>5. /\ s1.last_error # S!NoError <=> \E m \in 1 .. (n + 1) - 1 : Faulty(<<j, m>>)
        /\ s1.last_error_requires_skip =>
              s1.last_error # S!NoError /\ \E m \in 1 .. (n + 1) - 1 : doc[j][m].k = "syntax"
    <3> HIDE DEF s1
    <3> QED
      BY <2>1, <2>4, CallbackFacts DEF AsRead
  <2> HIDE DEF s1
  <2>6. AsRead(s1, j, n + 1)
    BY <2>2, <2>4, <2>5 DEF AsRead
  <2> QED
    BY <2>6 DEF s1
<1> QED
  BY <1>1, <1>3, <1>4, <1>5, <1>6, <1>7

LEMMA ChunkRead ==
    ASSUME doc \in Documents, IsSeq(given), NEW j \in 1 .. Len(doc),
           NEW chunk, Len(chunk) \in 0 .. Len(doc[j]),
           \A n \in 1 .. Len(chunk) : chunk[n] = doc[j][n],
           NEW s, AsRead(s, j, 1)
    PROVE  AsRead(S!ReadChunk(s, chunk), j, Len(chunk) + 1)
<1>0. Len(doc[j]) \in Nat /\ Len(chunk) \in Nat
  BY DocumentFacts
<1>1. PICK f : /\ f[0] = s
               /\ \A n \in 1 .. Len(chunk) : f[n] = S!Callback(f[n - 1], chunk[n])
               /\ S!ReadChunk(s, chunk) = f[Len(chunk)]
  BY <1>0, ChunkSteps
<1> DEFINE P == {n \in 0 .. Len(chunk) : AsRead(f[n], j, n + 1)}
<1>2. 0 \in P
  BY <1>0, <1>1
<1>3. ASSUME NEW n \in 1 .. Len(chunk), n - 1 \in P PROVE n \in P
  <2>1. n \in 1 .. Len(doc[j]) /\ (n - 1) + 1 = n /\ n \in 0 .. Len(chunk)
    BY <1>0
  <2>2. AsRead(f[n - 1], j, n)
    BY <1>3, <2>1
  <2>3. AsRead(S!Callback(f[n - 1], doc[j][n]), j, n + 1)
    BY <2>1, <2>2, OneCallback
  <2> QED
    BY <1>1, <2>1, <2>3
<1>4. \A n \in 0 .. Len(chunk) : n \in P
  <2> HIDE DEF P
  <2> QED
    BY <1>0, <1>2, <1>3, UpTo
<1>5. Len(chunk) \in P
  BY <1>0, <1>4
<1> QED
  BY <1>1, <1>5

LEMMA ReadyToRead ==
    ASSUME SerdInv, format = "serd", S!Ready(serd) = "read"
    PROVE  /\ serd.buffer = <<>> /\ serd.last_error = S!NoError /\ ~serd.end_flag /\ ~failed
           /\ ~serd.last_error_requires_skip /\ call = "next"
           /\ pos \in 1 .. Len(doc) => AsRead(serd, pos, 1)
<1>1. serd.buffer = <<>> /\ serd.last_error = S!NoError /\ ~serd.end_flag
  BY DEF S!Ready
<1>2. ~failed /\ Reading
  BY <1>1 DEF SerdInv, Failing
<1>3. ~serd.last_error_requires_skip
  BY <1>1, <1>2 DEF Reading
<1>4. call = "next"
  BY DEF SerdInv, SerdTypes
<1>5. ASSUME pos \in 1 .. Len(doc) PROVE AsRead(serd, pos, 1)
  <2>1. /\ DOMAIN serd = SerdFields /\ IsSeq(serd.buffer)
        /\ \A k \in 1 .. Len(serd.buffer) : IsSeq(serd.buffer[k])
    BY DEF SerdInv, SerdTypes
  <2>2. /\ serd.base = BaseAt(<<pos, 1>>) /\ serd.prefixes = PrefixesAt(<<pos, 1>>)
        /\ IsFiniteSet(EarlierOf(GoodStatements, <<pos, 1>>))
        /\ Cardinality(QuadsIn(All)) = Cardinality(EarlierOf(GoodStatements, <<pos, 1>>))
    BY <1>2 DEF Reading, Counted
  <2>3. InOrder(All)
    BY DEF SerdInv
  <2>4. ~ \E m \in 1 .. 1 - 1 : Faulty(<<pos, m>>)
    OBVIOUS
  <2> QED
    BY <1>1, <1>3, <2>1, <2>2, <2>3, <2>4 DEF AsRead, All
<1> QED
  BY <1>1, <1>2, <1>3, <1>4, <1>5

\* What depends on the document does not change as long as the document and the
\* configuration of the reader do not.
LEMMA SameDocument ==
    ASSUME doc' = doc, serd'.syntax = serd.syntax, serd'.flags = serd.flags,
           serd'.scoped = serd.scoped
    PROVE  /\ \A pl : BaseAt(pl)' = BaseAt(pl) /\ PrefixesAt(pl)' = PrefixesAt(pl)
           /\ GoodStatements' = GoodStatements /\ FaultyChunks' = FaultyChunks
           /\ \A r : InOrder(r)' <=> InOrder(r)
<1>1. Places' = Places /\ \A q : At(q)' = At(q)
  BY DEF Places, At
<1>2. /\ \A c : IsBase(c)' <=> IsBase(c)
      /\ \A c, m : Defines(c, m)' <=> Defines(c, m)
  BY DEF IsBase, Defines, Parses
<1>3. \A pl : Bases(pl)' = Bases(pl)
  BY <1>1, <1>2 DEF Bases
<1>4. \A pl : BaseAt(pl)' = BaseAt(pl)
  BY <1>1, <1>3 DEF BaseAt
<1>5. \A m, pl : Definitions(m, pl)' = Definitions(m, pl)
  BY <1>1, <1>2 DEF Definitions
<1>6. Names' = Names
  BY <1>1 DEF Names
<1>7. \A pl : PrefixesAt(pl)' = PrefixesAt(pl)
  BY <1>1, <1>5, <1>6 DEF PrefixesAt
<1>8. \A pl : AsOf(pl)' = AsOf(pl)
  BY <1>4, <1>7 DEF AsOf
<1>9. \A pl : TermsAt(pl)' = TermsAt(pl)
  BY <1>1, <1>8 DEF TermsAt
<1>10. \A pl : QuadAt(pl)' = QuadAt(pl)
  BY <1>9 DEF QuadAt
<1>11. \A pl : Faulty(pl)' <=> Faulty(pl)
  BY <1>1, <1>2, <1>9 DEF Faulty
<1>12. GoodStatements' = GoodStatements
  BY <1>1, <1>11 DEF GoodStatements
<1>13. FaultyChunks' = FaultyChunks
  BY <1>1, <1>11 DEF FaultyChunks
<1>14. \A r : InOrder(r)' <=> InOrder(r)
  BY <1>10, <1>12 DEF InOrder
<1> QED
  BY <1>4, <1>7, <1>12, <1>13, <1>14

LEMMA EmptyResults ==
    /\ IsSeq(<<>>) /\ Len(<<>>) = 0 /\ QuadResults(<<>>) = <<>>
    /\ QuadsIn(<<>>) = {} /\ DOMAIN <<>> = {} /\ InOrder(<<>>)
    /\ \A s : IsSeq(s) => s \o <<>> = s
<1>1. <<>> \in Seq({}) /\ Len(<<>>) = 0 /\ DOMAIN <<>> = {}
  BY EmptySeq
<1>2. IsSeq(<<>>)
  BY <1>1 DEF IsSeq
<1>3. IsSeq(QuadResults(<<>>)) /\ Len(QuadResults(<<>>)) = 0
  BY <1>1, <1>2, Buffered
<1>4. QuadResults(<<>>) = <<>>
  BY <1>3, SeqFacts
<1>5. QuadsIn(<<>>) = {}
  BY <1>1 DEF QuadsIn
<1>6. ASSUME NEW s, IsSeq(s) PROVE s \o <<>> = s
  <2>1. PICK T : s \in Seq(T)
    BY <1>6 DEF IsSeq
  <2> QED
    BY <2>1, ConcatEmptySeq
<1> QED
  BY <1>1, <1>2, <1>4, <1>5, <1>6 DEF InOrder

LEMMA SerdInit ==
    ASSUME Init
    PROVE  SerdInv
<1> SUFFICES ASSUME format = "serd" PROVE SerdInv
  BY DEF SerdInv
<1>1. PICK c \in SerdSetups : serd = S!NewSerd(c.syntax, c.flags, c.scoped, Base)
  BY DEF Init
<1>2. /\ doc \in Documents /\ pos = 1 /\ given = <<>> /\ failed = FALSE /\ call = "next"
  BY DEF Init
<1>3. /\ DOMAIN serd = SerdFields /\ serd.buffer = <<>> /\ serd.last_error = S!NoError
      /\ serd.last_error_requires_skip = FALSE /\ serd.end_flag = FALSE
      /\ serd.base = Base /\ serd.prefixes = [q \in {} |-> ""]
  BY <1>1 DEF S!NewSerd, SerdFields
<1>4. Len(doc) \in Nat
  BY <1>2, DocumentFacts
<1>5. SerdTypes
  <2>1. IsSeq(given) /\ IsSeq(serd.buffer)
    BY <1>2, <1>3, EmptyResults
  <2>2. Len(serd.buffer) = 0
    BY <1>3, EmptyResults
  <2>3. \A k \in 1 .. Len(serd.buffer) : IsSeq(serd.buffer[k])
    BY <2>2
  <2> QED
    <3>1. DOMAIN serd = SerdFields /\ serd.end_flag \in BOOLEAN
      BY <1>3
    <3>2. failed \in BOOLEAN /\ call \in {"next", "ended"} /\ doc \in Documents
      BY <1>2
    <3>3. pos \in 1 .. Len(doc) + 1
      BY <1>2, <1>4
    <3> QED
      BY <2>1, <2>3, <3>1, <3>2, <3>3 DEF SerdTypes
<1>6. All = <<>>
  BY <1>2, <1>3, EmptyResults DEF All
<1>7. EarlierOf(GoodStatements, <<1, 1>>) = {}
  BY <1>2, EarlierThanFirst DEF GoodStatements
<1>8. Below(FaultyChunks, 1) = {}
  BY <1>2, DocumentFacts DEF FaultyChunks, Below
<1>9. Counted
  <2>1. IsFiniteSet({}) /\ Cardinality({}) = 0
    BY FS_EmptySet
  <2>2. DOMAIN given \ QuadsIn(given) = {} /\ QuadsIn(All) = {}
    BY <1>2, <1>6, EmptyResults
  <2>3. EarlierOf(GoodStatements, <<pos, 1>>) = {} /\ Below(FaultyChunks, pos) = {}
    BY <1>2, <1>7, <1>8
  <2> QED
    <3>1. serd.last_error = S!NoError
      BY <1>3
    <3>2. Cardinality(DOMAIN given \ QuadsIn(given)) = 0 /\ Cardinality(QuadsIn(All)) = 0
      BY <2>1, <2>2
    <3>3. /\ Cardinality(EarlierOf(GoodStatements, <<pos, 1>>)) = 0
          /\ IsFiniteSet(EarlierOf(GoodStatements, <<pos, 1>>))
          /\ Cardinality(Below(FaultyChunks, pos)) = 0
      BY <2>1, <2>3
    <3> QED
      BY <3>1, <3>2, <3>3 DEF Counted
<1>10. Reading
  BY <1>2, <1>3, <1>9, AtFirst DEF Reading
<1> QED
  BY <1>2, <1>5, <1>6, <1>10, EmptyResults DEF SerdInv, Failing

LEMMA OneMoreChunk ==
    ASSUME NEW n \in Nat, NEW set, \A j \in set : j \in 1 .. n, NEW p \in 1 .. n
    PROVE  Cardinality(Below(set, p + 1)) =
              Cardinality(Below(set, p)) + IF p \in set THEN 1 ELSE 0
<1>0. p \in Nat /\ \A j \in set : j \in Nat
  OBVIOUS
<1>1. PICK before : before = Below(set, p)
  OBVIOUS
<1>2. before \subseteq 1 .. n
  BY <1>0, <1>1 DEF Below
<1>3. p \notin before
  BY <1>0, <1>1 DEF Below
<1>4. IsFiniteSet(before)
  <2>1. IsFiniteSet(1 .. n)
    BY FS_Interval
  <2> QED
    BY <1>2, <2>1, FS_Subset
<1>5. Cardinality(before) \in Nat /\ Cardinality(before \cup {p}) = Cardinality(before) + 1
  BY <1>3, <1>4, FS_AddElement, FS_CardinalityType
<1>6. \A j \in set : j < p + 1 <=> j < p \/ j = p
  BY <1>0
<1>7. CASE p \in set
  <2>1. Below(set, p + 1) = before \cup {p}
    BY <1>1, <1>6, <1>7 DEF Below
  <2> QED
    BY <1>1, <1>5, <1>7, <2>1
<1>8. CASE p \notin set
  <2>1. Below(set, p + 1) = before
    BY <1>1, <1>6, <1>8 DEF Below
  <2> QED
    BY <1>1, <1>5, <1>8, <2>1
<1> QED
  BY <1>7, <1>8

\* A chunk is read: the reader is at the next.
LEMMA ChunkStep ==
    ASSUME SerdInv, format = "serd", ReadChunk
    PROVE  SerdInv'
<1> DEFINE s1 == S!ReadChunk(serd, doc[pos])
           l == Len(doc[pos])
<1>1. /\ S!Ready(serd) = "read" /\ ~failed /\ pos \in 1 .. Len(doc) /\ pos \in Nat
      /\ serd' = s1 /\ pos' = pos + 1 /\ doc' = doc /\ given' = given
      /\ failed' = failed /\ call' = call /\ format' = format
  <2>1. pos \in 1 .. Len(doc) + 1 /\ doc \in Documents
    BY DEF SerdInv, SerdTypes
  <2>2. pos <= Len(doc)
    BY DEF ReadChunk
  <2>3. Len(doc) \in Nat
    BY <2>1, DocumentFacts
  <2> QED
    BY <2>1, <2>2, <2>3 DEF ReadChunk, SerdReads, SerdStep
<1>2. doc \in Documents /\ IsSeq(given) /\ call = "next"
  BY <1>1, ReadyToRead DEF SerdInv, SerdTypes
<1>3. AsRead(serd, pos, 1)
  BY <1>1, ReadyToRead
<1>4. l \in Nat /\ Len(doc) \in Nat
  BY <1>1, <1>2, DocumentFacts
<1>5. AsRead(s1, pos, l + 1)
  BY <1>1, <1>2, <1>3, <1>4, ChunkRead
<1> HIDE DEF s1, l
<1>6. /\ DOMAIN s1 = SerdFields /\ s1.end_flag = serd.end_flag
      /\ s1.syntax = serd.syntax /\ s1.flags = serd.flags /\ s1.scoped = serd.scoped
      /\ s1.base = BaseAt(<<pos, l + 1>>) /\ s1.prefixes = PrefixesAt(<<pos, l + 1>>)
      /\ IsSeq(s1.buffer) /\ \A k \in 1 .. Len(s1.buffer) : IsSeq(s1.buffer[k])
  BY <1>5 DEF AsRead
<1>7. SerdTypes'
  <2>1. serd.end_flag \in BOOLEAN
    BY DEF SerdInv, SerdTypes
  <2>2. pos + 1 \in 1 .. Len(doc) + 1
    BY <1>1, <1>4
  <2> QED
    <3>1. doc' \in Documents /\ pos' \in 1 .. Len(doc') + 1
      BY <1>1, <1>2, <2>2
    <3>2. failed' \in BOOLEAN /\ call' \in {"next", "ended"} /\ IsSeq(given')
      BY <1>1, <1>2 DEF SerdInv, SerdTypes
    <3>3. /\ DOMAIN serd' = SerdFields /\ serd'.end_flag \in BOOLEAN /\ IsSeq(serd'.buffer)
          /\ \A k \in 1 .. Len(serd'.buffer) : IsSeq(serd'.buffer[k])
      BY <1>1, <1>6, <2>1
    <3> QED
      BY <3>1, <3>2, <3>3 DEF SerdTypes
<1>8. /\ \A pl : BaseAt(pl)' = BaseAt(pl) /\ PrefixesAt(pl)' = PrefixesAt(pl)
      /\ GoodStatements' = GoodStatements /\ FaultyChunks' = FaultyChunks
      /\ \A r : InOrder(r)' <=> InOrder(r)
  BY <1>1, <1>6, SameDocument
<1>9. InOrder(All)'
  <2>1. All' = given \o QuadResults(s1.buffer)
    BY <1>1 DEF All, QuadResults
  <2>2. InOrder(given \o QuadResults(s1.buffer))
    BY <1>5 DEF AsRead
  <2> QED
    BY <1>8, <2>1, <2>2
<1>10. Counted'
  <2>1. EarlierOf(GoodStatements, <<pos + 1, 1>>) = EarlierOf(GoodStatements, <<pos, l + 1>>)
    BY <1>1, <1>2, EarlierThanChunk DEF GoodStatements, l
  <2>2. EarlierOf(GoodStatements, <<pos, 1>>)' = EarlierOf(GoodStatements, <<pos + 1, 1>>)
    BY <1>1, <1>8 DEF EarlierOf
  <2>3. All' = given \o QuadResults(s1.buffer) /\ QuadsIn(All)' = QuadsIn(All')
    BY <1>1 DEF All, QuadResults
  <2>4. /\ IsFiniteSet(EarlierOf(GoodStatements, <<pos, l + 1>>))
        /\ Cardinality(QuadsIn(given \o QuadResults(s1.buffer))) =
              Cardinality(EarlierOf(GoodStatements, <<pos, l + 1>>))
    BY <1>5 DEF AsRead
  <2>5. pos \in FaultyChunks <=> s1.last_error # S!NoError
    <3>1. s1.last_error # S!NoError <=> \E m \in 1 .. (l + 1) - 1 : Faulty(<<pos, m>>)
      BY <1>5 DEF AsRead
    <3>2. (l + 1) - 1 = l
      BY <1>4
    <3>3. \A pl : pl \in Places /\ pl[1] = pos <=> \E m \in 1 .. l : pl = <<pos, m>>
      BY <1>1, <1>2, PlacesArePairs DEF l
    <3>4. pos \in DOMAIN doc
      BY <1>1, <1>2, DocumentFacts
    <3> QED
      BY <3>1, <3>2, <3>3, <3>4 DEF FaultyChunks
  <2> DEFINE before == Below(FaultyChunks, pos)
             upto == Below(FaultyChunks, pos + 1)
  <2>6. FaultyChunks \subseteq 1 .. Len(doc)
    BY <1>2, DocumentFacts DEF FaultyChunks
  <2>7. Cardinality(upto) = Cardinality(before) + IF pos \in FaultyChunks THEN 1 ELSE 0
    <3>1. pos \in 1 .. Len(doc)
      BY <1>1
    <3>2. \A j \in FaultyChunks : j \in 1 .. Len(doc)
      BY <2>6
    <3> QED
      BY <1>4, <3>1, <3>2, OneMoreChunk
  <2>8. Cardinality(upto) = Cardinality(before) + IF s1.last_error = S!NoError THEN 0 ELSE 1
    BY <2>5, <2>7
  <2>9. Cardinality(before) = Cardinality(DOMAIN given \ QuadsIn(given))
    <3>1. Counted /\ serd.last_error = S!NoError
      BY <1>1, ReadyToRead DEF SerdInv, Reading
    <3>2. Cardinality(DOMAIN given \ QuadsIn(given)) \in Nat
      BY <1>2, QuadsAreFinite
    <3> QED
      BY <3>1, <3>2 DEF Counted
  <2>10. Below(FaultyChunks, pos)' = upto /\ QuadsIn(given)' = QuadsIn(given)
    BY <1>1, <1>8
  <2> HIDE DEF upto, before
  <2> QED
    BY <1>1, <2>1, <2>2, <2>3, <2>4, <2>8, <2>9, <2>10 DEF Counted
<1>11. Reading'
  <2>1. /\ BaseAt(<<pos + 1, 1>>) = BaseAt(<<pos, l + 1>>)
        /\ PrefixesAt(<<pos + 1, 1>>) = PrefixesAt(<<pos, l + 1>>)
    BY <1>1, <1>2, AtNextChunk DEF l
  <2>2. serd'.base = BaseAt(<<pos, 1>>)' /\ serd'.prefixes = PrefixesAt(<<pos, 1>>)'
    BY <1>1, <1>6, <1>8, <2>1
  <2>3. s1.last_error_requires_skip =>
           s1.last_error # S!NoError /\ \E m \in 1 .. (l + 1) - 1 : doc[pos][m].k = "syntax"
    BY <1>5 DEF AsRead
  <2>4. (\E m \in 1 .. (l + 1) - 1 : doc[pos][m].k = "syntax") => InLine'
    <3>1. (l + 1) - 1 = l /\ DOMAIN doc[pos] = 1 .. l /\ (pos + 1) - 1 = pos /\ pos + 1 > 1
      BY <1>1, <1>2, <1>4, DocumentFacts DEF l
    <3> QED
      BY <1>1, <3>1 DEF InLine
  <2>5. ~serd'.end_flag
    BY <1>1, <1>6, ReadyToRead
  <2> QED
    BY <1>1, <1>10, <2>2, <2>3, <2>4, <2>5 DEF Reading
<1> QED
  BY <1>1, <1>2, <1>7, <1>9, <1>11 DEF SerdInv, Failing

\* The end of the input: only the flag changes.
LEMMA EndStep ==
    ASSUME SerdInv, format = "serd", ReadEnd
    PROVE  SerdInv'
<1>1. /\ S!Ready(serd) = "read" /\ ~failed /\ pos > Len(doc) /\ serd' = S!AtEnd(serd)
      /\ pos' = pos /\ doc' = doc /\ given' = given
      /\ failed' = failed /\ call' = call /\ format' = format
  BY DEF ReadEnd, SerdReads, SerdStep
<1>2. /\ serd.last_error = S!NoError /\ ~serd.last_error_requires_skip /\ call = "next"
      /\ SerdTypes /\ InOrder(All) /\ Reading
  BY <1>1, ReadyToRead DEF SerdInv
<1>3. DOMAIN serd = SerdFields
  BY <1>2 DEF SerdTypes
<1>4. /\ DOMAIN serd' = SerdFields /\ serd'.end_flag = TRUE
      /\ serd'.syntax = serd.syntax /\ serd'.flags = serd.flags /\ serd'.scoped = serd.scoped
      /\ serd'.base = serd.base /\ serd'.prefixes = serd.prefixes
      /\ serd'.buffer = serd.buffer /\ serd'.last_error = serd.last_error
      /\ serd'.last_error_requires_skip = serd.last_error_requires_skip
  BY <1>1, <1>2, <1>3 DEF S!AtEnd, SerdFields
<1>5. /\ \A pl : BaseAt(pl)' = BaseAt(pl) /\ PrefixesAt(pl)' = PrefixesAt(pl)
      /\ GoodStatements' = GoodStatements /\ FaultyChunks' = FaultyChunks
      /\ \A r : InOrder(r)' <=> InOrder(r)
  BY <1>1, <1>4, SameDocument
<1>6. All' = All
  BY <1>1, <1>4 DEF All, QuadResults
<1>7. SerdTypes'
  <2>1. doc' \in Documents /\ pos' \in 1 .. Len(doc') + 1
    BY <1>1, <1>2 DEF SerdTypes
  <2>2. failed' \in BOOLEAN /\ call' \in {"next", "ended"} /\ IsSeq(given')
    BY <1>1, <1>2 DEF SerdTypes
  <2>3. /\ DOMAIN serd' = SerdFields /\ serd'.end_flag \in BOOLEAN /\ IsSeq(serd'.buffer)
        /\ \A k \in 1 .. Len(serd'.buffer) : IsSeq(serd'.buffer[k])
    BY <1>2, <1>4 DEF SerdTypes
  <2> QED
    BY <2>1, <2>2, <2>3 DEF SerdTypes
<1>8. InOrder(All)'
  BY <1>2, <1>5, <1>6
<1>9. Counted'
  <2>1. Counted
    BY <1>1, <1>2 DEF Reading
  <2>2. EarlierOf(GoodStatements, <<pos, 1>>)' = EarlierOf(GoodStatements, <<pos, 1>>)
    BY <1>1, <1>5 DEF EarlierOf
  <2>3. QuadsIn(All)' = QuadsIn(All) /\ QuadsIn(given)' = QuadsIn(given)
    BY <1>1, <1>6
  <2>4. Below(FaultyChunks, pos)' = Below(FaultyChunks, pos)
    BY <1>1, <1>5
  <2> QED
    BY <1>1, <1>4, <2>1, <2>2, <2>3, <2>4 DEF Counted
<1>10. Reading'
  <2>1. serd'.base = BaseAt(<<pos, 1>>)' /\ serd'.prefixes = PrefixesAt(<<pos, 1>>)'
    BY <1>1, <1>2, <1>4, <1>5 DEF Reading
  <2>2. (pos > Len(doc))' /\ ~serd'.last_error_requires_skip
    BY <1>1, <1>2, <1>4
  <2> QED
    BY <1>9, <2>1, <2>2 DEF Reading
<1> QED
  BY <1>1, <1>2, <1>7, <1>8, <1>10 DEF SerdInv, Failing

\* The stream fails: what was read of the chunk stays.
LEMMA FailureStep ==
    ASSUME SerdInv, format = "serd", StreamFails
    PROVE  SerdInv'
<1>1. PICK n \in 0 .. Len(NextChunk) :
         SerdStep(S!AtStreamError(S!ReadChunk(serd, SubSeq(NextChunk, 1, n))))
  BY DEF StreamFails
<1> DEFINE chunk == SubSeq(NextChunk, 1, n)
           s == S!ReadChunk(serd, chunk)
<1>2. /\ S!Ready(serd) = "read" /\ failed' = TRUE /\ serd' = S!AtStreamError(s)
      /\ pos' = pos /\ doc' = doc /\ given' = given /\ call' = call /\ format' = format
  BY <1>1 DEF StreamFails, SerdReads, SerdStep
<1>3. SerdTypes /\ InOrder(All) /\ call = "next"
  BY <1>2, ReadyToRead DEF SerdInv
<1>4. doc \in Documents /\ IsSeq(given) /\ Len(doc) \in Nat /\ pos \in 1 .. Len(doc) + 1
  BY <1>3, DocumentFacts DEF SerdTypes
<1>5. /\ DOMAIN s = SerdFields
      /\ s.syntax = serd.syntax /\ s.flags = serd.flags /\ s.scoped = serd.scoped
      /\ IsSeq(s.buffer) /\ \A k \in 1 .. Len(s.buffer) : IsSeq(s.buffer[k])
      /\ InOrder(given \o QuadResults(s.buffer))
      /\ Cardinality(EarlierOf(GoodStatements, <<pos, 1>>)) <=
            Cardinality(QuadsIn(given \o QuadResults(s.buffer)))
  <2>1. CASE pos \in 1 .. Len(doc)
    <3>1. NextChunk = doc[pos] /\ IsSeq(doc[pos]) /\ Len(doc[pos]) \in Nat
      BY <1>4, <2>1, DocumentFacts DEF NextChunk
    <3>2. PICK T : doc[pos] \in Seq(T)
      BY <3>1 DEF IsSeq
    <3>3. n \in 0 .. Len(doc[pos]) /\ 1 \in 1 .. n + 1 /\ n \in Int /\ 1 \in Int
      BY <3>1
    <3>4. Len(chunk) = n /\ \A k \in 1 .. n : chunk[k] = doc[pos][k]
      <4> HIDE DEF chunk
      <4>1. chunk = SubSeq(doc[pos], 1, n)
        BY <3>1 DEF chunk
      <4>2. Len(chunk) = IF 1 <= n THEN n - 1 + 1 ELSE 0
        BY <3>1, <3>2, <3>3, <4>1, SubSeqProperties
      <4>3. \A k \in 1 .. n - 1 + 1 : chunk[k] = doc[pos][1 + k - 1]
        BY <3>1, <3>2, <3>3, <4>1, SubSeqProperties
      <4> QED
        BY <3>3, <4>2, <4>3
    <3>5. AsRead(serd, pos, 1)
      BY <1>2, <2>1, ReadyToRead
    <3> HIDE DEF chunk
    <3>6. AsRead(s, pos, Len(chunk) + 1)
      BY <1>4, <2>1, <3>1, <3>3, <3>4, <3>5, ChunkRead
    <3> HIDE DEF s
    <3>7. /\ IsFiniteSet(EarlierOf(GoodStatements, <<pos, n + 1>>))
          /\ Cardinality(QuadsIn(given \o QuadResults(s.buffer))) =
                Cardinality(EarlierOf(GoodStatements, <<pos, n + 1>>))
      BY <3>4, <3>6 DEF AsRead
    <3>8. EarlierOf(GoodStatements, <<pos, 1>>) \subseteq EarlierOf(GoodStatements, <<pos, n + 1>>)
      <4>1. pos \in Nat /\ n + 1 \in Nat /\ n + 1 >= 1 /\ GoodStatements \in SUBSET Places
        BY <1>4, <3>1, <3>3 DEF GoodStatements
      <4> QED
        BY <1>4, <4>1, EarlierInChunk
    <3>9. /\ Cardinality(EarlierOf(GoodStatements, <<pos, 1>>)) <=
                Cardinality(EarlierOf(GoodStatements, <<pos, n + 1>>))
      BY <3>7, <3>8, FS_Subset
    <3> QED
      BY <3>6, <3>7, <3>9 DEF AsRead
  <2>2. CASE pos = Len(doc) + 1
    <3>1. NextChunk = <<>> /\ n = 0
      <4>1. NextChunk = <<>>
        BY <1>4, <2>2 DEF NextChunk
      <4> QED
        BY <4>1, EmptyResults
    <3>2. Len(chunk) = 0
      <4>1. <<>> \in Seq({})
        OBVIOUS
      <4> QED
        BY <3>1, <4>1, SubSeqProperties
    <3> HIDE DEF chunk
    <3>3. s = serd
      BY <3>2, ChunkSteps
    <3>4. serd.buffer = <<>>
      BY <1>2, ReadyToRead
    <3>5. NoneLost
      <4>1. Counted
        BY <1>2, ReadyToRead DEF SerdInv, Reading
      <4>2. Cardinality(EarlierOf(GoodStatements, <<pos, 1>>)) \in Nat
        BY <4>1, FS_CardinalityType DEF Counted
      <4> QED
        BY <4>1, <4>2 DEF Counted, NoneLost
    <3> HIDE DEF s
    <3> QED
      BY <1>3, <3>3, <3>5 DEF SerdTypes, All, NoneLost
  <2> QED
    BY <1>4, <2>1, <2>2
<1> HIDE DEF s
<1>6. /\ DOMAIN serd' = SerdFields /\ serd'.end_flag = TRUE
      /\ serd'.syntax = serd.syntax /\ serd'.flags = serd.flags /\ serd'.scoped = serd.scoped
      /\ serd'.buffer = s.buffer /\ serd'.last_error = "Io"
      /\ serd'.last_error_requires_skip = FALSE
  BY <1>2, <1>5 DEF S!AtStreamError, SerdFields
<1>7. GoodStatements' = GoodStatements /\ \A r : InOrder(r)' <=> InOrder(r)
  BY <1>2, <1>6, SameDocument
<1>8. InOrder(All)' /\ NoneLost'
  <2>1. All' = given \o QuadResults(s.buffer)
    BY <1>2, <1>6 DEF All, QuadResults
  <2>2. EarlierOf(GoodStatements, <<pos, 1>>)' = EarlierOf(GoodStatements, <<pos, 1>>)
    BY <1>2, <1>7 DEF EarlierOf
  <2>3. QuadsIn(All)' = QuadsIn(All')
    BY DEF QuadsIn
  <2> QED
    BY <1>5, <1>7, <2>1, <2>2, <2>3 DEF NoneLost
<1>9. SerdTypes'
  <2>1. doc' \in Documents /\ pos' \in 1 .. Len(doc') + 1
    BY <1>2, <1>4
  <2>2. failed' \in BOOLEAN /\ call' \in {"next", "ended"} /\ IsSeq(given')
    BY <1>2, <1>3, <1>4
  <2>3. /\ DOMAIN serd' = SerdFields /\ serd'.end_flag \in BOOLEAN /\ IsSeq(serd'.buffer)
        /\ \A k \in 1 .. Len(serd'.buffer) : IsSeq(serd'.buffer[k])
    BY <1>5, <1>6
  <2> QED
    BY <2>1, <2>2, <2>3 DEF SerdTypes
<1> QED
  BY <1>2, <1>3, <1>6, <1>8, <1>9 DEF SerdInv, Reading, Failing

\* next() returns a quad: it moves from what waits to what was returned.
LEMMA QuadStep ==
    ASSUME SerdInv, format = "serd", SerdNext, S!Ready(serd) = "quad"
    PROVE  SerdInv'
<1>1. /\ serd' = S!PopQuad(serd) /\ given' = Append(given, <<"quad">> \o Head(serd.buffer))
      /\ doc' = doc /\ pos' = pos /\ call' = call /\ failed' = failed /\ format' = format
      /\ call = "next" /\ serd.buffer # <<>>
  BY DEF SerdNext, SerdStep, Give, S!Ready
<1>2. SerdTypes /\ InOrder(All) /\ Reading /\ Failing
  BY DEF SerdInv
<1>3. /\ DOMAIN serd = SerdFields /\ IsSeq(serd.buffer) /\ IsSeq(given)
      /\ \A k \in 1 .. Len(serd.buffer) : IsSeq(serd.buffer[k])
  BY <1>2 DEF SerdTypes
<1>4. /\ DOMAIN serd' = SerdFields /\ serd'.buffer = Tail(serd.buffer)
      /\ serd'.syntax = serd.syntax /\ serd'.flags = serd.flags /\ serd'.scoped = serd.scoped
      /\ serd'.base = serd.base /\ serd'.prefixes = serd.prefixes
      /\ serd'.end_flag = serd.end_flag /\ serd'.last_error = serd.last_error
      /\ serd'.last_error_requires_skip = serd.last_error_requires_skip
  BY <1>1, <1>3 DEF S!PopQuad, SerdFields
<1>5. /\ \A pl : BaseAt(pl)' = BaseAt(pl) /\ PrefixesAt(pl)' = PrefixesAt(pl)
      /\ GoodStatements' = GoodStatements /\ FaultyChunks' = FaultyChunks
      /\ \A r : InOrder(r)' <=> InOrder(r)
  BY <1>1, <1>4, SameDocument
<1>6. /\ IsSeq(Tail(serd.buffer)) /\ Len(serd.buffer) = Len(Tail(serd.buffer)) + 1
      /\ Head(serd.buffer) = serd.buffer[1] /\ Len(Tail(serd.buffer)) \in Nat
      /\ \A n \in 1 .. Len(Tail(serd.buffer)) : Tail(serd.buffer)[n] = serd.buffer[n + 1]
  BY <1>1, <1>3, TailOf, SeqFacts
<1>7. All' = All
  <2> DEFINE waits == QuadResults(serd.buffer)
  <2>1. /\ waits # <<>> /\ Head(waits) = <<"quad">> \o Head(serd.buffer)
        /\ Tail(waits) = QuadResults(Tail(serd.buffer)) /\ IsSeq(waits)
    BY <1>1, <1>3, Buffered, BufferedTail
  <2>2. QuadResults(serd'.buffer) = Tail(waits) /\ given' = Append(given, Head(waits))
    BY <1>1, <1>4, <2>1
  <2>3. All' = given' \o QuadResults(serd'.buffer)
    BY DEF All, QuadResults
  <2> HIDE DEF waits
  <2>4. Append(given, Head(waits)) \o Tail(waits) = given \o waits
    BY <1>3, <2>1, MovedOver
  <2> QED
    BY <2>2, <2>3, <2>4 DEF All, waits
<1>8. SerdTypes'
  <2>1. doc' \in Documents /\ pos' \in 1 .. Len(doc') + 1
    BY <1>1, <1>2 DEF SerdTypes
  <2>2. failed' \in BOOLEAN /\ call' \in {"next", "ended"} /\ IsSeq(given')
    BY <1>1, <1>2, <1>3, Appended DEF SerdTypes
  <2>3. \A k \in 1 .. Len(Tail(serd.buffer)) : IsSeq(Tail(serd.buffer)[k])
    BY <1>3, <1>6
  <2>4. /\ DOMAIN serd' = SerdFields /\ serd'.end_flag \in BOOLEAN /\ IsSeq(serd'.buffer)
        /\ \A k \in 1 .. Len(serd'.buffer) : IsSeq(serd'.buffer[k])
    BY <1>2, <1>4, <1>6, <2>3 DEF SerdTypes
  <2> QED
    BY <2>1, <2>2, <2>4 DEF SerdTypes
<1>9. InOrder(All)'
  BY <1>2, <1>5, <1>7
<1>10. ASSUME ~failed PROVE Counted'
  <2>1. Counted
    BY <1>2, <1>10 DEF Reading
  <2>2. EarlierOf(GoodStatements, <<pos, 1>>)' = EarlierOf(GoodStatements, <<pos, 1>>)
    BY <1>1, <1>5 DEF EarlierOf
  <2>3. QuadsIn(All)' = QuadsIn(All)
    BY <1>7
  <2>4. Below(FaultyChunks, pos)' = Below(FaultyChunks, pos)
    BY <1>1, <1>5
  <2>5. DOMAIN given' \ QuadsIn(given)' = DOMAIN given \ QuadsIn(given)
    <3>1. IsSeq(Head(serd.buffer))
      BY <1>3, <1>6
    <3>2. ~IsError(<<"quad">> \o Head(serd.buffer))
      BY <3>1, QuadIsNoError
    <3> QED
      BY <1>1, <1>3, <3>2, OneMoreQuad
  <2> QED
    BY <1>1, <1>4, <2>1, <2>2, <2>3, <2>4, <2>5 DEF Counted
<1>11. Reading'
  <2>1. InLine' <=> InLine
    BY <1>1 DEF InLine
  <2> QED
    BY <1>1, <1>2, <1>4, <1>5, <1>10, <2>1 DEF Reading
<1>12. Failing'
  <2>1. NoneLost' <=> NoneLost
    <3>1. EarlierOf(GoodStatements, <<pos, 1>>)' = EarlierOf(GoodStatements, <<pos, 1>>)
      BY <1>1, <1>5 DEF EarlierOf
    <3> QED
      BY <1>7, <3>1 DEF NoneLost
  <2>2. failed => serd.last_error = "Io"
    BY <1>1, <1>2 DEF Failing, Told
  <2> QED
    BY <1>1, <1>2, <1>4, <2>1, <2>2 DEF Failing
<1> QED
  BY <1>1, <1>8, <1>9, <1>11, <1>12 DEF SerdInv

\* next() returns the error; the line is left behind.
LEMMA ErrorStep ==
    ASSUME SerdInv, format = "serd", SerdNext, S!Ready(serd) = "error"
    PROVE  SerdInv'
<1> DEFINE e == <<"error", serd.last_error>>
<1>1. PICK noNewline \in BOOLEAN :
         /\ SerdStep(S!TakeError(serd, noNewline))
         /\ Give(e) /\ pos' \in {pos, AfterSkip} /\ call' = call
         /\ \/ failed' = failed /\ (noNewline => pos > Len(doc))
            \/ failed' = TRUE /\ noNewline /\ serd.last_error_requires_skip
  BY DEF SerdNext, GiveError
<1>2. /\ serd' = S!TakeError(serd, noNewline) /\ given' = Append(given, e)
      /\ doc' = doc /\ call' = call /\ format' = format
      /\ call = "next" /\ serd.buffer = <<>> /\ serd.last_error # S!NoError
  BY <1>1 DEF SerdStep, Give, S!Ready
<1>3. SerdTypes /\ InOrder(All) /\ Reading /\ Failing
  BY DEF SerdInv
<1>4. DOMAIN serd = SerdFields /\ IsSeq(given) /\ failed \in BOOLEAN /\ serd.end_flag \in BOOLEAN
  BY <1>3 DEF SerdTypes
<1>5. pos' = pos
  <2>1. serd.last_error_requires_skip => InLine
    BY <1>3, <1>4 DEF Reading, Failing
  <2> QED
    BY <1>1, <2>1 DEF AfterSkip
<1>6. /\ DOMAIN serd' = SerdFields /\ serd'.buffer = serd.buffer
      /\ serd'.syntax = serd.syntax /\ serd'.flags = serd.flags /\ serd'.scoped = serd.scoped
      /\ serd'.base = serd.base /\ serd'.prefixes = serd.prefixes
      /\ serd'.last_error = S!NoError /\ serd'.last_error_requires_skip = FALSE
      /\ serd'.end_flag = (serd.end_flag \/ (serd.last_error_requires_skip /\ noNewline))
  BY <1>2, <1>4 DEF S!TakeError, SerdFields
<1>7. /\ \A pl : BaseAt(pl)' = BaseAt(pl) /\ PrefixesAt(pl)' = PrefixesAt(pl)
      /\ GoodStatements' = GoodStatements /\ FaultyChunks' = FaultyChunks
      /\ \A r : InOrder(r)' <=> InOrder(r)
  BY <1>2, <1>6, SameDocument
<1>8. IsError(e)
  BY DEF IsError
<1>9. All = given /\ All' = given'
  <2>1. QuadResults(serd.buffer) = <<>> /\ QuadResults(serd'.buffer) = <<>>
    BY <1>2, <1>6, EmptyResults
  <2>2. IsSeq(given')
    BY <1>2, <1>4, Appended
  <2>3. All' = given' \o QuadResults(serd'.buffer)
    BY DEF All, QuadResults
  <2> QED
    BY <1>4, <2>1, <2>2, <2>3, EmptyResults DEF All
<1> HIDE DEF e
<1>10. QuadsIn(given') = QuadsIn(given)
  BY <1>2, <1>4, <1>8, OneMoreError
<1>11. SerdTypes'
  <2>1. doc' \in Documents /\ pos' \in 1 .. Len(doc') + 1
    BY <1>2, <1>3, <1>5 DEF SerdTypes
  <2>2. failed' \in BOOLEAN /\ call' \in {"next", "ended"} /\ IsSeq(given')
    BY <1>1, <1>2, <1>3, <1>4, Appended DEF SerdTypes
  <2>3. /\ DOMAIN serd' = SerdFields /\ serd'.end_flag \in BOOLEAN /\ IsSeq(serd'.buffer)
        /\ \A k \in 1 .. Len(serd'.buffer) : IsSeq(serd'.buffer[k])
    BY <1>3, <1>4, <1>6 DEF SerdTypes
  <2> QED
    BY <2>1, <2>2, <2>3 DEF SerdTypes
<1>12. InOrder(All)'
  BY <1>2, <1>3, <1>4, <1>7, <1>8, <1>9, InOrderError
<1>13. ASSUME ~failed PROVE Counted'
  <2>1. Counted
    BY <1>3, <1>13 DEF Reading
  <2>2. EarlierOf(GoodStatements, <<pos, 1>>)' = EarlierOf(GoodStatements, <<pos, 1>>)
    BY <1>5, <1>7 DEF EarlierOf
  <2>3. QuadsIn(All)' = QuadsIn(All)
    BY <1>9, <1>10
  <2>4. Below(FaultyChunks, pos)' = Below(FaultyChunks, pos)
    BY <1>5, <1>7
  <2>5. Cardinality(DOMAIN given' \ QuadsIn(given')) =
           Cardinality(DOMAIN given \ QuadsIn(given)) + 1
    BY <1>2, <1>4, <1>8, OneMoreError
  <2>6. Cardinality(DOMAIN given \ QuadsIn(given)) \in Nat
    BY <1>4, QuadsAreFinite
  <2> QED
    BY <1>2, <1>6, <2>1, <2>2, <2>3, <2>4, <2>5, <2>6 DEF Counted
<1>14. Reading'
  <2>1. ASSUME ~failed
        PROVE  serd'.base = BaseAt(<<pos, 1>>)' /\ serd'.prefixes = PrefixesAt(<<pos, 1>>)'
    BY <1>3, <1>5, <1>6, <1>7, <2>1 DEF Reading
  <2>2. ASSUME ~failed', serd'.end_flag PROVE ~failed /\ (pos > Len(doc))'
    BY <1>1, <1>2, <1>3, <1>4, <1>5, <1>6, <2>2 DEF Reading
  <2>3. ~failed' => ~failed
    BY <1>1, <1>4
  <2> QED
    BY <1>2, <1>6, <1>13, <2>1, <2>2, <2>3 DEF Reading
<1>15. Failing'
  <2>1. given' # <<>> /\ Last(given') = e
    BY <1>2, <1>4, Appended
  <2>2. EarlierOf(GoodStatements, <<pos, 1>>)' = EarlierOf(GoodStatements, <<pos, 1>>)
    BY <1>5, <1>7 DEF EarlierOf
  <2>3. NoneLost' <=> NoneLost
    BY <1>9, <1>10, <2>2 DEF NoneLost
  <2>4. CASE failed
    <3>1. serd.end_flag /\ serd.last_error = "Io" /\ NoneLost
      BY <1>2, <1>3, <2>4 DEF Failing, Told
    <3>2. Last(given') = <<"error", "Io">>
      BY <2>1, <3>1 DEF e
    <3>3. Told'
      BY <1>2, <1>6, <2>1, <3>2 DEF Told
    <3> QED
      BY <1>6, <2>3, <3>1, <3>3 DEF Failing
  <2>5. CASE ~failed /\ failed'
    <3>1. noNewline /\ serd.last_error_requires_skip
      BY <1>1, <2>5
    <3>2. InLine /\ Counted
      BY <1>3, <2>5, <3>1 DEF Reading
    <3>3. InLine' <=> InLine
      BY <1>2, <1>5 DEF InLine
    <3>4. Told'
      BY <1>2, <1>6, <1>8, <2>1, <3>2, <3>3 DEF Told
    <3>5. NoneLost
      <4>1. Cardinality(EarlierOf(GoodStatements, <<pos, 1>>)) \in Nat
        BY <3>2, FS_CardinalityType DEF Counted
      <4> QED
        BY <3>2, <4>1 DEF Counted, NoneLost
    <3> QED
      BY <1>6, <2>3, <3>1, <3>4, <3>5 DEF Failing
  <2> QED
    BY <2>4, <2>5 DEF Failing
<1> QED
  BY <1>2, <1>11, <1>12, <1>14, <1>15 DEF SerdInv

\* Nothing that the reader knows changes, but that it may have ended.
LEMMA SerdRests ==
    ASSUME SerdInv, format = "serd",
           format' = format, given' = given, failed' = failed, serd' = serd, doc' = doc, pos' = pos,
           call' = call \/ (call' = "ended" /\ S!Ready(serd) = "end")
    PROVE  SerdInv'
<1>1. SerdTypes /\ InOrder(All) /\ Reading /\ Failing /\ (call = "ended" => S!Ready(serd) = "end")
  BY DEF SerdInv
<1>2. /\ \A pl : BaseAt(pl)' = BaseAt(pl) /\ PrefixesAt(pl)' = PrefixesAt(pl)
      /\ GoodStatements' = GoodStatements /\ FaultyChunks' = FaultyChunks
      /\ \A r : InOrder(r)' <=> InOrder(r)
  BY SameDocument
<1>3. SerdTypes'
  BY <1>1 DEF SerdTypes
<1>4. All' = All
  BY DEF All, QuadResults
<1>5. Counted' <=> Counted
  <2>1. EarlierOf(GoodStatements, <<pos, 1>>)' = EarlierOf(GoodStatements, <<pos, 1>>)
    BY <1>2 DEF EarlierOf
  <2>2. QuadsIn(All)' = QuadsIn(All) /\ QuadsIn(given)' = QuadsIn(given)
    BY <1>4
  <2>3. Below(FaultyChunks, pos)' = Below(FaultyChunks, pos)
    BY <1>2
  <2> QED
    BY <2>1, <2>2, <2>3 DEF Counted
<1>6. Reading'
  <2>1. InLine' <=> InLine
    BY DEF InLine
  <2> QED
    BY <1>1, <1>2, <1>5, <2>1 DEF Reading
<1>7. Failing'
  <2>1. EarlierOf(GoodStatements, <<pos, 1>>)' = EarlierOf(GoodStatements, <<pos, 1>>)
    BY <1>2 DEF EarlierOf
  <2>2. (NoneLost' <=> NoneLost) /\ (Told' <=> Told)
    BY <1>4, <2>1 DEF NoneLost, Told, InLine
  <2> QED
    BY <1>1, <2>2 DEF Failing
<1>8. InOrder(All)'
  BY <1>1, <1>2, <1>4
<1> QED
  BY <1>1, <1>3, <1>6, <1>7, <1>8 DEF SerdInv

LEMMA SerdKept ==
    ASSUME SerdInv, [Next]_vars
    PROVE  SerdInv'
<1>1. CASE UNCHANGED vars
  <2>1. /\ format' = format /\ given' = given /\ failed' = failed /\ serd' = serd
        /\ doc' = doc /\ pos' = pos /\ call' = call
    BY <1>1 DEF vars, serdVars
  <2> QED
    BY <2>1, SerdRests DEF SerdInv
<1>2. CASE XmlEvents \/ BeginChunk \/ EndChunk \/ XmlNext
  <2>1. format = "xml" /\ format' = format
    <3>1. CASE XmlEvents
      <4>1. ASSUME NEW x, Event(x) PROVE format = "xml" /\ format' = format
        BY <4>1 DEF Event
      <4>2. XmlEvents => \E x : Event(x)
        BY Zenon DEF XmlEvents, StartElement, Characters, EndElement, NotWellFormed
      <4> QED
        BY <3>1, <4>1, <4>2, Zenon
    <3>2. CASE BeginChunk \/ EndChunk \/ XmlNext
      BY <3>2 DEF BeginChunk, EndChunk, XmlNext
    <3> QED
      BY <1>2, <3>1, <3>2
  <2> QED
    BY <2>1 DEF SerdInv
<1>3. CASE ReadChunk
  BY <1>3, ChunkStep DEF ReadChunk, SerdStep
<1>4. CASE ReadEnd
  BY <1>4, EndStep DEF ReadEnd, SerdStep
<1>5. CASE StreamFails
  BY <1>5, FailureStep DEF StreamFails, SerdStep
<1>6. CASE SerdNext
  <2>1. S!Ready(serd) \in {"quad", "error", "end", "read"}
    BY DEF S!Ready
  <2>2. CASE S!Ready(serd) = "quad"
    BY <1>6, <2>2, QuadStep DEF SerdNext, SerdStep
  <2>3. CASE S!Ready(serd) = "error"
    BY <1>6, <2>3, ErrorStep DEF SerdNext, GiveError, SerdStep
  <2>4. CASE S!Ready(serd) = "end"
    <3>1. /\ format = "serd" /\ format' = format /\ given' = given /\ failed' = failed
          /\ serd' = serd /\ doc' = doc /\ pos' = pos /\ call' = "ended"
      BY <1>6, <2>4 DEF SerdNext, SerdStep
    <3> QED
      BY <2>4, <3>1, SerdRests
  <2>5. CASE S!Ready(serd) = "read"
    BY <1>6, <2>5 DEF SerdNext
  <2> QED
    BY <2>1, <2>2, <2>3, <2>4, <2>5
<1>7. CASE AtTheEnd
  <2>1. UNCHANGED vars
    BY <1>7 DEF AtTheEnd
  <2> QED
    BY <1>1, <2>1
<1> QED
  BY <1>1, <1>2, <1>3, <1>4, <1>5, <1>6, <1>7 DEF Next

\* The quads that were returned are those of the document, in its order, up to where the
\* reader is; at the end they are all of them, and the errors are as many as the chunks
\* with a fault.
LEMMA SerdInOrder ==
    ASSUME SerdInv
    PROVE  StatementsInOrder
<1> SUFFICES ASSUME format = "serd"
             PROVE  /\ InOrder(given)
                    /\ call = "ended" /\ ~failed =>
                          /\ Cardinality(QuadsIn(given)) = Cardinality(GoodStatements)
                          /\ Cardinality(DOMAIN given \ QuadsIn(given)) = Cardinality(FaultyChunks)
                    /\ call = "ended" /\ failed =>
                          /\ Cardinality(EarlierOf(GoodStatements, <<pos, 1>>)) <=
                                Cardinality(QuadsIn(given))
                          /\ given # <<>>
                          /\ \/ Last(given) = <<"error", "Io">>
                             \/ InLine /\ IsError(Last(given))
  BY DEF StatementsInOrder
<1>1. SerdTypes /\ InOrder(All) /\ Reading /\ Failing /\ (call = "ended" => S!Ready(serd) = "end")
  BY DEF SerdInv
<1>2. IsSeq(given) /\ IsSeq(serd.buffer) /\ doc \in Documents /\ pos \in 1 .. Len(doc) + 1
  BY <1>1 DEF SerdTypes
<1>3. InOrder(given)
  <2>1. IsSeq(QuadResults(serd.buffer))
    BY <1>2, Buffered
  <2>2. /\ IsSeq(All) /\ Len(All) = Len(given) + Len(QuadResults(serd.buffer))
        /\ \A n \in 1 .. Len(given) : All[n] = given[n]
    BY <1>2, <2>1, Concatenated DEF All
  <2>3. Len(given) \in Nat /\ Len(QuadResults(serd.buffer)) \in Nat
    BY <1>2, <2>1, SeqFacts
  <2>4. Len(given) <= Len(All)
    BY <2>2, <2>3
  <2> QED
    BY <1>1, <1>2, <2>2, <2>4, InOrderSame
<1>4. ASSUME call = "ended"
      PROVE  serd.buffer = <<>> /\ serd.last_error = S!NoError /\ serd.end_flag
  BY <1>1, <1>4 DEF S!Ready
<1>5. ASSUME call = "ended", ~failed
      PROVE  /\ Cardinality(QuadsIn(given)) = Cardinality(GoodStatements)
             /\ Cardinality(DOMAIN given \ QuadsIn(given)) = Cardinality(FaultyChunks)
  <2>1. Len(doc) \in Nat
    BY <1>2, DocumentFacts
  <2>2. pos = Len(doc) + 1 /\ Counted
    <3>1. pos > Len(doc) /\ Counted
      BY <1>1, <1>4, <1>5 DEF Reading
    <3> QED
      BY <1>2, <2>1, <3>1
  <2>3. EarlierOf(GoodStatements, <<pos, 1>>) = GoodStatements
    BY <1>2, <2>2, EarlierThanEnd DEF GoodStatements
  <2>4. Below(FaultyChunks, pos) = FaultyChunks
    <3>1. \A j \in FaultyChunks : j \in 1 .. Len(doc)
      BY <1>2, DocumentFacts DEF FaultyChunks
    <3>2. \A j \in FaultyChunks : j < pos
      BY <2>1, <2>2, <3>1
    <3> QED
      BY <3>2 DEF Below
  <2>5. All = given
    BY <1>2, <1>4, <1>5, EmptyResults DEF All
  <2>6. Cardinality(DOMAIN given \ QuadsIn(given)) \in Nat
    BY <1>2, QuadsAreFinite
  <2> QED
    BY <1>4, <1>5, <2>2, <2>3, <2>4, <2>5, <2>6 DEF Counted
<1>6. ASSUME call = "ended", failed
      PROVE  /\ Cardinality(EarlierOf(GoodStatements, <<pos, 1>>)) <= Cardinality(QuadsIn(given))
             /\ given # <<>>
             /\ Last(given) = <<"error", "Io">> \/ (InLine /\ IsError(Last(given)))
  <2>1. serd.last_error # "Io"
    BY <1>4, <1>6 DEF S!NoError
  <2>2. NoneLost /\ Told
    BY <1>1, <1>6, <2>1 DEF Failing
  <2>3. All = given
    BY <1>2, <1>4, <1>6, EmptyResults DEF All
  <2> QED
    BY <2>2, <2>3 DEF NoneLost, Told
<1> QED
  BY <1>3, <1>5, <1>6

\* The reader that uses serd gives the statements of the document in their order, loses
\* none to an error, makes none up, and reports what could not be read: for any
\* document and wherever the stream fails (next, on_stmt).
THEOREM Spec_StatementsInOrder == Spec => []StatementsInOrder
<1>1. Init => SerdInv
  BY SerdInit
<1>2. SerdInv /\ [Next]_vars => SerdInv'
  BY SerdKept
<1>3. SerdInv => StatementsInOrder
  BY SerdInOrder
<1> QED
  BY <1>1, <1>2, <1>3, PTL DEF Spec

-----------------------------------------------------------------------------
(***************************************************************************)
(* The RDF/XML reader.  What its operators add to the output: o1 is o with *)
(* more behind its queue, and of what is new only the statement that r     *)
(* stands for a statement has the predicate rdf:subject, once; a document  *)
(* may say so by hand.                                                     *)
(***************************************************************************)
IsOutput(o) == DOMAIN o = {"queue", "bns", "ids", "base"} /\ IsSeq(o.queue)

ByHand ==
    \/ \E e \in Elements : e.n = "rdf:subject" \/ Has(e, {"rdf:subject"})
    \/ \E k \in Nat : "rdf:_" \o ToString(k) = "rdf:subject"

SaysSubject(r) == ~IsError(r) /\ r[3] = X!Named("rdf:subject")
NoErrors(o) == \A n \in 1 .. Len(o.queue) : ~IsError(o.queue[n])
Added(o, o1) == Len(o.queue) + 1 .. Len(o1.queue)

Emits(o, o1, r) ==
    /\ IsOutput(o1) /\ Len(o.queue) <= Len(o1.queue)
    /\ \A id \in o.ids : id \in o1.ids
    /\ \A n \in 1 .. Len(o.queue) : o1.queue[n] = o.queue[n]
    /\ ~ByHand =>
          /\ \A n \in Added(o, o1) :
                SaysSubject(o1.queue[n]) => r # X!Null /\ o1.queue[n][2] = r
          /\ \A n, m \in Added(o, o1) :
                SaysSubject(o1.queue[n]) /\ SaysSubject(o1.queue[m]) => n = m

Plain(o, o1) == Emits(o, o1, X!Null)

\* An output that does not change, or changes in its other fields
LEMMA PlainSame ==
    ASSUME NEW o, IsOutput(o), NEW o1, IsOutput(o1), o1.queue = o.queue,
           \A id \in o.ids : id \in o1.ids
    PROVE  Plain(o, o1) /\ (NoErrors(o1) <=> NoErrors(o))
<1>1. Len(o.queue) \in Nat
  BY SeqFacts DEF IsOutput
<1>2. Added(o, o1) = {}
  BY <1>1 DEF Added
<1>3. Plain(o, o1)
  BY <1>1, <1>2 DEF Plain, Emits
<1>4. NoErrors(o1) <=> NoErrors(o)
  BY DEF NoErrors
<1> QED
  BY <1>3, <1>4

LEMMA EmitsMore ==
    ASSUME NEW o, NEW o1, NEW o2, NEW r, IsOutput(o),
           \/ Emits(o, o1, r) /\ Plain(o1, o2)
           \/ Plain(o, o1) /\ Emits(o1, o2, r)
    PROVE  Emits(o, o2, r) /\ (NoErrors(o2) => NoErrors(o1) /\ NoErrors(o))
<1>1. /\ IsOutput(o1) /\ IsOutput(o2)
      /\ Len(o.queue) <= Len(o1.queue) /\ Len(o1.queue) <= Len(o2.queue)
      /\ \A id \in o.ids : id \in o2.ids
      /\ \A n \in 1 .. Len(o.queue) : o1.queue[n] = o.queue[n]
      /\ \A n \in 1 .. Len(o1.queue) : o2.queue[n] = o1.queue[n]
  BY DEF Plain, Emits
<1>2. Len(o.queue) \in Nat /\ Len(o1.queue) \in Nat /\ Len(o2.queue) \in Nat
  BY <1>1, SeqFacts DEF IsOutput
<1>3. \A n \in 1 .. Len(o.queue) : n \in 1 .. Len(o1.queue) /\ o2.queue[n] = o.queue[n]
  BY <1>1, <1>2
<1>4. ASSUME NEW n \in Added(o, o2)
      PROVE  \/ n \in Added(o, o1) /\ o2.queue[n] = o1.queue[n]
             \/ n \in Added(o1, o2)
  BY <1>1, <1>2 DEF Added
<1>5. NoErrors(o2) => NoErrors(o1) /\ NoErrors(o)
  BY <1>1, <1>2, <1>3 DEF NoErrors
<1>6. ASSUME ~ByHand, NEW n \in Added(o, o2), SaysSubject(o2.queue[n])
      PROVE  r # X!Null /\ o2.queue[n][2] = r
  BY <1>4, <1>6 DEF Plain, Emits
<1>7. ASSUME ~ByHand, NEW n \in Added(o, o2), NEW m \in Added(o, o2),
             SaysSubject(o2.queue[n]), SaysSubject(o2.queue[m])
      PROVE  n = m
  BY <1>4, <1>7 DEF Plain, Emits
<1>8. Emits(o, o2, r)
  BY <1>1, <1>2, <1>3, <1>6, <1>7 DEF Emits
<1> QED
  BY <1>5, <1>8

LEMMA PlainMore ==
    ASSUME NEW o, NEW o1, NEW o2, IsOutput(o), Plain(o, o1), Plain(o1, o2)
    PROVE  Plain(o, o2) /\ (NoErrors(o2) => NoErrors(o1) /\ NoErrors(o))
BY EmitsMore DEF Plain

LEMMA PlainError ==
    ASSUME NEW o, IsOutput(o), NEW type
    PROVE  /\ Plain(o, X!add_error(o, type)) /\ ~NoErrors(X!add_error(o, type))
           /\ X!add_error(o, type).ids = o.ids
<1> DEFINE e == <<"error", type>>
           o1 == X!add_error(o, type)
<1>1. /\ DOMAIN o1 = DOMAIN o /\ o1.queue = Append(o.queue, e) /\ o1.ids = o.ids
  BY DEF X!add_error, IsOutput
<1>2. IsError(e)
  BY DEF IsError
<1> HIDE DEF o1, e
<1>3. /\ IsSeq(o1.queue) /\ Len(o1.queue) = Len(o.queue) + 1
      /\ \A n \in 1 .. Len(o.queue) : o1.queue[n] = o.queue[n]
      /\ o1.queue[Len(o.queue) + 1] = e
  BY <1>1, Appended DEF IsOutput
<1>4. Len(o.queue) \in Nat
  BY SeqFacts DEF IsOutput
<1>5. Added(o, o1) = {Len(o.queue) + 1}
  BY <1>3, <1>4 DEF Added
<1>6. ~NoErrors(o1)
  BY <1>2, <1>3, <1>4 DEF NoErrors
<1>7. \A n \in Added(o, o1) : ~SaysSubject(o1.queue[n])
  BY <1>2, <1>3, <1>5 DEF SaysSubject
<1>8. IsOutput(o1)
  BY <1>1, <1>3 DEF IsOutput
<1>9. Plain(o, o1)
  <2>1. Len(o.queue) <= Len(o1.queue) /\ \A id \in o.ids : id \in o1.ids
    BY <1>1, <1>3, <1>4
  <2>2. \A n \in 1 .. Len(o.queue) : o1.queue[n] = o.queue[n]
    BY <1>3
  <2> QED
    BY <1>7, <1>8, <2>1, <2>2 DEF Plain, Emits
<1> QED
  BY <1>1, <1>6, <1>9 DEF o1

\* A statement, and the four that it is a statement, if it has a name
LEMMA QuadsAre ==
    ASSUME NEW s, NEW p, NEW ob, NEW r
    PROVE  /\ IsSeq(X!Quads(s, p, ob, r)) /\ Len(X!Quads(s, p, ob, r)) \in Nat
           /\ \A n \in 1 .. Len(X!Quads(s, p, ob, r)) : ~IsError(X!Quads(s, p, ob, r)[n])
           /\ p # X!Named("rdf:subject") =>
                 \A n \in 1 .. Len(X!Quads(s, p, ob, r)) :
                    SaysSubject(X!Quads(s, p, ob, r)[n]) =>
                        n = 2 /\ r # X!Null /\ X!Quads(s, p, ob, r)[n][2] = r
<1> DEFINE a == <<"quad", s, p, ob>>
           t == IF r = X!Null THEN <<>>
                ELSE << <<"quad", r, X!Named("rdf:subject"), s>>,
                        <<"quad", r, X!Named("rdf:predicate"), p>>,
                        <<"quad", r, X!Named("rdf:object"), ob>>,
                        <<"quad", r, X!TypeIri, X!Named("rdf:Statement")>> >>
           q == <<a>> \o t
<1>1. X!Quads(s, p, ob, r) = q
  BY DEF X!Quads
<1>2. IsSeq(<<a>>) /\ Len(<<a>>) = 1 /\ <<a>>[1] = a
  <2>1. <<a>> \in Seq({a})
    OBVIOUS
  <2> QED
    BY <2>1 DEF IsSeq
<1>3. a[1] = "quad" /\ a[3] = p
  OBVIOUS
<1> HIDE DEF a
<1>4. /\ IsSeq(t) /\ Len(t) \in {0, 4}
      /\ \A n \in 1 .. Len(t) : t[n][1] = "quad"
      /\ \A n \in 1 .. Len(t) : t[n][3] = X!Named("rdf:subject") => n = 1
      /\ Len(t) # 0 => r # X!Null /\ t[1][2] = r
  <2>1. CASE r = X!Null
    <3>1. t = <<>>
      BY <2>1
    <3> HIDE DEF t
    <3> QED
      BY <3>1, EmptyResults
  <2>2. CASE r # X!Null
    <3> DEFINE b == <<"quad", r, X!Named("rdf:subject"), s>>
               c == <<"quad", r, X!Named("rdf:predicate"), p>>
               d == <<"quad", r, X!Named("rdf:object"), ob>>
               e == <<"quad", r, X!TypeIri, X!Named("rdf:Statement")>>
    <3>1. t = <<b, c, d, e>>
      BY <2>2
    <3>2. b[1] = "quad" /\ c[1] = "quad" /\ d[1] = "quad" /\ e[1] = "quad" /\ b[2] = r
      OBVIOUS
    <3>3. /\ c[3] # X!Named("rdf:subject") /\ d[3] # X!Named("rdf:subject")
          /\ e[3] # X!Named("rdf:subject")
      BY DEF X!Named, X!Iri, X!TypeIri
    <3> HIDE DEF t, b, c, d, e
    <3>4. /\ <<b, c, d, e>> \in Seq({b, c, d, e}) /\ Len(<<b, c, d, e>>) = 4
          /\ <<b, c, d, e>>[1] = b /\ <<b, c, d, e>>[2] = c
          /\ <<b, c, d, e>>[3] = d /\ <<b, c, d, e>>[4] = e
      OBVIOUS
    <3>5. IsSeq(t) /\ Len(t) = 4 /\ t[1] = b /\ t[2] = c /\ t[3] = d /\ t[4] = e
      BY <3>1, <3>4 DEF IsSeq
    <3>6. \A n \in 1 .. 4 : n = 1 \/ n = 2 \/ n = 3 \/ n = 4
      OBVIOUS
    <3> QED
      BY <2>2, <3>2, <3>3, <3>5, <3>6
  <2> QED
    BY <2>1, <2>2
<1> HIDE DEF t
<1>5. /\ IsSeq(q) /\ Len(q) = 1 + Len(t) /\ q[1] = a
      /\ \A n \in 1 .. Len(t) : q[1 + n] = t[n]
  BY <1>2, <1>4, Concatenated
<1> HIDE DEF q
<1>6. ASSUME NEW n \in 1 .. Len(q)
      PROVE  n = 1 \/ \E m \in 1 .. Len(t) : n = 1 + m
  <2>1. n # 1 => n - 1 \in 1 .. Len(t) /\ n = 1 + (n - 1)
    BY <1>4, <1>5
  <2> QED
    BY <2>1
<1>7. \A n \in 1 .. Len(q) : ~IsError(q[n])
  BY <1>3, <1>4, <1>5, <1>6 DEF IsError
<1>8. ASSUME p # X!Named("rdf:subject"), NEW n \in 1 .. Len(q), SaysSubject(q[n])
      PROVE  n = 2 /\ r # X!Null /\ q[n][2] = r
  <2>1. n # 1
    BY <1>3, <1>5, <1>8 DEF SaysSubject
  <2>2. PICK m \in 1 .. Len(t) : n = 1 + m
    BY <1>6, <2>1
  <2>3. q[n] = t[m] /\ m = 1 /\ Len(t) # 0
    BY <1>4, <1>5, <1>8, <2>2 DEF SaysSubject
  <2> QED
    BY <1>4, <2>2, <2>3
<1>9. Len(q) \in Nat
  BY <1>4, <1>5
<1> QED
  BY <1>1, <1>5, <1>7, <1>8, <1>9

LEMMA Stated ==
    ASSUME NEW o, IsOutput(o), NEW s, NEW p, NEW ob, NEW r,
           p # X!Named("rdf:subject") \/ ByHand
    PROVE  /\ Emits(o, X!add_statement(o, s, p, ob, r), r)
           /\ NoErrors(X!add_statement(o, s, p, ob, r)) <=> NoErrors(o)
           /\ X!add_statement(o, s, p, ob, r).ids = o.ids
<1> DEFINE o1 == X!add_statement(o, s, p, ob, r)
           q == X!Quads(s, p, ob, r)
<1>1. CASE X!Null \in {s, p, ob}
  <2>1. o1 = o
    BY <1>1 DEF X!add_statement
  <2> HIDE DEF o1
  <2>2. Plain(o, o1) /\ (NoErrors(o1) <=> NoErrors(o))
    BY <2>1, PlainSame
  <2>3. Len(o.queue) \in Nat
    BY SeqFacts DEF IsOutput
  <2>4. Added(o, o1) = {}
    BY <2>1, <2>3 DEF Added
  <2>5. Emits(o, o1, r)
    BY <2>2, <2>4 DEF Plain, Emits
  <2> QED
    BY <2>1, <2>2, <2>5 DEF o1
<1>2. CASE X!Null \notin {s, p, ob}
  <2>1. /\ DOMAIN o1 = DOMAIN o /\ o1.queue = o.queue \o q /\ o1.ids = o.ids
    BY <1>2 DEF X!add_statement, IsOutput
  <2>2. /\ IsSeq(q) /\ Len(q) \in Nat
        /\ \A n \in 1 .. Len(q) : ~IsError(q[n])
        /\ p # X!Named("rdf:subject") =>
              \A n \in 1 .. Len(q) : SaysSubject(q[n]) => n = 2 /\ r # X!Null /\ q[n][2] = r
    BY QuadsAre
  <2> HIDE DEF o1, q
  <2>3. IsSeq(o.queue) /\ Len(o.queue) \in Nat
    BY SeqFacts DEF IsOutput
  <2>4. /\ IsSeq(o1.queue) /\ Len(o1.queue) = Len(o.queue) + Len(q)
        /\ \A n \in 1 .. Len(o.queue) : o1.queue[n] = o.queue[n]
        /\ \A n \in 1 .. Len(q) : o1.queue[Len(o.queue) + n] = q[n]
    BY <2>1, <2>2, <2>3, Concatenated
  <2>5. ASSUME NEW n \in Added(o, o1)
        PROVE  \E m \in 1 .. Len(q) : n = Len(o.queue) + m /\ o1.queue[n] = q[m]
    <3>1. n - Len(o.queue) \in 1 .. Len(q) /\ n = Len(o.queue) + (n - Len(o.queue))
      BY <2>2, <2>3, <2>4 DEF Added
    <3> QED
      BY <2>4, <3>1
  <2>6. ASSUME ~ByHand, NEW n \in Added(o, o1), SaysSubject(o1.queue[n])
        PROVE  n = Len(o.queue) + 2 /\ r # X!Null /\ o1.queue[n][2] = r
    BY <2>2, <2>5, <2>6
  <2>7. IsOutput(o1) /\ Len(o.queue) <= Len(o1.queue)
    BY <2>1, <2>2, <2>3, <2>4 DEF IsOutput
  <2>8. Emits(o, o1, r)
    BY <2>1, <2>4, <2>6, <2>7 DEF Emits
  <2>9. NoErrors(o1) <=> NoErrors(o)
    <3>1. \A n \in Added(o, o1) : ~IsError(o1.queue[n])
      BY <2>2, <2>5
    <3>2. \A n \in 1 .. Len(o1.queue) : n \in 1 .. Len(o.queue) \/ n \in Added(o, o1)
      BY <2>2, <2>3, <2>4 DEF Added
    <3>3. \A n \in 1 .. Len(o.queue) : n \in 1 .. Len(o1.queue)
      BY <2>2, <2>3, <2>4
    <3> QED
      BY <2>4, <3>1, <3>2, <3>3 DEF NoErrors
  <2> QED
    BY <2>1, <2>8, <2>9 DEF o1
<1> QED
  BY <1>1, <1>2

LEMMA ErrorsStay ==
    ASSUME NEW o, IsOutput(o), NEW o1, NEW r, Emits(o, o1, r), NoErrors(o1)
    PROVE  NoErrors(o)
<1>1. IsSeq(o.queue) /\ IsSeq(o1.queue) /\ Len(o.queue) <= Len(o1.queue)
  BY DEF Emits, IsOutput
<1>2. \A n \in 1 .. Len(o.queue) : n \in 1 .. Len(o1.queue) /\ o1.queue[n] = o.queue[n]
  BY <1>1, SeqFacts DEF Emits
<1> QED
  BY <1>2 DEF NoErrors

\* What makes a node
Makes(o, r) == DOMAIN r = {"o", "n"} /\ Plain(o, r.o) /\ r.o.ids = o.ids

LEMMA Inspected ==
    ASSUME NEW o, IsOutput(o), NEW n
    PROVE  LET r == X!inspect_node(o, n)
           IN  Makes(o, r) /\ r.n \in {n, X!Null} /\ (NoErrors(r.o) => r.n = n)
<1>1. CASE n \in Refused
  <2>1. X!inspect_node(o, n) = [o |-> X!add_error(o, "BadSyntax"), n |-> X!Null]
    BY <1>1 DEF X!inspect_node
  <2> QED
    BY <2>1, PlainError DEF Makes
<1>2. CASE n \notin Refused
  <2>1. X!inspect_node(o, n) = [o |-> o, n |-> n]
    BY <1>2 DEF X!inspect_node
  <2> QED
    BY <2>1, PlainSame DEF Makes
<1> QED
  BY <1>1, <1>2

\* Setting the base of the factory, or counting a blank node, says nothing.
LEMMA Touched ==
    ASSUME NEW o, IsOutput(o), NEW b
    PROVE  /\ IsOutput([o EXCEPT !.base = b]) /\ Plain(o, [o EXCEPT !.base = b])
           /\ [o EXCEPT !.base = b].ids = o.ids
           /\ IsOutput([o EXCEPT !.bns = b]) /\ Plain(o, [o EXCEPT !.bns = b])
           /\ [o EXCEPT !.bns = b].ids = o.ids
<1> DEFINE p == [o EXCEPT !.base = b]
           q == [o EXCEPT !.bns = b]
<1>1. IsOutput(p) /\ p.queue = o.queue /\ p.ids = o.ids
  BY DEF IsOutput
<1>2. IsOutput(q) /\ q.queue = o.queue /\ q.ids = o.ids
  BY DEF IsOutput
<1> HIDE DEF p, q
<1>3. Plain(o, p) /\ Plain(o, q)
  BY <1>1, <1>2, PlainSame
<1> QED
  BY <1>1, <1>2, <1>3 DEF p, q

LEMMA MadeFrom ==
    ASSUME NEW o, IsOutput(o), NEW p, IsOutput(p), Plain(o, p), p.ids = o.ids, NEW r, Makes(p, r)
    PROVE  Makes(o, r)
BY PlainMore DEF Makes

Against(base, i) == IF base = "" THEN i.base ELSE base

LEMMA IriMade ==
    ASSUME NEW o, IsOutput(o), NEW ref, NEW base, NEW i
    PROVE  LET r == X!make_iri(o, ref, base, i)
           IN  Makes(o, r) /\ (NoErrors(r.o) => r.n = X!Iri(Against(base, i), ref))
<1> DEFINE b == Against(base, i)
           p == [o EXCEPT !.base = b]
           r == X!make_iri(o, ref, base, i)
<1>1. IsOutput(p) /\ Plain(o, p) /\ p.ids = o.ids
  BY Touched
<1>2. r = IF ref \in BadRefs THEN [o |-> X!add_error(p, "BadIri"), n |-> X!Null]
                             ELSE X!inspect_node(p, X!Iri(b, ref))
  BY DEF X!make_iri, Against
<1> HIDE DEF p, r
<1>3. CASE ref \in BadRefs
  BY <1>1, <1>2, <1>3, PlainError, MadeFrom DEF Makes, r
<1>4. CASE ref \notin BadRefs
  <2>1. Makes(p, r) /\ (NoErrors(r.o) => r.n = X!Iri(b, ref))
    BY <1>1, <1>2, <1>4, Inspected
  <2> QED
    BY <1>1, <2>1, MadeFrom DEF r
<1> QED
  BY <1>3, <1>4

LEMMA NameMade ==
    ASSUME NEW o, IsOutput(o), NEW name, NEW base, NEW i
    PROVE  LET r == X!make_name(o, name, base, i)
           IN  Makes(o, r) /\ r.n \in {X!Named(name), X!Null}
<1> DEFINE p == [o EXCEPT !.base = Against(base, i)]
<1>1. IsOutput(p) /\ Plain(o, p) /\ p.ids = o.ids
  BY Touched
<1>2. X!make_name(o, name, base, i) = X!inspect_node(p, X!Named(name))
  BY DEF X!make_name, Against
<1> HIDE DEF p
<1> QED
  BY <1>1, <1>2, Inspected, MadeFrom

LEMMA BlankMade ==
    ASSUME NEW o, IsOutput(o)
    PROVE  Makes(o, X!new_bn(o)) /\ \A name : Makes(o, X!make_bn(o, name))
<1>1. Makes(o, X!new_bn(o))
  <2> DEFINE p == [o EXCEPT !.bns = o.bns + 1]
  <2>1. IsOutput(p) /\ Plain(o, p) /\ p.ids = o.ids
    BY Touched
  <2>2. X!new_bn(o) = X!inspect_node(p, X!Bnode(X!GeneratedLabel(o.bns)))
    BY DEF X!new_bn
  <2> HIDE DEF p
  <2> QED
    BY <2>1, <2>2, Inspected, MadeFrom
<1>2. ASSUME NEW name PROVE Makes(o, X!make_bn(o, name))
  BY Inspected, PlainError DEF X!make_bn, Makes
<1> QED
  BY <1>1, <1>2

LEMMA LiteralMade ==
    ASSUME NEW o, IsOutput(o), NEW text, NEW datatype, NEW lang, NEW i
    PROVE  Makes(o, X!make_literal(o, text, datatype, lang, i))
<1> DEFINE r == X!make_literal(o, text, datatype, lang, i)
           l == X!Lit(text, datatype,
                      IF datatype # X!Null THEN "" ELSE IF lang = "" THEN i.lang ELSE lang)
           p == X!add_error(o, "BadLiteral")
<1>1. r = IF <<text, datatype>> \in IllTyped THEN X!inspect_node(p, X!Null)
                                             ELSE X!inspect_node(o, l)
  BY Zenon DEF X!make_literal
<1>2. IsOutput(p) /\ Plain(o, p) /\ p.ids = o.ids
  BY PlainError DEF Plain, Emits
<1> HIDE DEF r, l, p
<1>3. Makes(o, X!inspect_node(o, l))
  BY Inspected, Zenon
<1>4. Makes(p, X!inspect_node(p, X!Null))
  BY <1>2, Inspected, Zenon
<1>5. Makes(o, X!inspect_node(p, X!Null))
  BY <1>2, <1>4, MadeFrom, Zenon
<1>6. Makes(o, r)
  BY <1>1, <1>3, <1>5, Zenon
<1> QED
  BY <1>6 DEF r

\* An rdf:ID that is made is new.
LEMMA IdMade ==
    ASSUME NEW o, IsOutput(o), NEW name, NEW base, NEW i
    PROVE  LET r == X!make_id(o, name, base, i)
           IN  /\ DOMAIN r = {"o", "n"} /\ Plain(o, r.o)
               /\ r.n # X!Null => r.n \notin o.ids /\ r.n \in r.o.ids
<1> DEFINE m == X!make_iri(o, "#" \o name, base, i)
           r == X!make_id(o, name, base, i)
<1>1. CASE ~X!is_ncname(name)
  BY <1>1, PlainError DEF X!make_id
<1>2. CASE X!is_ncname(name) /\ m.n \in m.o.ids
  <2>1. r = [o |-> X!add_error(m.o, "BadIri"), n |-> X!Null]
    BY <1>2 DEF X!make_id, X!Reserve
  <2>2. Makes(o, m)
    BY IriMade
  <2> HIDE DEF m, r
  <2>3. Plain(m.o, X!add_error(m.o, "BadIri")) /\ IsOutput(m.o) /\ Plain(o, m.o)
    BY <2>2, PlainError DEF Makes, Plain, Emits
  <2>4. Plain(o, X!add_error(m.o, "BadIri"))
    BY <2>3, PlainMore
  <2>5. DOMAIN r = {"o", "n"} /\ Plain(o, r.o) /\ r.n = X!Null
    BY <2>1, <2>4
  <2> QED
    BY <2>5 DEF r
<1>3. CASE X!is_ncname(name) /\ m.n \notin m.o.ids
  <2> DEFINE p == [m.o EXCEPT !.ids = m.o.ids \cup {m.n}]
  <2>1. r = [o |-> p, n |-> m.n]
    BY <1>3 DEF X!make_id, X!Reserve
  <2>2. Makes(o, m)
    BY IriMade
  <2> HIDE DEF m, r
  <2>3. IsOutput(m.o) /\ Plain(o, m.o) /\ m.o.ids = o.ids
    BY <2>2 DEF Makes, Plain, Emits
  <2>4. IsOutput(p) /\ p.queue = m.o.queue /\ p.ids = m.o.ids \cup {m.n}
    BY <2>3 DEF IsOutput
  <2> HIDE DEF p
  <2>5. Plain(m.o, p)
    BY <2>3, <2>4, PlainSame
  <2>6. Plain(o, p)
    BY <2>3, <2>5, PlainMore
  <2>7. /\ DOMAIN r = {"o", "n"} /\ Plain(o, r.o) /\ r.n = m.n
        /\ r.n \notin o.ids /\ r.n \in r.o.ids
    BY <1>3, <2>1, <2>3, <2>4, <2>6
  <2> QED
    BY <2>7 DEF r
<1> QED
  BY <1>1, <1>2, <1>3

\* The recursions over the attributes of an element, attribute by attribute
LEMMA AttributeFacts ==
    ASSUME NEW e \in Elements
    PROVE  IsSeq(e.a) /\ Len(e.a) \in Nat /\ DOMAIN e.a = 1 .. Len(e.a)
<1>1. e.a \in Seq(ToSet(e.a))
  BY ElementsAssumption
<1>2. IsSeq(e.a)
  BY <1>1 DEF IsSeq
<1> QED
  BY <1>2, SeqFacts

LEMMA SubjectSteps ==
    ASSUME NEW o, NEW base, NEW i, NEW e, Len(e.a) \in Nat
    PROVE  \E f : /\ f[0] = [o |-> o, n |-> X!Null]
                  /\ \A n \in 1 .. Len(e.a) : f[n] = X!SubjectStep(f[n - 1], e.a[n], base, i)
                  /\ X!SubjectOf(o, e, base, i) = f[Len(e.a)]
<1> DEFINE Next1(f) == [n \in 0 .. Len(e.a) |->
                           IF n = 0 THEN [o |-> o, n |-> X!Null]
                           ELSE X!SubjectStep(f[n - 1], e.a[n], base, i)]
           after == CHOOSE f : f = Next1(f)
<1>1. \E f : f = Next1(f)
  <2>0. \E c : c.of = "subject" /\ c.seq = e.a /\ c.base = base /\ c.i = i
    <3> WITNESS [of |-> "subject", seq |-> e.a, base |-> base, i |-> i]
    <3> QED
      OBVIOUS
  <2>c. PICK c : c.of = "subject" /\ c.seq = e.a /\ c.base = base /\ c.i = i
    BY <2>0
  <2>1. PICK f : AreSteps(f, c, [o |-> o, n |-> X!Null], Len(e.a))
    BY StepsExist
  <2>2. \A v, n : StepOf(c, v, n) = X!SubjectStep(v, e.a[n], base, i)
    BY <2>c DEF StepOf
  <2>3. f = Next1(f)
    BY <2>1, <2>2 DEF AreSteps
  <2> QED
    BY <2>3
<1>2. after = Next1(after)
  <2> HIDE DEF Next1
  <2> QED
    BY <1>1
<1>3. X!SubjectOf(o, e, base, i) = after[Len(e.a)]
  BY DEF X!SubjectOf
<1> HIDE DEF after
<1>4. /\ after[0] = [o |-> o, n |-> X!Null]
      /\ \A n \in 1 .. Len(e.a) : after[n] = X!SubjectStep(after[n - 1], e.a[n], base, i)
  BY <1>2
<1> QED
  BY <1>3, <1>4

LEMMA StatementSteps ==
    ASSUME NEW o, NEW s, NEW inh, NEW i, NEW e, Len(e.a) \in Nat
    PROVE  \E f : /\ f[0] = o
                  /\ \A n \in 1 .. Len(e.a) : f[n] = X!AttributeStatement(f[n - 1], s, e.a[n], inh.base, inh.lang, i)
                  /\ X!AttributeStatements(o, e, s, inh, i) = f[Len(e.a)]
<1> DEFINE Next1(f) == [n \in 0 .. Len(e.a) |->
                           IF n = 0 THEN o
                           ELSE X!AttributeStatement(f[n - 1], s, e.a[n], inh.base, inh.lang, i)]
           after == CHOOSE f : f = Next1(f)
<1>1. \E f : f = Next1(f)
  <2>0. \E c : c.of = "statement" /\ c.seq = e.a /\ c.s = s /\ c.base = inh.base /\ c.lang = inh.lang /\ c.i = i
    <3> WITNESS [of |-> "statement", seq |-> e.a, s |-> s, base |-> inh.base, lang |-> inh.lang, i |-> i]
    <3> QED
      OBVIOUS
  <2>c. PICK c : c.of = "statement" /\ c.seq = e.a /\ c.s = s /\ c.base = inh.base /\ c.lang = inh.lang /\ c.i = i
    BY <2>0
  <2>1. PICK f : AreSteps(f, c, o, Len(e.a))
    BY StepsExist
  <2>2. \A v, n : StepOf(c, v, n) = X!AttributeStatement(v, s, e.a[n], inh.base, inh.lang, i)
    BY <2>c DEF StepOf
  <2>3. f = Next1(f)
    BY <2>1, <2>2 DEF AreSteps
  <2> QED
    BY <2>3
<1>2. after = Next1(after)
  <2> HIDE DEF Next1
  <2> QED
    BY <1>1
<1>3. X!AttributeStatements(o, e, s, inh, i) = after[Len(e.a)]
  BY DEF X!AttributeStatements
<1> HIDE DEF after
<1>4. /\ after[0] = o
      /\ \A n \in 1 .. Len(e.a) : after[n] = X!AttributeStatement(after[n - 1], s, e.a[n], inh.base, inh.lang, i)
  BY <1>2
<1> QED
  BY <1>3, <1>4

NamedRun(f, o, e, base, i) ==
    /\ f[0] = X!NoObject(o)
    /\ \A n \in 1 .. Len(e.a) : f[n] = X!ObjectStep(f[n - 1], e.a[n], base, i)
    /\ X!NamedObject(o, e, base, i) = f[Len(e.a)]

LEMMA NamedSteps ==
    ASSUME NEW o, NEW base, NEW i, NEW e, Len(e.a) \in Nat
    PROVE  \E f : NamedRun(f, o, e, base, i)
<1> DEFINE Next1(f) == [n \in 0 .. Len(e.a) |->
                           IF n = 0 THEN X!NoObject(o)
                           ELSE X!ObjectStep(f[n - 1], e.a[n], base, i)]
           after == CHOOSE f : f = Next1(f)
<1>1. \E f : f = Next1(f)
  <2>0. \E c : c.of = "named" /\ c.seq = e.a /\ c.base = base /\ c.i = i
    <3> WITNESS [of |-> "named", seq |-> e.a, base |-> base, i |-> i]
    <3> QED
      OBVIOUS
  <2>c. PICK c : c.of = "named" /\ c.seq = e.a /\ c.base = base /\ c.i = i
    BY <2>0
  <2>1. PICK f : AreSteps(f, c, X!NoObject(o), Len(e.a))
    BY StepsExist
  <2>2. \A v, n : StepOf(c, v, n) = X!ObjectStep(v, e.a[n], base, i)
    BY <2>c DEF StepOf
  <2>3. f = Next1(f)
    BY <2>1, <2>2 DEF AreSteps
  <2> QED
    BY <2>3
<1>2. after = Next1(after)
  <2> HIDE DEF Next1
  <2> QED
    BY <1>1
<1>3. X!NamedObject(o, e, base, i) = after[Len(e.a)]
  BY DEF X!NamedObject
<1> HIDE DEF after
<1>4. /\ after[0] = X!NoObject(o)
      /\ \A n \in 1 .. Len(e.a) : after[n] = X!ObjectStep(after[n - 1], e.a[n], base, i)
  <2>1. after[0] = X!NoObject(o)
    <3>1. 0 \in 0 .. Len(e.a)
      OBVIOUS
    <3> QED
      BY <1>2, <3>1, Zenon
  <2>2. ASSUME NEW n \in 1 .. Len(e.a)
        PROVE  after[n] = X!ObjectStep(after[n - 1], e.a[n], base, i)
    <3>1. n \in 0 .. Len(e.a) /\ n # 0
      OBVIOUS
    <3> QED
      BY <1>2, <3>1, Zenon
  <2> QED
    BY <2>1, <2>2
<1> QED
  BY <1>3, <1>4 DEF NamedRun

DescribedRun(f, r, e, d, inh, i) ==
    /\ f[0] = r
    /\ \A n \in 1 .. Len(e.a) : f[n] = X!PropertyAttribute(f[n - 1], e.a[n], d, inh, i)
    /\ X!DescribedObject(r, e, d, inh, i) = f[Len(e.a)]

LEMMA DescribedSteps ==
    ASSUME NEW r, NEW d, NEW inh, NEW i, NEW e, Len(e.a) \in Nat
    PROVE  \E f : DescribedRun(f, r, e, d, inh, i)
<1> DEFINE Next1(f) == [n \in 0 .. Len(e.a) |->
                           IF n = 0 THEN r
                           ELSE X!PropertyAttribute(f[n - 1], e.a[n], d, inh, i)]
           after == CHOOSE f : f = Next1(f)
<1>1. \E f : f = Next1(f)
  <2>0. \E c : c.of = "described" /\ c.seq = e.a /\ c.d = d /\ c.inh = inh /\ c.i = i
    <3> WITNESS [of |-> "described", seq |-> e.a, d |-> d, inh |-> inh, i |-> i]
    <3> QED
      OBVIOUS
  <2>c. PICK c : c.of = "described" /\ c.seq = e.a /\ c.d = d /\ c.inh = inh /\ c.i = i
    BY <2>0
  <2>1. PICK f : AreSteps(f, c, r, Len(e.a))
    BY StepsExist
  <2>2. \A v, n : StepOf(c, v, n) = X!PropertyAttribute(v, e.a[n], d, inh, i)
    BY <2>c DEF StepOf
  <2>3. f = Next1(f)
    BY <2>1, <2>2 DEF AreSteps
  <2> QED
    BY <2>3
<1>2. after = Next1(after)
  <2> HIDE DEF Next1
  <2> QED
    BY <1>1
<1>3. X!DescribedObject(r, e, d, inh, i) = after[Len(e.a)]
  BY DEF X!DescribedObject
<1> HIDE DEF after
<1>4. /\ after[0] = r
      /\ \A n \in 1 .. Len(e.a) : after[n] = X!PropertyAttribute(after[n - 1], e.a[n], d, inh, i)
  BY <1>2
<1> QED
  BY <1>3, <1>4 DEF DescribedRun

LEMMA IriIsNotNull ==
    \A b, ref : X!Iri(b, ref) # X!Null
BY DEF X!Iri, X!Null

\* One attribute of a node element: at most one names the node.
LEMMA SubjectStepped ==
    ASSUME NEW r, DOMAIN r = {"o", "n"}, IsOutput(r.o), NEW at, NEW base, NEW i
    PROVE  LET r1 == X!SubjectStep(r, at, base, i)
           IN  /\ DOMAIN r1 = {"o", "n"} /\ Plain(r.o, r1.o)
               /\ NoErrors(r1.o) =>
                     /\ at.k \notin X!Subjects => r1.n = r.n
                     /\ at.k \in X!Subjects => r.n = X!Null
                     /\ at.k = "about" => r1.n = X!Iri(Against(base, i), at.v)
<1>0. "about" \in X!Subjects /\ \A k \in X!Subjects : k \in {"about", "ID", "nodeID"}
  BY DEF X!Subjects
<1>1. CASE at.k \notin X!Subjects
  <2>1. X!SubjectStep(r, at, base, i) = r
    BY <1>1 DEF X!SubjectStep
  <2> QED
    BY <1>0, <1>1, <2>1, PlainSame
<1>2. CASE at.k \in X!Subjects /\ r.n # X!Null
  <2> DEFINE r1 == [r EXCEPT !.o = X!add_error(r.o, "BadSyntax")]
  <2>1. X!SubjectStep(r, at, base, i) = r1
    BY <1>2 DEF X!SubjectStep
  <2>2. DOMAIN r1 = {"o", "n"} /\ r1.o = X!add_error(r.o, "BadSyntax")
    OBVIOUS
  <2> HIDE DEF r1
  <2>3. Plain(r.o, r1.o) /\ ~NoErrors(r1.o)
    BY <2>2, PlainError
  <2> QED
    BY <2>1, <2>2, <2>3
<1>3. CASE at.k = "about" /\ r.n = X!Null
  <2>1. X!SubjectStep(r, at, base, i) = X!make_iri(r.o, at.v, base, i)
    BY <1>0, <1>3 DEF X!SubjectStep
  <2> QED
    BY <1>0, <1>3, <2>1, IriMade DEF Makes
<1>4. CASE at.k = "ID" /\ r.n = X!Null
  <2>1. X!SubjectStep(r, at, base, i) = X!make_id(r.o, at.v, base, i) /\ at.k \in X!Subjects
    BY <1>4 DEF X!SubjectStep, X!Subjects
  <2> QED
    BY <1>4, <2>1, IdMade
<1>5. CASE at.k = "nodeID" /\ r.n = X!Null
  <2>1. X!SubjectStep(r, at, base, i) = X!make_bn(r.o, at.v) /\ at.k \in X!Subjects
    BY <1>5 DEF X!SubjectStep, X!Subjects
  <2> QED
    BY <1>5, <2>1, BlankMade DEF Makes
<1> QED
  BY <1>0, <1>1, <1>2, <1>3, <1>4, <1>5

NamedAbout(e, n, base, i) ==
    \A k \in DOMAIN e.a : e.a[k].k = "about" => n = X!Iri(Against(base, i), e.a[k].v)

LEMMA SubjectFound ==
    ASSUME NEW e \in Elements, NEW o, IsOutput(o), NEW base, NEW i
    PROVE  LET r == X!SubjectOf(o, e, base, i)
           IN  /\ DOMAIN r = {"o", "n"} /\ Plain(o, r.o)
               /\ NoErrors(r.o) => NamedAbout(e, r.n, base, i)
<1> DEFINE m == Len(e.a)
<1>0. m \in Nat /\ DOMAIN e.a = 1 .. m
  BY AttributeFacts
<1>1. PICK f : /\ f[0] = [o |-> o, n |-> X!Null]
               /\ \A n \in 1 .. m : f[n] = X!SubjectStep(f[n - 1], e.a[n], base, i)
               /\ X!SubjectOf(o, e, base, i) = f[m]
  BY <1>0, SubjectSteps
<1> DEFINE Named(n) == \A k \in 1 .. n :
                          e.a[k].k = "about" => f[n].n = X!Iri(Against(base, i), e.a[k].v)
           P == {n \in 0 .. m : /\ DOMAIN f[n] = {"o", "n"} /\ Plain(o, f[n].o)
                                /\ NoErrors(f[n].o) => Named(n)}
<1>2. 0 \in P
  BY <1>0, <1>1, PlainSame
<1>3. ASSUME NEW n \in 1 .. m, n - 1 \in P PROVE n \in P
  <2> DEFINE g == f[n - 1]
             h == f[n]
  <2>1. /\ DOMAIN g = {"o", "n"} /\ Plain(o, g.o) /\ IsOutput(g.o)
        /\ NoErrors(g.o) => \A k \in 1 .. n - 1 :
                               e.a[k].k = "about" => g.n = X!Iri(Against(base, i), e.a[k].v)
    BY <1>3 DEF Plain, Emits
  <2>2. h = X!SubjectStep(g, e.a[n], base, i)
    BY <1>1
  <2> HIDE DEF g, h
  <2>3. /\ DOMAIN h = {"o", "n"} /\ Plain(g.o, h.o)
        /\ NoErrors(h.o) =>
              /\ e.a[n].k \notin X!Subjects => h.n = g.n
              /\ e.a[n].k \in X!Subjects => g.n = X!Null
              /\ e.a[n].k = "about" => h.n = X!Iri(Against(base, i), e.a[n].v)
    BY <2>1, <2>2, SubjectStepped
  <2>4. Plain(o, h.o) /\ (NoErrors(h.o) => NoErrors(g.o))
    BY <2>1, <2>3, PlainMore
  <2>5. ASSUME NoErrors(h.o), NEW k \in 1 .. n, e.a[k].k = "about"
        PROVE  h.n = X!Iri(Against(base, i), e.a[k].v)
    <3>1. CASE k = n
      BY <2>3, <2>5, <3>1
    <3>2. CASE k # n
      <4>1. k \in 1 .. n - 1
        BY <3>2
      <4>2. g.n = X!Iri(Against(base, i), e.a[k].v)
        BY <2>1, <2>4, <2>5, <4>1
      <4>3. g.n # X!Null
        BY <4>2, IriIsNotNull
      <4> QED
        BY <2>3, <2>5, <4>2, <4>3
    <3> QED
      BY <3>1, <3>2
  <2>6. n \in 0 .. m
    BY <1>0
  <2> QED
    BY <2>3, <2>4, <2>5, <2>6 DEF h
<1>4. \A n \in 0 .. m : n \in P
  <2> HIDE DEF P, m
  <2> QED
    BY <1>0, <1>2, <1>3, UpTo
<1>5. m \in P
  BY <1>0, <1>4
<1> QED
  BY <1>0, <1>1, <1>5 DEF NamedAbout

LEMMA Generates ==
    ASSUME NEW o, NEW r, IsOutput(o), DOMAIN r = {"o", "n"}, Plain(o, r.o)
    PROVE  LET g == X!OrGenerated(r)
           IN  /\ DOMAIN g = {"o", "n"} /\ Plain(o, g.o)
               /\ NoErrors(g.o) => NoErrors(r.o)
               /\ r.n # X!Null => g.n = r.n
<1>0. IsOutput(r.o)
  BY DEF Plain, Emits
<1>1. CASE r.n = X!Null
  <2>1. X!OrGenerated(r) = X!new_bn(r.o)
    BY <1>1 DEF X!OrGenerated
  <2>2. Makes(r.o, X!new_bn(r.o))
    BY <1>0, BlankMade
  <2> QED
    BY <1>0, <1>1, <2>1, <2>2, PlainMore DEF Makes
<1>2. CASE r.n # X!Null
  <2>1. X!OrGenerated(r) = r
    BY <1>2 DEF X!OrGenerated
  <2> QED
    BY <2>1
<1> QED
  BY <1>1, <1>2

LEMMA InheritChecked ==
    ASSUME NEW o, IsOutput(o), NEW e
    PROVE  Plain(o, X!InheritErrors(o, e)) /\ X!InheritErrors(o, e).ids = o.ids
BY PlainError, PlainSame DEF X!InheritErrors

\* The predicates that are made are not rdf:subject, unless the document has it by hand.
LEMMA NamesApart ==
    /\ \A name : X!Named(name) = X!Named("rdf:subject") => name = "rdf:subject"
    /\ X!Null # X!Named("rdf:subject")
    /\ X!TypeIri # X!Named("rdf:subject")
    /\ X!Named("rdf:first") # X!Named("rdf:subject")
    /\ X!Named("rdf:rest") # X!Named("rdf:subject")
<1>1. \A name : X!Named(name) = X!Named("rdf:subject") => name = "rdf:subject"
  <2> SUFFICES ASSUME NEW name, X!Named(name) = X!Named("rdf:subject") PROVE name = "rdf:subject"
    OBVIOUS
  <2>1. <<"iri", "", name>>[3] = <<"iri", "", "rdf:subject">>[3]
    BY DEF X!Named, X!Iri
  <2> QED
    BY <2>1
<1>2. X!Null # X!Named("rdf:subject")
  BY IriIsNotNull DEF X!Named
<1>3. X!TypeIri = X!Named("rdf:type")
  BY DEF X!TypeIri
<1> QED
  BY <1>1, <1>2, <1>3

LEMMA TypeStated ==
    ASSUME NEW o, IsOutput(o), NEW ob, Makes(o, ob), NEW s
    PROVE  Plain(o, X!StateType(ob, s))
<1>1. IsOutput(ob.o) /\ Plain(o, ob.o)
  BY DEF Makes, Plain, Emits
<1>2. Plain(ob.o, X!add_statement(ob.o, s, X!TypeIri, ob.n, X!Null))
  BY <1>1, NamesApart, Stated DEF Plain
<1> QED
  BY <1>1, <1>2, PlainMore DEF X!StateType

LEMMA AttributeStated ==
    ASSUME NEW e \in Elements, NEW n \in DOMAIN e.a,
           NEW o, IsOutput(o), NEW s, NEW base, NEW lang, NEW i
    PROVE  Plain(o, X!AttributeStatement(o, s, e.a[n], base, lang, i))
<1> DEFINE at == e.a[n]
           r == X!AttributeStatement(o, s, at, base, lang, i)
<1>1. CASE at.k \in {"li", "old"}
  BY <1>1, PlainError DEF X!AttributeStatement
<1>2. CASE X!NotAStatement(at) /\ at.k \notin {"li", "old"}
  <2>0. at.k # "type"
    BY <1>2 DEF X!NotAStatement, X!Reserved, X!Subjects, X!XmlNodes
  <2>1. r = o
    BY <1>2, <2>0 DEF X!AttributeStatement
  <2> QED
    BY <2>1, PlainSame
<1>3. CASE at.k = "type"
  <2>1. at.k \notin {"li", "old"} /\ ~X!NotAStatement(at)
    BY <1>3 DEF X!NotAStatement, X!Reserved, X!Subjects, X!XmlNodes
  <2>2. r = X!StateType(X!make_iri(o, at.v, base, i), s)
    BY <1>3, <2>1 DEF X!AttributeStatement
  <2> QED
    BY <2>2, IriMade, TypeStated
<1>4. CASE ~X!NotAStatement(at) /\ at.k # "type"
  <2> DEFINE p == X!make_name(o, at.k, base, i)
             ob == X!make_literal(p.o, at.v, X!Null, lang, i)
  <2>1. at.k \notin {"li", "old"}
    BY <1>4 DEF X!NotAStatement
  <2>2. r = X!add_statement(ob.o, s, p.n, ob.n, X!Null)
    BY <1>4, <2>1 DEF X!AttributeStatement, X!StateThat
  <2>3. Makes(o, p) /\ p.n \in {X!Named(at.k), X!Null}
    BY NameMade
  <2>4. at.k = "rdf:subject" => ByHand
    BY DEF ByHand, Has
  <2>5. p.n # X!Named("rdf:subject") \/ ByHand
    BY <2>3, <2>4, NamesApart
  <2>6. IsOutput(p.o) /\ Plain(o, p.o)
    BY <2>3 DEF Makes, Plain, Emits
  <2> HIDE DEF p, r
  <2>7. Makes(p.o, ob)
    BY <2>6, LiteralMade
  <2> HIDE DEF ob
  <2>8. IsOutput(ob.o) /\ Plain(o, ob.o)
    BY <2>6, <2>7, PlainMore DEF Makes, Plain, Emits
  <2>9. Plain(ob.o, r)
    BY <2>2, <2>5, <2>8, Stated DEF Plain
  <2>10. Plain(o, r)
    BY <2>8, <2>9, PlainMore
  <2> QED
    BY <2>10 DEF r
<1> QED
  BY <1>1, <1>2, <1>3, <1>4

LEMMA AttributesStated ==
    ASSUME NEW e \in Elements, NEW o, IsOutput(o), NEW s, NEW inh, NEW i
    PROVE  Plain(o, X!AttributeStatements(o, e, s, inh, i))
<1> DEFINE m == Len(e.a)
<1>0. m \in Nat /\ DOMAIN e.a = 1 .. m
  BY AttributeFacts
<1>1. PICK f : /\ f[0] = o
               /\ \A n \in 1 .. m : f[n] = X!AttributeStatement(f[n - 1], s, e.a[n], inh.base, inh.lang, i)
               /\ X!AttributeStatements(o, e, s, inh, i) = f[m]
  BY <1>0, StatementSteps
<1> DEFINE P == {n \in 0 .. m : Plain(o, f[n])}
<1>2. 0 \in P
  BY <1>0, <1>1, PlainSame
<1>3. ASSUME NEW n \in 1 .. m, n - 1 \in P PROVE n \in P
  <2>1. Plain(o, f[n - 1]) /\ IsOutput(f[n - 1])
    BY <1>3 DEF Plain, Emits
  <2>2. Plain(f[n - 1], f[n])
    BY <1>0, <1>1, <2>1, AttributeStated
  <2>3. n \in 0 .. m
    BY <1>0
  <2> QED
    BY <2>1, <2>2, <2>3, PlainMore
<1>4. \A n \in 0 .. m : n \in P
  <2> HIDE DEF P, m
  <2> QED
    BY <1>0, <1>2, <1>3, UpTo
<1> QED
  BY <1>0, <1>1, <1>4

LEMMA ElementTypeStated ==
    ASSUME NEW o, IsOutput(o), NEW e, NEW s, NEW base, NEW i
    PROVE  Plain(o, X!ElementType(o, e, s, base, i))
<1>1. CASE e.n = "Description"
  <2>1. X!ElementType(o, e, s, base, i) = o
    BY <1>1 DEF X!ElementType
  <2> QED
    BY <2>1, PlainSame
<1>2. CASE e.n \in {"li", "core", "RDF", "old"}
  <2>1. X!ElementType(o, e, s, base, i) = X!add_error(o, "BadSyntax")
    BY <1>2 DEF X!ElementType
  <2> QED
    BY <2>1, PlainError
<1>3. CASE e.n # "Description" /\ e.n \notin {"li", "core", "RDF", "old"}
  <2>1. X!ElementType(o, e, s, base, i) = X!StateType(X!make_name(o, e.n, base, i), s)
    BY <1>3 DEF X!ElementType
  <2> QED
    BY <2>1, NameMade, TypeStated
<1> QED
  BY <1>1, <1>2, <1>3

\* A node element that is entered: what it says, and its state.
LEMMA NodeEntered ==
    ASSUME NEW e \in Elements, NEW o, IsOutput(o), NEW i
    PROVE  LET v == X!enter(o, e, i)
               inh == X!get_inherited_attributes(e)
           IN  /\ Plain(o, v.o)
               /\ v.s = X!State("Description", inh, v.n, X!Null, X!Null)
               /\ NoErrors(v.o) => NamedAbout(e, v.n, inh.base, i)
<1> DEFINE inh == X!get_inherited_attributes(e)
           b == X!InheritErrors(o, e)
           f == X!SubjectOf(b, e, inh.base, i)
           g == X!OrGenerated(f)
           t == X!ElementType(g.o, e, g.n, inh.base, i)
           a == X!AttributeStatements(t, e, g.n, inh, i)
           v == X!enter(o, e, i)
<1>1. v.o = a /\ v.n = g.n /\ v.s = X!State("Description", inh, g.n, X!Null, X!Null)
  BY DEF X!enter, X!Describe
<1>2. Plain(o, b) /\ IsOutput(b)
  BY InheritChecked DEF Plain, Emits
<1> HIDE DEF v, inh
<1>3. /\ DOMAIN f = {"o", "n"} /\ Plain(b, f.o)
      /\ NoErrors(f.o) => NamedAbout(e, f.n, inh.base, i)
  <2> HIDE DEF b
  <2> QED
    BY <1>2, SubjectFound
<1> HIDE DEF f, b
<1>4. Plain(o, f.o) /\ IsOutput(f.o)
  <2>1. Plain(b, f.o)
    BY <1>3
  <2>2. Plain(o, f.o)
    BY <1>2, <2>1, PlainMore
  <2> QED
    BY <2>1, <2>2 DEF Plain, Emits
<1>5. /\ DOMAIN g = {"o", "n"} /\ Plain(b, g.o)
      /\ NoErrors(g.o) => NoErrors(f.o)
      /\ f.n # X!Null => g.n = f.n
  BY <1>2, <1>3, Generates
<1>6. Plain(o, g.o) /\ IsOutput(g.o)
  BY <1>2, <1>5, PlainMore DEF Plain, Emits
<1> HIDE DEF g
<1>7. Plain(g.o, t) /\ IsOutput(t)
  BY <1>6, ElementTypeStated DEF Plain, Emits
<1> HIDE DEF t
<1>8. Plain(t, a)
  BY <1>7, AttributesStated
<1> HIDE DEF a
<1>9. Plain(g.o, a) /\ (NoErrors(a) => NoErrors(g.o))
  BY <1>6, <1>7, <1>8, PlainMore
<1>10. Plain(o, a)
  BY <1>6, <1>9, PlainMore
<1>11. ASSUME NoErrors(a) PROVE NamedAbout(e, g.n, inh.base, i)
  <2>1. NamedAbout(e, f.n, inh.base, i)
    BY <1>3, <1>5, <1>9, <1>11
  <2>2. CASE f.n = X!Null
    BY <2>1, <2>2, IriIsNotNull DEF NamedAbout
  <2>3. CASE f.n # X!Null
    BY <1>5, <2>1, <2>3
  <2> QED
    BY <2>2, <2>3
<1> QED
  BY <1>1, <1>10, <1>11 DEF inh, v

\* The object of a property element: what its attributes name. The IRI of the statement,
\* if there is one, is new.
IsObject(r) ==
    /\ DOMAIN r = {"o", "n", "has", "datatype", "typed", "reify"}
    /\ IsOutput(r.o) /\ r.has \in BOOLEAN /\ r.typed \in BOOLEAN

IsNew(n, o, o1) == n # X!Null => n \notin o.ids /\ n \in o1.ids

LEMMA ObjectStepped ==
    ASSUME NEW r, IsObject(r), NEW at, NEW base, NEW i
    PROVE  LET r1 == X!ObjectStep(r, at, base, i)
           IN  /\ IsObject(r1) /\ Plain(r.o, r1.o)
               /\ r1.has <=> r.has \/ at.k \in {"resource", "nodeID"}
               /\ r1.typed <=> r.typed \/ at.k = "datatype"
               /\ r1.reify = r.reify \/ IsNew(r1.reify, r.o, r1.o)
<1> DEFINE r1 == X!ObjectStep(r, at, base, i)
           q == X!OnlyOne(r)
<1>0. Plain(r.o, q.o) /\ IsOutput(q.o)
  <2>1. CASE r.has
    <3>1. q.o = X!add_error(r.o, "BadSyntax")
      BY <2>1 DEF X!OnlyOne, IsObject
    <3> QED
      BY <3>1, PlainError DEF IsObject, Plain, Emits
  <2>2. CASE ~r.has
    <3>1. q = r
      BY <2>2 DEF X!OnlyOne
    <3> QED
      BY <3>1, PlainSame DEF IsObject
  <2> QED
    BY <2>1, <2>2
<1> HIDE DEF q
<1>1. ASSUME NEW m, Plain(r.o, m.o), X!Sub(r, m) = r1, at.k \in {"resource", "nodeID"}
      PROVE  /\ IsObject(r1) /\ Plain(r.o, r1.o)
             /\ r1.has <=> r.has \/ at.k \in {"resource", "nodeID"}
             /\ r1.typed <=> r.typed \/ at.k = "datatype"
             /\ r1.reify = r.reify \/ IsNew(r1.reify, r.o, r1.o)
  <2>1. r1 = [r EXCEPT !.o = m.o, !.n = m.n, !.has = TRUE]
    BY <1>1 DEF X!Sub
  <2> HIDE DEF r1
  <2>2. /\ DOMAIN r1 = DOMAIN r /\ r1.o = m.o /\ r1.has = TRUE /\ r1.typed = r.typed
        /\ r1.reify = r.reify
    BY <2>1 DEF IsObject
  <2> QED
    BY <1>1, <2>2 DEF IsObject, Plain, Emits
<1>2. CASE at.k = "datatype"
  <2> DEFINE m == X!make_iri(r.o, at.v, base, i)
  <2>1. r1 = [r EXCEPT !.o = m.o, !.datatype = m.n, !.typed = TRUE]
    BY <1>2 DEF X!ObjectStep, X!Typed
  <2>2. Makes(r.o, m)
    BY IriMade DEF IsObject
  <2> HIDE DEF r1, m
  <2>3. /\ DOMAIN r1 = DOMAIN r /\ r1.o = m.o /\ r1.has = r.has /\ r1.typed = TRUE
        /\ r1.reify = r.reify
    BY <2>1 DEF IsObject
  <2>4. IsObject(r1) /\ Plain(r.o, r1.o)
    BY <2>2, <2>3 DEF IsObject, Makes, Plain, Emits
  <2> QED
    BY <1>2, <2>3, <2>4 DEF r1
<1>3. CASE at.k = "resource"
  <2> DEFINE m == X!make_iri(q.o, at.v, base, i)
  <2>1. r1 = X!Sub(r, m)
    BY <1>3 DEF X!ObjectStep, q
  <2>2. Makes(q.o, m)
    BY <1>0, IriMade
  <2> HIDE DEF r1, m
  <2>3. Plain(r.o, m.o)
    BY <1>0, <2>2, PlainMore DEF Makes, IsObject
  <2> QED
    BY <1>1, <1>3, <2>1, <2>3 DEF r1
<1>4. CASE at.k = "nodeID"
  <2> DEFINE m == X!make_bn(q.o, at.v)
  <2>1. r1 = X!Sub(r, m)
    BY <1>4 DEF X!ObjectStep, q
  <2>2. Makes(q.o, m)
    BY <1>0, BlankMade
  <2> HIDE DEF r1, m
  <2>3. Plain(r.o, m.o)
    BY <1>0, <2>2, PlainMore DEF Makes, IsObject
  <2> QED
    BY <1>1, <1>4, <2>1, <2>3 DEF r1
<1>5. CASE at.k = "ID"
  <2> DEFINE m == X!make_id(r.o, at.v, base, i)
  <2>1. r1 = [r EXCEPT !.o = m.o, !.reify = m.n]
    BY <1>5 DEF X!ObjectStep, X!Reified
  <2>2. Plain(r.o, m.o) /\ (m.n # X!Null => m.n \notin r.o.ids /\ m.n \in m.o.ids)
    BY IdMade DEF IsObject
  <2> HIDE DEF r1, m
  <2>3. /\ DOMAIN r1 = DOMAIN r /\ r1.o = m.o /\ r1.has = r.has /\ r1.typed = r.typed
        /\ r1.reify = m.n
    BY <2>1 DEF IsObject
  <2>4. IsObject(r1) /\ Plain(r.o, r1.o)
    BY <2>2, <2>3 DEF IsObject, Plain, Emits
  <2> QED
    BY <1>5, <2>2, <2>3, <2>4 DEF r1, IsNew
<1>6. CASE at.k \notin {"datatype", "resource", "nodeID", "ID"}
  <2>1. r1 = r
    BY <1>6 DEF X!ObjectStep
  <2>2. Plain(r.o, r.o)
    BY PlainSame DEF IsObject
  <2> QED
    BY <1>6, <2>1, <2>2
<1> QED
  BY <1>2, <1>3, <1>4, <1>5, <1>6

LEMMA NamedFound ==
    ASSUME NEW e \in Elements, NEW o, IsOutput(o), NEW base, NEW i
    PROVE  LET r == X!NamedObject(o, e, base, i)
           IN  /\ IsObject(r) /\ Plain(o, r.o) /\ IsNew(r.reify, o, r.o)
               /\ r.has <=> Has(e, {"resource", "nodeID"})
               /\ r.typed <=> Has(e, {"datatype"})
<1> DEFINE m == Len(e.a)
<1>0. m \in Nat /\ DOMAIN e.a = 1 .. m
  BY AttributeFacts
<1>1. PICK f : NamedRun(f, o, e, base, i)
  BY <1>0, NamedSteps
<1>f. /\ f[0] = X!NoObject(o)
      /\ \A n \in 1 .. m : f[n] = X!ObjectStep(f[n - 1], e.a[n], base, i)
      /\ X!NamedObject(o, e, base, i) = f[m]
  BY <1>1 DEF NamedRun
<1> DEFINE Some(n, kinds) == \E j \in 1 .. n : e.a[j].k \in kinds
<1> DEFINE P == {n \in 0 .. m : /\ IsObject(f[n]) /\ Plain(o, f[n].o)
                                /\ IsNew(f[n].reify, o, f[n].o)
                                /\ f[n].has <=> Some(n, {"resource", "nodeID"})
                                /\ f[n].typed <=> Some(n, {"datatype"})}
<1>2. 0 \in P
  <2>1. /\ f[0].o = o /\ f[0].has = FALSE /\ f[0].typed = FALSE /\ f[0].reify = X!Null
        /\ IsObject(f[0])
    BY <1>f DEF X!NoObject, IsObject
  <2>2. Plain(o, o) /\ ~Some(0, {"resource", "nodeID"}) /\ ~Some(0, {"datatype"})
    BY PlainSame
  <2> QED
    BY <1>0, <2>1, <2>2 DEF IsNew
<1>3. ASSUME NEW n \in 1 .. m, n - 1 \in P PROVE n \in P
  <2> DEFINE g == f[n - 1]
             h == f[n]
  <2>1. IsObject(g) /\ IsOutput(g.o) /\ Plain(o, g.o) /\ IsNew(g.reify, o, g.o)
    BY <1>3 DEF IsObject
  <2>2. /\ g.has <=> Some(n - 1, {"resource", "nodeID"})
        /\ g.typed <=> Some(n - 1, {"datatype"})
    BY <1>3
  <2>3. h = X!ObjectStep(g, e.a[n], base, i)
    BY <1>f
  <2> HIDE DEF g, h
  <2>4. /\ IsObject(h) /\ Plain(g.o, h.o)
        /\ h.has <=> g.has \/ e.a[n].k \in {"resource", "nodeID"}
        /\ h.typed <=> g.typed \/ e.a[n].k = "datatype"
        /\ h.reify = g.reify \/ IsNew(h.reify, g.o, h.o)
    BY <2>1, <2>3, ObjectStepped
  <2>5. Plain(o, h.o)
    BY <2>1, <2>4, PlainMore
  <2>6. IsNew(h.reify, o, h.o)
    BY <2>1, <2>4 DEF IsNew, Plain, Emits
  <2>7. \A kinds : Some(n, kinds) <=> Some(n - 1, kinds) \/ e.a[n].k \in kinds
    <3>1. \A j \in 1 .. n : j \in 1 .. n - 1 \/ j = n
      BY <1>0
    <3>2. n \in 1 .. n /\ \A j \in 1 .. n - 1 : j \in 1 .. n
      BY <1>0
    <3> QED
      BY <3>1, <3>2
  <2>8. /\ h.has <=> Some(n, {"resource", "nodeID"})
        /\ h.typed <=> Some(n, {"datatype"})
    <3> HIDE DEF Some
    <3> QED
      BY <2>2, <2>4, <2>7
  <2>9. n \in 0 .. m
    BY <1>0
  <2> QED
    BY <2>4, <2>5, <2>6, <2>8, <2>9 DEF h
<1>4. \A n \in 0 .. m : n \in P
  <2> HIDE DEF P, m
  <2> QED
    BY <1>0, <1>2, <1>3, UpTo
<1>5. m \in P
  BY <1>0, <1>4
<1> QED
  BY <1>0, <1>f, <1>5 DEF Has

Kept(r, r1) == r1.typed = r.typed /\ r1.reify = r.reify

LEMMA PropertyAttributeStepped ==
    ASSUME NEW e \in Elements, NEW n \in DOMAIN e.a,
           NEW r, IsObject(r), NEW d, NEW inh, NEW i
    PROVE  LET r1 == X!PropertyAttribute(r, e.a[n], d, inh, i)
           IN  /\ IsObject(r1) /\ Plain(r.o, r1.o)
               /\ r1.has <=> r.has \/ ~X!NotAStatement(e.a[n])
               /\ Kept(r, r1)
<1> DEFINE at == e.a[n]
           r1 == X!PropertyAttribute(r, at, d, inh, i)
<1>1. ASSUME NEW q, IsObject(q), Plain(r.o, q.o), q.typed = r.typed, q.reify = r.reify,
             r1 = [q EXCEPT !.o = X!AttributeStatement(q.o, q.n, at, d.base, inh.lang, i)],
             q.has <=> r.has \/ ~X!NotAStatement(at)
      PROVE  /\ IsObject(r1) /\ Plain(r.o, r1.o)
             /\ r1.has <=> r.has \/ ~X!NotAStatement(at)
             /\ Kept(r, r1)
  <2> DEFINE o1 == X!AttributeStatement(q.o, q.n, at, d.base, inh.lang, i)
  <2>0. IsOutput(q.o) /\ IsOutput(r.o)
    BY <1>1 DEF IsObject
  <2>1. Plain(q.o, o1)
    BY <2>0, AttributeStated
  <2>2. r1 = [q EXCEPT !.o = o1]
    BY <1>1
  <2> HIDE DEF r1, o1, at
  <2>3. /\ DOMAIN r1 = DOMAIN q /\ r1.o = o1 /\ r1.has = q.has /\ r1.typed = q.typed
        /\ r1.reify = q.reify
    BY <1>1, <2>2 DEF IsObject
  <2>4. Plain(r.o, r1.o)
    BY <1>1, <2>0, <2>1, <2>3, PlainMore
  <2>5. IsObject(r1)
    BY <1>1, <2>3, <2>4 DEF IsObject, Plain, Emits
  <2> QED
    BY <1>1, <2>3, <2>4, <2>5 DEF Kept
<1>2. CASE X!NotAStatement(at)
  <2>1. r1 = [r EXCEPT !.o = X!AttributeStatement(r.o, r.n, at, d.base, inh.lang, i)]
    BY <1>2 DEF X!PropertyAttribute
  <2>2. Plain(r.o, r.o)
    BY PlainSame DEF IsObject
  <2> HIDE DEF r1, at
  <2>3. r.has <=> r.has \/ ~X!NotAStatement(at)
    BY <1>2
  <2> QED
    BY <1>1, <2>1, <2>2, <2>3 DEF r1, at
<1>3. CASE ~X!NotAStatement(at)
  <2> DEFINE b == X!new_bn(r.o)
             q == IF r.has THEN r ELSE X!Sub(r, b)
  <2>1. r1 = [q EXCEPT !.o = X!AttributeStatement(q.o, q.n, at, d.base, inh.lang, i)]
    BY <1>3 DEF X!PropertyAttribute
  <2>2. Makes(r.o, b) /\ Plain(r.o, r.o)
    BY BlankMade, PlainSame DEF IsObject
  <2> HIDE DEF r1, at, b
  <2>3. /\ DOMAIN q = DOMAIN r /\ q.o \in {r.o, b.o} /\ q.has = TRUE /\ q.typed = r.typed
        /\ q.reify = r.reify
    <3>1. CASE r.has
      BY <3>1 DEF IsObject
    <3>2. CASE ~r.has
      <4>1. q = [r EXCEPT !.o = b.o, !.n = b.n, !.has = TRUE]
        BY <3>2 DEF X!Sub
      <4> QED
        BY <4>1 DEF IsObject
    <3> QED
      BY <3>1, <3>2
  <2> HIDE DEF q
  <2>4. Plain(r.o, q.o)
    BY <2>2, <2>3 DEF Makes
  <2>5. IsObject(q)
    BY <2>3, <2>4 DEF IsObject, Plain, Emits
  <2>6. q.has <=> r.has \/ ~X!NotAStatement(at)
    BY <1>3, <2>3
  <2> QED
    BY <1>1, <2>1, <2>3, <2>4, <2>5, <2>6 DEF r1, at
<1> QED
  BY <1>2, <1>3

LEMMA DescribedFound ==
    ASSUME NEW e \in Elements, NEW r, IsObject(r), NEW d, NEW inh, NEW i
    PROVE  LET r1 == X!DescribedObject(r, e, d, inh, i)
           IN  /\ IsObject(r1) /\ Plain(r.o, r1.o)
               /\ r1.has <=> r.has \/ \E j \in DOMAIN e.a : ~X!NotAStatement(e.a[j])
               /\ Kept(r, r1)
<1> DEFINE m == Len(e.a)
<1>0. m \in Nat /\ DOMAIN e.a = 1 .. m
  BY AttributeFacts
<1>1. PICK f : DescribedRun(f, r, e, d, inh, i)
  BY <1>0, DescribedSteps
<1>f. /\ f[0] = r
      /\ \A n \in 1 .. m : f[n] = X!PropertyAttribute(f[n - 1], e.a[n], d, inh, i)
      /\ X!DescribedObject(r, e, d, inh, i) = f[m]
  BY <1>1 DEF DescribedRun
<1> DEFINE Some(n) == \E j \in 1 .. n : ~X!NotAStatement(e.a[j])
<1> DEFINE P == {n \in 0 .. m : /\ IsObject(f[n]) /\ Plain(r.o, f[n].o)
                                /\ f[n].has <=> r.has \/ Some(n)
                                /\ Kept(r, f[n])}
<1>2. 0 \in P
  <2>1. Plain(r.o, r.o) /\ ~Some(0)
    BY PlainSame DEF IsObject
  <2> QED
    BY <1>0, <1>f, <2>1 DEF Kept
<1>3. ASSUME NEW n \in 1 .. m, n - 1 \in P PROVE n \in P
  <2> DEFINE g == f[n - 1]
             h == f[n]
  <2>1. IsObject(g) /\ Plain(r.o, g.o) /\ Kept(r, g)
    BY <1>3
  <2>2. g.has <=> r.has \/ Some(n - 1)
    BY <1>3
  <2>3. h = X!PropertyAttribute(g, e.a[n], d, inh, i)
    BY <1>f
  <2> HIDE DEF g, h
  <2>4. /\ IsObject(h) /\ Plain(g.o, h.o)
        /\ h.has <=> g.has \/ ~X!NotAStatement(e.a[n])
        /\ Kept(g, h)
    <3> DEFINE h1 == X!PropertyAttribute(g, e.a[n], d, inh, i)
    <3>1. n \in DOMAIN e.a
      BY <1>0
    <3>2. IsObject(h1) /\ Plain(g.o, h1.o)
      BY <2>1, <3>1, PropertyAttributeStepped
    <3>3. h1.has <=> g.has \/ ~X!NotAStatement(e.a[n])
      BY <2>1, <3>1, PropertyAttributeStepped
    <3>4. Kept(g, h1)
      BY <2>1, <3>1, PropertyAttributeStepped
    <3> HIDE DEF h1
    <3>5. h = h1
      BY <2>3 DEF h1
    <3> QED
      BY <3>2, <3>3, <3>4, <3>5
  <2>5. Plain(r.o, h.o)
    BY <2>1, <2>4, PlainMore DEF IsObject
  <2>6. Some(n) <=> Some(n - 1) \/ ~X!NotAStatement(e.a[n])
    <3>1. \A j \in 1 .. n : j \in 1 .. n - 1 \/ j = n
      BY <1>0
    <3>2. n \in 1 .. n /\ \A j \in 1 .. n - 1 : j \in 1 .. n
      BY <1>0
    <3> QED
      BY <3>1, <3>2
  <2>7. h.has <=> r.has \/ Some(n)
    <3> HIDE DEF Some
    <3> QED
      BY <2>2, <2>4, <2>6
  <2>8. n \in 0 .. m
    BY <1>0
  <2> QED
    BY <2>1, <2>4, <2>5, <2>7, <2>8 DEF h, Kept
<1>4. \A n \in 0 .. m : n \in P
  <2> HIDE DEF P, m
  <2> QED
    BY <1>0, <1>2, <1>3, UpTo
<1>5. m \in P
  BY <1>0, <1>4
<1> QED
  BY <1>0, <1>f, <1>5

\* An object of a property element is found as the grammar says.
LEMMA ObjectFound ==
    ASSUME NEW e \in Elements, NEW p, IsOutput(p.o), NEW d, NEW inh, NEW i
    PROVE  LET r == X!PropertyObject(p, e, d, inh, i)
           IN  /\ IsObject(r) /\ Plain(p.o, r.o) /\ IsNew(r.reify, p.o, r.o)
               /\ r.has <=> NamesObject(e)
               /\ r.typed <=> Has(e, {"datatype"})
<1> DEFINE q == X!NamedObject(p.o, e, inh.base, i)
           r == X!DescribedObject(q, e, d, inh, i)
<1>1. X!PropertyObject(p, e, d, inh, i) = r
  BY DEF X!PropertyObject
<1>2. /\ IsObject(q) /\ Plain(p.o, q.o) /\ IsNew(q.reify, p.o, q.o)
      /\ q.has <=> Has(e, {"resource", "nodeID"})
      /\ q.typed <=> Has(e, {"datatype"})
  BY NamedFound
<1> HIDE DEF q
<1>3. /\ IsObject(r) /\ Plain(q.o, r.o)
      /\ r.has <=> q.has \/ \E j \in DOMAIN e.a : ~X!NotAStatement(e.a[j])
      /\ Kept(q, r)
  BY <1>2, DescribedFound
<1> HIDE DEF r
<1>4. Plain(p.o, r.o)
  BY <1>2, <1>3, PlainMore
<1>5. IsNew(r.reify, p.o, r.o)
  BY <1>2, <1>3 DEF IsNew, Plain, Emits, Kept
<1>6. r.has <=> NamesObject(e)
  BY <1>2, <1>3 DEF Has, NamesObject
<1> QED
  BY <1>1, <1>2, <1>3, <1>4, <1>5, <1>6 DEF Kept

-----------------------------------------------------------------------------
(***************************************************************************)
(* The stack of the RDF/XML reader.  Only the state at its bottom is       *)
(* Initial, and what is in it keeps its kind, its base and what it is      *)
(* about, as long as it is there.                                          *)
(***************************************************************************)
StateFields == {"kind", "base", "lang", "subject", "predicate", "reify", "datatype", "text",
                "done", "last", "depth", "li"}
StateKinds == {"RDF", "Description", "Predicate", "Collection", "Typed", "XMLLiteral", "Empty"}

MayStand(predicate) == predicate # X!Named("rdf:subject") \/ ByHand

IsState(s) ==
    /\ DOMAIN s = StateFields /\ s.kind \in StateKinds \cup {"Initial"}
    /\ s.depth \in Nat /\ s.li \in Nat /\ s.done \in BOOLEAN
    /\ s.done => s.kind \in {"Predicate", "Collection"}
    /\ MayStand(s.predicate)

IsStack(st) ==
    /\ IsSeq(st) /\ Len(st) >= 1
    /\ \A j \in 1 .. Len(st) : IsState(st[j])
    /\ \A j \in 1 .. Len(st) : st[j].kind = "Initial" <=> j = 1

IsParser(x) == DOMAIN x = {"st", "o"} /\ IsStack(x.st) /\ IsOutput(x.o)

\* t is s later.
Like(s, t) ==
    /\ t.kind = s.kind /\ t.base = s.base /\ t.subject = s.subject /\ t.reify = s.reify
    /\ s.done => t.done

LEMMA LastIs ==
    ASSUME NEW st, IsStack(st)
    PROVE  /\ Last(st) = st[Len(st)] /\ Len(st) \in Nat /\ Len(st) \in 1 .. Len(st)
           /\ IsState(Last(st))
<1>1. Len(st) \in Nat /\ Len(st) >= 1
  BY SeqFacts DEF IsStack
<1>2. Len(st) \in 1 .. Len(st)
  BY <1>1
<1> QED
  BY <1>1, <1>2 DEF Last, IsStack

IsFresh(s, kind, base, subject, reify) ==
    /\ IsState(s) /\ s.kind = kind /\ s.base = base /\ s.subject = subject
    /\ s.reify = reify /\ s.depth = 0 /\ ~s.done

LEMMA StateMade ==
    ASSUME NEW kind \in StateKinds \cup {"Initial"}, NEW inh, NEW subject, NEW predicate,
           NEW reify, MayStand(predicate)
    PROVE  IsFresh(X!State(kind, inh, subject, predicate, reify), kind, inh.base, subject, reify)
<1> DEFINE s == X!State(kind, inh, subject, predicate, reify)
<1>1. /\ DOMAIN s = StateFields /\ s.kind = kind /\ s.base = inh.base /\ s.subject = subject
      /\ s.predicate = predicate /\ s.reify = reify /\ s.depth = 0 /\ s.done = FALSE
      /\ s.li = 1
  BY DEF X!State, StateFields
<1> HIDE DEF s
<1>2. IsState(s)
  <2>1. s.kind \in StateKinds \cup {"Initial"}
    BY <1>1
  <2>2. s.depth \in Nat /\ s.li \in Nat
    BY <1>1
  <2>3. s.done \in BOOLEAN /\ ~s.done
    BY <1>1
  <2>4. MayStand(s.predicate)
    BY <1>1, Zenon
  <2> QED
    BY <1>1, <2>1, <2>2, <2>3, <2>4 DEF IsState
<1> QED
  BY <1>1, <1>2 DEF s, IsFresh

LEMMA NullMayStand == MayStand(X!Null)
BY NamesApart DEF MayStand

LEMMA Fronted ==
    ASSUME NEW s, IsSeq(s), s # <<>>
    PROVE  /\ IsSeq(Front(s)) /\ Len(s) = Len(Front(s)) + 1
           /\ \A n \in 1 .. Len(Front(s)) : Front(s)[n] = s[n]
<1>1. PICK T : s \in Seq(T)
  BY DEF IsSeq
<1>2. Len(s) \in Nat /\ Len(s) # 0
  BY SeqFacts
<1> DEFINE m == Len(s) - 1
<1>3. m \in Int /\ 1 \in Int /\ \A i \in 1 .. m : s[i] \in T
  BY <1>1, <1>2
<1>4. Front(s) = SubSeq(s, 1, m)
  BY DEF Front
<1> HIDE DEF m
<1>5. /\ SubSeq(s, 1, m) \in Seq(T)
      /\ Len(SubSeq(s, 1, m)) = IF 1 <= m THEN m - 1 + 1 ELSE 0
      /\ \A i \in 1 .. m - 1 + 1 : SubSeq(s, 1, m)[i] = s[1 + i - 1]
  BY <1>3, SubSeqProperties
<1>7. m \in Nat /\ Len(s) = m + 1 /\ m - 1 + 1 = m
  BY <1>2 DEF m
<1>8. ASSUME NEW i \in 1 .. m PROVE Front(s)[i] = s[i]
  <2>1. i \in 1 .. m - 1 + 1 /\ 1 + i - 1 = i
    BY <1>7
  <2> QED
    BY <1>4, <1>5, <2>1
<1>6. Len(Front(s)) = m
  BY <1>4, <1>5, <1>7
<1> QED
  BY <1>4, <1>5, <1>6, <1>7, <1>8 DEF IsSeq

LEMMA Pushed ==
    ASSUME NEW x, IsParser(x), NEW o, IsOutput(o), NEW s, IsState(s), s.kind # "Initial"
    PROVE  LET x1 == X!Push(x, o, s)
           IN  /\ IsParser(x1) /\ x1.o = o /\ Len(x1.st) = Len(x.st) + 1
               /\ \A j \in 1 .. Len(x.st) : x1.st[j] = x.st[j]
               /\ x1.st[Len(x.st) + 1] = s /\ Last(x1.st) = s
<1> DEFINE x1 == X!Push(x, o, s)
<1>1. DOMAIN x1 = {"st", "o"} /\ x1.st = Append(x.st, s) /\ x1.o = o
  BY DEF X!Push, X!Parser
<1>2. IsSeq(x.st) /\ Len(x.st) \in Nat /\ Len(x.st) >= 1
  BY SeqFacts DEF IsParser, IsStack
<1> HIDE DEF x1
<1>3. /\ IsSeq(x1.st) /\ Len(x1.st) = Len(x.st) + 1
      /\ \A j \in 1 .. Len(x.st) : x1.st[j] = x.st[j]
      /\ x1.st[Len(x.st) + 1] = s /\ Last(x1.st) = s
  BY <1>1, <1>2, Appended
<1>4. \A j \in 1 .. Len(x1.st) : j \in 1 .. Len(x.st) \/ j = Len(x.st) + 1
  BY <1>2, <1>3
<1>5. IsStack(x1.st)
  <2>1. \A j \in 1 .. Len(x1.st) : IsState(x1.st[j])
    BY <1>3, <1>4 DEF IsParser, IsStack
  <2>2. \A j \in 1 .. Len(x1.st) : x1.st[j].kind = "Initial" <=> j = 1
    BY <1>2, <1>3, <1>4 DEF IsParser, IsStack
  <2> QED
    BY <1>2, <1>3, <2>1, <2>2 DEF IsStack
<1> QED
  BY <1>1, <1>3, <1>5 DEF x1, IsParser

LEMMA Popped ==
    ASSUME NEW x, IsParser(x), NEW o, IsOutput(o), Last(x.st).kind # "Initial"
    PROVE  LET x1 == X!PopState(x, o)
           IN  /\ IsParser(x1) /\ x1.o = o /\ Len(x.st) = Len(x1.st) + 1
               /\ \A j \in 1 .. Len(x1.st) : x1.st[j] = x.st[j]
<1> DEFINE x1 == X!PopState(x, o)
<1>1. DOMAIN x1 = {"st", "o"} /\ x1.st = Front(x.st) /\ x1.o = o
  BY DEF X!PopState, X!Parser, X!Front, Front
<1>2. /\ IsSeq(x.st) /\ Len(x.st) \in Nat /\ Len(x.st) \in 1 .. Len(x.st)
      /\ Last(x.st) = x.st[Len(x.st)] /\ IsStack(x.st)
  BY LastIs DEF IsParser, IsStack
<1>3. Len(x.st) # 1 /\ x.st # <<>>
  BY <1>2, SeqFacts DEF IsStack
<1> HIDE DEF x1
<1>4. /\ IsSeq(x1.st) /\ Len(x.st) = Len(x1.st) + 1
      /\ \A j \in 1 .. Len(x1.st) : x1.st[j] = x.st[j]
  BY <1>1, <1>2, <1>3, Fronted
<1>5. Len(x1.st) \in Nat /\ Len(x1.st) >= 1
  BY <1>2, <1>3, <1>4, SeqFacts
<1>6. \A j \in 1 .. Len(x1.st) : j \in 1 .. Len(x.st)
  BY <1>4, <1>5
<1>7. IsStack(x1.st)
  BY <1>2, <1>4, <1>5, <1>6 DEF IsStack
<1> QED
  BY <1>1, <1>4, <1>7 DEF x1, IsParser

LEMMA Became ==
    ASSUME NEW x, IsParser(x), NEW s, IsState(s), Like(Last(x.st), s)
    PROVE  LET x1 == X!Become(x, s)
           IN  /\ IsParser(x1) /\ x1.o = x.o /\ Len(x1.st) = Len(x.st)
               /\ \A j \in 1 .. Len(x.st) : j # Len(x.st) => x1.st[j] = x.st[j]
               /\ x1.st[Len(x.st)] = s /\ Last(x1.st) = s
               /\ \A j \in 1 .. Len(x.st) : Like(x.st[j], x1.st[j])
<1> DEFINE x1 == X!Become(x, s)
           m == Len(x.st)
<1>1. /\ IsSeq(x.st) /\ m \in Nat /\ m \in 1 .. m /\ DOMAIN x.st = 1 .. m
      /\ Last(x.st) = x.st[m] /\ IsStack(x.st)
  BY LastIs, SeqFacts DEF IsParser, IsStack
<1>2. /\ DOMAIN x1 = {"st", "o"} /\ x1.o = x.o
      /\ x1.st = [x.st EXCEPT ![m] = s]
  BY DEF X!Become, IsParser
<1>3. x1.st = [j \in 1 .. m |-> IF j = m THEN s ELSE x.st[j]]
  BY <1>1, <1>2
<1> HIDE DEF x1, m
<1>4. x1.st = [j \in 1 .. m |-> x1.st[j]]
  BY <1>3
<1>5. IsSeq(x1.st) /\ Len(x1.st) = m
  BY <1>1, <1>4, SeqByDomain
<1>6. x1.st[m] = s /\ \A j \in 1 .. m : j # m => x1.st[j] = x.st[j]
  BY <1>1, <1>3
<1>7. \A j \in 1 .. m : Like(x.st[j], x1.st[j])
  BY <1>1, <1>6 DEF Like
<1>8. IsStack(x1.st)
  <2>1. \A j \in 1 .. m : IsState(x1.st[j])
    BY <1>1, <1>6 DEF IsStack, m
  <2>2. \A j \in 1 .. m : x1.st[j].kind = "Initial" <=> j = 1
    BY <1>1, <1>7 DEF IsStack, m, Like
  <2> QED
    BY <1>1, <1>5, <2>1, <2>2 DEF IsStack
<1>9. Last(x1.st) = s
  BY <1>5, <1>6 DEF Last
<1> QED
  BY <1>1, <1>2, <1>5, <1>6, <1>7, <1>8, <1>9 DEF x1, m, IsParser

\* The states that still have a statement to reify.
Waiting(st) == {j \in 1 .. Len(st) : st[j].reify # X!Null /\ ~st[j].done}

\* What a step reifies is new, or waited for it and does no more; so what waits now either
\* did before or is new.
Uses(x, x1) ==
    /\ \E r : /\ Emits(x.o, x1.o, r)
              /\ \/ r = X!Null
                 \/ IsNew(r, x.o, x1.o) /\ \A j \in Waiting(x1.st) : j \in 1 .. Len(x.st)
                 \/ \E j \in Waiting(x.st) : x.st[j].reify = r /\ j \notin Waiting(x1.st)
    /\ \A j \in Waiting(x1.st) :
          j \in 1 .. Len(x.st) \/ (j = Len(x1.st) /\ IsNew(x1.st[j].reify, x.o, x1.o))

Step(x, x1) ==
    /\ IsParser(x1)
    /\ \A j \in 1 .. Len(x1.st) : j \in 1 .. Len(x.st) => Like(x.st[j], x1.st[j])
    /\ Uses(x, x1)

\* A state s is pushed on x0, which is x or has another state at the top.
Pushes(x, x0, o, s, r) ==
    /\ IsParser(x) /\ IsParser(x0) /\ Len(x0.st) = Len(x.st)
    /\ \A j \in 1 .. Len(x.st) : Like(x.st[j], x0.st[j])
    /\ IsState(s) /\ s.kind # "Initial" /\ Emits(x.o, o, r)
    /\ s.reify = X!Null \/ IsNew(s.reify, x.o, o)
    /\ \/ r = X!Null
       \/ IsNew(r, x.o, o) /\ s.reify = X!Null
       \/ /\ r = Last(x.st).reify /\ ~Last(x.st).done
          /\ Last(x0.st).done /\ s.reify = X!Null

IsPushed(x, x1, o, s) ==
    Step(x, x1) /\ x1.o = o /\ Last(x1.st) = s /\ Len(x1.st) = Len(x.st) + 1

LEMMA OnePushed ==
    ASSUME NEW x, NEW x0, NEW o, NEW s, NEW r, Pushes(x, x0, o, s, r)
    PROVE  IsPushed(x, X!Push(x0, o, s), o, s)
<1> DEFINE x1 == X!Push(x0, o, s)
           m == Len(x.st)
<1>0. /\ IsParser(x) /\ IsParser(x0) /\ Len(x0.st) = Len(x.st)
      /\ \A j \in 1 .. Len(x.st) : Like(x.st[j], x0.st[j])
      /\ IsState(s) /\ s.kind # "Initial" /\ Emits(x.o, o, r)
  BY DEF Pushes
<1>1. IsOutput(o)
  BY <1>0 DEF Emits
<1>2. /\ IsParser(x1) /\ x1.o = o /\ Len(x1.st) = m + 1
      /\ \A j \in 1 .. m : x1.st[j] = x0.st[j]
      /\ x1.st[m + 1] = s /\ Last(x1.st) = s
  BY <1>0, <1>1, Pushed
<1>3. m \in Nat /\ m \in 1 .. m /\ Last(x.st) = x.st[m] /\ Last(x0.st) = x0.st[m]
  BY <1>0, LastIs DEF IsParser
<1> HIDE DEF x1, m
<1>4. \A j \in 1 .. Len(x1.st) : j \in 1 .. m \/ (j = m + 1 /\ j \notin 1 .. m /\ j = Len(x1.st))
  BY <1>2, <1>3
<1>5. \A j \in 1 .. m : Like(x.st[j], x1.st[j])
  BY <1>0, <1>2 DEF m
<1>6. \A j \in Waiting(x1.st) : j \in 1 .. m \/ (j = Len(x1.st) /\ s.reify # X!Null /\ x1.st[j] = s)
  BY <1>2, <1>4 DEF Waiting
<1>7. \A j \in Waiting(x1.st) : j \in 1 .. m \/ (j = Len(x1.st) /\ IsNew(x1.st[j].reify, x.o, o))
  BY <1>6 DEF Pushes
<1>8. \/ r = X!Null
      \/ IsNew(r, x.o, o) /\ \A j \in Waiting(x1.st) : j \in 1 .. m
      \/ \E j \in Waiting(x.st) : x.st[j].reify = r /\ j \notin Waiting(x1.st)
  <2>1. CASE r = X!Null
    BY <2>1
  <2>2. CASE IsNew(r, x.o, o) /\ s.reify = X!Null
    BY <1>6, <2>2
  <2>3. CASE r # X!Null /\ r = Last(x.st).reify /\ ~Last(x.st).done /\ Last(x0.st).done
    <3>1. m \in Waiting(x.st) /\ x.st[m].reify = r
      BY <1>3, <2>3 DEF Waiting, m
    <3>2. m \notin Waiting(x1.st)
      BY <1>2, <1>3, <2>3 DEF Waiting
    <3> QED
      BY <3>1, <3>2
  <2> QED
    BY <2>1, <2>2, <2>3 DEF Pushes
<1>9. Uses(x, x1)
  BY <1>0, <1>2, <1>7, <1>8 DEF Uses, m
<1> QED
  BY <1>2, <1>5, <1>9 DEF Step, m, x1, IsPushed

LEMMA NonePushed ==
    ASSUME NEW x, IsParser(x), NEW x1, IsParser(x1), Len(x1.st) = Len(x.st),
           \A j \in 1 .. Len(x.st) : Like(x.st[j], x1.st[j]), Plain(x.o, x1.o)
    PROVE  Step(x, x1)
<1>1. \A j \in Waiting(x1.st) : j \in 1 .. Len(x.st)
  BY DEF Waiting
<1>2. Uses(x, x1)
  BY <1>1 DEF Uses, Plain
<1> QED
  BY <1>2 DEF Step

Pops(x, o, r) ==
    /\ IsParser(x) /\ Last(x.st).kind # "Initial" /\ Emits(x.o, o, r)
    /\ r = X!Null \/ (r = Last(x.st).reify /\ ~Last(x.st).done)
    /\ NoErrors(o) => NoErrors(x.o)

\* What ends an element
IsPopped(x, x1) ==
    /\ Step(x, x1) /\ (NoErrors(x1.o) => NoErrors(x.o))
    /\ Len(x.st) = Len(x1.st) + 1
    /\ \A j \in 1 .. Len(x1.st) : x1.st[j] = x.st[j]

LEMMA OnePopped ==
    ASSUME NEW x, NEW o, NEW r, Pops(x, o, r)
    PROVE  IsPopped(x, X!PopState(x, o))
<1> DEFINE x1 == X!PopState(x, o)
           m == Len(x.st)
<1>0. /\ IsParser(x) /\ Last(x.st).kind # "Initial" /\ Emits(x.o, o, r)
      /\ r = X!Null \/ (r = Last(x.st).reify /\ ~Last(x.st).done)
      /\ NoErrors(o) => NoErrors(x.o)
  BY DEF Pops
<1>1. /\ IsParser(x1) /\ x1.o = o /\ m = Len(x1.st) + 1
      /\ \A j \in 1 .. Len(x1.st) : x1.st[j] = x.st[j]
  BY <1>0, Popped DEF Emits
<1>2. m \in Nat /\ m \in 1 .. m /\ Last(x.st) = x.st[m] /\ Len(x1.st) \in Nat
  <2> HIDE DEF x1
  <2> QED
    BY <1>0, <1>1, LastIs DEF IsParser
<1> HIDE DEF x1, m
<1>3. \A j \in 1 .. Len(x1.st) : j \in 1 .. m
  BY <1>1, <1>2
<1>4. m \notin 1 .. Len(x1.st)
  BY <1>1, <1>2
<1>5. \A j \in Waiting(x1.st) : j \in 1 .. m
  BY <1>3 DEF Waiting
<1>6. r = X!Null \/ \E j \in Waiting(x.st) : x.st[j].reify = r /\ j \notin Waiting(x1.st)
  <2>1. CASE r = X!Null
    BY <2>1
  <2>2. CASE r # X!Null
    <3>1. m \in Waiting(x.st) /\ x.st[m].reify = r
      BY <1>0, <1>2, <2>2 DEF Waiting, m
    <3>2. m \notin Waiting(x1.st)
      BY <1>4 DEF Waiting
    <3> QED
      BY <3>1, <3>2
  <2> QED
    BY <2>1, <2>2
<1>7. Uses(x, x1)
  BY <1>0, <1>1, <1>5, <1>6 DEF Uses, m
<1>8. \A j \in 1 .. Len(x1.st) : Like(x.st[j], x1.st[j])
  BY <1>1 DEF Like
<1> QED
  BY <1>0, <1>1, <1>7, <1>8 DEF Step, m, x1, IsPopped

LEMMA FailStep ==
    ASSUME NEW x, IsParser(x)
    PROVE  Step(x, X!Fail(x)) /\ ~NoErrors(X!Fail(x).o)
<1> DEFINE x1 == X!Fail(x)
<1>1. DOMAIN x1 = {"st", "o"} /\ x1.st = x.st /\ x1.o = X!add_error(x.o, "BadSyntax")
  BY DEF X!Fail, X!Stay, X!Parser
<1> HIDE DEF x1
<1>2. Plain(x.o, x1.o) /\ ~NoErrors(x1.o)
  BY <1>1, PlainError DEF IsParser
<1>3. IsParser(x1) /\ Len(x1.st) = Len(x.st)
  BY <1>1, <1>2 DEF IsParser, Plain, Emits
<1>4. \A j \in 1 .. Len(x.st) : Like(x.st[j], x1.st[j])
  BY <1>1 DEF Like
<1> QED
  BY <1>2, <1>3, <1>4, NonePushed DEF x1

\* The state of a node element
IsNodeState(e, s, i) ==
    /\ s.kind = "Description" /\ s.depth = 0 /\ s.base = X!LastValue(e, "base")
    /\ NamedAbout(e, s.subject, X!LastValue(e, "base"), i)

LEMMA NodeState ==
    ASSUME NEW e \in Elements, NEW o, IsOutput(o), NEW i
    PROVE  LET v == X!enter(o, e, i)
           IN  /\ Plain(o, v.o) /\ IsState(v.s) /\ v.s.kind # "Initial"
               /\ v.s.reify = X!Null
               /\ NoErrors(v.o) => IsNodeState(e, v.s, i)
<1> DEFINE v == X!enter(o, e, i)
           inh == X!get_inherited_attributes(e)
<1>1. /\ Plain(o, v.o) /\ v.s = X!State("Description", inh, v.n, X!Null, X!Null)
      /\ NoErrors(v.o) => NamedAbout(e, v.n, inh.base, i)
  BY NodeEntered
<1>2. inh.base = X!LastValue(e, "base")
  BY DEF X!get_inherited_attributes
<1> HIDE DEF v, inh
<1>3. IsFresh(v.s, "Description", inh.base, v.n, X!Null)
  <2>1. "Description" \in StateKinds
    BY DEF StateKinds
  <2> QED
    BY <1>1, <2>1, StateMade, NullMayStand
<1>4. NoErrors(v.o) => IsNodeState(e, v.s, i)
  BY <1>1, <1>2, <1>3 DEF IsNodeState, IsFresh
<1> QED
  BY <1>1, <1>3, <1>4 DEF v, IsFresh

LEMMA EnteredStep ==
    ASSUME NEW x, IsParser(x), NEW e \in Elements, NEW i
    PROVE  LET x1 == X!Entered(x, X!enter(x.o, e, i))
           IN  /\ Step(x, x1) /\ Len(x1.st) = Len(x.st) + 1
               /\ NoErrors(x1.o) => IsNodeState(e, Last(x1.st), i)
<1> DEFINE v == X!enter(x.o, e, i)
           x1 == X!Push(x, v.o, v.s)
<1>1. X!Entered(x, v) = x1
  BY DEF X!Entered
<1>2. /\ Plain(x.o, v.o) /\ IsState(v.s) /\ v.s.kind # "Initial"
      /\ v.s.reify = X!Null
      /\ NoErrors(v.o) => IsNodeState(e, v.s, i)
  BY NodeState DEF IsParser
<1>3. \A j \in 1 .. Len(x.st) : Like(x.st[j], x.st[j])
  BY DEF Like
<1> HIDE DEF v
<1>4. Pushes(x, x, v.o, v.s, X!Null)
  BY <1>2, <1>3 DEF Pushes, Plain
<1>5. IsPushed(x, x1, v.o, v.s)
  BY <1>4, OnePushed
<1> QED
  BY <1>1, <1>2, <1>5 DEF v, IsPushed

\* A node element that is the object of a property element
LEMMA NodeObjectStep ==
    ASSUME NEW x, IsParser(x), Last(x.st).kind = "Predicate", ~Last(x.st).done,
           NEW e \in Elements, NEW i
    PROVE  LET x1 == X!NodeObject(x, Last(x.st), X!enter(x.o, e, i))
           IN  /\ Step(x, x1) /\ Len(x1.st) = Len(x.st) + 1
               /\ NoErrors(x1.o) => IsNodeState(e, Last(x1.st), i)
<1> DEFINE t == Last(x.st)
           t1 == [t EXCEPT !.done = TRUE]
           v == X!enter(x.o, e, i)
           o1 == X!add_statement(v.o, t.subject, t.predicate, v.n, t.reify)
           x0 == X!Become(x, t1)
           x1 == X!Push(x0, o1, v.s)
<1>1. X!NodeObject(x, t, v) = x1
  BY DEF X!NodeObject
<1>2. /\ Plain(x.o, v.o) /\ IsState(v.s) /\ v.s.kind # "Initial"
      /\ v.s.reify = X!Null
      /\ NoErrors(v.o) => IsNodeState(e, v.s, i)
  BY NodeState DEF IsParser
<1>3. IsState(t) /\ t.kind = "Predicate" /\ ~t.done /\ IsOutput(x.o) /\ IsOutput(v.o)
  BY <1>2, LastIs DEF IsParser, Plain, Emits
<1> HIDE DEF v, t, x1
<1>4. IsState(t1) /\ Like(t, t1) /\ t1.done
  <2>1. /\ DOMAIN t1 = DOMAIN t /\ t1.kind = t.kind /\ t1.base = t.base
        /\ t1.subject = t.subject /\ t1.reify = t.reify /\ t1.depth = t.depth
        /\ t1.predicate = t.predicate /\ t1.done = TRUE /\ t1.li = t.li
    BY <1>3 DEF IsState, StateFields
  <2> HIDE DEF t1
  <2>2. IsState(t1)
    BY <1>3, <2>1 DEF IsState, MayStand
  <2> QED
    BY <2>1, <2>2 DEF Like
<1> HIDE DEF t1
<1>5. Emits(v.o, o1, t.reify) /\ (NoErrors(o1) <=> NoErrors(v.o))
  BY <1>3, Stated DEF IsState, MayStand
<1> HIDE DEF o1
<1>6. Emits(x.o, o1, t.reify)
  BY <1>2, <1>3, <1>5, EmitsMore
<1>7. /\ IsParser(x0) /\ Len(x0.st) = Len(x.st) /\ Last(x0.st) = t1
      /\ \A j \in 1 .. Len(x.st) : Like(x.st[j], x0.st[j])
  BY <1>4, Became DEF t
<1> HIDE DEF x0
<1>8. Last(x0.st).done /\ t.reify = Last(x.st).reify
  BY <1>4, <1>7 DEF t
<1>9. Pushes(x, x0, o1, v.s, t.reify)
  BY <1>2, <1>3, <1>6, <1>7, <1>8 DEF Pushes, t
<1>10. IsPushed(x, x1, o1, v.s)
  BY <1>9, OnePushed DEF x1
<1> QED
  BY <1>1, <1>2, <1>5, <1>10 DEF v, t, IsPushed

\* A node element that is an item of a list: it has a list node b, which the one before,
\* or the property element, leads to.
LEMMA ListItemStep ==
    ASSUME NEW x, IsParser(x), Last(x.st).kind = "Collection", NEW e \in Elements, NEW i
    PROVE  LET x1 == X!StartItem(x, Last(x.st), X!enter(x.o, e, i))
           IN  /\ Step(x, x1) /\ Len(x1.st) = Len(x.st) + 1
               /\ NoErrors(x1.o) => IsNodeState(e, Last(x1.st), i)
<1> DEFINE t == Last(x.st)
           v == X!enter(x.o, e, i)
           b == X!new_bn(v.o)
           t1 == [t EXCEPT !.done = TRUE, !.last = b.n]
           l == IF ~t.done
                THEN X!add_statement(b.o, t.subject, t.predicate, b.n, t.reify)
                ELSE X!add_statement(b.o, t.last, X!Named("rdf:rest"), b.n, X!Null)
           r == IF ~t.done THEN t.reify ELSE X!Null
           o1 == X!add_statement(l, b.n, X!Named("rdf:first"), v.n, X!Null)
           x0 == X!Become(x, t1)
           x1 == X!Push(x0, o1, v.s)
<1>1. X!StartItem(x, t, v) = x1
  BY DEF X!StartItem, X!ListItem
<1>2. /\ Plain(x.o, v.o) /\ IsState(v.s) /\ v.s.kind # "Initial"
      /\ v.s.reify = X!Null
      /\ NoErrors(v.o) => IsNodeState(e, v.s, i)
  BY NodeState DEF IsParser
<1>3. IsState(t) /\ t.kind = "Collection" /\ IsOutput(x.o) /\ IsOutput(v.o)
  BY <1>2, LastIs DEF IsParser, Plain, Emits
<1> HIDE DEF v, t, x1
<1>4. Plain(v.o, b.o)
  BY <1>3, BlankMade DEF Makes
<1> HIDE DEF b
<1>5. Plain(x.o, b.o) /\ IsOutput(b.o) /\ (NoErrors(b.o) => NoErrors(v.o))
  BY <1>2, <1>3, <1>4, PlainMore DEF Plain, Emits
<1>6. IsState(t1) /\ Like(t, t1) /\ t1.done
  <2>1. /\ DOMAIN t1 = DOMAIN t /\ t1.kind = t.kind /\ t1.base = t.base
        /\ t1.subject = t.subject /\ t1.reify = t.reify /\ t1.depth = t.depth
        /\ t1.predicate = t.predicate /\ t1.done = TRUE /\ t1.li = t.li
    BY <1>3 DEF IsState, StateFields
  <2> HIDE DEF t1
  <2>2. IsState(t1)
    BY <1>3, <2>1 DEF IsState, MayStand
  <2> QED
    BY <2>1, <2>2 DEF Like
<1> HIDE DEF t1
<1>7. Emits(b.o, l, r) /\ (NoErrors(l) <=> NoErrors(b.o))
  <2>1. CASE ~t.done
    <3>1. l = X!add_statement(b.o, t.subject, t.predicate, b.n, t.reify) /\ r = t.reify
      BY <2>1
    <3> HIDE DEF l, r
    <3> QED
      BY <1>3, <1>5, <3>1, Stated DEF IsState, MayStand
  <2>2. CASE t.done
    <3>1. l = X!add_statement(b.o, t.last, X!Named("rdf:rest"), b.n, X!Null) /\ r = X!Null
      BY <2>2
    <3> HIDE DEF l, r
    <3> QED
      BY <1>5, <3>1, Stated, NamesApart
  <2> QED
    BY <2>1, <2>2
<1>r. r = X!Null \/ (r = t.reify /\ ~t.done)
  OBVIOUS
<1> HIDE DEF l, r
<1>8. Plain(l, o1) /\ (NoErrors(o1) <=> NoErrors(l))
  <2>1. IsOutput(l)
    BY <1>7 DEF Emits
  <2> QED
    BY <2>1, Stated, NamesApart DEF Plain
<1> HIDE DEF o1
<1>9. Emits(x.o, o1, r) /\ (NoErrors(o1) => NoErrors(v.o))
  <2>1. Emits(b.o, o1, r)
    BY <1>5, <1>7, <1>8, EmitsMore
  <2>2. Emits(x.o, o1, r)
    BY <1>3, <1>5, <2>1, EmitsMore
  <2> QED
    BY <1>5, <1>7, <1>8, <2>2
<1>10. /\ IsParser(x0) /\ Len(x0.st) = Len(x.st) /\ Last(x0.st) = t1
      /\ \A j \in 1 .. Len(x.st) : Like(x.st[j], x0.st[j])
  BY <1>6, Became DEF t
<1> HIDE DEF x0
<1>11. Pushes(x, x0, o1, v.s, r)
  BY <1>2, <1>3, <1>6, <1>9, <1>10, <1>r DEF Pushes, t
<1>12. IsPushed(x, x1, o1, v.s)
  BY <1>11, OnePushed DEF x1
<1> QED
  BY <1>1, <1>2, <1>9, <1>12 DEF v, t, IsPushed

LEMMA EndPlain ==
    ASSUME NEW x, IsParser(x), Last(x.st).kind # "Initial"
    PROVE  IsPopped(x, X!PopState(x, x.o))
<1>1. Pops(x, x.o, X!Null)
  BY PlainSame DEF IsParser, Plain, Pops
<1> QED
  BY <1>1, OnePopped

LEMMA EndStated ==
    ASSUME NEW x, IsParser(x), Last(x.st).kind # "Initial", NEW o, Plain(x.o, o),
           NEW s, NEW p, MayStand(p), NEW ob, NEW r,
           r = X!Null \/ (r = Last(x.st).reify /\ ~Last(x.st).done)
    PROVE  IsPopped(x, X!PopState(x, X!add_statement(o, s, p, ob, r)))
<1> DEFINE o1 == X!add_statement(o, s, p, ob, r)
<1>1. Emits(o, o1, r) /\ IsOutput(x.o)
  BY Stated DEF MayStand, Plain, Emits, IsParser
<1> HIDE DEF o1
<1>2. Emits(x.o, o1, r)
  BY <1>1, EmitsMore
<1>3. NoErrors(o1) => NoErrors(x.o)
  BY <1>1, <1>2, ErrorsStay
<1>4. Pops(x, o1, r)
  BY <1>2, <1>3 DEF Pops
<1> QED
  BY <1>4, OnePopped DEF o1

LEMMA EndListStep ==
    ASSUME NEW x, IsParser(x), Last(x.st).kind = "Collection"
    PROVE  IsPopped(x, X!EndList(x, Last(x.st)))
<1> DEFINE t == Last(x.st)
<1>1. IsState(t) /\ MayStand(t.predicate) /\ Plain(x.o, x.o)
  BY LastIs, PlainSame DEF IsParser, IsState
<1>2. CASE ~t.done
  <2>1. X!EndList(x, t) =
          X!PopState(x, X!add_statement(x.o, t.subject, t.predicate, X!Named("rdf:nil"), t.reify))
    BY <1>2 DEF X!EndList
  <2> QED
    BY <1>1, <1>2, <2>1, EndStated
<1>3. CASE t.done
  <2>1. X!EndList(x, t) =
          X!PopState(x, X!add_statement(x.o, t.last, X!Named("rdf:rest"), X!Named("rdf:nil"), X!Null))
    BY <1>3 DEF X!EndList
  <2>2. MayStand(X!Named("rdf:rest"))
    BY NamesApart DEF MayStand
  <2> QED
    BY <1>1, <2>1, <2>2, EndStated
<1> QED
  BY <1>2, <1>3

LEMMA EndLiteralStep ==
    ASSUME NEW x, IsParser(x), Last(x.st).kind # "Initial", ~Last(x.st).done,
           NEW l, Makes(x.o, l)
    PROVE  IsPopped(x, X!EndLiteral(x, Last(x.st), l))
<1> DEFINE t == Last(x.st)
<1>1. MayStand(t.predicate) /\ Plain(x.o, l.o)
  BY LastIs DEF IsParser, IsState, Makes
<1>2. X!EndLiteral(x, t, l) = X!PopState(x, X!add_statement(l.o, t.subject, t.predicate, l.n, t.reify))
  BY DEF X!EndLiteral
<1> QED
  BY <1>1, <1>2, EndStated

\* The state at the top changes, but not what it stands for.
IsSwapped(x, x1, depth) ==
    Step(x, x1) /\ x1.o = x.o /\ Len(x1.st) = Len(x.st) /\ Last(x1.st).depth = depth

LEMMA Swapped ==
    ASSUME NEW x, IsParser(x), NEW s, IsState(s), Like(Last(x.st), s)
    PROVE  IsSwapped(x, X!Become(x, s), s.depth)
<1> DEFINE x1 == X!Become(x, s)
<1>1. /\ IsParser(x1) /\ x1.o = x.o /\ Len(x1.st) = Len(x.st) /\ Last(x1.st) = s
      /\ \A j \in 1 .. Len(x.st) : Like(x.st[j], x1.st[j])
  BY Became
<1> HIDE DEF x1
<1>2. Plain(x.o, x1.o)
  BY <1>1, PlainSame DEF IsParser
<1>3. Step(x, x1)
  BY <1>1, <1>2, NonePushed
<1> QED
  BY <1>1, <1>3 DEF IsSwapped, x1

LEMMA SourceStep ==
    ASSUME NEW x, IsParser(x), NEW depth \in Nat, NEW piece
    PROVE  IsSwapped(x, X!source_input(x, Last(x.st), depth, piece), depth)
<1> DEFINE t == Last(x.st)
           s == [t EXCEPT !.depth = depth, !.text = Append(@, piece)]
<1>1. IsState(t)
  BY LastIs DEF IsParser
<1>2. X!source_input(x, t, depth, piece) = X!Become(x, s)
  BY DEF X!source_input
<1> HIDE DEF t
<1>3. /\ DOMAIN s = DOMAIN t /\ s.kind = t.kind /\ s.base = t.base
      /\ s.subject = t.subject /\ s.reify = t.reify /\ s.depth = depth
      /\ s.predicate = t.predicate /\ s.done = t.done /\ s.li = t.li
  BY <1>1 DEF IsState, StateFields
<1> HIDE DEF s
<1>4. IsState(s)
  BY <1>1, <1>3 DEF IsState, MayStand
<1>5. Like(t, s)
  BY <1>3 DEF Like
<1>6. IsSwapped(x, X!Become(x, s), depth)
  BY <1>3, <1>4, <1>5, Swapped DEF t
<1> QED
  BY <1>2, <1>6 DEF t

LEMMA TextStep ==
    ASSUME NEW x, IsParser(x), NEW text, ~Last(x.st).done
    PROVE  IsSwapped(x, X!LiteralCharacters(x, Last(x.st), text), Last(x.st).depth)
<1> DEFINE t == Last(x.st)
           s == [t EXCEPT !.text = Append(@, text)]
<1>1. IsState(t)
  BY LastIs DEF IsParser
<1>2. X!LiteralCharacters(x, t, text) = X!Become(x, s)
  BY DEF X!LiteralCharacters
<1> HIDE DEF t
<1>3. /\ DOMAIN s = DOMAIN t /\ s.kind = t.kind /\ s.base = t.base
      /\ s.subject = t.subject /\ s.reify = t.reify /\ s.depth = t.depth
      /\ s.predicate = t.predicate /\ s.done = t.done /\ s.li = t.li
  BY <1>1 DEF IsState, StateFields
<1> HIDE DEF s
<1>4. IsState(s)
  BY <1>1, <1>3 DEF IsState, MayStand
<1>5. Like(t, s)
  BY <1>3 DEF Like
<1>6. IsSwapped(x, X!Become(x, s), t.depth)
  BY <1>3, <1>4, <1>5, Swapped DEF t
<1> QED
  BY <1>2, <1>6 DEF t

\* What a handler does to the stack: nothing to it, or an error
IsQuiet(x, x1) ==
    \/ IsSwapped(x, x1, Last(x.st).depth)
    \/ Step(x, x1) /\ ~NoErrors(x1.o)

LEMMA FailQuiet ==
    ASSUME NEW x, IsParser(x)
    PROVE  IsQuiet(x, X!Fail(x))
BY FailStep DEF IsQuiet

LEMMA CharactersStep ==
    ASSUME NEW x, IsParser(x), NEW text
    PROVE  IsQuiet(x, X!on_characters(x, text))
<1> DEFINE t == Last(x.st)
<1>1. IsState(t)
  BY LastIs DEF IsParser
<1>2. IsQuiet(x, X!NoCharacters(x, text))
  <2>1. CASE text = "space"
    <3>1. X!NoCharacters(x, text) = x
      BY <2>1 DEF X!NoCharacters
    <3>2. Plain(x.o, x.o) /\ \A j \in 1 .. Len(x.st) : Like(x.st[j], x.st[j])
      BY PlainSame DEF Like, IsParser
    <3>3. Step(x, x)
      BY <3>2, NonePushed
    <3> QED
      BY <3>1, <3>3 DEF IsQuiet, IsSwapped
  <2>2. CASE text # "space"
    <3>1. X!NoCharacters(x, text) = X!Fail(x)
      BY <2>2 DEF X!NoCharacters
    <3> QED
      BY <3>1, FailQuiet
  <2> QED
    BY <2>1, <2>2
<1>3. CASE t.kind = "XMLLiteral"
  <2>1. X!on_characters(x, text) = X!source_input(x, t, t.depth, text)
    BY <1>3 DEF X!on_characters, X!Last, Last
  <2>2. t.depth \in Nat
    BY <1>1 DEF IsState
  <2>3. IsSwapped(x, X!source_input(x, t, t.depth, text), t.depth)
    BY <2>2, SourceStep
  <2> QED
    BY <2>1, <2>3 DEF IsQuiet
<1>4. CASE t.kind \in {"Predicate", "Typed"}
  <2>1. X!on_characters(x, text) = X!LiteralCharacters(x, t, text)
    BY <1>4 DEF X!on_characters, X!Last, Last
  <2>2. CASE t.done
    <3>1. X!LiteralCharacters(x, t, text) = X!NoCharacters(x, text)
      BY <2>2 DEF X!LiteralCharacters
    <3> QED
      BY <1>2, <2>1, <3>1
  <2>3. CASE ~t.done
    BY <2>1, <2>3, TextStep DEF IsQuiet
  <2> QED
    BY <2>2, <2>3
<1>5. CASE t.kind \notin {"XMLLiteral", "Predicate", "Typed"}
  <2>1. X!on_characters(x, text) = X!NoCharacters(x, text)
    BY <1>5 DEF X!on_characters, X!Last, Last
  <2> QED
    BY <1>2, <2>1
<1> QED
  BY <1>3, <1>4, <1>5

\* The end of an element: within an XML literal it is text, else its state goes.
LEMMA ElementEnded ==
    ASSUME NEW x, IsParser(x)
    PROVE  LET x1 == X!on_end_element(x)
               t == Last(x.st)
           IN  \/ t.kind = "XMLLiteral" /\ t.depth > 0 /\ IsSwapped(x, x1, t.depth - 1)
               \/ t.kind # "Initial" /\ (t.kind = "XMLLiteral" => t.depth = 0) /\ IsPopped(x, x1)
               \/ Step(x, x1) /\ ~NoErrors(x1.o)
<1> DEFINE t == Last(x.st)
           x1 == X!on_end_element(x)
           Pop == t.kind # "Initial" /\ (t.kind = "XMLLiteral" => t.depth = 0) /\ IsPopped(x, x1)
<1>1. IsState(t) /\ IsOutput(x.o)
  BY LastIs DEF IsParser
<1>2. CASE t.kind = "Initial"
  <2>1. x1 = X!Fail(x)
    BY <1>2 DEF X!on_end_element, X!Last, Last
  <2> QED
    BY <2>1, FailStep
<1>3. CASE t.kind = "Collection"
  <2>1. x1 = X!EndList(x, t)
    BY <1>3 DEF X!on_end_element, X!Last, Last
  <2> QED
    BY <1>3, <2>1, EndListStep
<1>4. CASE t.kind = "XMLLiteral"
  <2>1. x1 = X!EndXMLLiteral(x, t)
    BY <1>4 DEF X!on_end_element, X!Last, Last
  <2>2. CASE t.depth > 0
    <3>1. x1 = X!source_input(x, t, t.depth - 1, "/")
      BY <2>1, <2>2, Zenon DEF X!EndXMLLiteral
    <3>2. t.depth - 1 \in Nat
      BY <1>1, <2>2 DEF IsState
    <3>3. IsSwapped(x, X!source_input(x, t, t.depth - 1, "/"), t.depth - 1)
      BY <3>2, SourceStep
    <3> QED
      BY <1>4, <2>2, <3>1, <3>3
  <2>3. CASE ~(t.depth > 0)
    <3> DEFINE l == X!make_literal(x.o, t.text, X!Named("rdf:XMLLiteral"), "", X!NoInherit)
    <3>1. x1 = X!EndLiteral(x, t, l)
      BY <2>1, <2>3, Zenon DEF X!EndXMLLiteral
    <3>2. t.depth = 0 /\ ~t.done
      BY <1>1, <1>4, <2>3 DEF IsState
    <3>3. Makes(x.o, l)
      BY <1>1, LiteralMade, Zenon
    <3> HIDE DEF l
    <3>4. IsPopped(x, X!EndLiteral(x, t, l))
      BY <1>4, <3>2, <3>3, EndLiteralStep
    <3> QED
      BY <1>4, <3>1, <3>2, <3>4
  <2> QED
    BY <2>2, <2>3
<1>5. CASE t.kind = "Predicate"
  <2> DEFINE i == X!make_info(x.st)
             l == X!make_literal(x.o, t.text, X!Null, "", i)
  <2>1. x1 = X!EndPredicate(x, t, i)
    BY <1>5 DEF X!on_end_element, X!Last, Last
  <2>2. CASE t.done
    <3>1. x1 = X!PopState(x, x.o)
      BY <2>1, <2>2 DEF X!EndPredicate
    <3> QED
      BY <1>5, <3>1, EndPlain
  <2>3. CASE ~t.done
    <3>1. x1 = X!EndLiteral(x, t, l)
      BY <2>1, <2>3, Zenon DEF X!EndPredicate
    <3>3. Makes(x.o, l)
      BY <1>1, LiteralMade, Zenon
    <3> HIDE DEF l
    <3>4. IsPopped(x, X!EndLiteral(x, t, l))
      BY <1>5, <2>3, <3>3, EndLiteralStep
    <3> QED
      BY <1>5, <3>1, <3>4
  <2> QED
    BY <2>2, <2>3
<1>6. CASE t.kind = "Typed"
  <2> DEFINE l == X!make_literal(x.o, t.text, t.datatype, "", X!NoInherit)
  <2>1. x1 = X!EndTyped(x, t)
    BY <1>6 DEF X!on_end_element, X!Last, Last
  <2>2. CASE t.datatype = X!Null
    <3>1. x1 = X!PopState(x, x.o)
      BY <2>1, <2>2 DEF X!EndTyped
    <3> QED
      BY <1>6, <3>1, EndPlain
  <2>3. CASE t.datatype # X!Null
    <3>1. x1 = X!EndLiteral(x, t, l)
      BY <2>1, <2>3, Zenon DEF X!EndTyped
    <3>2. ~t.done
      BY <1>1, <1>6 DEF IsState
    <3>3. Makes(x.o, l)
      BY <1>1, LiteralMade, Zenon
    <3> HIDE DEF l
    <3>4. IsPopped(x, X!EndLiteral(x, t, l))
      BY <1>6, <3>2, <3>3, EndLiteralStep
    <3> QED
      BY <1>6, <3>1, <3>4
  <2> QED
    BY <2>2, <2>3
<1>7. CASE t.kind \in {"RDF", "Description", "Empty"}
  <2>1. x1 = X!PopState(x, x.o)
    BY <1>7 DEF X!on_end_element, X!Last, Last
  <2> QED
    BY <1>7, <2>1, EndPlain
<1> QED
  BY <1>1, <1>2, <1>3, <1>4, <1>5, <1>6, <1>7 DEF IsState, StateKinds

-----------------------------------------------------------------------------
(***************************************************************************)
(* A property element: its state is of the kind the grammar says.          *)
(***************************************************************************)
NoBase == ""

IsPropertyState(e, s) ==
    /\ s.kind = PropertyRole(e) /\ s.depth = 0
    /\ s.base = IF s.kind = "Empty" THEN NoBase ELSE X!LastValue(e, "base")

LEMMA ParseTypesFacts ==
    ASSUME NEW e
    PROVE  /\ \A v : v \in X!ParseTypes(e) <=> HasParseType(e, v)
           /\ X!ParseTypes(e) = {} <=> ~Has(e, {"parseType"})
           /\ X!ParseTypes(e) \ {"Collection"} = {} <=>
                 \A j \in DOMAIN e.a : e.a[j].k = "parseType" => e.a[j].v = "Collection"
<1> DEFINE P == X!ParseTypes(e)
<1>1. \A v : v \in P <=> \E j \in DOMAIN e.a : e.a[j].k = "parseType" /\ e.a[j].v = v
  BY DEF X!ParseTypes
<1> HIDE DEF P
<1>2. P = {} <=> ~Has(e, {"parseType"})
  BY <1>1 DEF Has
<1>3. P \ {"Collection"} = {} <=>
          \A j \in DOMAIN e.a : e.a[j].k = "parseType" => e.a[j].v = "Collection"
  BY <1>1
<1> QED
  BY <1>1, <1>2, <1>3 DEF P, HasParseType

LEMMA PropertyRoleIs ==
    ASSUME NEW e
    PROVE  PropertyRole(e) =
              IF Has(e, {"datatype"}) THEN "Typed"
              ELSE IF NamesObject(e) THEN "Empty"
              ELSE IF "Resource" \in X!ParseTypes(e) THEN "Description"
              ELSE IF X!ParseTypes(e) \ {"Collection"} # {} THEN "XMLLiteral"
              ELSE IF X!ParseTypes(e) # {} THEN "Collection" ELSE "Predicate"
<1> DEFINE P == X!ParseTypes(e)
           OnlyCollections == \A j \in DOMAIN e.a : e.a[j].k = "parseType" => e.a[j].v = "Collection"
<1>1. /\ "Resource" \in P <=> HasParseType(e, "Resource")
      /\ P = {} <=> ~Has(e, {"parseType"})
      /\ P \ {"Collection"} = {} <=> OnlyCollections
  BY ParseTypesFacts
<1>2. P = {} => P \ {"Collection"} = {} /\ "Resource" \notin P
  OBVIOUS
<1>3. CASE Has(e, {"datatype"})
  BY <1>3 DEF PropertyRole
<1>4. CASE ~Has(e, {"datatype"}) /\ NamesObject(e)
  BY <1>4 DEF PropertyRole
<1>5. CASE ~Has(e, {"datatype"}) /\ ~NamesObject(e)
  <2>1. PropertyRole(e) =
          IF ~Has(e, {"parseType"}) THEN "Predicate"
          ELSE IF HasParseType(e, "Resource") THEN "Description"
          ELSE IF OnlyCollections THEN "Collection" ELSE "XMLLiteral"
    BY <1>5 DEF PropertyRole
  <2> HIDE DEF P, OnlyCollections
  <2>2. PropertyRole(e) =
          IF "Resource" \in P THEN "Description"
          ELSE IF P \ {"Collection"} # {} THEN "XMLLiteral"
          ELSE IF P # {} THEN "Collection" ELSE "Predicate"
    BY <1>1, <1>2, <2>1
  <2> QED
    BY <1>5, <2>2 DEF P
<1> QED
  BY <1>3, <1>4, <1>5

LEMMA PredicateMade ==
    ASSUME NEW e \in Elements, NEW o, IsOutput(o), NEW d, d.li \in Nat, NEW base, NEW i
    PROVE  LET p == X!Predicate(o, e, d, base, i)
           IN  Makes(o, p) /\ MayStand(p.n)
<1> DEFINE name == IF e.n = "li" THEN "rdf:_" \o ToString(d.li) ELSE e.n
           p == X!make_name(o, name, base, i)
<1>1. X!Predicate(o, e, d, base, i) = p
  BY DEF X!Predicate
<1>2. name = "rdf:subject" => ByHand
  BY DEF ByHand
<1> HIDE DEF name
<1>3. Makes(o, p) /\ p.n \in {X!Named(name), X!Null}
  BY NameMade
<1> HIDE DEF p
<1>4. MayStand(p.n)
  BY <1>2, <1>3, NamesApart DEF MayStand
<1> QED
  BY <1>1, <1>3, <1>4

\* The counter of rdf:li is all that changes in the description.
LEMMA LiCounted ==
    ASSUME NEW x, IsParser(x), NEW e
    PROVE  LET x0 == X!CountLi(x, e)
           IN  /\ IsParser(x0) /\ Len(x0.st) = Len(x.st)
               /\ \A j \in 1 .. Len(x.st) : Like(x.st[j], x0.st[j])
<1>1. CASE e.n = "li"
  <2> DEFINE t == Last(x.st)
             s == [t EXCEPT !.li = t.li + 1]
  <2>0. IsState(t) /\ t = x.st[Len(x.st)] /\ IsSeq(x.st) /\ Len(x.st) \in DOMAIN x.st
    BY LastIs, SeqFacts DEF IsParser, IsStack
  <2>1. X!CountLi(x, e) = X!Become(x, s)
    BY <1>1, <2>0 DEF X!CountLi, X!Become
  <2> HIDE DEF t
  <2>2. /\ DOMAIN s = DOMAIN t /\ s.kind = t.kind /\ s.base = t.base
        /\ s.subject = t.subject /\ s.reify = t.reify /\ s.depth = t.depth
        /\ s.predicate = t.predicate /\ s.done = t.done /\ s.li = t.li + 1
    BY <2>0 DEF IsState, StateFields
  <2> HIDE DEF s
  <2>3. IsState(s)
    BY <2>0, <2>2 DEF IsState, MayStand
  <2>4. Like(t, s)
    BY <2>2 DEF Like
  <2> QED
    BY <2>1, <2>3, <2>4, Became DEF t
<1>2. CASE e.n # "li"
  <2>1. X!CountLi(x, e) = x
    BY <1>2 DEF X!CountLi
  <2> QED
    BY <2>1 DEF Like
<1> QED
  BY <1>1, <1>2

LEMMA EmptyMade ==
    IsFresh(X!EmptyElement, "Empty", NoBase, X!Null, X!Null)
<1>1. "Empty" \in StateKinds
  BY DEF StateKinds
<1>2. X!NoInherit.base = NoBase
  BY Zenon DEF X!NoInherit, NoBase
<1>3. X!EmptyElement = X!State("Empty", X!NoInherit, X!Null, X!Null, X!Null)
  BY Zenon DEF X!EmptyElement
<1> QED
  BY <1>1, <1>2, <1>3, StateMade, NullMayStand

\* x0: the stack with rdf:li counted, r: the object that was found
IsCounted(x, x0) ==
    /\ IsParser(x0) /\ Len(x0.st) = Len(x.st)
    /\ \A j \in 1 .. Len(x.st) : Like(x.st[j], x0.st[j])

IsFound(x, e, r) ==
    /\ IsObject(r) /\ Plain(x.o, r.o) /\ IsNew(r.reify, x.o, r.o)
    /\ r.has <=> NamesObject(e)
    /\ r.typed <=> Has(e, {"datatype"})

LEMMA PropertyOpened ==
    ASSUME NEW x, IsParser(x), NEW x0, IsCounted(x, x0),
           NEW e, NEW d, NEW p, MayStand(p), NEW r, IsFound(x, e, r),
           NEW inh, inh.base = X!LastValue(e, "base")
    PROVE  LET x1 == X!OpenProperty(x0, d, p, r, inh, X!ParseTypes(e))
           IN  /\ Step(x, x1) /\ Len(x1.st) = Len(x.st) + 1
               /\ IsPropertyState(e, Last(x1.st))
<1> DEFINE P == X!ParseTypes(e)
           x1 == X!OpenProperty(x0, d, p, r, inh, P)
           reported == IF r.has /\ P # {} THEN X!add_error(r.o, "BadSyntax") ELSE r.o
           state(kind) == X!State(kind, inh, d.subject, p, r.reify)
<1>0. /\ IsObject(r) /\ IsNew(r.reify, x.o, r.o)
      /\ r.has <=> NamesObject(e)
      /\ r.typed <=> Has(e, {"datatype"})
  BY DEF IsFound
<1>1. Plain(r.o, reported)
  BY <1>0, PlainError, PlainSame DEF IsObject
<1>2. Plain(x.o, r.o) /\ IsOutput(r.o) /\ IsOutput(x.o)
  BY DEF IsObject, IsParser, IsFound
<1> HIDE DEF reported, P, x1
<1>3. Plain(x.o, reported) /\ IsOutput(reported)
  <2>1. Plain(x.o, reported)
    BY <1>1, <1>2, PlainMore
  <2> QED
    BY <2>1 DEF Plain, Emits
<1>4. IsNew(r.reify, x.o, reported)
  BY <1>0, <1>1 DEF IsNew, Plain, Emits
<1>5. ASSUME NEW s, NEW o1, NEW q, Pushes(x, x0, o1, s, q), IsPropertyState(e, s),
             x1 = X!Push(x0, o1, s)
      PROVE  /\ Step(x, x1) /\ Len(x1.st) = Len(x.st) + 1
             /\ IsPropertyState(e, Last(x1.st))
  <2>1. IsPushed(x, x1, o1, s)
    BY <1>5, OnePushed
  <2> QED
    BY <1>5, <2>1 DEF IsPushed
<1>6. CASE r.typed
  <2> DEFINE b == state("Typed")
             s == [b EXCEPT !.datatype = r.datatype]
  <2>1. x1 = X!Push(x0, reported, s)
    BY <1>6 DEF X!OpenProperty, x1, reported, P
  <2>2. IsFresh(b, "Typed", inh.base, d.subject, r.reify)
    <3>1. "Typed" \in StateKinds
      BY DEF StateKinds
    <3> QED
      BY <3>1, StateMade
  <2> HIDE DEF b
  <2>3. /\ DOMAIN s = DOMAIN b /\ s.kind = b.kind /\ s.base = b.base
        /\ s.subject = b.subject /\ s.reify = b.reify /\ s.depth = b.depth
        /\ s.predicate = b.predicate /\ s.done = b.done /\ s.li = b.li
    BY <2>2 DEF IsFresh, IsState, StateFields
  <2> HIDE DEF s
  <2>4. IsState(s) /\ s.kind = "Typed" /\ s.reify = r.reify
    BY <2>2, <2>3 DEF IsFresh, IsState, MayStand
  <2>5. PropertyRole(e) = "Typed"
    BY <1>6, <1>0, PropertyRoleIs
  <2>6. IsPropertyState(e, s)
    BY <2>2, <2>3, <2>5 DEF IsFresh, IsPropertyState
  <2>7. Pushes(x, x0, reported, s, X!Null)
    BY <1>3, <1>4, <2>4 DEF Pushes, Plain, IsCounted
  <2> QED
    BY <1>5, <2>1, <2>6, <2>7 DEF x1, P
<1>7. CASE ~r.typed /\ r.has
  <2> DEFINE o1 == X!add_statement(reported, d.subject, p, r.n, r.reify)
             s == X!EmptyElement
  <2>1. x1 = X!Push(x0, o1, s)
    BY <1>7 DEF X!OpenProperty, x1, reported, P
  <2>2. IsFresh(s, "Empty", NoBase, X!Null, X!Null)
    BY EmptyMade
  <2>3. Emits(reported, o1, r.reify)
    BY <1>3, Stated DEF MayStand
  <2> HIDE DEF o1, s
  <2>4. Emits(x.o, o1, r.reify)
    BY <1>2, <1>3, <2>3, EmitsMore
  <2>5. IsNew(r.reify, x.o, o1)
    BY <1>1, <1>4, <2>3 DEF IsNew, Emits
  <2>6. PropertyRole(e) = "Empty"
    BY <1>7, <1>0, PropertyRoleIs
  <2>7. IsPropertyState(e, s)
    BY <2>2, <2>6 DEF IsFresh, IsPropertyState
  <2>8. Pushes(x, x0, o1, s, r.reify)
    BY <2>2, <2>4, <2>5 DEF Pushes, IsFresh, IsCounted
  <2> QED
    BY <1>5, <2>1, <2>7, <2>8 DEF x1, P
<1>8. CASE ~r.typed /\ ~r.has /\ "Resource" \in P
  <2> DEFINE b == X!new_bn(reported)
             o1 == X!add_statement(b.o, d.subject, p, b.n, r.reify)
             s == X!State("Description", inh, b.n, X!Null, X!Null)
  <2>1. x1 = X!Push(x0, o1, s)
    BY <1>8 DEF X!OpenProperty, x1, reported, P
  <2>2. IsFresh(s, "Description", inh.base, b.n, X!Null)
    <3>1. "Description" \in StateKinds
      BY DEF StateKinds
    <3> QED
      BY <3>1, StateMade, NullMayStand
  <2>3. Plain(reported, b.o)
    BY <1>3, BlankMade DEF Makes
  <2> HIDE DEF b, s
  <2>4. Plain(x.o, b.o) /\ IsOutput(b.o)
    <3>1. Plain(x.o, b.o)
      BY <1>2, <1>3, <2>3, PlainMore
    <3> QED
      BY <3>1 DEF Plain, Emits
  <2>5. Emits(b.o, o1, r.reify)
    BY <2>4, Stated DEF MayStand
  <2> HIDE DEF o1
  <2>6. Emits(x.o, o1, r.reify)
    BY <1>2, <2>4, <2>5, EmitsMore
  <2>7. IsNew(r.reify, x.o, o1)
    BY <1>4, <2>3, <2>5 DEF IsNew, Emits, Plain
  <2>8. PropertyRole(e) = "Description"
    BY <1>8, <1>0, PropertyRoleIs DEF P
  <2>9. IsPropertyState(e, s)
    BY <2>2, <2>8 DEF IsFresh, IsPropertyState
  <2>10. Pushes(x, x0, o1, s, r.reify)
    BY <2>2, <2>6, <2>7 DEF Pushes, IsFresh, IsCounted
  <2> QED
    BY <1>5, <2>1, <2>9, <2>10 DEF x1, P
<1>9. CASE ~r.typed /\ ~r.has /\ "Resource" \notin P
  <2> DEFINE kind == IF P \ {"Collection"} # {} THEN "XMLLiteral"
                     ELSE IF P # {} THEN "Collection" ELSE "Predicate"
             s == state(kind)
  <2>1. x1 = X!Push(x0, reported, s)
    BY <1>9 DEF X!OpenProperty, x1, reported, P
  <2>2. kind \in StateKinds /\ kind \notin {"Empty", "Initial"}
    BY DEF StateKinds
  <2>3. PropertyRole(e) = kind
    BY <1>9, <1>0, PropertyRoleIs DEF P
  <2> HIDE DEF kind
  <2>4. IsFresh(s, kind, inh.base, d.subject, r.reify)
    BY <2>2, StateMade
  <2> HIDE DEF s
  <2>5. IsPropertyState(e, s)
    BY <2>2, <2>3, <2>4 DEF IsFresh, IsPropertyState
  <2>6. Pushes(x, x0, reported, s, X!Null)
    BY <1>3, <1>4, <2>2, <2>4 DEF Pushes, Plain, IsFresh, IsCounted
  <2> QED
    BY <1>5, <2>1, <2>5, <2>6 DEF x1, P
<1> QED
  BY <1>6, <1>7, <1>8, <1>9 DEF x1, P

LEMMA PropertyStep ==
    ASSUME NEW x, IsParser(x), NEW e \in Elements, NEW i
    PROVE  LET x1 == X!on_start_property(x, e, Last(x.st), X!get_inherited_attributes(e), i)
           IN  /\ Step(x, x1)
               /\ NoErrors(x1.o) =>
                     Len(x1.st) = Len(x.st) + 1 /\ IsPropertyState(e, Last(x1.st))
<1> DEFINE d == Last(x.st)
           inh == X!get_inherited_attributes(e)
           b == X!InheritErrors(x.o, e)
           p == X!Predicate(b, e, d, inh.base, i)
           r == X!PropertyObject(p, e, d, inh, i)
           x0 == X!CountLi(x, e)
           x1 == X!on_start_property(x, e, d, inh, i)
<1>1. CASE e.n \in {"core", "RDF", "Description", "old"}
  <2>1. x1 = X!Push(x, X!add_error(x.o, "BadSyntax"), X!EmptyElement)
    BY <1>1 DEF X!on_start_property
  <2>2. /\ Plain(x.o, X!add_error(x.o, "BadSyntax"))
        /\ ~NoErrors(X!add_error(x.o, "BadSyntax"))
    BY PlainError DEF IsParser
  <2>3. \A j \in 1 .. Len(x.st) : Like(x.st[j], x.st[j])
    BY DEF Like
  <2>4. Pushes(x, x, X!add_error(x.o, "BadSyntax"), X!EmptyElement, X!Null)
    BY <2>2, <2>3, EmptyMade DEF Pushes, IsFresh, Plain
  <2>5. IsPushed(x, x1, X!add_error(x.o, "BadSyntax"), X!EmptyElement)
    BY <2>1, <2>4, OnePushed
  <2> QED
    BY <2>2, <2>5 DEF IsPushed
<1>2. CASE e.n \notin {"core", "RDF", "Description", "old"}
  <2>1. x1 = X!OpenProperty(x0, d, p.n, r, inh, X!ParseTypes(e))
    BY <1>2 DEF X!on_start_property, X!PropertyElement
  <2>2. inh.base = X!LastValue(e, "base")
    BY DEF X!get_inherited_attributes
  <2>3. d.li \in Nat /\ IsOutput(x.o)
    BY LastIs DEF IsParser, IsState
  <2> HIDE DEF x1, inh, d
  <2>4. Plain(x.o, b) /\ IsOutput(b)
    BY <2>3, InheritChecked DEF Plain, Emits
  <2> HIDE DEF b
  <2>5. Makes(b, p) /\ MayStand(p.n)
    BY <2>3, <2>4, PredicateMade
  <2> HIDE DEF p
  <2>6. Plain(b, p.o) /\ IsOutput(p.o)
    BY <2>5 DEF Makes, Plain, Emits
  <2>7. Plain(x.o, p.o)
    BY <2>3, <2>4, <2>6, PlainMore
  <2>8. /\ IsObject(r) /\ Plain(p.o, r.o) /\ IsNew(r.reify, p.o, r.o)
        /\ r.has <=> NamesObject(e)
        /\ r.typed <=> Has(e, {"datatype"})
    BY <2>6, ObjectFound
  <2> HIDE DEF r
  <2>9. IsCounted(x, x0)
    BY LiCounted DEF IsCounted
  <2> HIDE DEF x0
  <2>a. IsFound(x, e, r)
    <3>1. Plain(x.o, r.o)
      BY <2>3, <2>7, <2>8, PlainMore
    <3>2. IsNew(r.reify, x.o, r.o)
      BY <2>7, <2>8 DEF IsNew, Plain, Emits
    <3> QED
      BY <2>8, <3>1, <3>2 DEF IsFound
  <2>10. /\ Step(x, x1) /\ Len(x1.st) = Len(x.st) + 1
         /\ IsPropertyState(e, Last(x1.st))
    BY <2>1, <2>2, <2>5, <2>9, <2>a, PropertyOpened
  <2> QED
    BY <2>10 DEF x1, d, inh
<1> QED
  BY <1>1, <1>2

\* The start of an element: within an XML literal it is text, else it has a state.
Opens(t, e, s, i) ==
    IF t.kind = "Description" THEN IsPropertyState(e, s)
    ELSE IF t.kind = "Initial" /\ e.n = "RDF"
    THEN s.kind = "RDF" /\ s.depth = 0 /\ s.base = X!LastValue(e, "base")
    ELSE IsNodeState(e, s, i)

IsOpened(x, x1, e) ==
    /\ Step(x, x1)
    /\ NoErrors(x1.o) =>
          /\ Last(x.st).kind \notin {"XMLLiteral", "Empty", "Typed"}
          /\ Len(x1.st) = Len(x.st) + 1
          /\ Opens(Last(x.st), e, Last(x1.st), X!make_info(x.st))

LEMMA NodeOpened ==
    ASSUME NEW x, NEW x1, NEW e, Step(x, x1), Len(x1.st) = Len(x.st) + 1,
           NoErrors(x1.o) => IsNodeState(e, Last(x1.st), X!make_info(x.st)),
           Last(x.st).kind \notin {"XMLLiteral", "Empty", "Typed", "Description"},
           ~(Last(x.st).kind = "Initial" /\ e.n = "RDF")
    PROVE  IsOpened(x, x1, e)
<1>1. NoErrors(x1.o) => Opens(Last(x.st), e, Last(x1.st), X!make_info(x.st))
  BY DEF Opens
<1> QED
  BY <1>1 DEF IsOpened

LEMMA ElementStarted ==
    ASSUME NEW x, IsParser(x), NEW e \in Elements
    PROVE  LET x1 == X!on_start_element(x, e)
               t == Last(x.st)
           IN  \/ t.kind = "XMLLiteral" /\ IsSwapped(x, x1, t.depth + 1)
               \/ IsOpened(x, x1, e)
<1> DEFINE x1 == X!on_start_element(x, e)
           t == Last(x.st)
           i == X!make_info(x.st)
<1>1. IsState(t) /\ IsOutput(x.o)
  BY LastIs DEF IsParser
<1>2. ASSUME x1 = X!Entered(x, X!enter(x.o, e, i)), t.kind \in {"Initial", "RDF"},
             ~(t.kind = "Initial" /\ e.n = "RDF")
      PROVE  IsOpened(x, x1, e)
  <2> HIDE DEF i
  <2>1. /\ Step(x, x1) /\ Len(x1.st) = Len(x.st) + 1
        /\ NoErrors(x1.o) => IsNodeState(e, Last(x1.st), i)
    BY <1>2, EnteredStep
  <2> HIDE DEF x1
  <2> QED
    BY <1>2, <2>1, NodeOpened DEF i
<1>3. CASE t.kind = "Initial" /\ e.n = "RDF"
  <2> DEFINE inh == X!get_inherited_attributes(e)
             o1 == X!InheritErrors(x.o, e)
             s == X!State("RDF", inh, X!Null, X!Null, X!Null)
  <2>1. x1 = X!Push(x, o1, s)
    BY <1>3 DEF X!on_start_element, X!StartRoot, X!Last, Last
  <2>2. IsFresh(s, "RDF", inh.base, X!Null, X!Null)
    <3>1. "RDF" \in StateKinds
      BY DEF StateKinds
    <3> QED
      BY <3>1, StateMade, NullMayStand
  <2>3. inh.base = X!LastValue(e, "base")
    BY DEF X!get_inherited_attributes
  <2>4. Plain(x.o, o1)
    BY <1>1, InheritChecked
  <2>5. \A j \in 1 .. Len(x.st) : Like(x.st[j], x.st[j])
    BY DEF Like
  <2> HIDE DEF inh, s, o1, x1
  <2>6. Pushes(x, x, o1, s, X!Null)
    BY <2>2, <2>4, <2>5 DEF Pushes, IsFresh, Plain
  <2>7. IsPushed(x, x1, o1, s)
    BY <2>1, <2>6, OnePushed
  <2>8. Opens(t, e, s, i)
    BY <1>3, <2>2, <2>3 DEF Opens, IsFresh
  <2>9. IsOpened(x, x1, e)
    BY <1>3, <2>7, <2>8 DEF IsOpened, IsPushed
  <2> QED
    BY <2>9 DEF x1
<1>4. CASE t.kind = "Initial" /\ e.n # "RDF"
  <2>1. x1 = X!Entered(x, X!enter(x.o, e, i))
    BY <1>4 DEF X!on_start_element, X!StartRoot, X!Last, Last
  <2> QED
    BY <1>2, <1>4, <2>1
<1>5. CASE t.kind = "RDF"
  <2>1. x1 = X!Entered(x, X!enter(x.o, e, i))
    BY <1>5 DEF X!on_start_element, X!Last, Last
  <2> QED
    BY <1>2, <1>5, <2>1
<1>6. CASE t.kind = "Description"
  <2>1. x1 = X!on_start_property(x, e, t, X!get_inherited_attributes(e), i)
    BY <1>6 DEF X!on_start_element, X!Last, Last
  <2> HIDE DEF i
  <2>2. /\ Step(x, x1)
        /\ NoErrors(x1.o) =>
              Len(x1.st) = Len(x.st) + 1 /\ IsPropertyState(e, Last(x1.st))
    BY <2>1, PropertyStep
  <2> HIDE DEF x1
  <2>3. IsOpened(x, x1, e)
    BY <1>6, <2>2 DEF IsOpened, Opens
  <2> QED
    BY <2>3 DEF x1
<1>7. CASE t.kind = "Predicate"
  <2>1. x1 = X!StartInPredicate(x, t, e, i)
    BY <1>7 DEF X!on_start_element, X!Last, Last
  <2>2. CASE t.done \/ ~X!Blank(t.text)
    <3>1. x1 = X!Fail(x)
      BY <2>1, <2>2 DEF X!StartInPredicate
    <3>2. Step(x, x1) /\ ~NoErrors(x1.o)
      BY <3>1, FailStep
    <3> QED
      BY <3>2 DEF IsOpened
  <2>3. CASE ~(t.done \/ ~X!Blank(t.text))
    <3>1. x1 = X!NodeObject(x, t, X!enter(x.o, e, i))
      BY <2>1, <2>3 DEF X!StartInPredicate
    <3> HIDE DEF i
    <3>2. /\ Step(x, x1) /\ Len(x1.st) = Len(x.st) + 1
          /\ NoErrors(x1.o) => IsNodeState(e, Last(x1.st), i)
      BY <1>7, <2>3, <3>1, NodeObjectStep
    <3> HIDE DEF x1
    <3>3. IsOpened(x, x1, e)
      BY <1>7, <3>2, NodeOpened DEF i
    <3> QED
      BY <3>3 DEF x1
  <2> QED
    BY <2>2, <2>3
<1>8. CASE t.kind = "Collection"
  <2>1. x1 = X!StartItem(x, t, X!enter(x.o, e, i))
    BY <1>8 DEF X!on_start_element, X!Last, Last
  <2> HIDE DEF i
  <2>2. /\ Step(x, x1) /\ Len(x1.st) = Len(x.st) + 1
        /\ NoErrors(x1.o) => IsNodeState(e, Last(x1.st), i)
    BY <1>8, <2>1, ListItemStep
  <2> HIDE DEF x1
  <2>3. IsOpened(x, x1, e)
    BY <1>8, <2>2, NodeOpened DEF i
  <2> QED
    BY <2>3 DEF x1
<1>9. CASE t.kind = "XMLLiteral"
  <2>1. x1 = X!source_input(x, t, t.depth + 1, e.n)
    BY <1>9 DEF X!on_start_element, X!Last, Last
  <2>2. t.depth + 1 \in Nat
    BY <1>1 DEF IsState
  <2>3. IsSwapped(x, X!source_input(x, t, t.depth + 1, e.n), t.depth + 1)
    BY <2>2, SourceStep
  <2> QED
    BY <1>9, <2>1, <2>3
<1>10. CASE t.kind \in {"Empty", "Typed"}
  <2>1. x1 = X!Fail(x)
    BY <1>10 DEF X!on_start_element, X!Last, Last
  <2>2. Step(x, x1) /\ ~NoErrors(x1.o)
    BY <2>1, FailStep
  <2> QED
    BY <2>2 DEF IsOpened
<1> QED
  BY <1>1, <1>3, <1>4, <1>5, <1>6, <1>7, <1>8, <1>9, <1>10 DEF IsState, StateKinds

-----------------------------------------------------------------------------
(***************************************************************************)
(* The parser with everything it put out: what next() returned stands      *)
(* before its queue.                                                       *)
(***************************************************************************)
Behind(g, x) == [st |-> x.st, o |-> [x.o EXCEPT !.queue = g \o @]]

Whole == Behind(given, xml)

LEMMA BehindIs ==
    ASSUME NEW g, NEW x, IsSeq(g), IsParser(x)
    PROVE  LET w == Behind(g, x)
           IN  /\ IsParser(w) /\ w.st = x.st /\ w.o.ids = x.o.ids
               /\ w.o.queue = g \o x.o.queue
               /\ Len(w.o.queue) = Len(g) + Len(x.o.queue)
               /\ \A n \in 1 .. Len(g) : w.o.queue[n] = g[n]
               /\ \A n \in 1 .. Len(x.o.queue) : w.o.queue[Len(g) + n] = x.o.queue[n]
<1> DEFINE w == Behind(g, x)
<1>1. DOMAIN x.o = {"queue", "bns", "ids", "base"} /\ IsSeq(x.o.queue)
  BY DEF IsParser, IsOutput
<1>2. /\ DOMAIN w = {"st", "o"} /\ w.st = x.st /\ DOMAIN w.o = DOMAIN x.o
      /\ w.o.ids = x.o.ids /\ w.o.queue = g \o x.o.queue
  BY <1>1 DEF Behind
<1> HIDE DEF w
<1>3. /\ IsSeq(w.o.queue) /\ Len(w.o.queue) = Len(g) + Len(x.o.queue)
      /\ \A n \in 1 .. Len(g) : w.o.queue[n] = g[n]
      /\ \A n \in 1 .. Len(x.o.queue) : w.o.queue[Len(g) + n] = x.o.queue[n]
  BY <1>1, <1>2, Concatenated
<1>4. IsParser(w)
  BY <1>1, <1>2, <1>3 DEF IsParser, IsOutput
<1> QED
  BY <1>2, <1>3, <1>4 DEF w

LEMMA EmitsBehind ==
    ASSUME NEW g, IsSeq(g), NEW x, IsParser(x), NEW x1, IsParser(x1),
           NEW r, Emits(x.o, x1.o, r)
    PROVE  Emits(Behind(g, x).o, Behind(g, x1).o, r)
<1> DEFINE o == Behind(g, x).o
           o1 == Behind(g, x1).o
           m == Len(g)
<1>1. /\ IsOutput(o) /\ o.ids = x.o.ids /\ Len(o.queue) = m + Len(x.o.queue)
      /\ \A n \in 1 .. m : o.queue[n] = g[n]
      /\ \A n \in 1 .. Len(x.o.queue) : o.queue[m + n] = x.o.queue[n]
  BY BehindIs DEF IsParser
<1>2. /\ IsOutput(o1) /\ o1.ids = x1.o.ids /\ Len(o1.queue) = m + Len(x1.o.queue)
      /\ \A n \in 1 .. m : o1.queue[n] = g[n]
      /\ \A n \in 1 .. Len(x1.o.queue) : o1.queue[m + n] = x1.o.queue[n]
  BY BehindIs DEF IsParser
<1>3. m \in Nat /\ Len(x.o.queue) \in Nat /\ Len(x1.o.queue) \in Nat
  BY SeqFacts DEF IsParser, IsOutput
<1>4. /\ Len(x.o.queue) <= Len(x1.o.queue) /\ \A id \in x.o.ids : id \in x1.o.ids
      /\ \A n \in 1 .. Len(x.o.queue) : x1.o.queue[n] = x.o.queue[n]
      /\ ~ByHand =>
            /\ \A n \in Added(x.o, x1.o) :
                  SaysSubject(x1.o.queue[n]) => r # X!Null /\ x1.o.queue[n][2] = r
            /\ \A n, k \in Added(x.o, x1.o) :
                  SaysSubject(x1.o.queue[n]) /\ SaysSubject(x1.o.queue[k]) => n = k
  BY DEF Emits
<1> HIDE DEF o, o1, m
<1>5. ASSUME NEW n \in Added(o, o1)
      PROVE  n - m \in Added(x.o, x1.o) /\ o1.queue[n] = x1.o.queue[n - m] /\ n \in Nat
  <2>1. n - m \in 1 .. Len(x1.o.queue) /\ m + (n - m) = n /\ n - m \in Added(x.o, x1.o)
    BY <1>1, <1>2, <1>3 DEF Added
  <2>2. o1.queue[m + (n - m)] = x1.o.queue[n - m]
    BY <1>2, <2>1
  <2> QED
    BY <1>3, <2>1, <2>2 DEF Added
<1>6. ASSUME NEW n \in 1 .. Len(o.queue)
      PROVE  o1.queue[n] = o.queue[n]
  <2>1. CASE n \in 1 .. m
    BY <1>1, <1>2, <2>1
  <2>2. CASE n \notin 1 .. m
    <3>1. n - m \in 1 .. Len(x.o.queue) /\ n - m \in 1 .. Len(x1.o.queue) /\ m + (n - m) = n
      BY <1>1, <1>3, <1>4, <2>2
    <3> QED
      BY <1>1, <1>2, <1>4, <3>1
  <2> QED
    BY <2>1, <2>2
<1>7. ASSUME ~ByHand, NEW n \in Added(o, o1), SaysSubject(o1.queue[n])
      PROVE  r # X!Null /\ o1.queue[n][2] = r
  BY <1>4, <1>5, <1>7
<1>8. ASSUME ~ByHand, NEW n \in Added(o, o1), NEW k \in Added(o, o1),
             SaysSubject(o1.queue[n]), SaysSubject(o1.queue[k])
      PROVE  n = k
  <2>1. n - m = k - m /\ n \in Nat /\ k \in Nat
    BY <1>4, <1>5, <1>8
  <2> QED
    BY <1>3, <2>1
<1>9. Len(o.queue) <= Len(o1.queue) /\ \A id \in o.ids : id \in o1.ids
  BY <1>1, <1>2, <1>3, <1>4
<1>10. Emits(o, o1, r)
  BY <1>2, <1>6, <1>7, <1>8, <1>9 DEF Emits
<1> QED
  BY <1>10 DEF o, o1

LEMMA StepBehind ==
    ASSUME NEW g, IsSeq(g), NEW x, IsParser(x), NEW x1, Step(x, x1)
    PROVE  Step(Behind(g, x), Behind(g, x1))
<1> DEFINE w == Behind(g, x)
           w1 == Behind(g, x1)
<1>0. IsParser(x1)
  BY DEF Step
<1>1. w.st = x.st /\ w.o.ids = x.o.ids
  BY BehindIs
<1>2. IsParser(w1) /\ w1.st = x1.st /\ w1.o.ids = x1.o.ids
  BY <1>0, BehindIs
<1>3. \A r : Emits(x.o, x1.o, r) => Emits(w.o, w1.o, r)
  BY <1>0, EmitsBehind
<1>4. \A n : IsNew(n, w.o, w1.o) <=> IsNew(n, x.o, x1.o)
  BY <1>1, <1>2 DEF IsNew
<1> HIDE DEF w, w1
<1>5. Uses(w, w1)
  BY <1>1, <1>2, <1>3, <1>4 DEF Step, Uses
<1>6. Step(w, w1)
  BY <1>1, <1>2, <1>5 DEF Step
<1> QED
  BY <1>6 DEF w, w1

-----------------------------------------------------------------------------
(***************************************************************************)
(* No two states wait to reify with one name, and with none that was used: *)
(* what is used or waits is an id of the document.                         *)
(***************************************************************************)
SaidOf(o) == {n \in 1 .. Len(o.queue) : SaysSubject(o.queue[n])}

WaitingReserved(x) == \A j \in Waiting(x.st) : x.st[j].reify \in x.o.ids
WaitingApart(x) == \A j, k \in Waiting(x.st) : x.st[j].reify = x.st[k].reify => j = k
SaidReserved(x) == \A n \in SaidOf(x.o) : x.o.queue[n][2] \in x.o.ids
SaidApart(x) == \A n, m \in SaidOf(x.o) : x.o.queue[n][2] = x.o.queue[m][2] => n = m
SaidNotWaiting(x) ==
    \A n \in SaidOf(x.o) : \A j \in Waiting(x.st) : x.o.queue[n][2] # x.st[j].reify

ReifiedInv(x) ==
    /\ WaitingReserved(x) /\ WaitingApart(x)
    /\ SaidReserved(x) /\ SaidApart(x) /\ SaidNotWaiting(x)

LEMMA ReifiedKept ==
    ASSUME ~ByHand, NEW x, IsParser(x), ReifiedInv(x), NEW x1, Step(x, x1)
    PROVE  ReifiedInv(x1)
<1> DEFINE o == x.o
           o1 == x1.o
<1>1. PICK r :
         /\ Emits(o, o1, r)
         /\ \/ r = X!Null
            \/ IsNew(r, o, o1) /\ \A j \in Waiting(x1.st) : j \in 1 .. Len(x.st)
            \/ \E j \in Waiting(x.st) : x.st[j].reify = r /\ j \notin Waiting(x1.st)
  BY DEF Step, Uses
<1>2. Len(o.queue) \in Nat /\ Len(o1.queue) \in Nat
  BY SeqFacts DEF IsParser, IsOutput, Step
<1>3. /\ Len(o.queue) <= Len(o1.queue)
      /\ \A id \in o.ids : id \in o1.ids
      /\ \A n \in 1 .. Len(o.queue) : o1.queue[n] = o.queue[n]
      /\ \A n \in Added(o, o1) : SaysSubject(o1.queue[n]) => r # X!Null /\ o1.queue[n][2] = r
      /\ \A n, m \in Added(o, o1) :
            SaysSubject(o1.queue[n]) /\ SaysSubject(o1.queue[m]) => n = m
  BY <1>1 DEF Emits
<1>4. ASSUME NEW n \in SaidOf(o1)
      PROVE  \/ n \in SaidOf(o) /\ o1.queue[n] = o.queue[n]
             \/ n \in Added(o, o1) /\ r # X!Null /\ o1.queue[n][2] = r
  <2>1. n \in 1 .. Len(o.queue) \/ n \in Added(o, o1)
    BY <1>2, <1>3 DEF SaidOf, Added
  <2> QED
    BY <1>3, <2>1 DEF SaidOf
<1>5. ASSUME NEW j \in Waiting(x1.st)
      PROVE  \/ j \in Waiting(x.st) /\ x1.st[j].reify = x.st[j].reify
             \/ /\ j = Len(x1.st) /\ j \notin 1 .. Len(x.st)
                /\ x1.st[j].reify \notin o.ids /\ x1.st[j].reify \in o1.ids
  <2>1. /\ j \in 1 .. Len(x1.st) /\ x1.st[j].reify # X!Null /\ ~x1.st[j].done
        /\ j \in 1 .. Len(x.st) \/ (j = Len(x1.st) /\ IsNew(x1.st[j].reify, o, o1))
    BY DEF Step, Uses, Waiting
  <2>2. CASE j \in 1 .. Len(x.st)
    <3>1. Like(x.st[j], x1.st[j])
      BY <2>1, <2>2 DEF Step
    <3> QED
      BY <2>1, <2>2, <3>1 DEF Like, Waiting
  <2>3. CASE j \notin 1 .. Len(x.st)
    BY <2>1, <2>3 DEF IsNew
  <2> QED
    BY <2>2, <2>3
\* What is used now is not what waits now.
<1>6. ASSUME NEW j \in Waiting(x1.st), r # X!Null
      PROVE  x1.st[j].reify # r
  <2>1. CASE IsNew(r, o, o1) /\ \A k \in Waiting(x1.st) : k \in 1 .. Len(x.st)
    <3>1. x1.st[j].reify \in o.ids
      BY <1>5, <2>1 DEF ReifiedInv, WaitingReserved
    <3> QED
      BY <1>6, <2>1, <3>1 DEF IsNew
  <2>2. CASE \E k \in Waiting(x.st) : x.st[k].reify = r /\ k \notin Waiting(x1.st)
    <3>1. PICK k \in Waiting(x.st) : x.st[k].reify = r /\ k \notin Waiting(x1.st)
      BY <2>2
    <3>2. CASE j \in Waiting(x.st) /\ x1.st[j].reify = x.st[j].reify
      BY <3>1, <3>2 DEF ReifiedInv, WaitingApart
    <3>3. CASE x1.st[j].reify \notin o.ids
      BY <3>1, <3>3 DEF ReifiedInv, WaitingReserved
    <3> QED
      BY <1>5, <3>2, <3>3
  <2> QED
    BY <1>1, <1>6, <2>1, <2>2
\* What is used now was not used before.
<1>7. ASSUME NEW n \in SaidOf(o), r # X!Null
      PROVE  o.queue[n][2] # r
  <2>1. CASE IsNew(r, o, o1)
    BY <1>7, <2>1 DEF IsNew, ReifiedInv, SaidReserved
  <2>2. CASE \E k \in Waiting(x.st) : x.st[k].reify = r
    BY <2>2 DEF ReifiedInv, SaidNotWaiting
  <2> QED
    BY <1>1, <1>7, <2>1, <2>2
<1>8. r # X!Null => r \in o1.ids
  <2>1. CASE IsNew(r, o, o1)
    BY <2>1 DEF IsNew
  <2>2. CASE \E k \in Waiting(x.st) : x.st[k].reify = r
    BY <1>3, <2>2 DEF ReifiedInv, WaitingReserved
  <2> QED
    BY <1>1, <2>1, <2>2
<1>9. WaitingReserved(x1)
  BY <1>3, <1>5 DEF ReifiedInv, WaitingReserved
<1>10. WaitingApart(x1)
  <2> SUFFICES ASSUME NEW j \in Waiting(x1.st), NEW k \in Waiting(x1.st),
                      x1.st[j].reify = x1.st[k].reify
               PROVE  j = k
    BY DEF WaitingApart
  <2> QED
    BY <1>5 DEF ReifiedInv, WaitingReserved, WaitingApart
<1>11. SaidReserved(x1)
  BY <1>3, <1>4, <1>8 DEF ReifiedInv, SaidReserved
<1>12. SaidApart(x1)
  <2> SUFFICES ASSUME NEW n \in SaidOf(o1), NEW m \in SaidOf(o1),
                      o1.queue[n][2] = o1.queue[m][2]
               PROVE  n = m
    BY DEF SaidApart
  <2>1. CASE n \in SaidOf(o) /\ m \in SaidOf(o)
    <3>1. o1.queue[n] = o.queue[n] /\ o1.queue[m] = o.queue[m]
      BY <1>3, <2>1 DEF SaidOf
    <3> QED
      BY <2>1, <3>1 DEF ReifiedInv, SaidApart
  <2>2. CASE n \in Added(o, o1) /\ m \in Added(o, o1)
    BY <1>3, <2>2 DEF SaidOf
  <2>3. CASE n \in SaidOf(o) /\ m \notin SaidOf(o)
    <3>1. o1.queue[n] = o.queue[n] /\ r # X!Null /\ o1.queue[m][2] = r
      BY <1>3, <1>4, <2>3 DEF SaidOf
    <3> QED
      BY <1>7, <2>3, <3>1
  <2>4. CASE n \notin SaidOf(o) /\ m \in SaidOf(o)
    <3>1. o1.queue[m] = o.queue[m] /\ r # X!Null /\ o1.queue[n][2] = r
      BY <1>3, <1>4, <2>4 DEF SaidOf
    <3> QED
      BY <1>7, <2>4, <3>1
  <2> QED
    BY <1>4, <2>1, <2>2, <2>3, <2>4
<1>13. SaidNotWaiting(x1)
  <2> SUFFICES ASSUME NEW n \in SaidOf(o1), NEW j \in Waiting(x1.st)
               PROVE  o1.queue[n][2] # x1.st[j].reify
    BY DEF SaidNotWaiting
  <2>1. CASE n \in Added(o, o1) /\ r # X!Null /\ o1.queue[n][2] = r
    BY <1>6, <2>1
  <2>2. CASE n \in SaidOf(o) /\ o1.queue[n] = o.queue[n]
    BY <1>5, <2>2 DEF ReifiedInv, SaidReserved, SaidNotWaiting
  <2> QED
    BY <1>4, <2>1, <2>2
<1> QED
  BY <1>9, <1>10, <1>11, <1>12, <1>13 DEF ReifiedInv

LEMMA SomeEvent ==
    ASSUME XmlEvents
    PROVE  \E x : Event(x)
<1>1. CASE \E e \in Elements : StartElement(e)
  BY <1>1 DEF StartElement
<1>2. CASE \E text \in {"text", "space"} : Characters(text)
  BY <1>2 DEF Characters
<1>3. CASE EndElement
  BY <1>3 DEF EndElement
<1>4. CASE NotWellFormed
  BY <1>4 DEF NotWellFormed
<1> QED
  BY <1>1, <1>2, <1>3, <1>4 DEF XmlEvents

\* A reader reads one format.
LEMMA FormatStays ==
    ASSUME [Next]_vars
    PROVE  format' = format
<1>1. CASE XmlEvents
  BY <1>1, SomeEvent DEF Event
<1>2. CASE BeginChunk \/ EndChunk \/ XmlNext
  BY <1>2 DEF BeginChunk, EndChunk, XmlNext
<1>3. CASE ReadChunk \/ ReadEnd \/ StreamFails
  BY <1>3 DEF ReadChunk, ReadEnd, StreamFails, SerdStep
<1>4. CASE AtTheEnd \/ UNCHANGED vars
  BY <1>4 DEF AtTheEnd, vars
<1>5. CASE SerdNext
  <2>1. S!Ready(serd) \in {"quad", "error", "end", "read"}
    BY DEF S!Ready
  <2>2. CASE S!Ready(serd) = "quad"
    BY <1>5, <2>2 DEF SerdNext, SerdStep
  <2>3. CASE S!Ready(serd) = "error"
    BY <1>5, <2>3 DEF SerdNext, GiveError, SerdStep
  <2>4. CASE S!Ready(serd) = "end"
    BY <1>5, <2>4 DEF SerdNext, SerdStep
  <2>5. CASE S!Ready(serd) = "read"
    BY <1>5, <2>5 DEF SerdNext
  <2> QED
    BY <2>1, <2>2, <2>3, <2>4, <2>5
<1> QED
  BY <1>1, <1>2, <1>3, <1>4, <1>5 DEF Next

-----------------------------------------------------------------------------
(***************************************************************************)
(* The actions of the RDF/XML reader are steps of its parser.              *)
(***************************************************************************)
XmlTypes == IsParser(xml) /\ IsSeq(given) /\ IsSeq(open)

LEMMA EventSteps ==
    ASSUME XmlTypes, XmlEvents
    PROVE  /\ Step(xml, xml') /\ IsParser(xml') /\ IsSeq(open')
           /\ format' = format /\ given' = given
<1>1. IsParser(xml) /\ IsSeq(given) /\ IsSeq(open)
  BY DEF XmlTypes
<1>2. ASSUME NEW x, Event(x)
      PROVE  format' = format /\ given' = given
  BY <1>2 DEF Event
<1>3. ASSUME NEW e \in Elements, StartElement(e)
      PROVE  Step(xml, xml') /\ IsSeq(open')
  <2>1. xml' = X!on_start_element(xml, e) /\ open' = Append(open, [e |-> e, role |-> Role(e)])
    BY <1>3 DEF StartElement, Event
  <2>2. Step(xml, X!on_start_element(xml, e))
    BY <1>1, ElementStarted DEF IsSwapped, IsOpened
  <2> QED
    BY <1>1, <2>1, <2>2, Appended
<1>4. ASSUME NEW text, Characters(text)
      PROVE  Step(xml, xml') /\ IsSeq(open')
  <2>1. xml' = X!on_characters(xml, text) /\ open' = open
    BY <1>4 DEF Characters, Event
  <2>2. Step(xml, X!on_characters(xml, text))
    BY <1>1, CharactersStep DEF IsSwapped, IsQuiet
  <2> QED
    BY <1>1, <2>1, <2>2
<1>5. ASSUME EndElement
      PROVE  Step(xml, xml') /\ IsSeq(open')
  <2>1. xml' = X!on_end_element(xml) /\ open' = Front(open) /\ open # <<>>
    BY <1>5 DEF EndElement, Event
  <2>2. Step(xml, X!on_end_element(xml))
    BY <1>1, ElementEnded DEF IsSwapped, IsPopped
  <2> QED
    BY <1>1, <2>1, <2>2, Fronted
<1>6. ASSUME NotWellFormed
      PROVE  Step(xml, xml') /\ IsSeq(open')
  <2>1. xml' = X!Fail(xml) /\ open' = open
    BY <1>6 DEF NotWellFormed, Event, X!on_error
  <2>2. Step(xml, X!Fail(xml))
    BY <1>1, FailStep
  <2> QED
    BY <1>1, <2>1, <2>2
<1>7. \E x : Event(x)
  BY SomeEvent
<1>8. Step(xml, xml') /\ IsSeq(open')
  BY <1>3, <1>4, <1>5, <1>6 DEF XmlEvents
<1> QED
  BY <1>2, <1>7, <1>8 DEF Step

\* next() takes the first of the queue: all that was put out stays as it is, with the
\* error of the stream behind it at most.
LEMMA NextSteps ==
    ASSUME XmlTypes, XmlNext
    PROVE  XmlTypes' /\ Step(Whole, Whole') /\ xml'.st = xml.st
<1> DEFINE o == WithIoError
           y == [xml EXCEPT !.o = o]
<1>1. IsParser(xml) /\ IsSeq(given) /\ IsSeq(open) /\ open' = open
  BY DEF XmlTypes, XmlNext
<1>2. Plain(xml.o, o)
  <2>1. IsOutput(xml.o)
    BY <1>1 DEF IsParser
  <2>2. CASE failed /\ ~told
    BY <2>1, <2>2, PlainError DEF WithIoError
  <2>3. CASE ~(failed /\ ~told)
    BY <2>1, <2>3, PlainSame DEF WithIoError
  <2> QED
    BY <2>2, <2>3
<1>3. \/ o.queue = <<>> /\ xml' = xml /\ given' = given
      \/ /\ o.queue # <<>> /\ given' = Append(given, Head(o.queue))
         /\ xml' = [xml EXCEPT !.o = [o EXCEPT !.queue = Tail(@)]]
  BY DEF XmlNext, Give
<1> HIDE DEF o
<1>4. DOMAIN y = {"st", "o"} /\ y.st = xml.st /\ y.o = o
  BY <1>1 DEF IsParser
<1>5. IsOutput(o)
  BY <1>2 DEF Plain, Emits
<1>6. CASE o.queue = <<>>
  <2>1. xml' = xml /\ given' = given
    BY <1>3, <1>6
  <2>2. \A j \in 1 .. Len(xml.st) : Like(xml.st[j], xml.st[j])
    BY DEF Like
  <2>3. Step(xml, xml)
    BY <1>1, <2>2, PlainSame, NonePushed DEF IsParser
  <2>4. Step(Behind(given, xml), Behind(given, xml))
    BY <1>1, <2>3, StepBehind
  <2>5. Whole = Behind(given, xml) /\ Whole' = Behind(given, xml)
    BY <2>1 DEF Whole
  <2>6. XmlTypes'
    BY <1>1, <2>1 DEF XmlTypes
  <2> QED
    BY <2>1, <2>4, <2>5, <2>6
<1>7. CASE o.queue # <<>>
  <2>1. /\ given' = Append(given, Head(o.queue))
        /\ xml' = [xml EXCEPT !.o = [o EXCEPT !.queue = Tail(@)]]
    BY <1>3, <1>7
  <2>2. IsParser(y)
    BY <1>1, <1>4, <1>5 DEF IsParser
  <2>3. \A j \in 1 .. Len(xml.st) : Like(xml.st[j], y.st[j])
    BY <1>4 DEF Like
  <2>4. Step(xml, y)
    BY <1>1, <1>2, <1>4, <2>2, <2>3, NonePushed
  <2>5. Step(Behind(given, xml), Behind(given, y))
    BY <1>1, <2>4, StepBehind
  <2>6. /\ DOMAIN xml' = {"st", "o"} /\ xml'.st = xml.st /\ xml'.o = [o EXCEPT !.queue = Tail(@)]
    BY <1>1, <2>1 DEF IsParser
  <2>7. IsSeq(Tail(o.queue)) /\ IsSeq(given')
    BY <1>1, <1>5, <1>7, <2>1, TailOf, Appended DEF IsOutput
  <2>8. IsOutput(xml'.o)
    BY <1>5, <2>6, <2>7 DEF IsOutput
  <2>9. XmlTypes'
    BY <1>1, <2>6, <2>7, <2>8 DEF XmlTypes, IsParser
  <2>10. given' \o Tail(o.queue) = given \o o.queue
    BY <1>1, <1>5, <1>7, <2>1, MovedOver DEF IsOutput
  <2>11. [xml'.o EXCEPT !.queue = given' \o @] = [o EXCEPT !.queue = given \o @]
    <3> DEFINE p == xml'.o
    <3>1. DOMAIN p = DOMAIN o /\ p.queue = Tail(o.queue) /\ p = [o EXCEPT !.queue = Tail(o.queue)]
      BY <1>5, <2>6 DEF IsOutput
    <3>2. [p EXCEPT !.queue = given' \o @] = [o EXCEPT !.queue = given' \o Tail(o.queue)]
      BY <1>5, <3>1 DEF IsOutput
    <3> QED
      BY <2>10, <3>2
  <2>12. Behind(given, y) = Whole'
    BY <1>4, <2>6, <2>11 DEF Behind, Whole
  <2> QED
    BY <2>5, <2>6, <2>9, <2>12 DEF Whole
<1> QED
  BY <1>6, <1>7

LEMMA WholeSteps ==
    ASSUME format = "xml", XmlTypes, [Next]_vars
    PROVE  format' = format /\ XmlTypes' /\ Step(Whole, Whole')
<1>1. IsParser(xml) /\ IsSeq(given) /\ IsSeq(open)
  BY DEF XmlTypes
<1>2. ASSUME xml' = xml, given' = given, open' = open
      PROVE  XmlTypes' /\ Step(Whole, Whole')
  <2>1. \A j \in 1 .. Len(xml.st) : Like(xml.st[j], xml.st[j])
    BY DEF Like
  <2>2. Step(xml, xml)
    BY <1>1, <2>1, PlainSame, NonePushed DEF IsParser
  <2>3. Step(Behind(given, xml), Behind(given, xml))
    BY <1>1, <2>2, StepBehind
  <2>4. Whole = Behind(given, xml) /\ Whole' = Behind(given, xml)
    BY <1>2 DEF Whole
  <2>5. XmlTypes'
    BY <1>1, <1>2 DEF XmlTypes
  <2> QED
    BY <2>3, <2>4, <2>5
<1>3. CASE XmlEvents
  <2>1. /\ Step(xml, xml') /\ IsParser(xml') /\ IsSeq(open')
        /\ format' = format /\ given' = given
    BY <1>3, EventSteps
  <2>2. Step(Behind(given, xml), Behind(given, xml'))
    BY <1>1, <2>1, StepBehind
  <2>3. Whole = Behind(given, xml) /\ Whole' = Behind(given, xml')
    BY <2>1 DEF Whole
  <2>4. XmlTypes'
    BY <1>1, <2>1 DEF XmlTypes
  <2> QED
    BY <2>1, <2>2, <2>3, <2>4
<1>4. CASE XmlNext
  BY <1>4, NextSteps DEF XmlNext
<1>5. CASE BeginChunk
  <2>1. xml' = xml /\ given' = given /\ open' = open /\ format' = format
    BY <1>5 DEF BeginChunk, xmlVars
  <2> QED
    BY <1>2, <2>1
<1>6. CASE EndChunk
  <2>1. xml' = xml /\ given' = given /\ open' = open /\ format' = format
    BY <1>6 DEF EndChunk
  <2> QED
    BY <1>2, <2>1
<1>7. CASE AtTheEnd \/ UNCHANGED vars
  <2>1. xml' = xml /\ given' = given /\ open' = open /\ format' = format
    BY <1>7 DEF AtTheEnd, vars, xmlVars
  <2> QED
    BY <1>2, <2>1
<1>8. CASE ReadChunk \/ ReadEnd \/ StreamFails \/ SerdNext
  <2>2. CASE ReadChunk
    BY <2>2 DEF ReadChunk, SerdStep
  <2>3. CASE ReadEnd
    BY <2>3 DEF ReadEnd, SerdStep
  <2>4. CASE StreamFails
    BY <2>4 DEF StreamFails, SerdStep
  <2>5. CASE SerdNext
    <3>1. S!Ready(serd) \in {"quad", "error", "end", "read"}
      BY DEF S!Ready
    <3>2. CASE S!Ready(serd) = "quad"
      BY <2>5, <3>2 DEF SerdNext, SerdStep
    <3>3. CASE S!Ready(serd) = "error"
      BY <2>5, <3>3 DEF SerdNext, GiveError, SerdStep
    <3>4. CASE S!Ready(serd) = "end"
      BY <2>5, <3>4 DEF SerdNext, SerdStep
    <3>5. CASE S!Ready(serd) = "read"
      BY <2>5, <3>5 DEF SerdNext
    <3> QED
      BY <3>1, <3>2, <3>3, <3>4, <3>5
  <2> QED
    BY <1>8, <2>2, <2>3, <2>4, <2>5
<1> QED
  BY <1>3, <1>4, <1>5, <1>6, <1>7, <1>8 DEF Next

LEMMA NewXmlIs ==
    LET x == X!NewXml(Base)
    IN  /\ IsParser(x) /\ x.o.queue = <<>> /\ Len(x.st) = 1
        /\ IsFresh(x.st[1], "Initial", Base, X!Null, X!Null)
<1> DEFINE x == X!NewXml(Base)
           s == X!State("Initial", [base |-> Base, lang |-> NoBase], X!Null, X!Null, X!Null)
<1>1. x.st = <<s>> /\ DOMAIN x = {"st", "o"}
  BY Zenon DEF X!NewXml, X!Parser, NoBase
<1>2. x.o = [queue |-> <<>>, bns |-> 0, ids |-> {}, base |-> Base]
  BY Zenon DEF X!NewXml, X!Parser
<1>3. IsFresh(s, "Initial", Base, X!Null, X!Null)
  <2> DEFINE inh == [base |-> Base, lang |-> NoBase]
  <2>1. inh.base = Base
    OBVIOUS
  <2> HIDE DEF inh
  <2>2. IsFresh(X!State("Initial", inh, X!Null, X!Null, X!Null), "Initial", inh.base, X!Null, X!Null)
    BY StateMade, NullMayStand
  <2> QED
    BY <2>1, <2>2 DEF inh
<1> HIDE DEF x, s
<1>4. IsOutput(x.o) /\ x.o.queue = <<>>
  <2>1. <<>> \in Seq({})
    OBVIOUS
  <2> QED
    BY <1>2, <2>1 DEF IsOutput, IsSeq
<1>5. Len(x.st) = 1 /\ x.st[1] = s /\ IsSeq(x.st)
  <2>1. <<s>> \in Seq({s}) /\ Len(<<s>>) = 1 /\ <<s>>[1] = s
    OBVIOUS
  <2> QED
    BY <1>1, <2>1 DEF IsSeq
<1>6. IsStack(x.st)
  BY <1>3, <1>5 DEF IsStack, IsFresh
<1> QED
  BY <1>1, <1>3, <1>4, <1>5, <1>6 DEF IsParser, x

LEMMA XmlStarts ==
    ASSUME Init
    PROVE  /\ XmlTypes /\ given = <<>> /\ open = <<>> /\ Whole.o.queue = <<>>
           /\ Whole.st = xml.st /\ Len(xml.st) = 1
           /\ IsFresh(xml.st[1], "Initial", Base, X!Null, X!Null)
<1>1. xml = X!NewXml(Base) /\ given = <<>> /\ open = <<>>
  BY DEF Init
<1>2. <<>> \in Seq({})
  OBVIOUS
<1>3. XmlTypes
  BY <1>1, <1>2, NewXmlIs DEF XmlTypes, IsSeq
<1>4. xml.o.queue = <<>> /\ Len(xml.st) = 1 /\ IsFresh(xml.st[1], "Initial", Base, X!Null, X!Null)
  BY <1>1, NewXmlIs
<1>5. Whole.o.queue = given \o xml.o.queue /\ Whole.st = xml.st
  BY <1>3, BehindIs DEF Whole, XmlTypes
<1> QED
  BY <1>1, <1>3, <1>4, <1>5

XmlReified == format = "xml" => XmlTypes /\ ReifiedInv(Whole)

LEMMA ReifiedStarts ==
    ASSUME Init
    PROVE  XmlReified
<1>1. Waiting(Whole.st) = {}
  <2>1. Whole.st = xml.st /\ Len(xml.st) = 1 /\ xml.st[1].reify = X!Null
    BY XmlStarts DEF IsFresh
  <2> QED
    BY <2>1 DEF Waiting
<1>2. SaidOf(Whole.o) = {}
  BY XmlStarts DEF SaidOf
<1> QED
  BY <1>1, <1>2, XmlStarts
  DEF XmlReified, ReifiedInv, WaitingReserved, WaitingApart, SaidReserved, SaidApart, SaidNotWaiting

LEMMA ReifiedHolds ==
    ASSUME XmlReified
    PROVE  ReifiedOnce
<1> SUFFICES ASSUME format = "xml",
                    NEW j \in QuadsThat(LAMBDA r : r[3] = X!Named("rdf:subject")),
                    NEW k \in QuadsThat(LAMBDA r : r[3] = X!Named("rdf:subject")),
                    Results[j][2] = Results[k][2]
             PROVE  j = k
  BY DEF ReifiedOnce
<1>1. XmlTypes /\ SaidApart(Whole)
  BY DEF XmlReified, ReifiedInv
<1>2. IsParser(Whole) /\ Whole.o.queue = Results
  BY <1>1, BehindIs DEF XmlTypes, Whole, Results
<1>3. DOMAIN Results = 1 .. Len(Results)
  BY <1>2, SeqFacts DEF IsParser, IsOutput
<1>4. j \in SaidOf(Whole.o) /\ k \in SaidOf(Whole.o)
  BY <1>2, <1>3 DEF SaidOf, SaysSubject, QuadsThat
<1> QED
  BY <1>1, <1>2, <1>4 DEF SaidApart

\* An IRI stands for one statement at most, for any document that does not say rdf:subject
\* by itself, however it is cut into chunks, whether there are errors in it or not:
\* rdf:ID is used once (make_id, reserved_ids_).
THEOREM Spec_ReifiedOnce ==
    ASSUME ~ByHand
    PROVE  Spec => []ReifiedOnce
<1>1. Init => XmlReified
  BY ReifiedStarts
<1>2. XmlReified /\ [Next]_vars => XmlReified'
  <2> SUFFICES ASSUME XmlReified, [Next]_vars, format' = "xml"
               PROVE  XmlTypes' /\ ReifiedInv(Whole)'
    BY DEF XmlReified
  <2>1. format = "xml"
    BY FormatStays
  <2>2. XmlTypes /\ ReifiedInv(Whole)
    BY <2>1 DEF XmlReified
  <2>3. XmlTypes' /\ Step(Whole, Whole')
    BY <2>1, <2>2, WholeSteps
  <2>4. IsParser(Whole)
    BY <2>2, BehindIs DEF XmlTypes, Whole
  <2>5. ReifiedInv(Whole')
    BY <2>2, <2>3, <2>4, ReifiedKept
  <2> QED
    BY <2>3, <2>5
<1>3. XmlReified => ReifiedOnce
  BY ReifiedHolds
<1> QED
  BY <1>1, <1>2, <1>3, PTL DEF Spec

-----------------------------------------------------------------------------
(***************************************************************************)
(* The state stack and the open elements.  Every element has a state, but  *)
(* what is within an XML literal, which its depth counts.                  *)
(***************************************************************************)
MaxOf(T) == CHOOSE m \in T : \A n \in T : m >= n

LEMMA Greatest ==
    ASSUME NEW n \in Nat, NEW T, T # {}, \A k \in T : k \in 1 .. n
    PROVE  MaxOf(T) \in T /\ \A k \in T : MaxOf(T) >= k
<1> DEFINE Left == {k \in 0 .. n : n - k \in T}
<1>1. Left # {} /\ Left \in SUBSET Nat
  <2>1. PICK k : k \in T
    OBVIOUS
  <2>2. n - k \in Left
    BY <2>1
  <2> QED
    BY <2>2
<1>2. PICK l \in Left : \A k \in Left : l <= k
  <2> HIDE DEF Left
  <2> QED
    BY <1>1, LeastElement
<1>3. n - l \in T
  BY <1>2
<1>4. ASSUME NEW k \in T
      PROVE  n - l >= k
  <2>1. n - k \in 0 .. n /\ n - (n - k) = k
    OBVIOUS
  <2>2. l <= n - k
    BY <1>2, <2>1
  <2> QED
    BY <1>2, <2>2
<1>5. \E m \in T : \A k \in T : m >= k
  BY <1>3, <1>4
<1> QED
  BY <1>5 DEF MaxOf

LEMMA GreatestIs ==
    ASSUME NEW n \in Nat, NEW T, \A k \in T : k \in 1 .. n,
           NEW m \in T, \A k \in T : m >= k
    PROVE  MaxOf(T) = m
<1>1. MaxOf(T) \in T /\ \A k \in T : MaxOf(T) >= k
  BY Greatest
<1>2. MaxOf(T) >= m /\ m >= MaxOf(T) /\ m \in Nat /\ MaxOf(T) \in Nat
  BY <1>1
<1> HIDE DEF MaxOf
<1> QED
  BY <1>2

Based(op, j) == {k \in 1 .. j : X!LastValue(op[k].e, "base") # NoBase}
BaseIn(op, j) ==
    IF Based(op, j) = {} THEN Base ELSE X!LastValue(op[MaxOf(Based(op, j))].e, "base")

IsNode(op, j) == op[j].role = "Description" /\ ~(j > 1 /\ op[j - 1].role = "Description")

IsAbout(e, n, base) == \A k \in DOMAIN e.a : e.a[k].k = "about" => n = X!Iri(base, e.a[k].v)

\* s is the state of the j-th of the open elements.
AsOpened(s, op, j) ==
    /\ s.kind = op[j].role
    /\ s.base = IF s.kind = "Empty" THEN NoBase ELSE X!LastValue(op[j].e, "base")
    /\ IsNode(op, j) => IsAbout(op[j].e, s.subject, BaseIn(op, j))

Depth(st) == IF Last(st).kind = "XMLLiteral" THEN Last(st).depth ELSE 0

Synced(st, op) ==
    /\ Len(op) = Len(st) - 1 + Depth(st)
    /\ st[1].base = Base
    /\ \A j \in 1 .. Len(st) - 1 : AsOpened(st[j + 1], op, j)
    /\ \A j \in Len(st) .. Len(op) : op[j].role = "within"
    /\ \A j \in 2 .. Len(st) - 1 : st[j].kind \notin {"Empty", "XMLLiteral"}

\* What was opened first, up to m
SameUpTo(op, op1, m) == \A j \in 1 .. m : op1[j] = op[j]

LEMMA StaysOpened ==
    ASSUME NEW s, NEW t, NEW op, NEW op1, NEW m \in Nat, NEW j \in 1 .. m,
           AsOpened(s, op, j), Like(s, t), SameUpTo(op, op1, m)
    PROVE  AsOpened(t, op1, j)
<1>1. \A k \in 1 .. j : k \in 1 .. m /\ op1[k] = op[k]
  BY DEF SameUpTo
<1>2. op1[j] = op[j] /\ (IsNode(op1, j) => IsNode(op, j))
  <2>1. op1[j] = op[j]
    BY <1>1
  <2>2. j > 1 => op1[j - 1] = op[j - 1]
    BY <1>1
  <2> QED
    BY <2>1, <2>2 DEF IsNode
<1>3. Based(op1, j) = Based(op, j)
  BY <1>1 DEF Based
<1>4. \A k \in Based(op, j) : op1[k] = op[k]
  BY <1>1 DEF Based
<1>5. BaseIn(op1, j) = BaseIn(op, j)
  <2>1. CASE Based(op, j) = {}
    BY <1>3, <2>1 DEF BaseIn
  <2>2. CASE Based(op, j) # {} /\ MaxOf(Based(op, j)) \in Based(op, j)
    BY <1>3, <1>4, <2>2 DEF BaseIn
  <2>3. Based(op, j) # {} => MaxOf(Based(op, j)) \in Based(op, j)
    <3>1. j \in Nat /\ \A k \in Based(op, j) : k \in 1 .. j
      BY DEF Based
    <3> QED
      BY <3>1, Greatest
  <2> QED
    BY <2>1, <2>2, <2>3
<1> QED
  BY <1>2, <1>5 DEF AsOpened, Like

WithBase(st) == {j \in DOMAIN st : st[j].base # NoBase}

LEMMA InfoBase ==
    ASSUME NEW st
    PROVE  X!make_info(st).base =
              IF WithBase(st) = {} THEN NoBase ELSE st[MaxOf(WithBase(st))].base
<1> DEFINE W(f) == {j \in DOMAIN st : st[j][f] # ""}
           V(f) == IF W(f) = {} THEN "" ELSE st[MaxOf(W(f))][f]
<1>1. X!make_info(st) = [base |-> V("base"), lang |-> V("lang")]
  BY Zenon DEF X!make_info, X!Max, MaxOf
<1>2. W("base") = WithBase(st)
  BY Zenon DEF WithBase, NoBase
<1>3. V("base") = IF WithBase(st) = {} THEN NoBase ELSE st[MaxOf(WithBase(st))].base
  BY <1>2, Zenon DEF NoBase
<1> HIDE DEF V
<1>4. X!make_info(st).base = V("base")
  BY <1>1
<1> QED
  BY <1>3, <1>4

LEMMA BaseOfIs ==
    ASSUME NEW j
    PROVE  BaseOf(j) = BaseIn(open, j)
<1>1. {k \in 1 .. j : X!LastValue(open[k].e, "base") # ""} = Based(open, j)
  BY Zenon DEF Based, NoBase
<1>2. \A T : Max(T) = MaxOf(T)
  BY DEF Max, MaxOf
<1>3. BaseOf(j) = IF Based(open, j) = {} THEN Base
                  ELSE X!LastValue(open[Max(Based(open, j))].e, "base")
  BY <1>1, Zenon DEF BaseOf
<1> QED
  BY <1>2, <1>3 DEF BaseIn

\* A state is on the stack for each of m open elements, none of them empty: what is
\* nearest on the stack is nearest in the document, for an element that is opened.
Nests(st, op, m) ==
    /\ m \in Nat /\ Len(st) = m + 1 /\ DOMAIN st = 1 .. m + 1 /\ st[1].base = Base
    /\ \A j \in 1 .. m : st[j + 1].base = X!LastValue(op[j].e, "base")

OpensIn(st, op, op1, m, e) ==
    Nests(st, op, m) /\ SameUpTo(op, op1, m) /\ op1[m + 1].e = e

LEMMA NearestBase ==
    ASSUME NEW st, NEW op, NEW op1, NEW m, NEW e, OpensIn(st, op, op1, m, e)
    PROVE  Against(X!LastValue(e, "base"), X!make_info(st)) = BaseIn(op1, m + 1)
<1> DEFINE v == X!LastValue(e, "base")
           B == Based(op1, m + 1)
           W == WithBase(st)
<1>0. /\ m \in Nat /\ m + 1 \in Nat /\ DOMAIN st = 1 .. m + 1 /\ st[1].base = Base
      /\ \A j \in 1 .. m : st[j + 1].base = X!LastValue(op1[j].e, "base")
  BY DEF OpensIn, Nests, SameUpTo
<1>1. Against(v, X!make_info(st)) = IF v = NoBase THEN X!make_info(st).base ELSE v
  BY Zenon DEF Against, NoBase
<1>2. \A j \in B : j \in 1 .. m + 1
  BY DEF Based
<1>3. \A j \in 1 .. m : j \in B <=> j + 1 \in W
  <2> SUFFICES ASSUME NEW j \in 1 .. m
               PROVE  j \in B <=> j + 1 \in W
    OBVIOUS
  <2>1. j \in 1 .. m + 1 /\ j + 1 \in 1 .. m + 1
    BY <1>0
  <2>2. j \in B <=> X!LastValue(op1[j].e, "base") # NoBase
    BY <2>1 DEF Based
  <2>3. j + 1 \in W <=> st[j + 1].base # NoBase
    BY <1>0, <2>1 DEF WithBase
  <2> QED
    BY <1>0, <2>2, <2>3
<1>4. m + 1 \in B <=> v # NoBase
  <2>1. m + 1 \in 1 .. m + 1
    BY <1>0
  <2>2. op1[m + 1].e = e
    BY DEF OpensIn
  <2> QED
    BY <2>1, <2>2 DEF Based
<1>5. \A j \in W : j \in 1 .. m + 1
  BY <1>0 DEF WithBase
<1>6. X!make_info(st).base = IF W = {} THEN NoBase ELSE st[MaxOf(W)].base
  BY InfoBase
<1>7. BaseIn(op1, m + 1) = IF B = {} THEN Base ELSE X!LastValue(op1[MaxOf(B)].e, "base")
  BY DEF BaseIn
<1>w. 1 \in W <=> Base # NoBase
  <2>1. 1 \in 1 .. m + 1
    BY <1>0
  <2> QED
    BY <1>0, <2>1 DEF WithBase
<1> HIDE DEF v, B, W
<1>8. CASE v # NoBase
  <2>1. MaxOf(B) = m + 1
    <3>1. m + 1 \in B /\ \A k \in B : m + 1 >= k
      BY <1>0, <1>2, <1>4, <1>8
    <3> QED
      BY <1>0, <1>2, <3>1, GreatestIs
  <2>2. B # {}
    BY <1>4, <1>8
  <2>3. BaseIn(op1, m + 1) = v
    BY <1>7, <2>1, <2>2 DEF v, OpensIn
  <2> QED
    BY <1>1, <1>8, <2>3 DEF v
<1>9. CASE v = NoBase /\ B = {}
  <2>1. \A j \in W : j = 1
    <3> SUFFICES ASSUME NEW j \in W, j # 1
                 PROVE  FALSE
      OBVIOUS
    <3>1. j - 1 \in 1 .. m /\ (j - 1) + 1 = j
      BY <1>0, <1>5
    <3> QED
      BY <1>3, <1>9, <3>1
  <2>2. CASE Base = NoBase
    <3>1. W = {}
      BY <1>w, <2>1, <2>2
    <3>2. X!make_info(st).base = NoBase
      BY <1>6, <3>1
    <3> QED
      BY <1>1, <1>7, <1>9, <2>2, <3>2 DEF v
  <2>3. CASE Base # NoBase
    <3>1. W = {1}
      BY <1>w, <2>1, <2>3
    <3>2. MaxOf(W) = 1
      BY <3>1 DEF MaxOf
    <3>3. X!make_info(st).base = Base
      BY <1>0, <1>6, <3>1, <3>2
    <3> QED
      BY <1>1, <1>7, <1>9, <3>3 DEF v
  <2> QED
    BY <2>2, <2>3
<1>10. CASE v = NoBase /\ B # {}
  <2> DEFINE k == MaxOf(B)
  <2>1. k \in B /\ \A j \in B : k >= j
    BY <1>0, <1>2, <1>10, Greatest
  <2> HIDE DEF k
  <2>2. k \in 1 .. m
    BY <1>0, <1>2, <1>4, <1>10, <2>1
  <2>3. k + 1 \in W
    BY <1>3, <2>1, <2>2
  <2>4. \A j \in W : k + 1 >= j
    <3> SUFFICES ASSUME NEW j \in W
                 PROVE  k + 1 >= j
      OBVIOUS
    <3>1. CASE j = 1
      BY <2>2, <3>1
    <3>2. CASE j # 1
      <4>1. j - 1 \in 1 .. m /\ (j - 1) + 1 = j
        BY <1>0, <1>5, <3>2
      <4>2. j - 1 \in B
        BY <1>3, <4>1
      <4>3. k >= j - 1
        BY <2>1, <4>2
      <4> QED
        BY <2>2, <4>1, <4>3
    <3> QED
      BY <3>1, <3>2
  <2>5. MaxOf(W) = k + 1
    BY <1>0, <1>5, <2>3, <2>4, GreatestIs
  <2>6. X!make_info(st).base = st[k + 1].base
    BY <1>6, <2>3, <2>5
  <2>7. st[k + 1].base = X!LastValue(op1[k].e, "base")
    BY <1>0, <2>2
  <2>8. BaseIn(op1, m + 1) = X!LastValue(op1[k].e, "base")
    BY <1>7, <1>10 DEF k
  <2> QED
    BY <1>1, <1>10, <2>6, <2>7, <2>8 DEF v
<1> QED
  BY <1>8, <1>9, <1>10

RoleIn(op, e) ==
    IF op = <<>> THEN IF e.n = "RDF" THEN "RDF" ELSE "Description"
    ELSE CASE Last(op).role \in {"XMLLiteral", "within"}                 -> "within"
           [] Last(op).role = "Description"                              -> PropertyRole(e)
           [] Last(op).role \in {"RDF", "Predicate", "Collection", "Typed", "Empty"} -> "Description"

LEMMA StackFacts ==
    ASSUME NEW st, IsStack(st), NEW op, IsSeq(op), Synced(st, op)
    PROVE  /\ Len(st) \in Nat /\ Len(st) >= 1 /\ Len(op) \in Nat /\ Depth(st) \in Nat
           /\ DOMAIN st = 1 .. Len(st) /\ Last(st) = st[Len(st)]
           /\ Len(op) = Len(st) - 1 + Depth(st)
           /\ op = <<>> <=> Len(op) = 0
           /\ Last(op) = op[Len(op)]
           /\ Last(st).kind = "Initial" <=> Len(st) = 1
           /\ Last(st).kind # "Initial" => Last(st).kind = op[Len(st) - 1].role
<1>1. Len(st) \in Nat /\ Len(st) >= 1 /\ DOMAIN st = 1 .. Len(st)
  BY SeqFacts DEF IsStack
<1>2. Len(op) \in Nat /\ (op = <<>> <=> Len(op) = 0)
  BY SeqFacts
<1>3. Last(st) = st[Len(st)] /\ IsState(Last(st)) /\ Last(op) = op[Len(op)]
  BY LastIs DEF Last
<1>4. Depth(st) \in Nat
  BY <1>3 DEF Depth, IsState
<1>5. Last(st).kind = "Initial" <=> Len(st) = 1
  BY <1>1, <1>3 DEF IsStack
<1>6. Last(st).kind # "Initial" => Last(st).kind = op[Len(st) - 1].role
  <2> SUFFICES ASSUME Last(st).kind # "Initial"
               PROVE  Last(st).kind = op[Len(st) - 1].role
    OBVIOUS
  <2>1. Len(st) - 1 \in 1 .. Len(st) - 1 /\ (Len(st) - 1) + 1 = Len(st)
    BY <1>1, <1>5
  <2>2. AsOpened(st[(Len(st) - 1) + 1], op, Len(st) - 1)
    BY <2>1 DEF Synced
  <2> QED
    BY <1>3, <2>1, <2>2 DEF AsOpened
<1> QED
  BY <1>1, <1>2, <1>3, <1>4, <1>5, <1>6 DEF Synced

\* The state at the top changes its depth at most.
LEMMA SwappedSynced ==
    ASSUME NEW x, IsParser(x), NEW op, IsSeq(op), Synced(x.st, op),
           NEW x1, NEW depth, IsSwapped(x, x1, depth), NEW op1,
           SameUpTo(op, op1, Len(x.st) - 1),
           Len(op1) = Len(x.st) - 1 + (IF Last(x.st).kind = "XMLLiteral" THEN depth ELSE 0),
           \A j \in Len(x.st) .. Len(op1) : op1[j].role = "within"
    PROVE  Synced(x1.st, op1)
<1> DEFINE m == Len(x.st)
<1>0. IsStack(x.st) /\ IsStack(x1.st)
  BY DEF IsSwapped, Step, IsParser
<1>1. m \in Nat /\ m >= 1
  BY <1>0, StackFacts
<1>2. /\ Len(x1.st) = m /\ Last(x1.st).depth = depth
      /\ \A j \in 1 .. m : Like(x.st[j], x1.st[j])
  BY DEF IsSwapped, Step
<1>3. Last(x.st) = x.st[m] /\ Last(x1.st) = x1.st[m] /\ m \in 1 .. m
  BY <1>0, <1>2, LastIs
<1> HIDE DEF m
<1>4. Last(x1.st).kind = Last(x.st).kind
  BY <1>2, <1>3 DEF Like
<1>5. Len(op1) = Len(x1.st) - 1 + Depth(x1.st)
  BY <1>2, <1>4 DEF Depth, m
<1>6. x1.st[1].base = Base
  <2>1. 1 \in 1 .. m
    BY <1>1
  <2> QED
    BY <1>2, <2>1 DEF Like, Synced
<1>7. ASSUME NEW j \in 1 .. m - 1
      PROVE  AsOpened(x1.st[j + 1], op1, j)
  <2>1. j + 1 \in 1 .. m /\ m - 1 \in Nat
    BY <1>1
  <2>2. AsOpened(x.st[j + 1], op, j)
    BY DEF Synced, m
  <2>3. SameUpTo(op, op1, m - 1)
    BY DEF m
  <2>4. Like(x.st[j + 1], x1.st[j + 1])
    BY <1>2, <2>1
  <2> QED
    BY <2>1, <2>2, <2>3, <2>4, StaysOpened
<1>8. ASSUME NEW j \in 2 .. m - 1
      PROVE  x1.st[j].kind \notin {"Empty", "XMLLiteral"}
  <2>1. j \in 1 .. m
    BY <1>1
  <2>2. x.st[j].kind \notin {"Empty", "XMLLiteral"}
    BY DEF Synced, m
  <2> QED
    BY <1>2, <2>1, <2>2 DEF Like
<1>9. \A j \in m .. Len(op1) : op1[j].role = "within"
  BY DEF m
<1> QED
  BY <1>2, <1>5, <1>6, <1>7, <1>8, <1>9 DEF Synced

LEMMA PoppedSynced ==
    ASSUME NEW x, IsParser(x), NEW op, IsSeq(op), Synced(x.st, op), Depth(x.st) = 0,
           NEW x1, IsPopped(x, x1), op # <<>>
    PROVE  Synced(x1.st, Front(op))
<1> DEFINE m == Len(x1.st)
           op1 == Front(op)
<1>0. IsStack(x.st) /\ IsStack(x1.st)
  BY DEF IsPopped, Step, IsParser
<1>1. m \in Nat /\ m >= 1 /\ Last(x1.st) = x1.st[m] /\ m \in 1 .. m
  BY <1>0, LastIs, SeqFacts DEF IsStack
<1>2. Len(x.st) = m + 1 /\ \A j \in 1 .. m : x1.st[j] = x.st[j]
  BY DEF IsPopped
<1>3. IsSeq(op1) /\ Len(op) = Len(op1) + 1 /\ \A n \in 1 .. Len(op1) : op1[n] = op[n]
  BY Fronted
<1>4. Len(op) = m /\ Len(op1) = m - 1
  <2>1. Len(op) = Len(x.st) - 1 + Depth(x.st) /\ Len(op1) \in Nat
    BY <1>3, SeqFacts DEF Synced
  <2> QED
    BY <1>1, <1>2, <1>3, <2>1
<1> HIDE DEF m, op1
<1>5. Depth(x1.st) = 0
  <2>1. CASE m = 1
    <3>1. x1.st[m].kind = "Initial"
      BY <1>0, <1>1, <2>1 DEF IsStack, m
    <3> QED
      BY <1>1, <3>1 DEF Depth
  <2>2. CASE m # 1
    <3>1. m \in 2 .. Len(x.st) - 1
      BY <1>1, <1>2, <2>2
    <3>2. x1.st[m].kind # "XMLLiteral"
      BY <1>1, <1>2, <3>1 DEF Synced
    <3> QED
      BY <1>1, <3>2 DEF Depth
  <2> QED
    BY <2>1, <2>2
<1>6. x1.st[1].base = Base
  <2>1. 1 \in 1 .. m
    BY <1>1
  <2> QED
    BY <1>2, <2>1 DEF Synced
<1>7. ASSUME NEW j \in 1 .. m - 1
      PROVE  AsOpened(x1.st[j + 1], op1, j)
  <2>1. j + 1 \in 1 .. m /\ m - 1 \in Nat /\ j \in 1 .. Len(x.st) - 1
    BY <1>1, <1>2
  <2>2. AsOpened(x.st[j + 1], op, j)
    BY <2>1 DEF Synced
  <2>3. SameUpTo(op, op1, m - 1)
    BY <1>3, <1>4 DEF SameUpTo
  <2>4. Like(x.st[j + 1], x1.st[j + 1])
    BY <1>2, <2>1 DEF Like
  <2> QED
    BY <2>1, <2>2, <2>3, <2>4, StaysOpened
<1>8. ASSUME NEW j \in 2 .. m - 1
      PROVE  x1.st[j].kind \notin {"Empty", "XMLLiteral"}
  <2>1. j \in 1 .. m /\ j \in 2 .. Len(x.st) - 1
    BY <1>1, <1>2
  <2> QED
    BY <1>2, <2>1 DEF Synced
<1>9. \A j \in m .. Len(op1) : op1[j].role = "within"
  BY <1>1, <1>4
<1>10. Len(op1) = m - 1 + Depth(x1.st)
  BY <1>1, <1>4, <1>5
<1> QED
  BY <1>5, <1>6, <1>7, <1>8, <1>9, <1>10 DEF Synced, m, op1

\* An element is opened: the grammar gives it the kind its state has, and what it is
\* named against is the nearest base around it.
LEMMA OpenedSynced ==
    ASSUME NEW x, IsParser(x), NEW op, IsSeq(op), Synced(x.st, op), NEW e \in Elements,
           NEW x1, IsOpened(x, x1, e), NoErrors(x1.o),
           NEW op1, op1 = Append(op, [e |-> e, role |-> RoleIn(op, e)])
    PROVE  Synced(x1.st, op1)
<1> DEFINE m == Len(x.st)
           t == Last(x.st)
           s == Last(x1.st)
           i == X!make_info(x.st)
           new == [e |-> e, role |-> RoleIn(op, e)]
<1>0. IsStack(x.st) /\ IsStack(x1.st)
  BY DEF IsOpened, Step, IsParser
<1>1. /\ t.kind \notin {"XMLLiteral", "Empty", "Typed"} /\ Len(x1.st) = m + 1
      /\ Opens(t, e, s, i) /\ \A j \in 1 .. m : j \in 1 .. Len(x1.st) => Like(x.st[j], x1.st[j])
  BY DEF IsOpened, Step
<1>2. /\ m \in Nat /\ m >= 1 /\ t = x.st[m] /\ s = x1.st[m + 1] /\ IsState(t)
      /\ Len(op) = m - 1 + Depth(x.st) /\ (op = <<>> <=> Len(op) = 0) /\ Last(op) = op[Len(op)]
      /\ t.kind = "Initial" <=> m = 1
      /\ t.kind # "Initial" => t.kind = op[m - 1].role
  BY <1>0, <1>1, StackFacts, LastIs
<1>3. /\ IsSeq(op1) /\ Len(op1) = Len(op) + 1 /\ op1[Len(op) + 1] = new
      /\ \A j \in 1 .. Len(op) : op1[j] = op[j]
  BY Appended
<1>4. new.e = e /\ new.role = RoleIn(op, e)
  OBVIOUS
<1>5. Depth(x.st) = 0
  BY <1>1 DEF Depth
<1> HIDE DEF new, m, t, s
<1>6. Len(op) = m - 1 /\ Len(op1) = m /\ op1[m] = new
  BY <1>2, <1>3, <1>5
<1>7. SameUpTo(op, op1, m - 1) /\ m - 1 \in Nat
  BY <1>2, <1>3, <1>6 DEF SameUpTo
<1>8. \A j \in 1 .. m : Like(x.st[j], x1.st[j])
  BY <1>1, <1>2
<1>9. \A j \in 2 .. m : x.st[j].kind \notin {"Empty", "XMLLiteral"}
  <2> SUFFICES ASSUME NEW j \in 2 .. m
               PROVE  x.st[j].kind \notin {"Empty", "XMLLiteral"}
    OBVIOUS
  <2>1. CASE j = m
    BY <1>1, <1>2, <2>1
  <2>2. CASE j # m
    <3>1. j \in 2 .. Len(x.st) - 1
      BY <1>2, <2>2 DEF m
    <3> QED
      BY <3>1 DEF Synced
  <2> QED
    BY <2>1, <2>2
<1>10. \A j \in 1 .. m - 1 : AsOpened(x.st[j + 1], op, j)
  BY DEF Synced, m
<1>11. Nests(x.st, op, m - 1)
  <2>1. \A j \in 1 .. m - 1 : x.st[j + 1].base = X!LastValue(op[j].e, "base")
    <3> SUFFICES ASSUME NEW j \in 1 .. m - 1
                 PROVE  x.st[j + 1].base = X!LastValue(op[j].e, "base")
      OBVIOUS
    <3>1. j + 1 \in 2 .. m
      BY <1>2
    <3>2. x.st[j + 1].kind # "Empty"
      BY <1>9, <3>1
    <3> QED
      BY <1>10, <3>2 DEF AsOpened
  <2>2. DOMAIN x.st = 1 .. (m - 1) + 1 /\ Len(x.st) = (m - 1) + 1
    <3>1. DOMAIN x.st = 1 .. m /\ Len(x.st) = m
      BY <1>0, SeqFacts DEF IsStack, m
    <3> QED
      BY <1>2, <3>1
  <2>3. x.st[1].base = Base
    BY DEF Synced
  <2> QED
    BY <1>7, <2>1, <2>2, <2>3 DEF Nests
<1>12. Against(X!LastValue(e, "base"), i) = BaseIn(op1, m)
  <2>1. op1[(m - 1) + 1].e = e /\ (m - 1) + 1 = m
    BY <1>2, <1>4, <1>6
  <2>2. Against(X!LastValue(e, "base"), X!make_info(x.st)) = BaseIn(op1, (m - 1) + 1)
    <3> DEFINE l == m - 1
    <3>1. OpensIn(x.st, op, op1, l, e)
      BY <1>7, <1>11, <2>1 DEF OpensIn
    <3> HIDE DEF l
    <3>2. Against(X!LastValue(e, "base"), X!make_info(x.st)) = BaseIn(op1, l + 1)
      BY <3>1, NearestBase
    <3> QED
      BY <3>2 DEF l
  <2> QED
    BY <2>1, <2>2 DEF i
<1> HIDE DEF i
\* The element itself
<1>13. s.depth = 0 /\ AsOpened(s, op1, m)
  <2>1. CASE t.kind = "Description"
    <3>1. IsPropertyState(e, s)
      BY <1>1, <2>1 DEF Opens
    <3>2. op # <<>> /\ Last(op).role = "Description" /\ m > 1
      BY <1>2, <1>6, <2>1
    <3>3. RoleIn(op, e) = PropertyRole(e)
      BY <3>2 DEF RoleIn
    <3>4. ~IsNode(op1, m)
      <4>1. m - 1 \in 1 .. m - 1
        BY <1>2, <3>2
      <4>2. op1[m - 1] = op[m - 1]
        BY <1>7, <4>1 DEF SameUpTo
      <4>3. op[m - 1].role = "Description"
        BY <1>2, <2>1
      <4> QED
        BY <3>2, <4>2, <4>3 DEF IsNode
    <3> QED
      BY <1>4, <1>6, <3>1, <3>3, <3>4 DEF IsPropertyState, AsOpened
  <2>2. CASE t.kind = "Initial" /\ e.n = "RDF"
    <3>1. s.kind = "RDF" /\ s.depth = 0 /\ s.base = X!LastValue(e, "base")
      BY <1>1, <2>2 DEF Opens
    <3>2. RoleIn(op, e) = "RDF"
      BY <1>2, <1>6, <2>2 DEF RoleIn
    <3>3. ~IsNode(op1, m)
      BY <1>4, <1>6, <3>2 DEF IsNode
    <3> QED
      BY <1>4, <1>6, <3>1, <3>2, <3>3 DEF AsOpened
  <2>3. CASE t.kind # "Description" /\ ~(t.kind = "Initial" /\ e.n = "RDF")
    <3>1. IsNodeState(e, s, i)
      BY <1>1, <2>3 DEF Opens
    <3>2. RoleIn(op, e) = "Description"
      <4>1. CASE t.kind = "Initial"
        BY <1>2, <1>6, <2>3, <4>1 DEF RoleIn
      <4>2. CASE t.kind # "Initial"
        <5>1. t.kind \in {"RDF", "Predicate", "Collection"}
          BY <1>1, <1>2, <2>3, <4>2 DEF IsState, StateKinds
        <5>2. op # <<>> /\ Last(op).role = t.kind
          BY <1>2, <1>6, <4>2
        <5> QED
          BY <5>1, <5>2 DEF RoleIn
      <4> QED
        BY <4>1, <4>2
    <3>3. IsAbout(e, s.subject, BaseIn(op1, m))
      BY <1>12, <3>1 DEF IsNodeState, NamedAbout, IsAbout
    <3> QED
      BY <1>4, <1>6, <3>1, <3>2, <3>3 DEF IsNodeState, AsOpened
  <2> QED
    BY <2>1, <2>2, <2>3
<1>14. Len(op1) = Len(x1.st) - 1 + Depth(x1.st)
  <2>1. Depth(x1.st) = 0
    BY <1>13 DEF Depth, s
  <2> QED
    BY <1>1, <1>2, <1>6, <2>1
<1>15. x1.st[1].base = Base
  <2>1. 1 \in 1 .. m
    BY <1>2
  <2> QED
    BY <1>8, <2>1 DEF Like, Synced
<1>16. ASSUME NEW j \in 1 .. Len(x1.st) - 1
       PROVE  AsOpened(x1.st[j + 1], op1, j)
  <2>1. CASE j = m
    BY <1>2, <1>13, <2>1
  <2>2. CASE j # m
    <3>1. j \in 1 .. m - 1 /\ j + 1 \in 1 .. m
      BY <1>1, <1>2, <2>2
    <3>2. AsOpened(x.st[j + 1], op, j) /\ Like(x.st[j + 1], x1.st[j + 1])
      BY <1>8, <1>10, <3>1
    <3> QED
      BY <1>7, <3>1, <3>2, StaysOpened
  <2> QED
    BY <2>1, <2>2
<1>17. ASSUME NEW j \in 2 .. Len(x1.st) - 1
       PROVE  x1.st[j].kind \notin {"Empty", "XMLLiteral"}
  <2>1. j \in 2 .. m /\ j \in 1 .. m
    BY <1>1, <1>2
  <2> QED
    BY <1>8, <1>9, <2>1 DEF Like
<1>18. \A j \in Len(x1.st) .. Len(op1) : op1[j].role = "within"
  BY <1>1, <1>2, <1>6
<1> QED
  BY <1>14, <1>15, <1>16, <1>17, <1>18 DEF Synced

-----------------------------------------------------------------------------
(***************************************************************************)
(* The inductive invariant: as long as no error was reported the stack and *)
(* the open elements go together.                                          *)
(***************************************************************************)
XmlSynced == format = "xml" => XmlTypes /\ (NoErrors(Whole.o) => Synced(xml.st, open))

LEMMA SyncedStarts ==
    ASSUME Init
    PROVE  XmlSynced
<1>1. XmlTypes /\ open = <<>> /\ Len(xml.st) = 1 /\ IsFresh(xml.st[1], "Initial", Base, X!Null, X!Null)
  BY XmlStarts
<1>2. Last(xml.st) = xml.st[1]
  BY <1>1 DEF Last
<1>3. Depth(xml.st) = 0
  BY <1>1, <1>2 DEF Depth, IsFresh
<1>4. Len(open) = 0
  BY <1>1
<1>5. Synced(xml.st, open)
  BY <1>1, <1>3, <1>4 DEF Synced, IsFresh
<1> QED
  BY <1>1, <1>5 DEF XmlSynced

\* An element starts: within an XML literal it is within it, else it is opened.
LEMMA SyncedStart ==
    ASSUME XmlTypes, Synced(xml.st, open), NEW e \in Elements, StartElement(e), NoErrors(xml'.o)
    PROVE  Synced(xml'.st, open')
<1> DEFINE x == xml
           x1 == X!on_start_element(xml, e)
           t == Last(xml.st)
           m == Len(xml.st)
           op1 == Append(open, [e |-> e, role |-> RoleIn(open, e)])
           d == t.depth + 1
<1>1. IsParser(x) /\ IsStack(x.st) /\ IsSeq(open) /\ IsState(t)
  BY LastIs DEF XmlTypes, IsParser
<1>2. xml' = x1
  BY DEF StartElement, Event
<1>3. open' = op1
  <2>1. Role(e) = RoleIn(open, e)
    BY DEF Role, RoleIn
  <2>2. open' = Append(open, [e |-> e, role |-> Role(e)])
    BY DEF StartElement
  <2> QED
    BY <2>1, <2>2
<1>4. (t.kind = "XMLLiteral" /\ IsSwapped(x, x1, t.depth + 1)) \/ IsOpened(x, x1, e)
  BY <1>1, ElementStarted
<1> HIDE DEF x1
<1>5. CASE IsOpened(x, x1, e)
  <2>1. Synced(x1.st, op1)
    BY <1>1, <1>2, <1>5, OpenedSynced
  <2> QED
    BY <1>2, <1>3, <2>1
<1>6. CASE t.kind = "XMLLiteral" /\ IsSwapped(x, x1, t.depth + 1)
  <2>1. /\ m \in Nat /\ m > 1 /\ Depth(x.st) = t.depth /\ t.depth \in Nat
        /\ Len(open) = m - 1 + t.depth /\ open # <<>> /\ Last(open) = open[Len(open)]
        /\ open[m - 1].role = "XMLLiteral"
    <3>1. Depth(xml.st) = t.depth
      BY <1>6 DEF Depth
    <3>2. /\ m \in Nat /\ m >= 1 /\ Depth(xml.st) \in Nat
          /\ Len(open) = m - 1 + Depth(xml.st) /\ Len(open) \in Nat
          /\ open = <<>> <=> Len(open) = 0
          /\ Last(open) = open[Len(open)]
          /\ t.kind = "Initial" <=> m = 1
          /\ t.kind # "Initial" => t.kind = open[m - 1].role
      BY <1>1, StackFacts
    <3> HIDE DEF m, t
    <3> QED
      BY <1>6, <3>1, <3>2
  <2>2. Last(open).role \in {"XMLLiteral", "within"}
    <3>1. CASE t.depth = 0
      BY <2>1, <3>1
    <3>2. CASE t.depth # 0
      <4>1. Len(open) \in Len(xml.st) .. Len(open)
        BY <2>1, <3>2
      <4> QED
        BY <2>1, <4>1 DEF Synced
    <3> QED
      BY <3>1, <3>2
  <2>3. RoleIn(open, e) = "within"
    BY <2>1, <2>2 DEF RoleIn
  <2> DEFINE new == [e |-> e, role |-> RoleIn(open, e)]
  <2>4. new.role = "within"
    BY <2>3
  <2>5. /\ Len(op1) = Len(open) + 1 /\ op1[Len(open) + 1] = new
        /\ \A j \in 1 .. Len(open) : op1[j] = open[j]
    BY <1>1, Appended
  <2> HIDE DEF new, op1, m, t
  <2>6. SameUpTo(open, op1, m - 1)
    <3>1. \A j \in 1 .. m - 1 : j \in 1 .. Len(open)
      BY <2>1
    <3> QED
      BY <2>5, <3>1 DEF SameUpTo
  <2>7. Len(op1) = m - 1 + (t.depth + 1)
    BY <2>1, <2>5
  <2>8. \A j \in m .. Len(op1) : op1[j].role = "within"
    <3> SUFFICES ASSUME NEW j \in m .. Len(op1)
                 PROVE  op1[j].role = "within"
      OBVIOUS
    <3>1. CASE j = Len(open) + 1
      BY <2>4, <2>5, <3>1
    <3>2. CASE j # Len(open) + 1
      <4>1. j \in Len(xml.st) .. Len(open) /\ j \in 1 .. Len(open)
        BY <2>1, <2>5, <3>2 DEF m
      <4> QED
        BY <2>5, <4>1 DEF Synced
    <3> QED
      BY <3>1, <3>2
  <2>9. Synced(x1.st, op1)
    BY <1>1, <1>6, <2>6, <2>7, <2>8, SwappedSynced DEF m, t
  <2> QED
    BY <1>2, <1>3, <2>9
<1> QED
  BY <1>4, <1>5, <1>6

\* Nothing but the state at the top changes, or there is an error.
LEMMA SyncedQuiet ==
    ASSUME NEW x, IsParser(x), NEW op, IsSeq(op), Synced(x.st, op),
           NEW x1, IsQuiet(x, x1), NoErrors(x1.o)
    PROVE  Synced(x1.st, op)
<1> DEFINE t == Last(x.st)
<1>1. IsSwapped(x, x1, t.depth)
  BY DEF IsQuiet
<1>2. Len(op) = Len(x.st) - 1 + (IF t.kind = "XMLLiteral" THEN t.depth ELSE 0)
  BY DEF Synced, Depth
<1>3. SameUpTo(op, op, Len(x.st) - 1) /\ \A j \in Len(x.st) .. Len(op) : op[j].role = "within"
  BY DEF SameUpTo, Synced
<1> QED
  BY <1>1, <1>2, <1>3, SwappedSynced

\* An element ends: it was within an XML literal, or its state goes with it.
LEMMA SyncedEnd ==
    ASSUME XmlTypes, Synced(xml.st, open), EndElement, NoErrors(xml'.o)
    PROVE  Synced(xml'.st, open')
<1> DEFINE x == xml
           x1 == X!on_end_element(xml)
           t == Last(xml.st)
           m == Len(xml.st)
           op1 == Front(open)
<1>1. IsParser(x) /\ IsStack(x.st) /\ IsSeq(open) /\ IsState(t)
  BY LastIs DEF XmlTypes, IsParser
<1>2. xml' = x1 /\ open' = op1 /\ open # <<>>
  BY DEF EndElement, Event
<1>3. \/ t.kind = "XMLLiteral" /\ t.depth > 0 /\ IsSwapped(x, x1, t.depth - 1)
      \/ t.kind # "Initial" /\ (t.kind = "XMLLiteral" => t.depth = 0) /\ IsPopped(x, x1)
      \/ Step(x, x1) /\ ~NoErrors(x1.o)
  BY <1>1, ElementEnded
<1> HIDE DEF x1
<1>4. CASE t.kind # "Initial" /\ (t.kind = "XMLLiteral" => t.depth = 0) /\ IsPopped(x, x1)
  <2>1. Depth(x.st) = 0
    BY <1>4 DEF Depth
  <2>2. Synced(x1.st, op1)
    BY <1>1, <1>2, <1>4, <2>1, PoppedSynced
  <2> QED
    BY <1>2, <2>2
<1>5. CASE t.kind = "XMLLiteral" /\ t.depth > 0 /\ IsSwapped(x, x1, t.depth - 1)
  <2>1. /\ m \in Nat /\ m > 1 /\ t.depth \in Nat /\ Len(open) = m - 1 + t.depth
    <3>1. Depth(xml.st) = t.depth
      BY <1>5 DEF Depth
    <3>2. /\ m \in Nat /\ m >= 1 /\ Depth(xml.st) \in Nat
          /\ Len(open) = m - 1 + Depth(xml.st) /\ Len(open) \in Nat
          /\ open = <<>> <=> Len(open) = 0
          /\ Last(open) = open[Len(open)]
          /\ t.kind = "Initial" <=> m = 1
          /\ t.kind # "Initial" => t.kind = open[m - 1].role
      BY <1>1, StackFacts
    <3> HIDE DEF m, t
    <3> QED
      BY <1>5, <3>1, <3>2
  <2>2. /\ IsSeq(op1) /\ Len(open) = Len(op1) + 1 /\ Len(op1) \in Nat
        /\ \A j \in 1 .. Len(op1) : op1[j] = open[j]
    BY <1>1, <1>2, Fronted, SeqFacts
  <2> HIDE DEF op1, m, t
  <2>3. Len(op1) = m - 1 + (t.depth - 1)
    BY <2>1, <2>2
  <2>4. SameUpTo(open, op1, m - 1)
    <3>1. \A j \in 1 .. m - 1 : j \in 1 .. Len(op1)
      BY <1>5, <2>1, <2>3
    <3> QED
      BY <2>2, <3>1 DEF SameUpTo
  <2>5. \A j \in m .. Len(op1) : op1[j].role = "within"
    <3>1. \A j \in m .. Len(op1) : j \in 1 .. Len(op1) /\ j \in Len(xml.st) .. Len(open)
      BY <2>1, <2>2 DEF m
    <3> QED
      BY <2>2, <3>1 DEF Synced
  <2>6. Synced(x1.st, op1)
    BY <1>1, <1>5, <2>3, <2>4, <2>5, SwappedSynced DEF m, t
  <2> QED
    BY <1>2, <2>6
<1> QED
  BY <1>2, <1>3, <1>4, <1>5

LEMMA SyncedKept ==
    ASSUME XmlSynced, [Next]_vars
    PROVE  XmlSynced'
<1> SUFFICES ASSUME format' = "xml", NoErrors(Whole'.o)
             PROVE  XmlTypes' /\ Synced(xml'.st, open')
  <2>1. format' = "xml" => XmlTypes'
    BY FormatStays, WholeSteps DEF XmlSynced
  <2> QED
    BY <2>1 DEF XmlSynced
<1>1. format = "xml" /\ XmlTypes
  BY FormatStays DEF XmlSynced
<1>2. XmlTypes' /\ Step(Whole, Whole')
  BY <1>1, WholeSteps
<1>3. Synced(xml.st, open)
  <2>1. IsParser(Whole)
    BY <1>1, BehindIs DEF XmlTypes, Whole
  <2>2. \E r : Emits(Whole.o, Whole'.o, r)
    BY <1>2 DEF Step, Uses
  <2>3. NoErrors(Whole.o)
    BY <2>1, <2>2, ErrorsStay DEF IsParser
  <2> QED
    BY <1>1, <2>3 DEF XmlSynced
<1>4. NoErrors(xml'.o)
  <2> DEFINE g == given'
             x1 == xml'
  <2>1. IsSeq(g) /\ IsParser(x1) /\ Whole' = Behind(g, x1)
    BY <1>2 DEF XmlTypes, Whole
  <2> HIDE DEF g, x1
  <2>2. /\ Len(Whole'.o.queue) = Len(g) + Len(x1.o.queue)
        /\ \A n \in 1 .. Len(x1.o.queue) : Whole'.o.queue[Len(g) + n] = x1.o.queue[n]
    BY <2>1, BehindIs
  <2>3. Len(g) \in Nat /\ Len(x1.o.queue) \in Nat
    BY <2>1, SeqFacts DEF IsParser, IsOutput
  <2>4. \A n \in 1 .. Len(x1.o.queue) : Len(g) + n \in 1 .. Len(Whole'.o.queue)
    BY <2>2, <2>3
  <2>5. NoErrors(x1.o)
    BY <2>2, <2>4 DEF NoErrors
  <2> QED
    BY <2>5 DEF x1
<1>5. CASE \E e \in Elements : StartElement(e)
  BY <1>1, <1>2, <1>3, <1>4, <1>5, SyncedStart
<1>6. CASE \E text \in {"text", "space"} : Characters(text)
  <2>1. PICK text : xml' = X!on_characters(xml, text) /\ open' = open
    BY <1>6 DEF Characters, Event
  <2>2. IsQuiet(xml, xml')
    BY <1>1, <2>1, CharactersStep DEF XmlTypes
  <2>3. Synced(xml'.st, open)
    BY <1>1, <1>3, <1>4, <2>2, SyncedQuiet DEF XmlTypes
  <2> QED
    BY <1>2, <2>1, <2>3
<1>7. CASE EndElement
  BY <1>1, <1>2, <1>3, <1>4, <1>7, SyncedEnd
<1>8. CASE NotWellFormed
  <2>1. xml' = X!Fail(xml) /\ open' = open
    BY <1>8 DEF NotWellFormed, Event, X!on_error
  <2>2. IsQuiet(xml, xml')
    BY <1>1, <2>1, FailQuiet DEF XmlTypes
  <2>3. Synced(xml'.st, open)
    BY <1>1, <1>3, <1>4, <2>2, SyncedQuiet DEF XmlTypes
  <2> QED
    BY <1>2, <2>1, <2>3
<1>9. CASE XmlNext
  <2>1. xml'.st = xml.st /\ open' = open
    BY <1>1, <1>9, NextSteps DEF XmlNext
  <2> QED
    BY <1>2, <1>3, <2>1
<1>10. CASE BeginChunk \/ EndChunk \/ AtTheEnd \/ UNCHANGED vars
  <2>1. xml' = xml /\ open' = open
    BY <1>10 DEF BeginChunk, EndChunk, AtTheEnd, vars, xmlVars
  <2> QED
    BY <1>2, <1>3, <2>1
<1>11. CASE ReadChunk \/ ReadEnd \/ StreamFails \/ SerdNext
  <2>1. S!Ready(serd) \in {"quad", "error", "end", "read"}
    BY DEF S!Ready
  <2>2. CASE ReadChunk \/ ReadEnd \/ StreamFails
    BY <1>1, <2>2 DEF ReadChunk, ReadEnd, StreamFails, SerdStep
  <2>3. CASE SerdNext /\ S!Ready(serd) = "quad"
    BY <1>1, <2>3 DEF SerdNext, SerdStep
  <2>4. CASE SerdNext /\ S!Ready(serd) = "error"
    BY <1>1, <2>4 DEF SerdNext, GiveError, SerdStep
  <2>5. CASE SerdNext /\ S!Ready(serd) = "end"
    BY <1>1, <2>5 DEF SerdNext, SerdStep
  <2>6. CASE SerdNext /\ S!Ready(serd) = "read"
    BY <1>1, <2>6 DEF SerdNext
  <2> QED
    BY <1>11, <2>1, <2>2, <2>3, <2>4, <2>5, <2>6
<1> QED
  BY <1>5, <1>6, <1>7, <1>8, <1>9, <1>10, <1>11 DEF Next, XmlEvents

LEMMA SyncedInStep ==
    ASSUME XmlSynced
    PROVE  InStep
<1> SUFFICES ASSUME NoErrorYet
             PROVE  /\ xml.st[1].kind = "Initial"
                    /\ {j \in DOMAIN open : open[j].role # "within"} = 1 .. Len(xml.st) - 1
                    /\ \A j \in 1 .. Len(xml.st) - 1 :
                          /\ xml.st[j + 1].kind = open[j].role
                          /\ open[j].role = "Description" /\ ~IsProperty(j) =>
                                \A k \in DOMAIN open[j].e.a :
                                    open[j].e.a[k].k = "about" =>
                                        xml.st[j + 1].subject = X!Iri(BaseOf(j), open[j].e.a[k].v)
  BY DEF InStep
<1>1. XmlTypes /\ format = "xml"
  BY DEF NoErrorYet, XmlSynced
<1>2. IsStack(xml.st) /\ IsSeq(open) /\ IsParser(Whole) /\ Whole.o.queue = Results
  BY <1>1, BehindIs DEF XmlTypes, IsParser, Whole, Results
<1>3. NoErrors(Whole.o)
  <2>1. DOMAIN Results = 1 .. Len(Results)
    BY <1>2, SeqFacts DEF IsParser, IsOutput
  <2> QED
    BY <1>2, <2>1 DEF NoErrorYet, NoErrors
<1>4. Synced(xml.st, open)
  BY <1>1, <1>3 DEF XmlSynced
<1>5. /\ Len(xml.st) \in Nat /\ Len(xml.st) >= 1 /\ Len(open) \in Nat
      /\ Len(open) = Len(xml.st) - 1 + Depth(xml.st) /\ Depth(xml.st) \in Nat
      /\ DOMAIN open = 1 .. Len(open)
  BY <1>2, <1>4, StackFacts, SeqFacts
<1>6. \A j \in 1 .. Len(xml.st) - 1 : AsOpened(xml.st[j + 1], open, j)
  BY <1>4 DEF Synced
<1>7. ASSUME NEW j \in 1 .. Len(xml.st) - 1
      PROVE  xml.st[j + 1].kind = open[j].role /\ open[j].role # "within"
  <2>1. j + 1 \in 1 .. Len(xml.st)
    BY <1>5
  <2>2. IsState(xml.st[j + 1])
    BY <1>2, <2>1 DEF IsStack
  <2> QED
    BY <1>6, <2>2 DEF AsOpened, IsState, StateKinds
<1>8. {j \in DOMAIN open : open[j].role # "within"} = 1 .. Len(xml.st) - 1
  <2>1. \A j \in 1 .. Len(xml.st) - 1 : j \in DOMAIN open
    BY <1>5
  <2>2. \A j \in DOMAIN open : j \in 1 .. Len(xml.st) - 1 \/ j \in Len(xml.st) .. Len(open)
    BY <1>5
  <2>3. \A j \in Len(xml.st) .. Len(open) : open[j].role = "within"
    BY <1>4 DEF Synced
  <2> QED
    BY <1>7, <2>1, <2>2, <2>3
<1>9. xml.st[1].kind = "Initial"
  <2>1. 1 \in 1 .. Len(xml.st)
    BY <1>5
  <2> QED
    BY <1>2, <2>1 DEF IsStack
<1>10. ASSUME NEW j \in 1 .. Len(xml.st) - 1, open[j].role = "Description", ~IsProperty(j)
       PROVE  \A k \in DOMAIN open[j].e.a :
                 open[j].e.a[k].k = "about" =>
                     xml.st[j + 1].subject = X!Iri(BaseOf(j), open[j].e.a[k].v)
  <2>1. IsNode(open, j)
    BY <1>10 DEF IsNode, IsProperty
  <2>2. IsAbout(open[j].e, xml.st[j + 1].subject, BaseOf(j))
    BY <1>6, <2>1, BaseOfIs DEF AsOpened
  <2> QED
    BY <2>2 DEF IsAbout
<1> QED
  BY <1>7, <1>8, <1>9, <1>10

\* Every element that is not within an XML literal has a state of its own, of the kind the
\* grammar gives it, and a node is named against the nearest base around it, for any
\* document as long as no error was reported (state_stack_, StateTransition, make_info).
THEOREM Spec_InStep == Spec => []InStep
<1>1. Init => XmlSynced
  BY SyncedStarts
<1>2. XmlSynced /\ [Next]_vars => XmlSynced'
  BY SyncedKept
<1>3. XmlSynced => InStep
  BY SyncedInStep
<1> QED
  BY <1>1, <1>2, <1>3, PTL DEF Spec

-----------------------------------------------------------------------------
(***************************************************************************)
(* A failure of the stream of an RDF/XML document is told.                 *)
(***************************************************************************)
IoError == <<"error", "Io">>

\* The error is behind all that waits, or is what was returned last.
IoIsLast(results, queue) ==
    IF queue = <<>> THEN results # <<>> /\ Last(results) = IoError ELSE Last(queue) = IoError

XmlFailing ==
    format = "xml" =>
        /\ XmlTypes
        /\ told => failed
        /\ failed => call # "chunk"
        /\ told => IoIsLast(given, xml.o.queue)
        /\ call = "ended" => xml.o.queue = <<>> /\ (failed => told)

\* A result that is returned leaves the last where it is.
LEMMA LastStays ==
    ASSUME NEW s, IsSeq(s), NEW q, IsSeq(q), q # <<>>, Last(q) = IoError
    PROVE  IoIsLast(Append(s, Head(q)), Tail(q))
<1>1. /\ IsSeq(Tail(q)) /\ Len(q) = Len(Tail(q)) + 1 /\ Head(q) = q[1]
      /\ \A n \in 1 .. Len(Tail(q)) : Tail(q)[n] = q[n + 1]
  BY TailOf
<1>2. /\ Len(Tail(q)) \in Nat /\ Len(q) \in Nat
      /\ Tail(q) = <<>> <=> Len(Tail(q)) = 0
  BY <1>1, SeqFacts
<1>3. q[Len(q)] = IoError
  BY DEF Last
<1>4. Append(s, Head(q)) # <<>> /\ Last(Append(s, Head(q))) = Head(q)
  BY Appended
<1>5. CASE Tail(q) = <<>>
  <2>1. Len(q) = 1
    BY <1>1, <1>2, <1>5
  <2>2. Head(q) = IoError
    BY <1>1, <1>3, <2>1
  <2> QED
    BY <1>4, <1>5, <2>2 DEF IoIsLast
<1>6. CASE Tail(q) # <<>>
  <2>1. Len(Tail(q)) \in 1 .. Len(Tail(q)) /\ Len(Tail(q)) + 1 = Len(q)
    BY <1>1, <1>2, <1>6
  <2>2. Tail(q)[Len(Tail(q))] = q[Len(q)]
    BY <1>1, <2>1
  <2> QED
    BY <1>3, <1>6, <2>2 DEF IoIsLast, Last
<1> QED
  BY <1>5, <1>6

\* next() puts the error behind what waits, once, and ends when nothing waits.
LEMMA FailingNext ==
    ASSUME format = "xml", XmlFailing, XmlNext
    PROVE  /\ told' => failed'
           /\ failed' => call' # "chunk"
           /\ told' => IoIsLast(given, xml.o.queue)'
           /\ call' = "ended" => (xml.o.queue = <<>>)' /\ (failed' => told')
<1> DEFINE q == xml.o.queue
           o == WithIoError
<1>1. /\ XmlTypes /\ (told => failed) /\ (told => IoIsLast(given, q))
      /\ call = "next" /\ told' = failed /\ failed' = failed
  BY DEF XmlFailing, XmlNext
<1>2. IsSeq(given) /\ IsParser(xml) /\ IsSeq(q)
  BY <1>1 DEF XmlTypes, IsParser, IsOutput
<1>3. DOMAIN o = DOMAIN xml.o /\ o.queue = IF failed /\ ~told THEN Append(q, IoError) ELSE q
  BY <1>2 DEF WithIoError, X!add_error, IoError, IsParser, IsOutput
<1>4. IsSeq(o.queue) /\ (failed /\ ~told => o.queue # <<>> /\ Last(o.queue) = IoError)
  BY <1>2, <1>3, Appended
<1>5. \/ o.queue = <<>> /\ xml' = xml /\ given' = given
      \/ /\ o.queue # <<>> /\ given' = Append(given, Head(o.queue)) /\ call' = call
         /\ xml' = [xml EXCEPT !.o = [o EXCEPT !.queue = Tail(@)]]
  BY DEF XmlNext, Give
<1> HIDE DEF o
<1>6. CASE o.queue = <<>>
  <2>1. xml' = xml /\ given' = given /\ q = <<>>
    BY <1>3, <1>4, <1>5, <1>6
  <2>2. failed => told
    BY <1>4, <1>6
  <2>3. call' \in {"next", "ended"}
    BY <1>1 DEF XmlNext
  <2> QED
    BY <1>1, <2>1, <2>2, <2>3
<1>7. CASE o.queue # <<>>
  <2>1. /\ given' = Append(given, Head(o.queue)) /\ call' = call
        /\ xml' = [xml EXCEPT !.o = [o EXCEPT !.queue = Tail(@)]]
    BY <1>5, <1>7
  <2>2. xml'.o.queue = Tail(o.queue)
    BY <1>2, <1>3, <2>1 DEF IsParser, IsOutput
  <2>3. ASSUME failed PROVE Last(o.queue) = IoError
    BY <1>1, <1>3, <1>4, <1>7, <2>3 DEF IoIsLast
  <2>4. ASSUME failed PROVE IoIsLast(given', xml'.o.queue)
    BY <1>2, <1>4, <1>7, <2>1, <2>2, <2>3, <2>4, LastStays
  <2>5. IoIsLast(given, xml.o.queue)' <=> IoIsLast(given', xml'.o.queue)
    BY DEF IoIsLast
  <2> QED
    BY <1>1, <2>1, <2>4, <2>5
<1> QED
  BY <1>6, <1>7

LEMMA FailingKept ==
    ASSUME XmlFailing, [Next]_vars
    PROVE  XmlFailing'
<1> SUFFICES ASSUME format' = "xml" PROVE XmlFailing'
  BY DEF XmlFailing
<1>1. format = "xml"
  BY FormatStays
<1>2. /\ XmlTypes /\ (told => failed) /\ (failed => call # "chunk")
      /\ (told => IoIsLast(given, xml.o.queue))
      /\ (call = "ended" => xml.o.queue = <<>> /\ (failed => told))
  BY <1>1 DEF XmlFailing
<1>3. XmlTypes'
  BY <1>1, <1>2, WholeSteps
<1>4. IoIsLast(given, xml.o.queue)' <=> IoIsLast(given', xml'.o.queue)
  BY DEF IoIsLast
<1>5. CASE XmlEvents
  <2>1. call = "chunk" /\ call' = call /\ failed' = failed /\ told' = told
    BY <1>5, SomeEvent DEF Event
  <2> QED
    BY <1>2, <1>3, <2>1 DEF XmlFailing
<1>6. CASE BeginChunk
  <2>1. ~failed /\ call' = "chunk" /\ failed' = failed /\ told' = told
    BY <1>6 DEF BeginChunk, XmlHasResult, xmlVars
  <2> QED
    BY <1>2, <1>3, <2>1 DEF XmlFailing
<1>7. CASE EndChunk
  <2>1. ~failed /\ call' = "next" /\ told' = told
    BY <1>2, <1>7 DEF EndChunk
  <2> QED
    BY <1>2, <1>3, <2>1 DEF XmlFailing
<1>8. CASE XmlNext
  BY <1>1, <1>3, <1>8, FailingNext DEF XmlFailing
<1>9. CASE AtTheEnd \/ UNCHANGED vars
  <2>1. /\ call' = call /\ failed' = failed /\ told' = told /\ given' = given /\ xml' = xml
    BY <1>9 DEF AtTheEnd, vars, xmlVars
  <2> QED
    BY <1>2, <1>3, <1>4, <2>1 DEF XmlFailing
<1>10. ~(ReadChunk \/ ReadEnd \/ StreamFails \/ SerdNext)
  <2>1. ~(ReadChunk \/ ReadEnd \/ StreamFails)
    BY <1>1 DEF ReadChunk, ReadEnd, StreamFails, SerdStep
  <2>2. S!Ready(serd) \in {"quad", "error", "end", "read"}
    BY DEF S!Ready
  <2>3. ASSUME SerdNext PROVE FALSE
    <3>1. CASE S!Ready(serd) = "quad"
      BY <1>1, <2>3, <3>1 DEF SerdNext, SerdStep
    <3>2. CASE S!Ready(serd) = "error"
      BY <1>1, <2>3, <3>2 DEF SerdNext, GiveError, SerdStep
    <3>3. CASE S!Ready(serd) = "end"
      BY <1>1, <2>3, <3>3 DEF SerdNext, SerdStep
    <3>4. CASE S!Ready(serd) = "read"
      BY <2>3, <3>4 DEF SerdNext
    <3> QED
      BY <2>2, <3>1, <3>2, <3>3, <3>4
  <2> QED
    BY <2>1, <2>3
<1> QED
  BY <1>5, <1>6, <1>7, <1>8, <1>9, <1>10 DEF Next

\* A caller that reads an RDF/XML document to the end is told of a failure of its stream,
\* for any document, wherever the stream fails and however much waits to be returned
\* (ImplXML::next, io_error_reported_).
THEOREM Spec_XmlToldOfFailure == Spec => []XmlToldOfFailure
<1>1. Init => XmlFailing
  <2> SUFFICES ASSUME Init PROVE XmlFailing
    OBVIOUS
  <2>1. XmlTypes
    BY XmlStarts
  <2>2. call = "next" /\ failed = FALSE /\ told = FALSE
    BY DEF Init
  <2> QED
    BY <2>1, <2>2 DEF XmlFailing
<1>2. XmlFailing /\ [Next]_vars => XmlFailing'
  BY FailingKept
<1>3. XmlFailing => XmlToldOfFailure
  BY DEF XmlFailing, XmlToldOfFailure, ToldOfFailure, IoIsLast, IoError
<1> QED
  BY <1>1, <1>2, <1>3, PTL DEF Spec
=============================================================================
