------------------------ MODULE SyncNodeStorage_proofs ------------------------
(***************************************************************************)
(* The synchronized storage, for any number of threads, values, ids and     *)
(* calls: no value ever gets two ids, and every call takes effect at one    *)
(* moment.                                                                 *)
(***************************************************************************)
EXTENDS SyncNodeStorage, WellFoundedInduction, TLAPS

\* A nonempty set of naturals has a least element.
LEMMA LeastElement ==
    ASSUME NEW S \in SUBSET Nat, S # {}
    PROVE  \E m \in S : \A n \in S : m <= n
<1> DEFINE LessThan == {p \in Nat \X Nat : p[1] < p[2]}
<1>1. IsWellFoundedOn(LessThan, Nat)
  BY NatLessThanWellFounded DEF OpToRel
<1> HIDE DEF LessThan
<1>2. \E m \in S : \A n \in S : ~ (<<n, m>> \in LessThan)
  BY <1>1, WFMin
<1>3. ASSUME NEW n \in S, NEW m \in S, ~(<<n, m>> \in LessThan)
      PROVE  m <= n
  BY <1>3 DEF LessThan
<1> QED
  BY <1>2, <1>3

Results == Values \union Ids \union {NullId, DefaultView, Erased, NotErased, Done}

\* The range of every variable.
Types ==
    /\ entries \in [Ids -> Values \union {Nothing}]
    /\ keys \subseteq Ids /\ issued \subseteq Ids
    /\ readers \subseteq Threads /\ writer \in Threads \union {Nothing}
    /\ pc \in [Threads -> {"idle", "lock_shared", "lookup", "lock_unique", "write",
                           "insert_key", "erase_value", "refuse", "return"}]
    /\ request \in [Threads -> RequestsOn(Ids) \union {NoRequest}]
    /\ answer \in [Threads -> Results \union {NoAnswer}]
    /\ calls \in 0 .. MaxCalls

\* Where a thread is in which call, and whether it has its answer.
Finds(r) == r.op = "find_or_make_id" /\ r.arg \in Values
Erases(r) == r.op = "erase" /\ r.arg \in Ids /\ r.arg >= MinId
PlaceOf(t) ==
    /\ pc[t] = "idle" <=> request[t] = NoRequest
    /\ pc[t] \notin {"erase_value", "return"} => answer[t] = NoAnswer
    /\ pc[t] = "erase_value" => answer[t] = Erased
    /\ pc[t] = "return" => answer[t] \in AnswersTo(request[t])
    /\ pc[t] \in {"lock_shared", "lookup"} => ReadsFirst(request[t])
    /\ pc[t] \in {"lock_unique", "write"} =>
           Finds(request[t]) \/ Erases(request[t]) \/ request[t].op = "shrink_to_fit"
    /\ pc[t] = "insert_key" => Finds(request[t])
    /\ pc[t] = "erase_value" => Erases(request[t])
    /\ pc[t] = "refuse" =>
           request[t].op = "erase" /\ request[t].arg \in Ids /\ request[t].arg < MinId
Places == \A t \in Threads : PlaceOf(t)

\* The mutex is held by the threads that are inside, by one of them or by readers only.
Writes(t) == pc[t] \in {"write", "insert_key", "erase_value"}
Mutex ==
    /\ \A t \in Threads : t \in readers <=> pc[t] = "lookup"
    /\ \A t \in Threads : writer = t <=> Writes(t)
    /\ writer # Nothing => readers = {}

\* The two sides of the map differ by the id that the writer is working on.
Occupied == {id \in Ids : entries[id] # Nothing}
Between(t) == pc[t] \in {"insert_key", "erase_value"}
Pending(t, id) ==
    /\ id \in Ids /\ id >= MinId /\ id \notin keys
    /\ Occupied = keys \union {id}
Sides ==
    /\ \A i, j \in Ids : entries[i] = entries[j] /\ entries[i] # Nothing => i = j
    /\ (\A t \in Threads : ~Between(t)) => Occupied = keys
    /\ \A t \in Threads : pc[t] = "insert_key" =>
           \E id \in Ids : Pending(t, id) /\ entries[id] = request[t].arg
    /\ \A t \in Threads : pc[t] = "erase_value" => Pending(t, request[t].arg)

IInv == Types /\ Places /\ Mutex /\ Sides

-----------------------------------------------------------------------------
\* The calls, by their operation.
LEMMA RequestKinds ==
    ASSUME NEW r \in RequestsOn(Ids)
    PROVE  /\ r.op \in {"find_or_make_id", "find_id", "find_backend", "erase", "shrink_to_fit"}
           /\ r.op \in {"find_or_make_id", "find_id"} => r.arg \in Values
           /\ r.op \in {"find_backend", "erase"} => r.arg \in Ids
  BY DEF RequestsOn

\* A call on an id that was handed out is a call.
LEMMA RequestsGrow ==
    ASSUME NEW S \in SUBSET Ids, NEW r \in RequestsOn(S)
    PROVE  r \in RequestsOn(Ids)
  BY DEF RequestsOn

\* An answer in the range of its operation is a result, and never NoAnswer.
LEMMA AnswersAreResults ==
    ASSUME NEW r \in RequestsOn(Ids)
    PROVE  AnswersTo(r) \subseteq Results /\ NoAnswer \notin AnswersTo(r)
  BY RequestKinds, NoAnswerAssumption DEF AnswersTo, Results

\* A lookup finds an id with a key and the value, or there is none.
LEMMA LookupFinds ==
    ASSUME Types, NEW v \in Values
    PROVE  \/ /\ LookupId(v) \in keys /\ LookupId(v) \in Ids /\ LookupId(v) # NullId
              /\ entries[LookupId(v)] = v
           \/ LookupId(v) = NullId /\ \A id \in keys : entries[id] # v
<1>1. NullId \notin Ids
  BY IdsAssumption DEF NullId, Ids
<1> QED
  BY <1>1 DEF LookupId, Types

\* The id a new value gets is free.
LEMMA LeastFreeIsFree == FreeIds # {} => LeastFreeId \in FreeIds
<1>1. FreeIds \in SUBSET Nat
  BY IdsAssumption DEF FreeIds, Ids
<1>2. FreeIds # {} => \E id \in FreeIds : \A other \in FreeIds : id <= other
  BY <1>1, LeastElement
<1> QED
  BY <1>2 DEF LeastFreeId

LEMMA InitIInv == Init => IInv
<1> SUFFICES ASSUME Init PROVE IInv
  OBVIOUS
<1>1. Types
  BY IdsAssumption, ReservedAssumption DEF Init, Types, Ids
<1>2. Places
  BY DEF Init, Places, PlaceOf
<1>3. Mutex
  BY NothingAssumption DEF Init, Mutex, Writes
<1>4. Sides
  <2>1. \A id \in DOMAIN Reserved : id \in Ids /\ entries[id] = Reserved[id] /\ entries[id] # Nothing
    BY ReservedAssumption, NothingAssumption DEF Init, Ids
  <2>2. \A id \in Ids : id \notin DOMAIN Reserved => entries[id] = Nothing
    BY DEF Init
  <2>3. Occupied = keys
    BY <2>1, <2>2 DEF Init, Occupied
  <2> QED
    BY <2>1, <2>2, <2>3, ReservedAssumption DEF Init, Sides
<1> QED
  BY <1>1, <1>2, <1>3, <1>4 DEF IInv

-----------------------------------------------------------------------------
\* What a lookup answers is in the range of its operation.
LEMMA LookupAnswers ==
    ASSUME IInv, NEW t \in Threads, Lookup(t)
    PROVE  /\ request[t] \in RequestsOn(Ids)
           /\ pc' = [pc EXCEPT ![t] = IF answer' = answer THEN "lock_unique" ELSE "return"]
           /\ answer' = answer => Finds(request[t])
           /\ answer' # answer => \E result \in AnswersTo(request[t]) :
                                      answer' = [answer EXCEPT ![t] = result]
<1> DEFINE r == request[t]
<1>1. Types /\ r \in RequestsOn(Ids) /\ answer[t] = NoAnswer
  BY DEF IInv, Types, Places, PlaceOf, Lookup
<1>2. AnswersTo(r) \subseteq Results /\ NoAnswer \notin AnswersTo(r)
  BY <1>1, AnswersAreResults
<1>3. \A result \in AnswersTo(r) : [answer EXCEPT ![t] = result] # answer
  BY <1>1, <1>2 DEF Types
<1>4. CASE LookupHit(t)
  <2>1. r.arg \in Values
    BY <1>1, <1>4, RequestKinds DEF LookupHit
  <2>2. LookupId(r.arg) \in AnswersTo(r)
    BY <1>1, <1>4, <2>1, LookupFinds DEF LookupHit, AnswersTo
  <2> QED
    BY <1>1, <1>3, <1>4, <2>2 DEF LookupHit, Goto, Answer
<1>5. CASE LookupMiss(t) /\ r.op = "find_id"
  <2>1. NullId \in AnswersTo(r)
    BY <1>5 DEF AnswersTo
  <2> QED
    BY <1>1, <1>3, <1>5, <2>1 DEF LookupMiss, Goto, Answer
<1>6. CASE LookupMiss(t) /\ r.op = "find_or_make_id"
  BY <1>1, <1>6, RequestKinds DEF LookupMiss, Goto, Finds
<1>7. CASE LookupBackend(t)
  <2>1. r.arg \in Ids
    BY <1>1, <1>7, RequestKinds DEF LookupBackend
  <2>2. (IF entries[r.arg] = Nothing THEN DefaultView ELSE entries[r.arg]) \in AnswersTo(r)
    BY <1>1, <1>7, <2>1 DEF LookupBackend, AnswersTo, Types
  <2> QED
    BY <1>1, <1>3, <1>7, <2>2 DEF LookupBackend, Goto, Answer
<1> QED
  BY <1>1, <1>4, <1>5, <1>6, <1>7 DEF Lookup, LookupMiss

\* The id that a writer of a key finds is the one it inserted the value at.
LEMMA InsertedId ==
    ASSUME IInv, NEW t \in Threads, pc[t] = "insert_key"
    PROVE  LET id == CHOOSE id \in Ids : entries[id] = request[t].arg /\ id \notin keys
           IN  Pending(t, id) /\ entries[id] = request[t].arg
<1>1. PICK id \in Ids : Pending(t, id) /\ entries[id] = request[t].arg
  BY DEF IInv, Sides
<1>2. \A other \in Ids : entries[other] = request[t].arg /\ other \notin keys => other = id
  BY <1>1 DEF IInv, Sides, Pending, Occupied
<1> QED
  BY <1>1, <1>2 DEF Pending

\* Every step keeps the variables in their ranges.
LEMMA TypesStep == IInv /\ [Next]_vars => Types'
<1> SUFFICES ASSUME IInv, [Next]_vars PROVE Types'
  OBVIOUS
<1>0. Types /\ Places
  BY DEF IInv
<1> USE DEF Types
<1>1. ASSUME NEW t \in Threads, NEW r \in RequestsOn(issued), Call(t, r) PROVE Types'
  <2>1. r \in RequestsOn(Ids)
    BY <1>0, RequestsGrow
  <2>2. calls' \in 0 .. MaxCalls
    BY <1>0, <1>1, IdsAssumption DEF Call
  <2> QED
    BY <1>0, <1>1, <2>1, <2>2 DEF Call
<1>2. ASSUME NEW t \in Threads, Return(t) PROVE Types'
  BY <1>0, <1>2 DEF Return
<1>3. ASSUME NEW t \in Threads, LockShared(t) PROVE Types'
  BY <1>0, <1>3 DEF LockShared, Goto
<1>4. ASSUME NEW t \in Threads, LockUnique(t) PROVE Types'
  BY <1>0, <1>4 DEF LockUnique, Goto
<1>5. ASSUME NEW t \in Threads, Lookup(t) PROVE Types'
  <2>1. answer' \in [Threads -> Results \union {NoAnswer}]
    BY <1>0, <1>5, LookupAnswers, AnswersAreResults
  <2> QED
    BY <1>0, <1>5, <2>1, LookupAnswers DEF Lookup, UnlockShared
<1>6. ASSUME NEW t \in Threads, FoundAfterAll(t) PROVE Types'
  <2>1. request[t].arg \in Values
    BY <1>0, <1>6, RequestKinds DEF FoundAfterAll, Places, PlaceOf
  <2>2. LookupId(request[t].arg) \in Results
    BY <1>0, <2>1, LookupFinds DEF Results
  <2> QED
    BY <1>0, <1>6, <2>2 DEF FoundAfterAll, Goto, Answer, UnlockUnique
<1>7. ASSUME NEW t \in Threads, InsertValue(t) PROVE Types'
  <2>1. request[t].arg \in Values /\ LeastFreeId \in Ids
    BY <1>0, <1>7, RequestKinds, LeastFreeIsFree DEF InsertValue, Places, PlaceOf, FreeIds
  <2> QED
    BY <1>0, <1>7, <2>1 DEF InsertValue, Goto
<1>8. ASSUME NEW t \in Threads, InsertKey(t) PROVE Types'
  <2> DEFINE id == CHOOSE id \in Ids : entries[id] = request[t].arg /\ id \notin keys
  <2>1. id \in Ids
    BY <1>8, InsertedId DEF InsertKey, Goto, Pending
  <2>2. id \in Results
    BY <2>1 DEF Results
  <2> HIDE DEF id
  <2>3. keys' = keys \union {id} /\ answer' = [answer EXCEPT ![t] = id]
    BY <1>8 DEF InsertKey, Answer, id
  <2> QED
    BY <1>0, <1>8, <2>1, <2>2, <2>3 DEF InsertKey, Goto, UnlockUnique
<1>9. ASSUME NEW t \in Threads, EraseRefused(t) PROVE Types'
  BY <1>0, <1>9 DEF EraseRefused, Goto, Answer, Results
<1>10. ASSUME NEW t \in Threads, EraseAbsent(t) PROVE Types'
  BY <1>0, <1>10 DEF EraseAbsent, Goto, Answer, UnlockUnique, Results
<1>11. ASSUME NEW t \in Threads, EraseKey(t) PROVE Types'
  BY <1>0, <1>11 DEF EraseKey, Goto, Answer, Results
<1>12. ASSUME NEW t \in Threads, EraseValue(t) PROVE Types'
  BY <1>0, <1>12 DEF EraseValue, Goto, UnlockUnique
<1>13. ASSUME NEW t \in Threads, Shrink(t) PROVE Types'
  BY <1>0, <1>13 DEF Shrink, Goto, Answer, UnlockUnique, Results
<1>14. CASE UNCHANGED vars
  BY <1>0, <1>14 DEF vars
<1> QED
  BY <1>1, <1>2, <1>3, <1>4, <1>5, <1>6, <1>7, <1>8, <1>9, <1>10, <1>11, <1>12, <1>13, <1>14
     DEF Next, Step

-----------------------------------------------------------------------------
\* A step of one thread leaves the others where they are.
Stays(u) == pc'[u] = pc[u] /\ request'[u] = request[u] /\ answer'[u] = answer[u]

LEMMA OthersStay ==
    ASSUME IInv, NEW t \in Threads, Step(t) \/ \E r \in RequestsOn(issued) : Call(t, r)
    PROVE  \A u \in Threads : u # t => Stays(u)
<1>1. Types
  BY DEF IInv
<1>2. ASSUME Lookup(t) PROVE \A u \in Threads : u # t => Stays(u)
  BY <1>1, <1>2, LookupAnswers DEF Lookup, Stays, Types
<1>3. ASSUME InsertKey(t) PROVE \A u \in Threads : u # t => Stays(u)
  BY <1>1, <1>3 DEF InsertKey, Goto, Answer, Stays, Types
<1>4. ASSUME Step(t), ~Lookup(t), ~InsertKey(t) PROVE \A u \in Threads : u # t => Stays(u)
  BY <1>1, <1>4 DEF Step, Return, LockShared, LockUnique, FoundAfterAll, InsertValue,
     EraseRefused, EraseAbsent, EraseKey, EraseValue, Shrink, Goto, Answer, Stays, Types
<1>5. ASSUME NEW r \in RequestsOn(issued), Call(t, r) PROVE \A u \in Threads : u # t => Stays(u)
  BY <1>1, <1>5 DEF Call, Stays, Types
<1> QED
  BY <1>2, <1>3, <1>4, <1>5

\* Every step leaves each thread at a place that fits its call.
LEMMA PlacesStep == IInv /\ [Next]_vars => Places'
<1> SUFFICES ASSUME IInv, [Next]_vars PROVE Places'
  OBVIOUS
<1>0. Types /\ Places
  BY DEF IInv
<1>1. ASSUME NEW u \in Threads, Stays(u) PROVE PlaceOf(u)'
  BY <1>0, <1>1 DEF Places, PlaceOf, Stays
<1>2. CASE UNCHANGED vars
  BY <1>1, <1>2 DEF vars, Stays, Places
<1> SUFFICES ASSUME NEW t \in Threads, Step(t) \/ \E r \in RequestsOn(issued) : Call(t, r)
             PROVE  PlaceOf(t)'
  BY <1>1, <1>2, OthersStay DEF Next, Places
<1>3. PlaceOf(t) /\ (request[t] \in RequestsOn(Ids) \/ request[t] = NoRequest)
  BY <1>0 DEF Places, Types
<1> USE DEF PlaceOf, Types, Goto
<1>4. ASSUME NEW r \in RequestsOn(issued), Call(t, r) PROVE PlaceOf(t)'
  <2>1. r \in RequestsOn(Ids) /\ r # NoRequest
    BY <1>0, RequestsGrow, NoRequestAssumption
  <2>2. pc'[t] = (IF ReadsFirst(r) THEN "lock_shared"
                  ELSE IF r.op = "erase" /\ r.arg < MinId THEN "refuse" ELSE "lock_unique")
        /\ request'[t] = r /\ answer'[t] = NoAnswer
    BY <1>0, <1>3, <1>4 DEF Call
  <2>3. MinId \in Nat /\ Ids \subseteq Nat
    BY IdsAssumption DEF Ids
  <2>4. ReadsFirst(r) \/ Erases(r) \/ r.op = "shrink_to_fit"
            \/ (r.op = "erase" /\ r.arg \in Ids /\ r.arg < MinId)
    <3>1. CASE r.op = "erase"
      <4>1. r.arg \in Ids
        BY <2>1, <3>1, RequestKinds
      <4>2. r.arg \in Nat
        BY <2>3, <4>1
      <4>3. r.arg < MinId \/ r.arg >= MinId
        BY <2>3, <4>2
      <4> QED
        BY <3>1, <4>1, <4>3 DEF Erases
    <3> QED
      BY <2>1, <3>1, RequestKinds DEF ReadsFirst
  <2>5. CASE ReadsFirst(r)
    BY <2>1, <2>2, <2>5
  <2>6. CASE ~ReadsFirst(r) /\ r.op = "erase" /\ r.arg < MinId
    BY <2>1, <2>2, <2>6, RequestKinds
  <2>7. CASE ~ReadsFirst(r) /\ ~(r.op = "erase" /\ r.arg < MinId)
    <3>1. pc'[t] = "lock_unique"
      BY <2>2, <2>7
    <3> QED
      BY <2>1, <2>2, <2>4, <2>7, <3>1
  <2> QED
    BY <2>5, <2>6, <2>7
<1>5. CASE Return(t)
  BY <1>0, <1>5 DEF Return
<1>6. CASE LockShared(t)
  BY <1>0, <1>3, <1>6 DEF LockShared
<1>7. CASE LockUnique(t)
  BY <1>0, <1>3, <1>7 DEF LockUnique
<1>8. CASE Lookup(t)
  <2>1. pc[t] = "lookup" /\ request' = request
    BY <1>8 DEF Lookup
  <2>2. CASE answer' = answer
    <3>1. pc'[t] = "lock_unique" /\ Finds(request[t])
      BY <1>0, <1>8, <2>2, LookupAnswers
    <3> QED
      BY <1>3, <2>1, <2>2, <3>1
  <2>3. CASE answer' # answer
    <3>1. pc'[t] = "return" /\ answer'[t] \in AnswersTo(request[t])
      BY <1>0, <1>8, <2>3, LookupAnswers
    <3> QED
      BY <1>3, <2>1, <3>1
  <2> QED
    BY <2>2, <2>3
<1>9. CASE FoundAfterAll(t)
  <2>1. pc'[t] = "return" /\ request' = request /\ answer'[t] = LookupId(request[t].arg)
    BY <1>0, <1>9 DEF FoundAfterAll, Answer
  <2>2. request[t].arg \in Values
    BY <1>3, <1>9, RequestKinds DEF FoundAfterAll
  <2>3. LookupId(request[t].arg) \in Ids
    BY <1>0, <1>9, <2>2, LookupFinds DEF FoundAfterAll, StillAbsent
  <2>4. LookupId(request[t].arg) \in AnswersTo(request[t])
    BY <1>9, <2>3 DEF FoundAfterAll, AnswersTo
  <2> QED
    BY <1>3, <1>9, <2>1, <2>4 DEF FoundAfterAll
<1>10. CASE InsertValue(t)
  <2>1. Finds(request[t])
    BY <1>3, <1>10, RequestKinds DEF InsertValue, Finds
  <2> QED
    BY <1>0, <1>3, <1>10, <2>1 DEF InsertValue
<1>11. CASE InsertKey(t)
  <2> DEFINE id == CHOOSE id \in Ids : entries[id] = request[t].arg /\ id \notin keys
  <2>1. id \in Ids
    BY <1>11, InsertedId DEF InsertKey, Pending
  <2> HIDE DEF id
  <2>2. pc'[t] = "return" /\ pc[t] = "insert_key" /\ request' = request /\ answer'[t] = id
    BY <1>0, <1>11 DEF InsertKey, Answer, id
  <2>3. id \in AnswersTo(request[t])
    BY <1>3, <2>1, <2>2 DEF Finds, AnswersTo
  <2> QED
    BY <1>3, <2>2, <2>3
<1>12. CASE EraseRefused(t) \/ EraseAbsent(t)
  <2>1. pc'[t] = "return" /\ request' = request /\ answer'[t] = NotErased
    BY <1>0, <1>12 DEF EraseRefused, EraseAbsent, Answer
  <2>2. request[t].op = "erase" /\ pc[t] # "idle"
    BY <1>3, <1>12 DEF EraseRefused, EraseAbsent
  <2> QED
    BY <1>3, <2>1, <2>2 DEF AnswersTo
<1>13. CASE EraseKey(t)
  <2>1. /\ pc'[t] = "erase_value" /\ request' = request /\ answer'[t] = Erased
        /\ pc[t] = "write" /\ request[t].op = "erase"
    BY <1>0, <1>13 DEF EraseKey, Answer
  <2> QED
    BY <1>3, <2>1 DEF Finds, Erases
<1>14. CASE EraseValue(t)
  <2>1. Erased \in AnswersTo(request[t])
    BY <1>3, <1>14 DEF EraseValue, Erases, AnswersTo
  <2> QED
    BY <1>0, <1>3, <1>14, <2>1 DEF EraseValue
<1>15. CASE Shrink(t)
  <2>1. pc'[t] = "return" /\ request' = request /\ answer'[t] = Done /\ pc[t] = "write"
    BY <1>0, <1>15 DEF Shrink, Answer
  <2>2. Done \in AnswersTo(request[t])
    BY <1>15 DEF Shrink, AnswersTo
  <2> QED
    BY <1>3, <2>1, <2>2
<1> QED
  BY <1>4, <1>5, <1>6, <1>7, <1>8, <1>9, <1>10, <1>11, <1>12, <1>13, <1>14, <1>15 DEF Step

-----------------------------------------------------------------------------
\* A thread at the head of an action is inside the mutex, or is not.
LEMMA MutexStep == IInv /\ [Next]_vars => Mutex'
<1> SUFFICES ASSUME IInv, [Next]_vars PROVE Mutex'
  OBVIOUS
<1>0. Types /\ Mutex /\ \A t \in Threads : t # Nothing
  BY NothingAssumption DEF IInv
<1>1. CASE UNCHANGED vars
  BY <1>0, <1>1 DEF vars, Mutex, Writes
<1> SUFFICES ASSUME NEW t \in Threads, Step(t) \/ \E r \in RequestsOn(issued) : Call(t, r)
             PROVE  Mutex'
  BY <1>1 DEF Next
<1>2. \A u \in Threads : u # t => pc'[u] = pc[u]
  BY OthersStay DEF Stays
\* Steps of a thread that is outside before and after.
<1>3. ASSUME UNCHANGED <<readers, writer>>, pc[t] # "lookup", ~Writes(t),
             pc'[t] # "lookup", pc'[t] \notin {"write", "insert_key", "erase_value"}
      PROVE  Mutex'
  BY <1>0, <1>2, <1>3 DEF Mutex, Writes
\* Steps of the writer that keep the mutex.
<1>4. ASSUME UNCHANGED <<readers, writer>>, Writes(t),
             pc'[t] \in {"write", "insert_key", "erase_value"}
      PROVE  Mutex'
  BY <1>0, <1>2, <1>4 DEF Mutex, Writes
\* Steps of the writer that give it back.
<1>5. ASSUME UnlockUnique, Writes(t), pc'[t] = "return"
      PROVE  Mutex'
  <2>1. writer = t /\ readers = {} /\ \A u \in Threads : u # t => ~Writes(u)
    BY <1>0, <1>5 DEF Mutex
  <2> QED
    BY <1>0, <1>2, <1>5, <2>1 DEF Mutex, Writes, UnlockUnique
<1>6. ASSUME NEW r \in RequestsOn(issued), Call(t, r) PROVE Mutex'
  BY <1>0, <1>3, <1>6 DEF Call, Types, Writes
<1>7. CASE Return(t) \/ EraseRefused(t)
  BY <1>0, <1>3, <1>7 DEF Return, EraseRefused, Goto, Types, Writes
<1>8. CASE LockShared(t)
  <2>1. pc[t] = "lock_shared" /\ pc'[t] = "lookup" /\ readers' = readers \union {t}
        /\ writer = Nothing /\ writer' = writer
    BY <1>0, <1>8 DEF LockShared, Goto, Types
  <2> QED
    BY <1>0, <1>2, <2>1 DEF Mutex, Writes
<1>9. CASE LockUnique(t)
  <2>1. pc[t] = "lock_unique" /\ pc'[t] = "write" /\ writer = Nothing /\ writer' = t
        /\ readers = {} /\ readers' = readers
    BY <1>0, <1>9 DEF LockUnique, UniqueAvailable, Goto, Types
  <2> QED
    BY <1>0, <1>2, <2>1 DEF Mutex, Writes
<1>10. CASE Lookup(t)
  <2>1. pc[t] = "lookup" /\ pc'[t] \in {"lock_unique", "return"}
        /\ readers' = readers \ {t} /\ writer' = writer
    BY <1>0, <1>10, LookupAnswers DEF Lookup, UnlockShared, Types
  <2> QED
    BY <1>0, <1>2, <2>1 DEF Mutex, Writes
<1>11. CASE InsertValue(t) \/ EraseKey(t)
  BY <1>0, <1>4, <1>11 DEF InsertValue, EraseKey, Goto, Types, Writes
<1>12. CASE FoundAfterAll(t)
  BY <1>0, <1>5, <1>12 DEF FoundAfterAll, Goto, Types, Writes
<1>13. CASE InsertKey(t)
  BY <1>0, <1>5, <1>13 DEF InsertKey, Goto, Types, Writes
<1>14. CASE EraseAbsent(t) \/ EraseValue(t) \/ Shrink(t)
  BY <1>0, <1>5, <1>14 DEF EraseAbsent, EraseValue, Shrink, Goto, Types, Writes
<1> QED
  BY <1>6, <1>7, <1>8, <1>9, <1>10, <1>11, <1>12, <1>13, <1>14 DEF Step

\* Only the writer takes the two sides apart, and it brings them together again.
LEMMA SidesStep == IInv /\ [Next]_vars => Sides'
<1> SUFFICES ASSUME IInv, [Next]_vars PROVE Sides'
  OBVIOUS
<1>0. Types /\ Places /\ Mutex /\ Sides
  BY DEF IInv
<1>1. CASE UNCHANGED vars
  BY <1>0, <1>1 DEF vars, Sides, Between, Pending, Occupied
<1> SUFFICES ASSUME NEW t \in Threads, Step(t) \/ \E r \in RequestsOn(issued) : Call(t, r)
             PROVE  Sides'
  BY <1>1 DEF Next
<1>2. \A u \in Threads : u # t => pc'[u] = pc[u] /\ request'[u] = request[u]
  BY OthersStay DEF Stays
<1>3. ASSUME UNCHANGED <<entries, keys>>, ~Between(t), pc'[t] \notin {"insert_key", "erase_value"}
      PROVE  Sides'
  <2>1. \A u \in Threads : pc'[u] \in {"insert_key", "erase_value"} =>
            u # t /\ pc'[u] = pc[u] /\ request'[u] = request[u]
    BY <1>2, <1>3
  <2>2. (\A u \in Threads : ~Between(u)') => \A u \in Threads : ~Between(u)
    BY <1>2, <1>3 DEF Between
  <2>3. \A u \in Threads : pc'[u] = "insert_key" =>
            \E id \in Ids : Pending(u, id)' /\ entries'[id] = request'[u].arg
    BY <1>0, <1>3, <2>1 DEF Sides, Pending, Occupied
  <2>4. \A u \in Threads : pc'[u] = "erase_value" => Pending(u, request[u].arg)'
    BY <1>0, <1>3, <2>1 DEF Sides, Pending, Occupied
  <2>5. \A i, j \in Ids : entries'[i] = entries'[j] /\ entries'[i] # Nothing => i = j
    BY <1>0, <1>3 DEF Sides
  <2>6. (\A u \in Threads : ~Between(u)') => Occupied' = keys'
    BY <1>0, <1>3, <2>2 DEF Sides, Occupied
  <2> QED
    BY <2>3, <2>4, <2>5, <2>6 DEF Sides
\* While one thread writes, no other is between the two sides.
<1>4. ASSUME Writes(t) PROVE \A u \in Threads : u # t => ~Between(u) /\ ~Between(u)'
  BY <1>0, <1>2, <1>4 DEF Mutex, Writes, Between
<1>5. ASSUME pc[t] = "write" PROVE Occupied = keys
  BY <1>0, <1>4, <1>5 DEF Writes, Between, Sides
<1>6. ASSUME NEW r \in RequestsOn(issued), Call(t, r) PROVE Sides'
  BY <1>0, <1>3, <1>6 DEF Call, Types, Between
<1>7. CASE Return(t) \/ LockShared(t) \/ LockUnique(t)
  BY <1>0, <1>3, <1>7 DEF Return, LockShared, LockUnique, Goto, Types, Between
<1>8. CASE Lookup(t)
  BY <1>0, <1>3, <1>8, LookupAnswers DEF Lookup, Types, Between
<1>9. CASE FoundAfterAll(t)
  BY <1>0, <1>3, <1>9 DEF FoundAfterAll, Goto, Types, Between
<1>10. CASE InsertValue(t)
  <2>0. PICK id \in Ids : id = LeastFreeId
    BY <1>10, LeastFreeIsFree DEF InsertValue, FreeIds
  <2> DEFINE v == request[t].arg
  <2>1. /\ pc[t] = "write" /\ pc'[t] = "insert_key" /\ request' = request /\ keys' = keys
        /\ entries' = [entries EXCEPT ![id] = v]
    BY <1>0, <1>10, <2>0 DEF InsertValue, Goto, Types
  <2>2. id \in Ids /\ id >= MinId /\ entries[id] = Nothing
    BY <1>10, <2>0, LeastFreeIsFree DEF InsertValue, FreeIds
  <2>3. v \in Values /\ v # Nothing
    BY <1>0, <1>10, RequestKinds, NothingAssumption DEF InsertValue, Places, PlaceOf, Types
  <2>4. \A i \in Ids : entries[i] # v
    <3>1. \A i \in keys : entries[i] # v
      BY <1>0, <1>10, <2>3, LookupFinds DEF InsertValue, StillAbsent
    <3> QED
      BY <1>5, <2>1, <2>3, <3>1 DEF Occupied
  <2> HIDE DEF v
  <2>5. \A i \in Ids : entries'[i] = IF i = id THEN v ELSE entries[i]
    BY <1>0, <2>1 DEF Types
  <2>6. id \notin keys /\ Occupied' = keys \union {id}
    <3>1. id \notin keys
      BY <1>5, <2>1, <2>2 DEF Occupied
    <3>2. \A i \in Ids : i \in Occupied' <=> i = id \/ i \in keys
      BY <1>5, <2>1, <2>3, <2>5 DEF Occupied
    <3>3. Occupied' \subseteq Ids
      BY DEF Occupied
    <3> QED
      BY <1>0, <2>2, <3>1, <3>2, <3>3 DEF Types
  <2>7. Pending(t, id)' /\ entries'[id] = request'[t].arg
    BY <2>1, <2>2, <2>5, <2>6 DEF Pending, v
  <2>8. \A u \in Threads : u # t => ~Between(u)'
    BY <1>4, <2>1 DEF Writes
  <2>9. \A i, j \in Ids : entries'[i] = entries'[j] /\ entries'[i] # Nothing => i = j
    BY <1>0, <2>2, <2>4, <2>5 DEF Sides
  <2>10. \A u \in Threads : pc'[u] = "insert_key" =>
             \E i \in Ids : Pending(u, i)' /\ entries'[i] = request'[u].arg
    BY <2>2, <2>7, <2>8 DEF Between
  <2>11. \A u \in Threads : pc'[u] # "erase_value"
    BY <2>1, <2>8 DEF Between
  <2>12. Between(t)'
    BY <2>1 DEF Between
  <2> QED
    BY <2>9, <2>10, <2>11, <2>12 DEF Sides
<1>11. CASE InsertKey(t)
  <2> DEFINE id == CHOOSE id \in Ids : entries[id] = request[t].arg /\ id \notin keys
  <2>1. Pending(t, id)
    BY <1>11, InsertedId DEF InsertKey, Goto
  <2> HIDE DEF id
  <2>2. pc[t] = "insert_key" /\ pc'[t] = "return" /\ entries' = entries /\ keys' = keys \union {id}
    BY <1>0, <1>11 DEF InsertKey, Goto, Types, id
  <2>3. \A u \in Threads : ~Between(u)'
    BY <1>4, <2>2 DEF Writes, Between
  <2>4. Occupied' = keys'
    BY <2>1, <2>2 DEF Pending, Occupied
  <2> QED
    BY <1>0, <2>2, <2>3, <2>4 DEF Sides, Between
<1>12. CASE EraseRefused(t) \/ EraseAbsent(t) \/ Shrink(t)
  BY <1>0, <1>3, <1>12 DEF EraseRefused, EraseAbsent, Shrink, Goto, Types, Between
<1>13. CASE EraseKey(t)
  <2> DEFINE id == request[t].arg
  <2>1. /\ pc[t] = "write" /\ pc'[t] = "erase_value" /\ request' = request /\ entries' = entries
        /\ keys' = keys \ {id} /\ request[t].op = "erase" /\ entries[id] # Nothing
    BY <1>0, <1>13 DEF EraseKey, Goto, Types
  <2>2. id \in Ids /\ id >= MinId
    BY <1>0, <2>1 DEF Places, PlaceOf, Finds, Erases
  <2>3. Occupied' = keys' \union {id}
    BY <1>5, <2>1, <2>2 DEF Occupied
  <2>4. Pending(t, request[t].arg)'
    BY <2>1, <2>2, <2>3 DEF Pending
  <2>5. \A u \in Threads : u # t => ~Between(u)'
    BY <1>4, <2>1 DEF Writes
  <2> QED
    BY <1>0, <2>1, <2>4, <2>5 DEF Sides, Between
<1>14. CASE EraseValue(t)
  <2> DEFINE id == request[t].arg
  <2>1. /\ pc[t] = "erase_value" /\ pc'[t] = "return" /\ keys' = keys
        /\ entries' = [entries EXCEPT ![id] = Nothing]
    BY <1>0, <1>14 DEF EraseValue, Goto, Types
  <2>2. id \in Ids /\ id \notin keys /\ Occupied = keys \union {id}
    BY <1>0, <2>1 DEF Sides, Pending
  <2>3. \A i \in Ids : entries'[i] = IF i = id THEN Nothing ELSE entries[i]
    BY <1>0, <2>1 DEF Types
  <2>4. Occupied' = keys'
    <3>1. \A i \in Ids : i \in Occupied' <=> i \in keys
      BY <2>2, <2>3 DEF Occupied
    <3>2. Occupied' \subseteq Ids /\ keys \subseteq Ids
      BY <1>0 DEF Occupied, Types
    <3> QED
      BY <2>1, <3>1, <3>2
  <2>5. \A u \in Threads : ~Between(u)'
    BY <1>4, <2>1 DEF Writes, Between
  <2>6. \A i, j \in Ids : entries'[i] = entries'[j] /\ entries'[i] # Nothing => i = j
    BY <1>0, <2>3 DEF Sides
  <2> QED
    BY <2>4, <2>5, <2>6 DEF Sides, Between
<1> QED
  BY <1>6, <1>7, <1>8, <1>9, <1>10, <1>11, <1>12, <1>13, <1>14 DEF Step

LEMMA IInvHolds == Spec => []IInv
<1>1. IInv /\ [Next]_vars => IInv'
  BY TypesStep, PlacesStep, MutexStep, SidesStep DEF IInv
<1> QED
  BY InitIInv, <1>1, PTL DEF Spec

-----------------------------------------------------------------------------
\* No two ids ever stand for one value, and no reader is inside the mutex while
\* the two sides of the map differ, however the threads are interleaved.
THEOREM OneIdAlways == Spec => []OneIdPerValue
<1>1. IInv => OneIdPerValue
  <2> SUFFICES ASSUME IInv PROVE OneIdPerValue
    OBVIOUS
  <2>1. Types /\ Places /\ Mutex /\ Sides
    BY DEF IInv
  <2>2. TypeOK
    <3>1. \A t \in Threads : pc[t] = "idle" => request[t] = NoRequest /\ answer[t] = NoAnswer
      BY <2>1 DEF Places, PlaceOf
    <3>2. \A t \in Threads : pc[t] # "idle" => request[t] \in RequestsOn(Ids)
      BY <2>1 DEF Places, PlaceOf, Types
    <3>3. \A t \in Threads : pc[t] = "return" => answer[t] \in AnswersTo(request[t])
      BY <2>1 DEF Places, PlaceOf
    <3> QED
      BY <2>1, <3>1, <3>2, <3>3 DEF TypeOK, Types
  <2>3. readers # {} => Occupied = keys
    <3>1. readers # {} => \A t \in Threads : ~Writes(t)
      BY <2>1, NothingAssumption DEF Mutex
    <3> QED
      BY <2>1, <3>1 DEF Sides, Writes, Between
  <2> QED
    BY <2>1, <2>2, <2>3 DEF OneIdPerValue, Sides, Occupied
<1> QED
  BY <1>1, IInvHolds, PTL

-----------------------------------------------------------------------------
LEMMA InitRefines == Init => Atomic!Init
<1> SUFFICES ASSUME Init PROVE Atomic!Init
  OBVIOUS
<1>1. \A id \in DOMAIN Reserved : entries[id] = Reserved[id]
  BY ReservedAssumption DEF Init, Ids
<1>2. [id \in keys |-> entries[id]] = Reserved
  BY <1>1, ReservedAssumption DEF Init
<1> QED
  BY <1>2 DEF Init, Atomic!Init, Atomic!T!Init

\* Steps that leave the table, the calls and the answers are not seen.
LEMMA NotSeen ==
    ASSUME UNCHANGED <<keys, request, answer>>, \A id \in keys : entries'[id] = entries[id]
    PROVE  UNCHANGED Atomic!vars
<1>1. [id \in keys |-> entries[id]]' = [id \in keys |-> entries[id]]
  OBVIOUS
<1> QED
  BY <1>1 DEF Atomic!vars

\* The steps in which a call takes effect.
LEMMA TakesEffect ==
    ASSUME IInv, NEW t \in Threads, NEW result \in Results,
           request[t] # NoRequest, answer[t] = NoAnswer, UNCHANGED request,
           answer' = [answer EXCEPT ![t] = result], Atomic!Effect(request[t], result)
    PROVE  Atomic!Next
<1>1. Atomic!TakeEffect(t)
  BY DEF Atomic!TakeEffect, Results, Ids, NullId, Atomic!Ids, Atomic!NullId
<1> QED
  BY <1>1 DEF Atomic!Next

\* What a lookup in the map answers is what the table says.
LEMMA LookupEffect ==
    ASSUME IInv, NEW t \in Threads, request[t] \in RequestsOn(Ids),
           request[t].op \in {"find_or_make_id", "find_id"},
           request[t].op = "find_or_make_id" => LookupId(request[t].arg) # NullId,
           UNCHANGED <<entries, keys>>
    PROVE  Atomic!Effect(request[t], LookupId(request[t].arg))
<1> DEFINE v == request[t].arg
<1>1. v \in Values /\ Types
  BY RequestKinds DEF IInv
<1>2. \/ LookupId(v) \in keys /\ LookupId(v) \in Ids /\ LookupId(v) # NullId
           /\ entries[LookupId(v)] = v
      \/ LookupId(v) = NullId /\ \A id \in keys : entries[id] # v
  BY <1>1, LookupFinds
<1>3. [id \in keys |-> entries[id]]' = [id \in keys |-> entries[id]]
  OBVIOUS
<1> HIDE DEF v
<1>4. CASE request[t].op = "find_or_make_id"
  <2>1. LookupId(v) \in Ids /\ LookupId(v) \in keys /\ entries[LookupId(v)] = v
    BY <1>2, <1>4 DEF v
  <2>2. Atomic!T!FindOrMakeId(v, LookupId(v))
    BY <1>3, <2>1 DEF Atomic!T!FindOrMakeId
  <2> QED
    BY <1>4, <2>1, <2>2 DEF Atomic!Effect, v, Atomic!Ids, Ids
<1>5. CASE request[t].op = "find_id"
  BY <1>2, <1>3, <1>5 DEF Atomic!Effect, v, Atomic!NullId, NullId
<1> QED
  BY <1>4, <1>5

\* With nobody between the two sides, an id has a key when it has a value.
LEMMA NobodyBetween ==
    ASSUME IInv, NEW t \in Threads, pc[t] \in {"lookup", "write"}
    PROVE  keys = Occupied
<1>1. \A u \in Threads : ~Between(u)
  BY NothingAssumption DEF IInv, Mutex, Writes, Between
<1> QED
  BY <1>1 DEF IInv, Sides

LEMMA LookupRefines ==
    ASSUME IInv, NEW t \in Threads, Lookup(t)
    PROVE  Atomic!Next \/ UNCHANGED Atomic!vars
<1> DEFINE r == request[t]
<1>0. /\ Types /\ r \in RequestsOn(Ids) /\ r # NoRequest /\ answer[t] = NoAnswer /\ pc[t] = "lookup"
      /\ UNCHANGED <<entries, keys, request>>
  BY NoRequestAssumption DEF IInv, Types, Places, PlaceOf, Lookup
<1>1. r.op \in {"find_or_make_id", "find_id"} => LookupId(r.arg) \in Results
  BY <1>0, RequestKinds, LookupFinds DEF Results
<1>2. CASE LookupHit(t) \/ (LookupMiss(t) /\ r.op = "find_id")
  <2>1. /\ r.op \in {"find_or_make_id", "find_id"}
        /\ r.op = "find_or_make_id" => LookupId(r.arg) # NullId
        /\ answer' = [answer EXCEPT ![t] = LookupId(r.arg)]
    BY <1>2 DEF LookupHit, LookupMiss, Answer
  <2>2. Atomic!Effect(r, LookupId(r.arg))
    BY <1>0, <2>1, LookupEffect
  <2> QED
    BY <1>0, <1>1, <2>1, <2>2, TakesEffect
<1>3. CASE LookupMiss(t) /\ r.op = "find_or_make_id"
  <2>1. UNCHANGED answer
    BY <1>3 DEF LookupMiss
  <2> QED
    BY <1>0, <2>1, NotSeen
<1>4. CASE LookupBackend(t)
  <2> DEFINE result == IF entries[r.arg] = Nothing THEN DefaultView ELSE entries[r.arg]
  <2>1. r.op = "find_backend" /\ answer' = [answer EXCEPT ![t] = result] /\ r.arg \in Ids
    BY <1>0, <1>4, RequestKinds DEF LookupBackend, Answer
  <2>2. result \in Results
    BY <1>0, <2>1 DEF Types, Results
  <2>3. r.arg \in keys <=> entries[r.arg] # Nothing
    BY <1>0, <2>1, NobodyBetween DEF Occupied
  <2>4. [id \in keys |-> entries[id]]' = [id \in keys |-> entries[id]]
    BY <1>0
  <2>5. Atomic!Effect(r, result)
    BY <2>1, <2>3, <2>4 DEF Atomic!Effect
  <2> QED
    BY <1>0, <2>1, <2>2, <2>5, TakesEffect
<1> QED
  BY <1>2, <1>3, <1>4 DEF Lookup, LookupMiss

LEMMA InsertKeyRefines ==
    ASSUME IInv, NEW t \in Threads, InsertKey(t)
    PROVE  Atomic!Next
<1> DEFINE r == request[t]
<1>1. PICK id : /\ Pending(t, id) /\ entries[id] = r.arg
                /\ keys' = keys \union {id} /\ answer' = [answer EXCEPT ![t] = id]
  BY InsertedId DEF InsertKey, Goto, Answer
<1>2. /\ Types /\ Finds(r) /\ r # NoRequest /\ answer[t] = NoAnswer
      /\ UNCHANGED <<entries, request>>
  BY DEF IInv, Places, PlaceOf, InsertKey, Goto
<1>3. id \in Ids /\ id \in Results /\ id >= MinId /\ id \notin keys
  BY <1>1 DEF Pending, Results
<1>4. \A other \in keys : entries[other] # r.arg
  BY <1>1, <1>2, <1>3, NothingAssumption DEF IInv, Sides, Types, Finds
<1>5. [i \in keys |-> entries[i]]' =
          [i \in keys \union {id} |-> IF i = id THEN r.arg ELSE [j \in keys |-> entries[j]][i]]
  BY <1>1, <1>2
<1>6. Atomic!T!FindOrMakeId(r.arg, id)
  BY <1>3, <1>4, <1>5 DEF Atomic!T!FindOrMakeId
<1>7. Atomic!Effect(r, id)
  BY <1>2, <1>3, <1>6 DEF Atomic!Effect, Finds, Atomic!Ids, Ids
<1> QED
  BY <1>1, <1>2, <1>3, <1>7, TakesEffect

LEMMA EraseRefines ==
    ASSUME IInv, NEW t \in Threads, EraseRefused(t) \/ EraseAbsent(t) \/ EraseKey(t)
    PROVE  Atomic!Next
<1> DEFINE r == request[t]
<1>1. Types /\ r.op = "erase" /\ r # NoRequest /\ answer[t] = NoAnswer /\ UNCHANGED <<entries, request>>
  BY DEF IInv, Places, PlaceOf, EraseRefused, EraseAbsent, EraseKey, Goto
<1>2. r.arg \in Ids
  BY <1>1, RequestKinds DEF Types
<1>3. CASE EraseRefused(t) \/ EraseAbsent(t)
  <2>1. answer' = [answer EXCEPT ![t] = NotErased] /\ UNCHANGED keys
    BY <1>3 DEF EraseRefused, EraseAbsent, Answer
  <2>2. r.arg \notin keys \/ r.arg < MinId
    <3>1. CASE EraseRefused(t)
      BY <3>1 DEF IInv, Places, PlaceOf, EraseRefused, Goto
    <3>2. CASE EraseAbsent(t)
      BY <3>2, NobodyBetween DEF EraseAbsent, Occupied
    <3> QED
      BY <1>3, <3>1, <3>2
  <2>3. [i \in keys |-> entries[i]]' = [i \in keys |-> entries[i]]
    BY <1>1, <2>1
  <2>4. Atomic!Effect(r, NotErased)
    BY <1>1, <2>2, <2>3 DEF Atomic!Effect
  <2> QED
    BY <1>1, <2>1, <2>4, TakesEffect DEF Results
<1>4. CASE EraseKey(t)
  <2>1. /\ pc[t] = "write" /\ entries[r.arg] # Nothing /\ keys' = keys \ {r.arg}
        /\ answer' = [answer EXCEPT ![t] = Erased]
    BY <1>4 DEF EraseKey, Answer
  <2>2. r.arg \in keys
    BY <1>2, <2>1, NobodyBetween DEF Occupied
  <2>3. r.arg >= MinId
    BY <1>1, <2>1 DEF IInv, Places, PlaceOf, Finds, Erases
  <2>4. [i \in keys |-> entries[i]]' = [i \in keys \ {r.arg} |-> [j \in keys |-> entries[j]][i]]
    BY <1>1, <2>1
  <2>5. Atomic!T!Erase(r.arg)
    BY <2>2, <2>3, <2>4 DEF Atomic!T!Erase
  <2>6. Atomic!Effect(r, Erased)
    BY <1>1, <2>5 DEF Atomic!Effect
  <2> QED
    BY <1>1, <2>1, <2>6, TakesEffect DEF Results
<1> QED
  BY <1>3, <1>4

LEMMA StepRefines == IInv /\ [Next]_vars => [Atomic!Next]_(Atomic!vars)
<1> SUFFICES ASSUME IInv, [Next]_vars PROVE Atomic!Next \/ UNCHANGED Atomic!vars
  BY DEF Atomic!vars
<1>1. CASE UNCHANGED vars
  BY <1>1, NotSeen DEF vars
<1> SUFFICES ASSUME NEW t \in Threads, Step(t) \/ \E r \in RequestsOn(issued) : Call(t, r)
             PROVE  Atomic!Next \/ UNCHANGED Atomic!vars
  BY <1>1 DEF Next
<1>2. Types /\ PlaceOf(t)
  BY DEF IInv, Places
<1>3. ASSUME NEW r \in RequestsOn(issued), Call(t, r) PROVE Atomic!Next
  <2>1. r \in RequestsOn(Ids)
    BY <1>2, RequestsGrow DEF Types
  <2>2. r \in Atomic!Requests
    BY <2>1 DEF RequestsOn, Atomic!Requests, Ids, NullId, Atomic!Ids, Atomic!NullId
  <2>3. request[t] = NoRequest /\ request' = [request EXCEPT ![t] = r]
        /\ UNCHANGED <<entries, keys, answer>>
    BY <1>2, <1>3 DEF Call, PlaceOf
  <2>4. Atomic!Call(t, r)
    BY <2>3 DEF Atomic!Call
  <2> QED
    BY <2>2, <2>4 DEF Atomic!Next
<1>4. CASE Return(t)
  <2>1. pc[t] = "return" /\ request[t] \in RequestsOn(Ids)
    BY <1>2, <1>4 DEF Return, PlaceOf, Types
  <2>2. answer[t] # NoAnswer
    BY <1>2, <2>1, AnswersAreResults DEF PlaceOf
  <2>3. Atomic!Return(t)
    BY <1>4, <2>2 DEF Return, Atomic!Return
  <2> QED
    BY <2>3 DEF Atomic!Next
<1>5. CASE LockShared(t) \/ LockUnique(t)
  BY <1>5, NotSeen DEF LockShared, LockUnique
<1>6. CASE Lookup(t)
  BY <1>6, LookupRefines
<1>7. CASE FoundAfterAll(t)
  <2> DEFINE r == request[t]
  <2>1. /\ r \in RequestsOn(Ids) /\ r # NoRequest /\ answer[t] = NoAnswer
        /\ r.op = "find_or_make_id" /\ LookupId(r.arg) # NullId
        /\ answer' = [answer EXCEPT ![t] = LookupId(r.arg)] /\ UNCHANGED <<entries, keys, request>>
    BY <1>2, <1>7, NoRequestAssumption DEF FoundAfterAll, StillAbsent, Answer, PlaceOf, Types
  <2>2. LookupId(r.arg) \in Results
    BY <1>2, <2>1, RequestKinds, LookupFinds DEF Results
  <2>3. Atomic!Effect(r, LookupId(r.arg))
    BY <2>1, LookupEffect
  <2> QED
    BY <2>1, <2>2, <2>3, TakesEffect
<1>8. CASE InsertValue(t)
  <2>1. LeastFreeId \notin keys
    BY <1>8, LeastFreeIsFree, NobodyBetween DEF InsertValue, FreeIds, Occupied
  <2>2. \A id \in keys : entries'[id] = entries[id]
    BY <1>2, <1>8, <2>1 DEF InsertValue, Types
  <2> QED
    BY <1>8, <2>2, NotSeen DEF InsertValue
<1>9. CASE InsertKey(t)
  BY <1>9, InsertKeyRefines
<1>10. CASE EraseRefused(t) \/ EraseAbsent(t) \/ EraseKey(t)
  BY <1>10, EraseRefines
<1>11. CASE EraseValue(t)
  <2>1. request[t].arg \notin keys
    BY <1>11 DEF IInv, Sides, Pending, EraseValue, Goto
  <2>2. \A id \in keys : entries'[id] = entries[id]
    BY <1>2, <1>11, <2>1 DEF EraseValue, Types
  <2> QED
    BY <1>11, <2>2, NotSeen DEF EraseValue
<1>12. CASE Shrink(t)
  <2> DEFINE r == request[t]
  <2>1. /\ r # NoRequest /\ answer[t] = NoAnswer /\ r.op = "shrink_to_fit"
        /\ answer' = [answer EXCEPT ![t] = Done] /\ UNCHANGED <<entries, keys, request>>
    BY <1>2, <1>12 DEF Shrink, Answer, PlaceOf
  <2>2. [id \in keys |-> entries[id]]' = [id \in keys |-> entries[id]]
    BY <2>1
  <2>3. Atomic!Effect(r, Done)
    BY <2>1, <2>2 DEF Atomic!Effect
  <2> QED
    BY <2>1, <2>3, TakesEffect DEF Results
<1> QED
  BY <1>3, <1>4, <1>5, <1>6, <1>7, <1>8, <1>9, <1>10, <1>11, <1>12 DEF Step

\* The storage with its mutex, the two looks of find_or_make_id and the two
\* writes of each change implements the storage whose calls are atomic.
THEOREM CallsAreAtomic == Spec => Linearizable
<1> QED
  BY InitRefines, StepRefines, IInvHolds, PTL DEF Spec, Linearizable, Atomic!Spec
=============================================================================
