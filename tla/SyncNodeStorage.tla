--------------------------- MODULE SyncNodeStorage ---------------------------
(***************************************************************************)
(* One store of SyncReferenceNodeStorage: a map behind a std::shared_mutex  *)
(* and the threads that call it.  A call takes the mutex once (find_id, the *)
(* backend lookups, erase, shrink_to_fit) or twice (find_or_make_id: shared *)
(* to look, then unique to look again and insert); between the two other    *)
(* threads run.  Insert and erase write the two sides of the map one after  *)
(* the other, so a reader inside the mutex would see them differ.           *)
(*                                                                         *)
(* The map is kept here as NodeTypeStorage leaves it: an entry per id, the  *)
(* set of the ids that have a key in backward_, and new ids are the least   *)
(* that are free.                                                          *)
(***************************************************************************)
EXTENDS Integers, FiniteSets

CONSTANTS
    Threads,
    Values,
    Nothing,    \* no value, no thread
    MinId,
    Reserved,
    MaxIx,      \* bound of the model: ids are 1 .. MaxIx
    MaxCalls,   \* bound of the model: calls made altogether
    NoRequest,  \* the thread is outside the storage
    NoAnswer,   \* its call has no result yet
    DefaultView, Erased, NotErased, Done \* results, as in NodeStorage

ASSUME IdsAssumption == MinId \in Nat \ {0} /\ MaxIx \in Nat /\ MaxCalls \in Nat
ASSUME NothingAssumption == Nothing \notin Values \union Threads
ASSUME ReservedAssumption ==
    /\ DOMAIN Reserved \subseteq {id \in 1 .. MaxIx : id < MinId}
    /\ Reserved \in [DOMAIN Reserved -> Values]
    /\ \A i, j \in DOMAIN Reserved : Reserved[i] = Reserved[j] => i = j

VARIABLES
    entries, \* forward_: id -> value or Nothing
    keys,    \* backward_: the ids that can be found by their value
    readers, \* the threads that hold the mutex shared
    writer,  \* the thread that holds it unique, or Nothing
    pc,      \* what each thread does next
    request, \* the call each thread is in
    answer,  \* its result, once there is one
    issued,  \* the ids that were ever handed out
    calls    \* the calls made so far

vars == <<entries, keys, readers, writer, pc, request, answer, issued, calls>>

Ids == 1 .. MaxIx
NullId == 0

LookupId(v) ==
    IF \E id \in keys : entries[id] = v
    THEN CHOOSE id \in keys : entries[id] = v
    ELSE NullId

FreeIds == {id \in Ids : id >= MinId /\ entries[id] = Nothing}
LeastFreeId == CHOOSE id \in FreeIds : \A other \in FreeIds : id <= other

Init ==
    /\ entries = [id \in Ids |-> IF id \in DOMAIN Reserved THEN Reserved[id] ELSE Nothing]
    /\ keys = DOMAIN Reserved
    /\ readers = {} /\ writer = Nothing
    /\ pc = [t \in Threads |-> "idle"]
    /\ request = [t \in Threads |-> NoRequest]
    /\ answer = [t \in Threads |-> NoAnswer]
    /\ issued = DOMAIN Reserved
    /\ calls = 0

-----------------------------------------------------------------------------
(***************************************************************************)
(* Entering and leaving the storage, and the mutex.                         *)
(***************************************************************************)
RequestsOn(ids) ==
    [op : {"find_or_make_id", "find_id"}, arg : Values]
        \union [op : {"find_backend", "erase"}, arg : ids]
        \union [op : {"shrink_to_fit"}, arg : {NullId}]

\* What stands for no call and no result is not one.
ASSUME NoRequestAssumption == NoRequest \notin RequestsOn(Ids)
ASSUME NoAnswerAssumption ==
    NoAnswer \notin Values \union Ids \union {NullId, DefaultView, Erased, NotErased, Done}

ReadsFirst(r) == r.op \in {"find_or_make_id", "find_id", "find_backend"}

Call(t, r) ==
    /\ pc[t] = "idle"
    /\ calls < MaxCalls
    /\ calls' = calls + 1
    /\ request' = [request EXCEPT ![t] = r]
    /\ pc' = [pc EXCEPT ![t] = IF ReadsFirst(r) THEN "lock_shared"
                               ELSE IF r.op = "erase" /\ r.arg < MinId THEN "refuse"
                               ELSE "lock_unique"]
    /\ UNCHANGED <<entries, keys, readers, writer, answer, issued>>

Return(t) ==
    /\ pc[t] = "return"
    /\ pc' = [pc EXCEPT ![t] = "idle"]
    /\ issued' = IF answer[t] \in Ids THEN issued \union {answer[t]} ELSE issued
    /\ request' = [request EXCEPT ![t] = NoRequest]
    /\ answer' = [answer EXCEPT ![t] = NoAnswer]
    /\ UNCHANGED <<entries, keys, readers, writer, calls>>

Goto(t, from, to) ==
    /\ pc[t] = from
    /\ pc' = [pc EXCEPT ![t] = to]

Answer(t, result) == answer' = [answer EXCEPT ![t] = result]

LockShared(t) ==
    /\ Goto(t, "lock_shared", "lookup")
    /\ writer = Nothing
    /\ readers' = readers \union {t}
    /\ UNCHANGED <<entries, keys, writer, request, answer, issued, calls>>

\* Mutation: the unique lock is granted while others hold the mutex shared.
BesideReaders == writer = Nothing
UniqueAvailable == writer = Nothing /\ readers = {}

LockUnique(t) ==
    /\ Goto(t, "lock_unique", "write")
    /\ UniqueAvailable
    /\ writer' = t
    /\ UNCHANGED <<entries, keys, readers, request, answer, issued, calls>>

\* The unlock at the end of each scope is part of the step that ends it.
\* Mutation: the shared lock is never given back.
KeepShared(t) == UNCHANGED <<readers, writer>>
UnlockShared(t) == readers' = readers \ {t} /\ UNCHANGED writer
UnlockUnique == writer' = Nothing /\ UNCHANGED readers

-----------------------------------------------------------------------------
(***************************************************************************)
(* The shared scope of lookup_or_insert_impl and of find_backend_view.      *)
(***************************************************************************)
LookupHit(t) ==
    /\ request[t].op \in {"find_or_make_id", "find_id"}
    /\ LookupId(request[t].arg) # NullId
    /\ Goto(t, "lookup", "return")
    /\ Answer(t, LookupId(request[t].arg))

LookupMiss(t) ==
    /\ LookupId(request[t].arg) = NullId
    /\ \/ /\ request[t].op = "find_id"
          /\ Goto(t, "lookup", "return")
          /\ Answer(t, NullId)
       \/ /\ request[t].op = "find_or_make_id"
          /\ Goto(t, "lookup", "lock_unique")
          /\ UNCHANGED answer

LookupBackend(t) ==
    LET value == entries[request[t].arg]
    IN  /\ request[t].op = "find_backend"
        /\ Goto(t, "lookup", "return")
        /\ Answer(t, IF value = Nothing THEN DefaultView ELSE value)

Lookup(t) ==
    /\ pc[t] = "lookup"
    /\ LookupHit(t) \/ LookupMiss(t) \/ LookupBackend(t)
    /\ UnlockShared(t)
    /\ UNCHANGED <<entries, keys, request, issued, calls>>

(***************************************************************************)
(* The unique scope of lookup_or_insert_impl: look again, the value may     *)
(* have come while no lock was held; insert the value, then its key.        *)
(***************************************************************************)
\* Mutation: no second look, the miss under the shared lock is taken as final.
TakeMissAsFinal(v) == TRUE
StillAbsent(v) == LookupId(v) = NullId

FoundAfterAll(t) ==
    /\ pc[t] = "write" /\ request[t].op = "find_or_make_id"
    /\ ~StillAbsent(request[t].arg)
    /\ Goto(t, "write", "return")
    /\ Answer(t, LookupId(request[t].arg))
    /\ UnlockUnique
    /\ UNCHANGED <<entries, keys, request, issued, calls>>

InsertValue(t) ==
    /\ pc[t] = "write" /\ request[t].op = "find_or_make_id"
    /\ StillAbsent(request[t].arg)
    /\ FreeIds # {}
    /\ Goto(t, "write", "insert_key")
    /\ entries' = [entries EXCEPT ![LeastFreeId] = request[t].arg]
    /\ UNCHANGED <<keys, readers, writer, request, answer, issued, calls>>

InsertKey(t) ==
    LET id == CHOOSE id \in Ids : entries[id] = request[t].arg /\ id \notin keys
    IN  /\ Goto(t, "insert_key", "return")
        /\ keys' = keys \union {id}
        /\ Answer(t, id)
        /\ UnlockUnique
        /\ UNCHANGED <<entries, request, issued, calls>>

(***************************************************************************)
(* erase_impl, the key first and then the value; erase_iri refuses the      *)
(* fixed datatypes before it takes the mutex.                               *)
(***************************************************************************)
EraseRefused(t) ==
    /\ Goto(t, "refuse", "return")
    /\ Answer(t, NotErased)
    /\ UNCHANGED <<entries, keys, readers, writer, request, issued, calls>>

EraseAbsent(t) ==
    /\ pc[t] = "write" /\ request[t].op = "erase"
    /\ entries[request[t].arg] = Nothing
    /\ Goto(t, "write", "return")
    /\ Answer(t, NotErased)
    /\ UnlockUnique
    /\ UNCHANGED <<entries, keys, request, issued, calls>>

EraseKey(t) ==
    /\ pc[t] = "write" /\ request[t].op = "erase"
    /\ entries[request[t].arg] # Nothing
    /\ Goto(t, "write", "erase_value")
    /\ keys' = keys \ {request[t].arg}
    /\ Answer(t, Erased)
    /\ UNCHANGED <<entries, readers, writer, request, issued, calls>>

EraseValue(t) ==
    /\ Goto(t, "erase_value", "return")
    /\ entries' = [entries EXCEPT ![request[t].arg] = Nothing]
    /\ UnlockUnique
    /\ UNCHANGED <<keys, request, answer, issued, calls>>

\* shrink_to_fit moves spare capacity only.
Shrink(t) ==
    /\ pc[t] = "write" /\ request[t].op = "shrink_to_fit"
    /\ Goto(t, "write", "return")
    /\ Answer(t, Done)
    /\ UnlockUnique
    /\ UNCHANGED <<entries, keys, request, issued, calls>>

Step(t) ==
    \/ Return(t) \/ LockShared(t) \/ LockUnique(t) \/ Lookup(t)
    \/ FoundAfterAll(t) \/ InsertValue(t) \/ InsertKey(t)
    \/ EraseRefused(t) \/ EraseAbsent(t) \/ EraseKey(t) \/ EraseValue(t) \/ Shrink(t)

Next == \E t \in Threads : Step(t) \/ \E r \in RequestsOn(issued) : Call(t, r)

Spec == Init /\ [][Next]_vars

\* The scheduler runs every thread, and the mutex is granted when it stays free.
Fairness == \A t \in Threads : WF_vars(Step(t))
FairSpec == Spec /\ Fairness

-----------------------------------------------------------------------------
(***************************************************************************)
(* Properties.                                                             *)
(***************************************************************************)
AnswersTo(r) ==
    CASE r.op = "find_or_make_id" -> Ids
      [] r.op = "find_id" -> Ids \union {NullId}
      [] r.op = "find_backend" -> Values \union {DefaultView}
      [] r.op = "erase" -> {Erased, NotErased}
      [] r.op = "shrink_to_fit" -> {Done}

\* Every variable in its range; a call is answered in the range of its
\* operation: find_or_make_id, in particular, never with the null id.
TypeOK ==
    /\ entries \in [Ids -> Values \union {Nothing}]
    /\ keys \subseteq Ids /\ issued \subseteq Ids
    /\ readers \subseteq Threads /\ writer \in Threads \union {Nothing}
    /\ pc \in [Threads -> {"idle", "lock_shared", "lookup", "lock_unique", "write",
                           "insert_key", "erase_value", "refuse", "return"}]
    /\ calls \in 0 .. MaxCalls
    /\ \A t \in Threads :
          IF pc[t] = "idle"
          THEN request[t] = NoRequest /\ answer[t] = NoAnswer
          ELSE /\ request[t] \in RequestsOn(Ids)
               /\ pc[t] = "return" => answer[t] \in AnswersTo(request[t])

\* No two threads ever make the same node twice: two threads that miss the same
\* value under the shared lock must not both insert it, and a reader must never
\* be inside the mutex while the two sides of the map differ.
OneIdPerValue ==
    /\ TypeOK
    /\ \A i, j \in Ids : entries[i] = entries[j] /\ entries[i] # Nothing => i = j
    /\ readers # {} => keys = {id \in Ids : entries[id] # Nothing}

\* Every call takes effect at one moment between request and answer, on a table
\* with one id per value (linearizability of SyncReferenceNodeStorage).
Atomic == INSTANCE NodeStorage WITH table <- [id \in keys |-> entries[id]]
Linearizable == Atomic!Spec

\* Every call is answered: no thread waits for the mutex for ever.
CallsReturn == \A t \in Threads : pc[t] # "idle" ~> pc[t] = "idle"
=============================================================================
