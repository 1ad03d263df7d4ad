----------------------------- MODULE NodeStorage -----------------------------
(***************************************************************************)
(* What a thread-safe node storage promises (the NodeStorage concept of     *)
(* storage/NodeStorage.hpp): every call takes effect at one moment between  *)
(* its request and its answer, on one interning table.                      *)
(***************************************************************************)
EXTENDS Integers

CONSTANTS
    Threads, Values, MinId, Reserved, MaxIx,
    NoRequest,  \* the thread is outside the storage
    NoAnswer,   \* the call has not taken effect yet
    DefaultView, \* the view handed out for an id that identifies nothing
    Erased, NotErased, \* the results of erase_*: true and false
    Done               \* the end of a call without a result

VARIABLES
    table,   \* id -> value
    request, \* per thread: [op, arg] or NoRequest
    answer   \* per thread: the result of the call, or NoAnswer

vars == <<table, request, answer>>

T == INSTANCE InternTable

Ids == 1 .. MaxIx
NullId == 0

Requests ==
    [op : {"find_or_make_id", "find_id"}, arg : Values]
        \union [op : {"find_backend", "erase"}, arg : Ids]
        \union [op : {"shrink_to_fit"}, arg : {NullId}]

Init ==
    /\ T!Init
    /\ request = [t \in Threads |-> NoRequest]
    /\ answer = [t \in Threads |-> NoAnswer]

Call(t, r) ==
    /\ request[t] = NoRequest
    /\ request' = [request EXCEPT ![t] = r]
    /\ UNCHANGED <<table, answer>>

Return(t) ==
    /\ answer[t] # NoAnswer
    /\ request' = [request EXCEPT ![t] = NoRequest]
    /\ answer' = [answer EXCEPT ![t] = NoAnswer]
    /\ UNCHANGED table

\* The effect of a call on the table, and its result.
Effect(r, result) ==
    \/ /\ r.op = "find_or_make_id"
       /\ result \in Ids
       /\ T!FindOrMakeId(r.arg, result)
    \/ /\ r.op = "find_id"
       /\ \/ result \in DOMAIN table /\ table[result] = r.arg
          \/ result = NullId /\ \A id \in DOMAIN table : table[id] # r.arg
       /\ UNCHANGED table
    \/ /\ r.op = "find_backend"
       /\ result = IF r.arg \in DOMAIN table THEN table[r.arg] ELSE DefaultView
       /\ UNCHANGED table
    \/ /\ r.op = "erase"
       /\ \/ result = Erased /\ T!Erase(r.arg)
          \/ /\ result = NotErased
             /\ r.arg \notin DOMAIN table \/ r.arg < MinId
             /\ UNCHANGED table
    \/ /\ r.op = "shrink_to_fit"
       /\ result = Done
       /\ UNCHANGED table

TakeEffect(t) ==
    /\ request[t] # NoRequest
    /\ answer[t] = NoAnswer
    /\ \E result \in Ids \union {NullId, Erased, NotErased, Done, DefaultView} \union Values :
           /\ Effect(request[t], result)
           /\ answer' = [answer EXCEPT ![t] = result]
    /\ UNCHANGED request

Next ==
    \E t \in Threads :
        \/ \E r \in Requests : Call(t, r)
        \/ TakeEffect(t)
        \/ Return(t)

Spec == Init /\ [][Next]_vars
=============================================================================
