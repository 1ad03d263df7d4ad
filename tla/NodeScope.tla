------------------------------ MODULE NodeScope ------------------------------
(***************************************************************************)
(* Blank node scopes (bnode_mngt/): a scope translates the labels of a      *)
(* document to generated blank nodes, under a std::shared_mutex, a manager  *)
(* chooses the scope by the name of the graph, and a generator makes the    *)
(* nodes.                                                                  *)
(*                                                                         *)
(* get_or_generate_node takes the mutex twice: shared for the look, unique  *)
(* for the insertion, with the generation in between.  Each critical        *)
(* section is one step, so is the atomic fetch_add of the generator.        *)
(*                                                                         *)
(* Both generators number what they make: IncreasingIdGenerator appends the *)
(* number to its prefix, RandomIdGenerator is a function of its seed and    *)
(* the number of the draw.  A node is the pair of the two.                  *)
(***************************************************************************)
EXTENDS Integers

CONSTANTS
    Threads,
    Names,        \* the names scopes are asked for by
    Labels,
    None,         \* the null node, no label, no call
    Managers,     \* "merge": MergeNodeScopeManager, "union": UnionNodeScopeManager
    Seed,         \* the prefix or the seed of the generator of each scope
    InitialValue, \* the first number of each generator
    CounterMod,   \* 2^w for a counter of w bits
    IdLimit,      \* 10^digits10: the numbers below it fit into the buffer
    MaxCalls      \* bound of the model: calls made altogether

ASSUME ManagerAssumption == Managers \subseteq {"merge", "union"}
ASSUME CounterAssumption ==
    /\ CounterMod \in Nat \ {0} /\ IdLimit \in Nat /\ MaxCalls \in Nat
    /\ InitialValue \in 0 .. CounterMod - 1
    /\ IdLimit < CounterMod
ASSUME SeedAssumption ==
    \A name, other \in Names : Seed[name] = Seed[other] => name = other
ASSUME NoneAssumption ==
    \A n \in 0 .. CounterMod - 1 :
        /\ None # <<0, n>>
        /\ \A name \in Names : None # <<Seed[name], n>>

VARIABLES
    manager,       \* the manager in use, it never changes
    counter,       \* counter_ of the generator of each scope
    labelToHandle, \* label_to_handle_: label -> node, or None
    handleToLabel, \* handle_to_label_: the pairs <<node, label>>
    pc, request,   \* what each thread does next, and the call it is in
    node,          \* the node it has made or found
    given,         \* <<scope, label, node>> answered since the scope was cleared
    calls

vars == <<manager, counter, labelToHandle, handleToLabel, pc, request, node, given, calls>>

(***************************************************************************)
(* The managers: a scope per name, or one scope for all names.              *)
(***************************************************************************)
Scopes == IF manager = "merge" THEN Names ELSE {"union"}

Scope(name) == IF manager = "merge" THEN name ELSE "union"

SeedOf(scope) == IF manager = "merge" THEN Seed[scope] ELSE 0

Init ==
    /\ manager \in Managers
    /\ counter = [s \in Scopes |-> InitialValue]
    /\ labelToHandle = [s \in Scopes |-> [l \in Labels |-> None]]
    /\ handleToLabel = [s \in Scopes |-> {}]
    /\ pc = [t \in Threads |-> "idle"]
    /\ request = [t \in Threads |-> None]
    /\ node = [t \in Threads |-> None]
    /\ given = {}
    /\ calls = 0

-----------------------------------------------------------------------------
Goto(t, from, to) ==
    /\ pc[t] = from
    /\ pc' = [pc EXCEPT ![t] = to]

Call(t, name, label) ==
    /\ Goto(t, "idle", "try_get")
    /\ calls < MaxCalls /\ calls' = calls + 1
    /\ request' = [request EXCEPT ![t] = [scope |-> Scope(name), label |-> label]]
    /\ UNCHANGED <<manager, counter, labelToHandle, handleToLabel, node, given>>

\* Leaving get_or_generate_node with the node n: the call is over.
Answer(t, n) == given' = given \union {<<request[t].scope, request[t].label, n>>}
Leave(t) ==
    /\ request' = [request EXCEPT ![t] = None]
    /\ node' = [node EXCEPT ![t] = None]

IsNode(n) == n # None

\* try_get_node found the label.
Found(t) ==
    LET found == labelToHandle[request[t].scope][request[t].label]
    IN  /\ Goto(t, "try_get", "idle")
        /\ IsNode(found)
        /\ Answer(t, found) /\ Leave(t)
        /\ UNCHANGED <<manager, counter, labelToHandle, handleToLabel, calls>>

\* try_get_node did not: the mutex is free while the node is generated.
NotFound(t) ==
    /\ Goto(t, "try_get", "generate")
    /\ ~IsNode(labelToHandle[request[t].scope][request[t].label])
    /\ UNCHANGED <<manager, counter, labelToHandle, handleToLabel, request, node, given, calls>>

(***************************************************************************)
(* generate(): the counter is read and increased in one atomic operation;   *)
(* the assertion after to_chars aborts when the number does not fit.        *)
(***************************************************************************)
NextCounter(c) == (c + 1) % CounterMod

\* Mutation: the counter is read and not increased.
SameCounter(s) == UNCHANGED counter
FetchAdd(s) == counter' = [counter EXCEPT ![s] = NextCounter(@)]

IdFits(c) == c < IdLimit

Generate(t) ==
    LET s == request[t].scope
    IN  /\ Goto(t, "generate", "emplace")
        /\ IdFits(counter[s])
        /\ node' = [node EXCEPT ![t] = <<SeedOf(s), counter[s]>>]
        /\ FetchAdd(s)
        /\ UNCHANGED <<manager, labelToHandle, handleToLabel, request, given, calls>>

\* emplace under the unique lock: the label is new.
\* Mutation: insert_or_assign instead of emplace.
Replaceable(s, l) == TRUE
Unlabeled(s, l) == labelToHandle[s][l] = None

Emplace(t) ==
    LET s == request[t].scope
        l == request[t].label
    IN  /\ Goto(t, "emplace", "idle")
        /\ Unlabeled(s, l)
        /\ labelToHandle' = [labelToHandle EXCEPT ![s][l] = node[t]]
        /\ handleToLabel' = [handleToLabel EXCEPT ![s] = @ \union {<<node[t], l>>}]
        /\ Answer(t, node[t]) /\ Leave(t)
        /\ UNCHANGED <<manager, counter, calls>>

\* std::logic_error{"Node already labeled"}; the caller gets no node.
AlreadyLabeled(t) ==
    /\ Goto(t, "emplace", "thrown")
    /\ ~Unlabeled(request[t].scope, request[t].label)
    /\ UNCHANGED <<manager, counter, labelToHandle, handleToLabel, request, node, given, calls>>

Catch(t) ==
    /\ Goto(t, "thrown", "idle")
    /\ Leave(t)
    /\ UNCHANGED <<manager, counter, labelToHandle, handleToLabel, given, calls>>

\* clear() of a scope; the nodes stay in the storage, the generator goes on.
\* Mutation: handle_to_label_ is forgotten.
ClearedLabels(s) == handleToLabel
ClearedHandles(s) == [handleToLabel EXCEPT ![s] = {}]

Clear(s) ==
    /\ calls < MaxCalls /\ calls' = calls + 1
    /\ labelToHandle' = [labelToHandle EXCEPT ![s] = [l \in Labels |-> None]]
    /\ handleToLabel' = ClearedHandles(s)
    /\ given' = {g \in given : g[1] # s}
    /\ UNCHANGED <<manager, counter, pc, request, node>>

Next ==
    \/ \E t \in Threads :
          \/ \E name \in Names, label \in Labels : Call(t, name, label)
          \/ Found(t) \/ NotFound(t) \/ Generate(t) \/ Emplace(t)
          \/ AlreadyLabeled(t) \/ Catch(t)
    \/ \E s \in Scopes : Clear(s)

Spec == Init /\ [][Next]_vars

-----------------------------------------------------------------------------
(***************************************************************************)
(* Properties.                                                             *)
(***************************************************************************)

Nodes == {<<SeedOf(s), n>> : s \in Scopes, n \in 0 .. CounterMod - 1}

\* Every variable in its range; a thread that is in a call has a request, and one
\* that has generated a node has a node; no caller is ever given the null node.
TypeOK ==
    /\ manager \in Managers
    /\ counter \in [Scopes -> 0 .. CounterMod - 1]
    /\ labelToHandle \in [Scopes -> [Labels -> Nodes \union {None}]]
    /\ \A s \in Scopes : handleToLabel[s] \subseteq Nodes \X Labels
    /\ given \subseteq Scopes \X Labels \X Nodes
    /\ calls \in 0 .. MaxCalls
    /\ \A t \in Threads :
          CASE pc[t] = "idle" -> request[t] = None /\ node[t] = None
            [] pc[t] \in {"try_get", "generate"} ->
                   request[t] \in [scope : Scopes, label : Labels] /\ node[t] = None
            [] pc[t] \in {"emplace", "thrown"} ->
                   request[t] \in [scope : Scopes, label : Labels] /\ node[t] \in Nodes

\* The two maps of a scope are each other's inverse (what try_get_label and
\* try_get_node answer agrees): both are filled by the same call and emptied
\* together, and no node gets a second label.
TwoWay ==
    /\ TypeOK
    /\ \A s \in Scopes :
           /\ handleToLabel[s] = {<<labelToHandle[s][l], l>> :
                                     l \in {k \in Labels : labelToHandle[s][k] # None}}
           /\ \A p, q \in handleToLabel[s] : p[1] = q[1] => p = q

\* All the callers that ask a scope for a label, from whatever thread, are given
\* the same node until the scope is cleared, also when they race.
OneNodePerLabel ==
    \A g, h \in given : g[1] = h[1] /\ g[2] = h[2] => g[3] = h[3]

\* Different labels, and the same label in the scopes of different graphs, never
\* share a node: that is what keeps the blank nodes of documents apart.
LabelsApart ==
    \A g, h \in given : g[3] = h[3] => g[1] = h[1] /\ g[2] = h[2]
=============================================================================
