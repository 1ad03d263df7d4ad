--------------------------- MODULE NodeScope_proofs ---------------------------
(***************************************************************************)
(* The scopes, for any number of threads, names, labels and calls and for   *)
(* counters of any width: the two maps of a scope are inverse, racing       *)
(* callers get one node per label, and labels never share a node.          *)
(***************************************************************************)
EXTENDS NodeScope, TLAPS

Requests == [scope : Scopes, label : Labels]

\* The range of every variable, a thread's node and request by its place in the call.
Types ==
    /\ manager \in Managers
    /\ counter \in [Scopes -> 0 .. CounterMod - 1]
    /\ labelToHandle \in [Scopes -> [Labels -> Nodes \union {None}]]
    /\ handleToLabel \in [Scopes -> SUBSET (Nodes \X Labels)]
    /\ given \subseteq Scopes \X Labels \X Nodes
    /\ calls \in 0 .. MaxCalls
    /\ pc \in [Threads -> {"idle", "try_get", "generate", "emplace", "thrown"}]
    /\ request \in [Threads -> Requests \union {None}]
    /\ node \in [Threads -> Nodes \union {None}]
    /\ \A t \in Threads :
          /\ pc[t] = "idle" => request[t] = None
          /\ pc[t] # "idle" => request[t] \in Requests
          /\ pc[t] \in {"idle", "try_get", "generate"} => node[t] = None
          /\ pc[t] \in {"emplace", "thrown"} => node[t] \in Nodes

\* The nodes a generator has made so far.
NodeAt(s, n) == <<SeedOf(s), n>>
Made(s) == {NodeAt(s, n) : n \in 0 .. counter[s] - 1}

\* Whatever a label has, or a thread is about to give it, the generator of its scope made.
Generated ==
    /\ \A s \in Scopes, l \in Labels : labelToHandle[s][l] \in Made(s) \union {None}
    /\ \A t \in Threads : pc[t] = "emplace" => node[t] \in Made(request[t].scope)

\* A node is with one thread that is about to insert it, or with one label.
Owned ==
    /\ \A t, u \in Threads :
           pc[t] = "emplace" /\ pc[u] = "emplace" /\ node[t] = node[u] => t = u
    /\ \A t \in Threads, s \in Scopes, l \in Labels :
           pc[t] = "emplace" => labelToHandle[s][l] # node[t]
    /\ \A s, r \in Scopes, l, k \in Labels :
           labelToHandle[s][l] = labelToHandle[r][k] /\ labelToHandle[s][l] # None
               => s = r /\ l = k

\* handle_to_label_ holds the inverse of label_to_handle_.
Inverse ==
    \A s \in Scopes :
        handleToLabel[s] = {<<labelToHandle[s][l], l>> :
                               l \in {k \in Labels : labelToHandle[s][k] # None}}

\* What was answered since the scope was cleared is still there.
GivenIsThere == \A g \in given : labelToHandle[g[1]][g[2]] = g[3]

IInv == Types /\ Generated /\ Owned /\ Inverse /\ GivenIsThere

-----------------------------------------------------------------------------
\* Scopes of different names, and different numbers of one, give different nodes.
LEMMA NodesApart ==
    ASSUME NEW s \in Scopes, NEW r \in Scopes, NEW m, NEW n, NodeAt(s, m) = NodeAt(r, n)
    PROVE  s = r /\ m = n
  BY SeedAssumption DEF NodeAt, SeedOf, Scopes

\* A node is not the null node.
LEMMA NoneIsNoNode == None \notin Nodes
<1> SUFFICES ASSUME NEW s \in Scopes, NEW n \in 0 .. CounterMod - 1
             PROVE  None # <<SeedOf(s), n>>
  BY DEF Nodes
<1> QED
  BY NoneAssumption DEF SeedOf, Scopes

\* What a generator makes is a node.
LEMMA MadeAreNodes ==
    ASSUME Types, NEW s \in Scopes
    PROVE  Made(s) \subseteq Nodes
<1>1. counter[s] \in 0 .. CounterMod - 1
  BY DEF Types
<1>2. 0 .. counter[s] - 1 \subseteq 0 .. CounterMod - 1
  BY <1>1, CounterAssumption
<1> QED
  BY <1>2 DEF Made, NodeAt, Nodes

LEMMA InitIInv == Init => IInv
<1> SUFFICES ASSUME Init PROVE IInv
  OBVIOUS
<1>1. Types
  BY CounterAssumption DEF Init, Types
<1>2. Generated /\ Owned
  BY DEF Init, Generated, Owned
<1>3. Inverse
  BY DEF Init, Inverse
<1>4. GivenIsThere
  BY DEF Init, GivenIsThere
<1> QED
  BY <1>1, <1>2, <1>3, <1>4 DEF IInv

-----------------------------------------------------------------------------
\* Every step keeps the variables in their ranges.
LEMMA TypesStep == Types /\ [Next]_vars => Types'
<1> SUFFICES ASSUME Types, [Next]_vars PROVE Types'
  OBVIOUS
<1>0. UNCHANGED manager => UNCHANGED <<Scopes, Nodes, Requests>>
  BY DEF Scopes, Nodes, SeedOf, Requests
<1> USE DEF Types
<1>1. ASSUME NEW t \in Threads, NEW name \in Names, NEW label \in Labels, Call(t, name, label)
      PROVE  Types'
  <2>1. [scope |-> Scope(name), label |-> label] \in Requests
    BY DEF Requests, Scope, Scopes
  <2> QED
    BY <1>0, <1>1, <2>1, CounterAssumption DEF Call, Goto
<1>2. ASSUME NEW t \in Threads, Found(t) PROVE Types'
  <2>1. request[t] \in Requests
    BY <1>2 DEF Found, Goto
  <2>2. request[t].scope \in Scopes /\ request[t].label \in Labels
    BY <2>1 DEF Requests
  <2>3. labelToHandle[request[t].scope][request[t].label] \in Nodes
    BY <1>2, <2>2 DEF Found, IsNode
  <2> QED
    BY <1>0, <1>2, <2>2, <2>3 DEF Found, Goto, Answer, Leave
<1>3. ASSUME NEW t \in Threads, NotFound(t) PROVE Types'
  BY <1>0, <1>3 DEF NotFound, Goto
<1>4. ASSUME NEW t \in Threads, Generate(t) PROVE Types'
  <2> DEFINE s == request[t].scope
  <2>1. request[t] \in Requests
    BY <1>4 DEF Generate, Goto
  <2>2. s \in Scopes
    BY <2>1 DEF Requests
  <2>3. counter[s] \in 0 .. CounterMod - 1
    BY <2>2
  <2>4. <<SeedOf(s), counter[s]>> \in Nodes
    BY <2>2, <2>3 DEF Nodes
  <2>5. NextCounter(counter[s]) \in 0 .. CounterMod - 1
    BY <2>3, CounterAssumption DEF NextCounter
  <2>6. counter' \in [Scopes -> 0 .. CounterMod - 1]
    BY <1>4, <2>5 DEF Generate, FetchAdd
  <2> QED
    BY <1>0, <1>4, <2>1, <2>4, <2>6 DEF Generate, Goto
<1>5. ASSUME NEW t \in Threads, Emplace(t) PROVE Types'
  <2> DEFINE s == request[t].scope
             l == request[t].label
  <2>1. request[t] \in Requests /\ node[t] \in Nodes
    BY <1>5 DEF Emplace, Goto
  <2>2. s \in Scopes /\ l \in Labels
    BY <2>1 DEF Requests
  <2>3. labelToHandle' \in [Scopes -> [Labels -> Nodes \union {None}]]
    BY <1>5, <2>1, <2>2 DEF Emplace
  <2>4. handleToLabel' \in [Scopes -> SUBSET (Nodes \X Labels)]
    BY <1>5, <2>1, <2>2 DEF Emplace
  <2>5. given' \subseteq Scopes \X Labels \X Nodes
    BY <1>5, <2>1, <2>2 DEF Emplace, Answer
  <2> QED
    BY <1>0, <1>5, <2>3, <2>4, <2>5 DEF Emplace, Goto, Leave
<1>6. ASSUME NEW t \in Threads, AlreadyLabeled(t) PROVE Types'
  BY <1>0, <1>6 DEF AlreadyLabeled, Goto
<1>7. ASSUME NEW t \in Threads, Catch(t) PROVE Types'
  BY <1>0, <1>7 DEF Catch, Goto, Leave
<1>8. ASSUME NEW s \in Scopes, Clear(s) PROVE Types'
  BY <1>0, <1>8, CounterAssumption DEF Clear, ClearedHandles
<1>9. CASE UNCHANGED vars
  BY <1>0, <1>9 DEF vars
<1> QED
  BY <1>1, <1>2, <1>3, <1>4, <1>5, <1>6, <1>7, <1>8, <1>9 DEF Next

-----------------------------------------------------------------------------
\* generate() makes a node that is new, and forgets none: the number fits, so the
\* counter does not wrap around.
LEMMA GenerateIsNew ==
    ASSUME Types, NEW t \in Threads, Generate(t)
    PROVE  /\ request[t].scope \in Scopes
           /\ request' = request
           /\ \A s \in Scopes : s = request[t].scope => node'[t] \in Made(s)'
           /\ \A s \in Scopes : node'[t] \notin Made(s) /\ Made(s) \subseteq Made(s)'
<1> DEFINE s == request[t].scope
<1>1. s \in Scopes
  BY DEF Types, Generate, Goto, Requests
<1>2. counter[s] \in 0 .. CounterMod - 1
  BY <1>1 DEF Types
<1>3. counter' = [counter EXCEPT ![s] = counter[s] + 1] /\ counter'[s] = counter[s] + 1
  <2>1. NextCounter(counter[s]) = counter[s] + 1
    BY <1>2, CounterAssumption DEF Generate, IdFits, NextCounter
  <2> QED
    BY <1>1, <2>1 DEF Generate, FetchAdd, Types
<1>4. node'[t] = NodeAt(s, counter[s])
  BY DEF Generate, Types, NodeAt
<1>5. ASSUME NEW r \in Scopes PROVE Made(r) \subseteq Made(r)' /\ node'[t] \notin Made(r)
  <2>1. counter[r] \in Nat /\ counter'[r] \in Nat /\ counter[r] <= counter'[r]
    BY <1>1, <1>2, <1>3 DEF Types
  <2>2. \A n : NodeAt(r, n) = NodeAt(r, n)'
    BY DEF NodeAt, SeedOf, Generate
  <2>3. Made(r) \subseteq Made(r)'
    <3>1. 0 .. counter[r] - 1 \subseteq 0 .. counter'[r] - 1
      BY <2>1
    <3> QED
      BY <2>2, <3>1 DEF Made
  <2>4. ASSUME node'[t] \in Made(r) PROVE FALSE
    <3>1. PICK n \in 0 .. counter[r] - 1 : NodeAt(s, counter[s]) = NodeAt(r, n)
      BY <1>4, <2>4 DEF Made
    <3>2. s = r /\ counter[s] = n
      BY <1>1, <3>1, NodesApart
    <3> QED
      BY <1>2, <3>1, <3>2
  <2> QED
    BY <2>3, <2>4
<1>6. ASSUME NEW r \in Scopes, r = s PROVE node'[t] \in Made(r)'
  <2>1. counter'[r] = counter[r] + 1 /\ counter[r] \in 0 .. counter'[r] - 1
    BY <1>2, <1>3, <1>6
  <2>2. \A n : NodeAt(r, n) = <<SeedOf(r)', n>>
    BY DEF NodeAt, SeedOf, Generate
  <2>3. node'[t] = <<SeedOf(r)', counter[r]>>
    BY <1>4, <1>6, <2>2
  <2>4. Made(r)' = {<<SeedOf(r)', n>> : n \in 0 .. counter'[r] - 1}
    BY DEF Made, NodeAt
  <2> HIDE DEF s
  <2> QED
    BY <2>1, <2>3, <2>4
<1>7. request' = request
  BY DEF Generate
<1> QED
  BY <1>1, <1>5, <1>6, <1>7

\* Generate keeps the invariant: no other thread and no label has the new node.
LEMMA GenerateStep ==
    ASSUME IInv, Types', NEW t \in Threads, Generate(t)
    PROVE  IInv'
<1> DEFINE s == request[t].scope
<1>1. Types
  BY DEF IInv
<1>2. /\ s \in Scopes
      /\ request' = request
      /\ \A r \in Scopes : r = s => node'[t] \in Made(r)'
      /\ \A r \in Scopes : node'[t] \notin Made(r) /\ Made(r) \subseteq Made(r)'
  BY <1>1, GenerateIsNew
<1>3. Scopes' = Scopes /\ UNCHANGED <<labelToHandle, handleToLabel, request, given>>
  BY DEF Generate, Scopes
<1>4. \A u \in Threads : u # t => pc'[u] = pc[u] /\ node'[u] = node[u]
  BY <1>1 DEF Generate, Goto, Types
<1>5. node'[t] # None
  <2>1. Nodes' = Nodes
    BY DEF Nodes, SeedOf, Scopes, Generate
  <2>2. pc'[t] = "emplace"
    BY <1>1 DEF Generate, Goto, Types
  <2> QED
    BY <2>1, <2>2, NoneIsNoNode DEF Types
<1>6. Generated'
  <2>1. \A r \in Scopes, l \in Labels : labelToHandle[r][l] \in Made(r)' \union {None}
    BY <1>2 DEF IInv, Generated
  <2>2. \A u \in Threads, r \in Scopes :
             pc'[u] = "emplace" /\ r = request[u].scope => node'[u] \in Made(r)'
    <3> SUFFICES ASSUME NEW u \in Threads, pc'[u] = "emplace", u # t
                 PROVE  \A r \in Scopes : r = request[u].scope => node'[u] \in Made(r)'
      BY <1>2
    <3>1. node[u] \in Made(request[u].scope)
      BY <1>4 DEF IInv, Generated
    <3> QED
      BY <1>2, <1>4, <3>1
  <2>3. \A u \in Threads : pc'[u] = "emplace" => request[u].scope \in Scopes
    BY <1>1, <1>2, <1>4 DEF Types, Requests
  <2> QED
    BY <1>2, <1>3, <2>1, <2>2, <2>3 DEF Generated
<1>7. Owned'
  <2>1. \A u \in Threads : u # t /\ pc'[u] = "emplace" => node'[u] # node'[t]
    BY <1>1, <1>2, <1>4 DEF IInv, Generated, Types, Requests
  <2>2. \A r \in Scopes, l \in Labels : labelToHandle[r][l] # node'[t]
    BY <1>2, <1>5 DEF IInv, Generated
  <2> QED
    BY <1>3, <1>4, <2>1, <2>2 DEF IInv, Owned
<1>8. Inverse' /\ GivenIsThere'
  BY <1>3 DEF IInv, Inverse, GivenIsThere
<1> QED
  BY <1>6, <1>7, <1>8, Types' DEF IInv

\* emplace keeps the invariant: the label was free, and its node is nobody else's.
LEMMA EmplaceStep ==
    ASSUME IInv, Types', NEW t \in Threads, Emplace(t)
    PROVE  IInv'
<1> DEFINE s == request[t].scope
           l == request[t].label
<1>1. Types
  BY DEF IInv
<1>2. pc[t] = "emplace" /\ request[t] \in Requests /\ node[t] \in Nodes /\ node[t] # None
  BY <1>1, NoneIsNoNode DEF Types, Emplace, Goto
<1>3. s \in Scopes /\ l \in Labels
  BY <1>2 DEF Requests
<1>4. Scopes' = Scopes /\ \A r \in Scopes : Made(r)' = Made(r)
  BY DEF Emplace, Scopes, Made, NodeAt, SeedOf
<1>5. labelToHandle[s][l] = None
  BY DEF Emplace, Unlabeled
<1>6. \A r \in Scopes, k \in Labels :
          labelToHandle'[r][k] = IF r = s /\ k = l THEN node[t] ELSE labelToHandle[r][k]
  BY <1>1, <1>3 DEF Emplace, Types
<1>7. \A u \in Threads : pc'[u] = "emplace" =>
          u # t /\ pc[u] = "emplace" /\ node'[u] = node[u] /\ request'[u] = request[u]
  BY <1>1 DEF Emplace, Goto, Leave, Types
<1>8. given' = given \union {<<s, l, node[t]>>}
  BY DEF Emplace, Answer
<1>9. \A r \in Scopes : handleToLabel'[r] =
          IF r = s THEN handleToLabel[r] \union {<<node[t], l>>} ELSE handleToLabel[r]
  BY <1>1, <1>3 DEF Emplace, Types
<1>10. node[t] \in Made(s)
  BY <1>2 DEF IInv, Generated
<1> HIDE DEF s, l
<1>11. Generated'
  <2>1. \A r \in Scopes, k \in Labels : labelToHandle'[r][k] \in Made(r) \union {None}
    BY <1>6, <1>10 DEF IInv, Generated
  <2>2. \A u \in Threads : pc'[u] = "emplace" =>
            request'[u].scope \in Scopes /\ node'[u] \in Made(request'[u].scope)
    BY <1>1, <1>7 DEF IInv, Generated, Types, Requests
  <2> QED
    BY <1>4, <2>1, <2>2 DEF Generated
<1>12. Owned'
  <2>1. \A u \in Threads : pc'[u] = "emplace" => node'[u] # node[t]
    BY <1>2, <1>7 DEF IInv, Owned
  <2>2. \A r \in Scopes, k \in Labels : labelToHandle[r][k] # node[t]
    BY <1>2 DEF IInv, Owned
  <2>3. \A u, v \in Threads :
            pc'[u] = "emplace" /\ pc'[v] = "emplace" /\ node'[u] = node'[v] => u = v
    BY <1>7 DEF IInv, Owned
  <2>4. \A u \in Threads, r \in Scopes, k \in Labels :
            pc'[u] = "emplace" => labelToHandle'[r][k] # node'[u]
    BY <1>6, <1>7, <2>1 DEF IInv, Owned
  <2>5. \A q, r \in Scopes, j, k \in Labels :
            labelToHandle'[q][j] = labelToHandle'[r][k] /\ labelToHandle'[q][j] # None
                => q = r /\ j = k
    BY <1>6, <2>2 DEF IInv, Owned
  <2> QED
    BY <1>4, <2>3, <2>4, <2>5 DEF Owned
<1>13. Inverse'
  <2> SUFFICES ASSUME NEW r \in Scopes
               PROVE  handleToLabel'[r] = {<<labelToHandle'[r][k], k>> :
                          k \in {j \in Labels : labelToHandle'[r][j] # None}}
    BY <1>4 DEF Inverse
  <2>1. handleToLabel[r] = {<<labelToHandle[r][k], k>> :
            k \in {j \in Labels : labelToHandle[r][j] # None}}
    BY DEF IInv, Inverse
  <2>2. CASE r # s
    <3>1. \A k \in Labels : labelToHandle'[r][k] = labelToHandle[r][k]
      BY <1>6, <2>2
    <3>2. handleToLabel'[r] = handleToLabel[r]
      BY <1>9, <2>2
    <3> QED
      BY <2>1, <3>1, <3>2
  <2>3. CASE r = s
    <3>1. handleToLabel'[r] = handleToLabel[r] \union {<<node[t], l>>}
      BY <1>9, <2>3
    <3>2. \A k \in Labels : k # l => labelToHandle'[r][k] = labelToHandle[r][k]
      BY <1>6, <2>3
    <3>3. labelToHandle[r][l] = None /\ labelToHandle'[r][l] = node[t]
      BY <1>3, <1>5, <1>6, <2>3
    <3>4. ASSUME NEW x
          PROVE  x \in handleToLabel'[r] <=>
                 \E k \in Labels : labelToHandle'[r][k] # None /\ x = <<labelToHandle'[r][k], k>>
      <4>1. x \in handleToLabel[r] <=>
            \E k \in Labels : labelToHandle[r][k] # None /\ x = <<labelToHandle[r][k], k>>
        BY <2>1
      <4> QED
        BY <1>2, <1>3, <3>1, <3>2, <3>3, <4>1
    <3> QED
      BY <3>4
  <2> QED
    BY <2>2, <2>3
<1>14. GivenIsThere'
  <2>1. ASSUME NEW g \in given
        PROVE  labelToHandle'[g[1]][g[2]] = g[3]
    <3>1. g[1] \in Scopes /\ g[2] \in Labels /\ g[3] \in Nodes
      BY <1>1 DEF Types
    <3>2. labelToHandle[g[1]][g[2]] = g[3] /\ g[3] # None
      BY <3>1, NoneIsNoNode DEF IInv, GivenIsThere
    <3> QED
      BY <1>5, <1>6, <3>1, <3>2
  <2>2. labelToHandle'[s][l] = node[t]
    BY <1>3, <1>6
  <2> QED
    BY <1>8, <2>1, <2>2 DEF GivenIsThere
<1> QED
  BY <1>11, <1>12, <1>13, <1>14, Types' DEF IInv

\* clear() keeps the invariant: both maps of the scope are empty afterwards.
LEMMA ClearStep ==
    ASSUME IInv, Types', NEW s \in Scopes, Clear(s)
    PROVE  IInv'
<1>1. Types
  BY DEF IInv
<1>2. Scopes' = Scopes /\ \A r \in Scopes : Made(r)' = Made(r)
  BY DEF Clear, Scopes, Made, NodeAt, SeedOf
<1>3. \A r \in Scopes, k \in Labels :
          labelToHandle'[r][k] = IF r = s THEN None ELSE labelToHandle[r][k]
  BY <1>1 DEF Clear, Types
<1>4. \A r \in Scopes : handleToLabel'[r] = IF r = s THEN {} ELSE handleToLabel[r]
  BY <1>1 DEF Clear, ClearedHandles, Types
<1>5. UNCHANGED <<pc, node, request>>
  BY DEF Clear
<1>6. Generated'
  BY <1>1, <1>2, <1>3, <1>5 DEF IInv, Generated, Types, Requests
<1>7. Owned'
  <2>1. \A u \in Threads : pc[u] = "emplace" => node[u] # None
    BY <1>1, NoneIsNoNode DEF Types
  <2> QED
    BY <1>2, <1>3, <1>5, <2>1 DEF IInv, Owned
<1>8. Inverse'
  BY <1>2, <1>3, <1>4 DEF IInv, Inverse
<1>9. GivenIsThere'
  <2> SUFFICES ASSUME NEW g \in given, g[1] # s
               PROVE  labelToHandle'[g[1]][g[2]] = g[3]
    BY DEF Clear, GivenIsThere
  <2>1. g[1] \in Scopes /\ g[2] \in Labels
    BY <1>1 DEF Types
  <2> QED
    BY <1>3, <2>1 DEF IInv, GivenIsThere
<1> QED
  BY <1>6, <1>7, <1>8, <1>9, Types' DEF IInv

\* A step that touches neither the maps nor a node about to be inserted, and answers
\* with what the maps hold, keeps the invariant.
LEMMA QuietStep ==
    ASSUME IInv, Types', UNCHANGED <<manager, counter, labelToHandle, handleToLabel>>,
           \A u \in Threads : pc'[u] = "emplace" =>
               pc[u] = "emplace" /\ node'[u] = node[u] /\ request'[u] = request[u],
           \A g \in given' : g \in given \/ labelToHandle[g[1]][g[2]] = g[3]
    PROVE  IInv'
<1>1. Scopes' = Scopes /\ \A r \in Scopes : Made(r)' = Made(r)
  BY DEF Scopes, Made, NodeAt, SeedOf
<1>2. Generated'
  <2>1. \A u \in Threads : pc'[u] = "emplace" =>
            request'[u].scope \in Scopes /\ node'[u] \in Made(request'[u].scope)
    BY DEF IInv, Generated, Types, Requests
  <2> QED
    BY <1>1, <2>1 DEF IInv, Generated
<1>3. Owned'
  BY <1>1 DEF IInv, Owned
<1>4. Inverse' /\ GivenIsThere'
  BY <1>1 DEF IInv, Inverse, GivenIsThere
<1> QED
  BY <1>2, <1>3, <1>4, Types' DEF IInv

\* Every step keeps the invariant.
LEMMA StepIInv == IInv /\ [Next]_vars => IInv'
<1> SUFFICES ASSUME IInv, [Next]_vars PROVE IInv'
  OBVIOUS
<1>1. Types /\ Types'
  BY TypesStep DEF IInv
<1>2. ASSUME NEW t \in Threads, NEW name \in Names, NEW label \in Labels, Call(t, name, label)
      PROVE  IInv'
  BY <1>1, <1>2, QuietStep DEF Call, Goto, Types
<1>3. ASSUME NEW t \in Threads, Found(t) PROVE IInv'
  BY <1>1, <1>3, QuietStep DEF Found, Goto, Answer, Leave, Types
<1>4. ASSUME NEW t \in Threads, NotFound(t) PROVE IInv'
  BY <1>1, <1>4, QuietStep DEF NotFound, Goto, Types
<1>5. ASSUME NEW t \in Threads, AlreadyLabeled(t) PROVE IInv'
  BY <1>1, <1>5, QuietStep DEF AlreadyLabeled, Goto, Types
<1>6. ASSUME NEW t \in Threads, Catch(t) PROVE IInv'
  BY <1>1, <1>6, QuietStep DEF Catch, Goto, Leave, Types
<1>7. CASE UNCHANGED vars
  BY <1>1, <1>7, QuietStep DEF vars
<1> QED
  BY <1>1, <1>2, <1>3, <1>4, <1>5, <1>6, <1>7, GenerateStep, EmplaceStep, ClearStep DEF Next

LEMMA IInvHolds == Spec => []IInv
  BY InitIInv, StepIInv, PTL DEF Spec

-----------------------------------------------------------------------------
\* The two maps of a scope always are inverse, over every sequence of calls and clears of
\* any number of threads.
THEOREM MapsAreInverse == Spec => []TwoWay
<1>1. IInv => TwoWay
  <2> SUFFICES ASSUME IInv PROVE TwoWay
    OBVIOUS
  <2>1. TypeOK
    <3> SUFFICES ASSUME NEW t \in Threads
                 PROVE  CASE pc[t] = "idle" -> request[t] = None /\ node[t] = None
                          [] pc[t] \in {"try_get", "generate"} ->
                                 request[t] \in Requests /\ node[t] = None
                          [] pc[t] \in {"emplace", "thrown"} ->
                                 request[t] \in Requests /\ node[t] \in Nodes
      BY DEF IInv, Types, TypeOK, Requests
    <3> QED
      BY DEF IInv, Types
  <2>2. ASSUME NEW s \in Scopes, NEW p \in handleToLabel[s], NEW q \in handleToLabel[s],
               p[1] = q[1]
        PROVE  p = q
    <3>1. PICK l \in Labels : p = <<labelToHandle[s][l], l>> /\ labelToHandle[s][l] # None
      BY DEF IInv, Inverse
    <3>2. PICK k \in Labels : q = <<labelToHandle[s][k], k>>
      BY DEF IInv, Inverse
    <3> QED
      BY <2>2, <3>1, <3>2 DEF IInv, Owned
  <2> QED
    BY <2>1, <2>2 DEF TwoWay, IInv, Inverse
<1> QED
  BY <1>1, IInvHolds, PTL

\* However many callers race for a label, all that get an answer get the same node.
THEOREM RacersAgree == Spec => []OneNodePerLabel
<1>1. IInv => OneNodePerLabel
  BY DEF IInv, GivenIsThere, OneNodePerLabel
<1> QED
  BY <1>1, IInvHolds, PTL

\* Different labels, and labels of different scopes, never get the same node.
THEOREM LabelsNeverMeet == Spec => []LabelsApart
<1>1. IInv => LabelsApart
  <2> SUFFICES ASSUME IInv, NEW g \in given, NEW h \in given, g[3] = h[3]
               PROVE  g[1] = h[1] /\ g[2] = h[2]
    BY DEF LabelsApart
  <2>1. /\ g[1] \in Scopes /\ g[2] \in Labels /\ g[3] \in Nodes
        /\ h[1] \in Scopes /\ h[2] \in Labels
    BY DEF IInv, Types
  <2>2. labelToHandle[g[1]][g[2]] = g[3] /\ labelToHandle[h[1]][h[2]] = g[3]
    BY DEF IInv, GivenIsThere
  <2> QED
    BY <2>1, <2>2, NoneIsNoNode DEF IInv, Owned
<1> QED
  BY <1>1, IInvHolds, PTL
=============================================================================
