-------------------------- MODULE KarlRenderProofs --------------------------
(***************************************************************************)
(* Proofs about Render() of render.h: for every status and every order in  *)
(* which the three loops visit the status maps, the graph Render returns   *)
(* is the one the status calls for.                                        *)
(***************************************************************************)
EXTENDS KarlRender, TLAPS

(* What the first loop has visited: the pairs no longer to do. *)
Visited == Pairs(status) \ todo

(* The codenames of a set of (machine, service) pairs. *)
Codes(P) == {p[2] : p \in P}

(* The edges of the services of P, each to the node of its dependency. *)
EdgesOf(P) ==
    UNION {{<<p, NodeOf(status, d)>> : d \in status.deps[p[2]]} : p \in P}

(* The groups of the machines of I, each of its services' nodes. *)
GroupsOf(I) == {<<i, {<<i, c>> : c \in status.svc[i]}>> : i \in I}

(* After the first loop has visited P: every codename of P is a key of     *)
(* services_ holding its own node, and listed under its machine.           *)
NodesBuilt(P) ==
    /\ DOMAIN services = Codes(P)
    /\ \A p \in P : services[p[2]] = p
    /\ machines = [i \in IPs |-> {c \in Codenames : <<i, c>> \in P}]

(* services_[d], with the Node() operator[] inserts, is the node the      *)
(* status gives d.                                                         *)
LookupRight == \A d \in DepNames : Lookup(d) = NodeOf(status, d)

(***************************************************************************)
(* The inductive invariant: at each stage the graph is exactly what the    *)
(* loops so far have visited calls for, and from the second loop on every  *)
(* operator[] lookup returns the right node.                               *)
(***************************************************************************)
RInv ==
    /\ status \in Statuses
    /\ stage \in {"nodes", "edges", "groups", "done"}
    /\ stage = "nodes" =>
          /\ todo \subseteq Pairs(status)
          /\ NodesBuilt(Visited)
          /\ graph = [nodes |-> Visited, edges |-> {}, groups |-> {}]
    /\ stage = "edges" =>
          /\ todo \subseteq Pairs(status)
          /\ LookupRight
          /\ machines = status.svc
          /\ graph = [nodes |-> Pairs(status), edges |-> EdgesOf(Visited),
                      groups |-> {}]
    /\ stage = "groups" =>
          /\ todo \subseteq IPs
          /\ LookupRight
          /\ machines = status.svc
          /\ graph = [nodes |-> Pairs(status), edges |-> EdgesOf(Pairs(status)),
                      groups |-> GroupsOf(IPs \ todo)]
    /\ stage = "done" => graph = Expected(status)

-----------------------------------------------------------------------------
(* Lemmas on the status and on operator[].                                 *)

\* A service's node is the pair of its own machine: no other machine
\* reports the same codename.
LEMMA NodeOfOwn ==
    ASSUME NEW s \in Statuses, NEW i \in IPs, NEW c \in s.svc[i]
    PROVE  NodeOf(s, c) = <<i, c>>
<1> DEFINE j == CHOOSE j \in IPs : c \in s.svc[j]
<1>1. j \in IPs /\ c \in s.svc[j]
  OBVIOUS
<1>2. j = i
  BY <1>1 DEF Statuses
<1> QED
  BY <1>2 DEF NodeOf

\* Two pairs of a status with the same codename are the same pair.
LEMMA PairsByCode ==
    ASSUME NEW s \in Statuses, NEW p \in Pairs(s), NEW q \in Pairs(s), p[2] = q[2]
    PROVE  p = q
  BY DEF Statuses, Pairs

\* services_[d] for every d of S inserts Node() under the missing keys,
\* which is what operator[] returned for them before: no lookup changes.
LEMMA TouchKeepsLookup ==
    ASSUME NEW S, services' = Touch(services, S)
    PROVE  \A d : Lookup(d)' = Lookup(d)
  BY DEF Touch, Lookup

-----------------------------------------------------------------------------
(* RInv is inductive.                                                      *)

LEMMA InitRInv == Init => RInv
  BY DEF Init, RInv, Visited, NodesBuilt, Codes

\* First loop: the visited pair's node is added and stored under its code.
LEMMA AddServiceStep ==
    ASSUME RInv, NEW i \in IPs, NEW c \in Codenames, AddService(i, c)
    PROVE  RInv'
<1>1. /\ stage = "nodes" /\ stage' = "nodes" /\ status' = status
      /\ status \in Statuses
      /\ todo \subseteq Pairs(status) /\ <<i, c>> \in todo
      /\ todo' = todo \ {<<i, c>>}
  BY DEF RInv, AddService
<1>2. Visited' = Visited \cup {<<i, c>>}
  BY <1>1 DEF Visited
<1>3. NodesBuilt(Visited)
  BY <1>1 DEF RInv
<1>4. \A p \in Visited : p[2] # c
  <2> SUFFICES ASSUME NEW p \in Visited, p[2] = c PROVE FALSE
    OBVIOUS
  <2>1. p \in Pairs(status) /\ <<i, c>> \in Pairs(status)
    BY <1>1 DEF Visited
  <2>2. p = <<i, c>>
    BY <1>1, <2>1, PairsByCode
  <2> QED
    BY <1>1, <2>2 DEF Visited
<1>5. NodesBuilt(Visited)'
  <2>1. DOMAIN services' = Codes(Visited')
    BY <1>2, <1>3 DEF AddService, NodesBuilt, Codes
  <2>2. \A p \in Visited' : services'[p[2]] = p
    BY <1>2, <1>3, <1>4 DEF AddService, NodesBuilt, Codes
  <2>3. machines' = [k \in IPs |-> {e \in Codenames : <<k, e>> \in Visited'}]
    BY <1>2, <1>3 DEF AddService, NodesBuilt
  <2> QED
    BY <2>1, <2>2, <2>3 DEF NodesBuilt
<1>6. graph' = [nodes |-> Visited', edges |-> {}, groups |-> {}]
  <2>1. graph = [nodes |-> Visited, edges |-> {}, groups |-> {}]
    BY <1>1 DEF RInv
  <2>2. graph' = [graph EXCEPT !.nodes = @ \cup {<<i, c>>}]
    BY DEF AddService
  <2> QED
    BY <1>2, <2>1, <2>2
<1>7. todo' \subseteq Pairs(status')
  BY <1>1
<1> QED
  BY <1>1, <1>5, <1>6, <1>7 DEF RInv, Visited

\* Second loop: the service's edges, to the nodes operator[] returns.
LEMMA AddEdgesStep ==
    ASSUME RInv, NEW i \in IPs, NEW c \in Codenames, AddEdges(i, c)
    PROVE  RInv'
<1>1. /\ stage = "edges" /\ stage' = "edges" /\ status' = status
      /\ status \in Statuses
      /\ todo \subseteq Pairs(status) /\ <<i, c>> \in todo
      /\ todo' = todo \ {<<i, c>>}
      /\ LookupRight /\ machines = status.svc /\ machines' = machines
  BY DEF RInv, AddEdges
<1>2. Visited' = Visited \cup {<<i, c>>}
  BY <1>1 DEF Visited
<1>3. c \in status.svc[i]
  BY <1>1 DEF Pairs
<1>4. Lookup(c) = <<i, c>>
  BY <1>1, <1>3, NodeOfOwn DEF LookupRight, DepNames
<1>5. \A d \in status.deps[c] : Lookup(d) = NodeOf(status, d)
  BY <1>1 DEF LookupRight, Statuses
<1>6. LookupRight'
  <2>1. \A d : Lookup(d)' = Lookup(d)
    BY TouchKeepsLookup DEF AddEdges
  <2> QED
    BY <1>1, <2>1 DEF LookupRight
<1>7. EdgesOf(Visited') =
        EdgesOf(Visited) \cup {<<<<i, c>>, NodeOf(status, d)>> : d \in status.deps[c]}
  BY <1>2 DEF EdgesOf
<1>8. graph' = [nodes |-> Pairs(status), edges |-> EdgesOf(Visited'), groups |-> {}]
  <2>1. {<<Lookup(c), Lookup(d)>> : d \in status.deps[c]}
          = {<<<<i, c>>, NodeOf(status, d)>> : d \in status.deps[c]}
    BY <1>4, <1>5
  <2>2. graph = [nodes |-> Pairs(status), edges |-> EdgesOf(Visited), groups |-> {}]
    BY <1>1 DEF RInv
  <2>3. graph' = [graph EXCEPT !.edges =
                    @ \cup {<<Lookup(c), Lookup(d)>> : d \in status.deps[c]}]
    BY DEF AddEdges
  <2> QED
    BY <1>7, <2>1, <2>2, <2>3
<1> QED
  BY <1>1, <1>6, <1>8 DEF RInv, Visited, EdgesOf

\* Third loop: the machine's group of the nodes of its services.
LEMMA AddGroupStep ==
    ASSUME RInv, NEW i \in IPs, AddGroup(i)
    PROVE  RInv'
<1>1. /\ stage = "groups" /\ stage' = "groups" /\ status' = status
      /\ status \in Statuses
      /\ todo \subseteq IPs /\ i \in todo /\ todo' = todo \ {i}
      /\ LookupRight /\ machines = status.svc
      /\ services' = services /\ machines' = machines
  BY DEF RInv, AddGroup
<1>2. {Lookup(c) : c \in machines[i]} = {<<i, c>> : c \in status.svc[i]}
  <2>1. \A c \in status.svc[i] : Lookup(c) = <<i, c>>
    <3> SUFFICES ASSUME NEW c \in status.svc[i] PROVE Lookup(c) = <<i, c>>
      OBVIOUS
    <3>1. c \in DepNames
      BY <1>1 DEF Statuses, DepNames
    <3>2. NodeOf(status, c) = <<i, c>>
      BY <1>1, NodeOfOwn
    <3> QED
      BY <1>1, <3>1, <3>2 DEF LookupRight
  <2> QED
    BY <1>1, <2>1
<1>3. GroupsOf(IPs \ todo') = GroupsOf(IPs \ todo) \cup {<<i, {<<i, c>> : c \in status.svc[i]}>>}
  BY <1>1 DEF GroupsOf
<1>4. graph' = [nodes |-> Pairs(status), edges |-> EdgesOf(Pairs(status)),
                groups |-> GroupsOf(IPs \ todo')]
  <2>1. graph = [nodes |-> Pairs(status), edges |-> EdgesOf(Pairs(status)),
                 groups |-> GroupsOf(IPs \ todo)]
    BY <1>1 DEF RInv
  <2>2. graph' = [graph EXCEPT !.groups =
                    @ \cup {<<i, {Lookup(c) : c \in machines[i]}>>}]
    BY DEF AddGroup
  <2> QED
    BY <1>2, <1>3, <2>1, <2>2
<1>5. LookupRight'
  BY <1>1 DEF LookupRight, Lookup
<1> QED
  BY <1>1, <1>4, <1>5 DEF RInv, EdgesOf, GroupsOf

\* The first loop done: every code of the status is a key holding its node,
\* and every other lookup returns Node().
LEMMA NodesDone ==
    ASSUME RInv, stage = "nodes", todo = {}
    PROVE  /\ LookupRight
           /\ machines = status.svc
           /\ graph = [nodes |-> Pairs(status), edges |-> {}, groups |-> {}]
<1>1. /\ status \in Statuses /\ Visited = Pairs(status)
      /\ NodesBuilt(Pairs(status))
      /\ graph = [nodes |-> Pairs(status), edges |-> {}, groups |-> {}]
  BY DEF RInv, Visited
<1>2. LookupRight
  <2> SUFFICES ASSUME NEW d \in DepNames PROVE Lookup(d) = NodeOf(status, d)
    BY DEF LookupRight
  <2>1. CASE \E i \in IPs : d \in status.svc[i]
    <3>1. PICK i \in IPs : d \in status.svc[i]
      BY <2>1
    <3>2. <<i, d>> \in Pairs(status) /\ d \in Codes(Pairs(status))
      BY <1>1, <3>1 DEF Pairs, Codes, Statuses
    <3>3. services[d] = <<i, d>> /\ d \in DOMAIN services
      BY <1>1, <3>2 DEF NodesBuilt
    <3>4. NodeOf(status, d) = <<i, d>>
      BY <1>1, <3>1, NodeOfOwn
    <3> QED
      BY <3>3, <3>4 DEF Lookup
  <2>2. CASE ~\E i \in IPs : d \in status.svc[i]
    <3>1. d \notin DOMAIN services
      BY <1>1, <2>2 DEF NodesBuilt, Codes, Pairs
    <3> QED
      BY <2>2, <3>1 DEF Lookup, NodeOf
  <2> QED
    BY <2>1, <2>2
<1>3. machines = status.svc
  BY <1>1 DEF NodesBuilt, Statuses, Pairs
<1> QED
  BY <1>1, <1>2, <1>3

\* A loop has visited everything: the next one starts, or Render returns.
LEMMA EndLoopStep ==
    ASSUME RInv, EndLoop
    PROVE  RInv'
<1>1. /\ status \in Statuses /\ status' = status /\ todo = {}
      /\ services' = services /\ machines' = machines /\ graph' = graph
  BY DEF RInv, EndLoop
<1>2. CASE stage = "nodes"
  <2>1. stage' = "edges" /\ todo' = Pairs(status)
    BY <1>2 DEF EndLoop
  <2>2. EdgesOf(Visited)' = {}
    BY <1>1, <2>1 DEF EdgesOf, Visited
  <2>3. LookupRight /\ machines = status.svc
        /\ graph = [nodes |-> Pairs(status), edges |-> {}, groups |-> {}]
    BY <1>1, <1>2, NodesDone
  <2>4. LookupRight'
    BY <1>1, <2>3 DEF LookupRight, Lookup
  <2> QED
    BY <1>1, <2>1, <2>2, <2>3, <2>4 DEF RInv
<1>3. CASE stage = "edges"
  <2>1. stage' = "groups" /\ todo' = IPs
    BY <1>3 DEF EndLoop
  <2>2. GroupsOf(IPs \ todo)' = {}
    BY <2>1 DEF GroupsOf
  <2>3. graph = [nodes |-> Pairs(status), edges |-> EdgesOf(Pairs(status)),
                 groups |-> {}]
    BY <1>1, <1>3 DEF RInv, Visited
  <2>4. EdgesOf(Pairs(status))' = EdgesOf(Pairs(status))
    BY <1>1 DEF EdgesOf
  <2>5. LookupRight'
    BY <1>1, <1>3 DEF RInv, LookupRight, Lookup
  <2> QED
    BY <1>1, <1>3, <2>1, <2>2, <2>3, <2>4, <2>5 DEF RInv
<1>4. CASE stage = "groups"
  <2>1. stage' = "done"
    BY <1>4 DEF EndLoop
  <2>2. graph = Expected(status)
    BY <1>1, <1>4 DEF RInv, Expected, EdgesOf, GroupsOf
  <2> QED
    BY <1>1, <2>1, <2>2 DEF RInv
<1>5. stage \in {"nodes", "edges", "groups"}
  BY DEF RInv, EndLoop
<1> QED
  BY <1>2, <1>3, <1>4, <1>5

LEMMA NextRInv ==
    ASSUME RInv, [Next]_vars
    PROVE  RInv'
<1>1. CASE \E p \in IPs \X Codenames : AddService(p[1], p[2]) \/ AddEdges(p[1], p[2])
  BY <1>1, AddServiceStep, AddEdgesStep
<1>2. CASE \E i \in IPs : AddGroup(i)
  BY <1>2, AddGroupStep
<1>3. CASE EndLoop
  BY <1>3, EndLoopStep
<1>4. CASE UNCHANGED vars
  <2>1. /\ status' = status /\ stage' = stage /\ todo' = todo
        /\ services' = services /\ machines' = machines /\ graph' = graph
    BY <1>4 DEF vars
  <2>2. /\ Visited' = Visited
        /\ NodesBuilt(Visited)' = NodesBuilt(Visited)
        /\ LookupRight' = LookupRight
        /\ \A P : EdgesOf(P)' = EdgesOf(P)
        /\ \A I : GroupsOf(I)' = GroupsOf(I)
    BY <2>1 DEF Visited, NodesBuilt, LookupRight, Lookup, EdgesOf, GroupsOf
  <2> QED
    BY <2>1, <2>2 DEF RInv
<1> QED
  BY <1>1, <1>2, <1>3, <1>4 DEF Next

(***************************************************************************)
(* Render() returns the graph the status calls for, whatever the status    *)
(* and whatever order the unordered maps iterate in: one node per service, *)
(* one edge from each service to the node of each of its dependencies      *)
(* (Node() for one the status does not hold), one group per machine.       *)
(***************************************************************************)
THEOREM RenderCorrect == Spec => []RenderMatchesStatus
<1>1. Init => RInv
  BY InitRInv
<1>2. RInv /\ [Next]_vars => RInv'
  BY NextRInv
<1>3. RInv => RenderMatchesStatus
  BY DEF RInv, RenderMatchesStatus
<1> QED
  BY <1>1, <1>2, <1>3, PTL DEF Spec


(***************************************************************************)
(* RInv, the invariant of Render()'s three loops, holds in every state:   *)
(* at each loop the graph, services_ and machines are exactly what the    *)
(* pairs, services or machines visited so far call for.                   *)
(***************************************************************************)
THEOREM RenderInvariant == Spec => []RInv
<1>1. Init => RInv
  BY InitRInv
<1>2. RInv /\ [Next]_vars => RInv'
  BY NextRInv
<1> QED
  BY <1>1, <1>2, PTL DEF Spec

=============================================================================
