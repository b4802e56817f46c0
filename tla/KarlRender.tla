----------------------------- MODULE KarlRender -----------------------------
(***************************************************************************)
(* Render() of src/Karl/render.h: Karl's status turned into a GraphViz     *)
(* graph with one node per service, one edge per dependency and one group  *)
(* per machine.                                                            *)
(*                                                                         *)
(* The status lists, for each machine IP, the services on it by codename, *)
(* and for each service the codenames it depends on.  A dependency may     *)
(* name a service the status does not hold.  The HTML of a node is left    *)
(* out: a rendered node is the pair <<ip, codename>> it was built from.   *)
(* `Node()`, the default an unordered_map's operator[] inserts, is         *)
(* BlankNode.  The loops run over the status maps in whatever order they   *)
(* iterate; the model takes every order.                                   *)
(***************************************************************************)
CONSTANTS
    IPs,          \* machines
    Codenames,    \* services the status may hold
    Unknown,      \* a codename no machine reports
    BlankNode     \* Node()

DepNames == Codenames \cup {Unknown}

Nodes == (IPs \X Codenames) \cup {BlankNode}

(* The statuses: each service on at most one machine, any dependencies. *)
Statuses ==
    {s \in [svc : [IPs -> SUBSET Codenames], deps : [Codenames -> SUBSET DepNames]] :
        \A i, j \in IPs : i # j => s.svc[i] \cap s.svc[j] = {}}

VARIABLES
    status,     \* the input
    stage,      \* which of the three loops runs
    todo,       \* what the running loop has still to visit
    services,   \* Codename -> Node: the keys present and their nodes
    machines,   \* IP -> [ Codename ]
    graph       \* [nodes, edges, groups] added so far

vars == <<status, stage, todo, services, machines, graph>>

(* Every (machine, service) pair of the status, as the loops visit them. *)
Pairs(s) == {p \in IPs \X Codenames : p[2] \in s.svc[p[1]]}

TypeOK ==
    /\ status \in Statuses
    /\ stage \in {"nodes", "edges", "groups", "done"}
    /\ todo \subseteq (IPs \X Codenames) \cup IPs
    /\ DOMAIN services \subseteq DepNames
    /\ \A c \in DOMAIN services : services[c] \in Nodes
    /\ machines \in [IPs -> SUBSET Codenames]
    /\ graph.nodes \subseteq Nodes
    /\ graph.edges \subseteq Nodes \X Nodes
    /\ graph.groups \subseteq IPs \X SUBSET Nodes

(* services[c]: the node under c, or Node() when c is not a key. *)
Lookup(c) == IF c \in DOMAIN services THEN services[c] ELSE BlankNode

(* The map after services[c] for every c in S: missing keys get Node(). *)
Touch(m, S) == [d \in DOMAIN m \cup S |-> IF d \in DOMAIN m THEN m[d] ELSE BlankNode]

-----------------------------------------------------------------------------
Init ==
    /\ status \in Statuses
    /\ stage = "nodes"
    /\ todo = Pairs(status)
    /\ services = [c \in {} |-> BlankNode]
    /\ machines = [i \in IPs |-> {}]
    /\ graph = [nodes |-> {}, edges |-> {}, groups |-> {}]

(* First loop, one service: its node is built, added to the graph, stored *)
(* under its codename, and the codename is listed under its machine.      *)
AddService(i, c) ==
    /\ stage = "nodes"
    /\ <<i, c>> \in todo
    /\ graph' = [graph EXCEPT !.nodes = @ \cup {<<i, c>>}]
    /\ services' = [d \in DOMAIN services \cup {c} |->
                       IF d = c THEN <<i, c>> ELSE services[d]]
    /\ machines' = [machines EXCEPT ![i] = @ \cup {c}]
    /\ todo' = todo \ {<<i, c>>}
    /\ UNCHANGED <<status, stage>>

(* Mutation: the edge drawn from the dependency to the service. *)
AddEdgesReversed(i, c) ==
    /\ stage = "edges"
    /\ <<i, c>> \in todo
    /\ graph' = [graph EXCEPT !.edges =
                    @ \cup {<<Lookup(d), Lookup(c)>> : d \in status.deps[c]}]
    /\ services' = Touch(services, {c} \cup status.deps[c])
    /\ todo' = todo \ {<<i, c>>}
    /\ UNCHANGED <<status, stage, machines>>

(* Second loop, one service: an edge from its node to the node of each    *)
(* dependency, looked up with operator[], which inserts Node() for a       *)
(* codename that is not a key.                                             *)
AddEdges(i, c) ==
    /\ stage = "edges"
    /\ <<i, c>> \in todo
    /\ graph' = [graph EXCEPT !.edges =
                    @ \cup {<<Lookup(c), Lookup(d)>> : d \in status.deps[c]}]
    /\ services' = Touch(services, {c} \cup status.deps[c])
    /\ todo' = todo \ {<<i, c>>}
    /\ UNCHANGED <<status, stage, machines>>

(* Third loop, one machine: a group of the nodes of its codenames. *)
AddGroup(i) ==
    /\ stage = "groups"
    /\ i \in todo
    /\ graph' = [graph EXCEPT !.groups =
                    @ \cup {<<i, {Lookup(c) : c \in machines[i]}>>}]
    /\ todo' = todo \ {i}
    /\ UNCHANGED <<status, stage, services, machines>>

(* A loop has visited everything; the next one starts, or Render returns. *)
EndLoop ==
    /\ todo = {}
    /\ stage # "done"
    /\ stage' = CASE stage = "nodes" -> "edges"
                  [] stage = "edges" -> "groups"
                  [] stage = "groups" -> "done"
    /\ todo' = CASE stage = "nodes" -> Pairs(status)
                 [] stage = "edges" -> IPs
                 [] stage = "groups" -> {}
    /\ UNCHANGED <<status, services, machines, graph>>

Next ==
    \/ \E p \in IPs \X Codenames : AddService(p[1], p[2]) \/ AddEdges(p[1], p[2])
    \/ \E i \in IPs : AddGroup(i)
    \/ EndLoop

Spec == Init /\ [][Next]_vars

-----------------------------------------------------------------------------
(* The node of codename d in status s: the service's own, or the blank    *)
(* Node() when no machine reports d.                                       *)
NodeOf(s, d) ==
    IF \E i \in IPs : d \in s.svc[i]
      THEN <<CHOOSE i \in IPs : d \in s.svc[i], d>>
      ELSE BlankNode

(* The graph the status calls for, stated at once over the whole status. *)
Expected(s) ==
    [nodes |-> Pairs(s),
     edges |-> UNION {{<<p, NodeOf(s, d)>> : d \in s.deps[p[2]]} : p \in Pairs(s)},
     groups |-> {<<i, {<<i, c>> : c \in s.svc[i]}>> : i \in IPs}]

(* When Render returns, the graph has a node for every service, the group *)
(* of each machine holds exactly its services' nodes, and every dependency *)
(* is an edge from the follower's node to its master's, or to the blank   *)
(* Node() operator[] inserted when the status does not hold the master.   *)
(* The edges are built in a loop of their own after every node exists.    *)
RenderMatchesStatus ==
    stage = "done" => graph = Expected(status)

=============================================================================
