------------------------------ MODULE Registry ------------------------------
(***************************************************************************)
(* The nodes and routes of the tenant as MemoryStore keeps them            *)
(* (services/controlplane/internal/store/memory.go): every call holds the  *)
(* store's lock from its first read to its answer.  It is also what        *)
(* SqliteStore promises.                                                   *)
(***************************************************************************)
EXTENDS TenantData

VARIABLES
  nodes,       \* nodes
  routes,      \* routes
  states,      \* peerTransports: the peers each node last reported about
  version,     \* bootstrapVersion
  ipCounter,   \* ipCounter
  answer       \* what each caller was answered

stored == <<nodes, routes, states, version, ipCounter>>
vars   == <<stored, answer>>

-----------------------------------------------------------------------------
Init ==
  /\ nodes     = [n \in NodeIds |-> None]
  /\ routes    = {}
  /\ states    = [n \in NodeIds |-> {}]
  /\ version   = 1
  /\ ipCounter = 0
  /\ answer    = [c \in Callers |-> None]

Answer(c, a) == answer[c] = None /\ answer' = [answer EXCEPT ![c] = a]

\* A request that fails a check before the store is read.
Reject(c, r) ==
  /\ r.op \in {"register", "publish"} /\ r.flaw # "none"
  /\ Answer(c, Refusal(r.flaw))
  /\ UNCHANGED stored

Register(c, r, n) ==
  /\ r.op = "register" /\ r.flaw = "none"
  /\ nodes[n] = None
  /\ ipCounter' = ipCounter + 1
  /\ nodes' = [nodes EXCEPT ![n] = NewNode(ipCounter' + FirstSlot - 1, r.key)]
  /\ Answer(c, Registered(n, Bootstrap(nodes', routes, states, version, n)))
  /\ UNCHANGED <<routes, states, version>>

\* A heartbeat or a fetch of a node that is unknown, or whose token is wrong.
Turned(r) == IF nodes[r.node] = None THEN "not found" ELSE "unauthorized"

TurnAway(c, r) ==
  /\ r.op \in {"heartbeat", "fetch"}
  /\ nodes[r.node] = None \/ ~r.authentic
  /\ Answer(c, Refusal(Turned(r)))
  /\ UNCHANGED stored

Heartbeat(c, r) ==
  /\ r.op = "heartbeat" /\ nodes[r.node] # None /\ r.authentic
  /\ nodes'   = [nodes EXCEPT ![r.node] = Refreshed(@, r)]
  /\ states'  = [states EXCEPT ![r.node] = r.about]
  /\ version' = IF Rotates(nodes[r.node], r) \/ Moves(nodes[r.node], r)
                THEN version + 1 ELSE version
  /\ Answer(c, Heard(version'))
  /\ UNCHANGED <<routes, ipCounter>>

Fetch(c, r) ==
  /\ r.op = "fetch" /\ nodes[r.node] # None /\ r.authentic
  /\ Answer(c, Fetched(Bootstrap(nodes, routes, states, version, r.node)))
  /\ UNCHANGED stored

\* A route via an unknown node, or one that overlaps another.
RefuseRoute(c, r) ==
  /\ r.op = "publish" /\ r.flaw = "none"
  /\ \/ nodes[r.via] = None /\ Answer(c, Refusal("not found"))
     \/ nodes[r.via] # None /\ Conflicts(routes, r.prefix) /\ Answer(c, Refusal("conflict"))
  /\ UNCHANGED stored

Publish(c, r) ==
  /\ r.op = "publish" /\ r.flaw = "none"
  /\ nodes[r.via] # None /\ ~Conflicts(routes, r.prefix)
  /\ LET route == [prefix |-> r.prefix, via |-> r.via, priority |-> r.priority]
     IN  routes' = routes \cup {route} /\ Answer(c, Published(route))
  /\ version' = version + 1
  /\ UNCHANGED <<nodes, states, ipCounter>>

Serve(c, r) ==
  \/ Reject(c, r) \/ TurnAway(c, r) \/ RefuseRoute(c, r)
  \/ \E n \in NodeIds : Register(c, r, n)
  \/ Heartbeat(c, r) \/ Fetch(c, r) \/ Publish(c, r)

\* Callers have read their answers, or the answers were lost on the way.
Take(cs) ==
  /\ answer' = [c \in Callers |-> IF c \in cs THEN None ELSE answer[c]]
  /\ UNCHANGED stored

Next ==
  \/ \E cs \in SUBSET Callers : Take(cs)
  \/ \E c \in Callers, r \in Requests : Serve(c, r)

Spec == Init /\ [][Next]_vars

-----------------------------------------------------------------------------
(* Properties *)

Address == {100} \X {64} \X Nat \X (0..249)

\* Every node, route and report is well formed.
TypeOK ==
  /\ ipCounter \in Nat /\ version \in Nat
  /\ nodes \in [NodeIds -> {None} \cup [address : Address, key : Keys, endpoints : Endpoints]]
  /\ routes \subseteq [prefix : Prefixes, via : NodeIds, priority : Priorities]
  /\ states \in [NodeIds -> SUBSET NodeIds]
  /\ DOMAIN answer = Callers

\* No two nodes have the same overlay address, however their registrations
\* interleave and whatever fails in between.
UniqueAddresses ==
  \A m, n \in Known(nodes) : m # n => nodes[m].address # nodes[n].address

\* An address belongs to at most one route: the overlap check of CreateRoute
\* compares base addresses only, and two routes are created at once.
RoutesDisjoint ==
  \A r, s \in routes : r # s => r.prefix \cap s.prefix = {}

\* Agents fetch a configuration again only when the version has grown: while
\* it stays, the nodes that were known keep their address, key and endpoints,
\* and the routes stay.
VersionStandsForContent ==
  [][/\ version' >= version
     /\ version' = version =>
          routes' = routes /\ \A n \in Known(nodes) : nodes'[n] = nodes[n]]_stored
=============================================================================
