-------------------------- MODULE SqliteStoreProofs --------------------------
(***************************************************************************)
(* SqliteStore for any callers, nodes, prefixes and requests: its types,   *)
(* that addresses and routes stay apart, and that overlapping transactions *)
(* answer as the registry that serves one call after the other.            *)
(***************************************************************************)
EXTENDS SqliteStore, TLAPS

NodeRecords == [address : Store!Address, key : Keys, endpoints : Endpoints]

Tables ==
  [nodes : [NodeIds -> {None} \cup NodeRecords],
   routes : SUBSET [prefix : Prefixes, via : NodeIds, priority : Priorities],
   states : [NodeIds -> SUBSET NodeIds], bootstrapVersion : Nat, overlayNextIP : Nat]

\* Every address was made of a slot that is taken.
Slotted(t) ==
  /\ t.overlayNextIP >= 10
  /\ \A n \in NodeIds : Has(t, n) =>
       \E s \in 10..(t.overlayNextIP - 1) : t.nodes[n].address = OverlayIP(s)

Unique(t) ==
  \A m, n \in NodeIds : m # n /\ Has(t, m) /\ Has(t, n) => t.nodes[m].address # t.nodes[n].address

Apart(t) == \A r, s \in t.routes : r # s => r.prefix \cap s.prefix = {}

Good(t) == t \in Tables /\ Slotted(t) /\ Unique(t) /\ Apart(t)

\* A caller is in a transaction or has an answer, and only checked requests
\* are in one.
Calling ==
  /\ call \in [Callers -> Requests \cup {None}]
  /\ snapshot \in [Callers -> Tables \cup {None}]
  /\ fresh \in [Callers -> BOOLEAN]
  /\ answer = [c \in Callers |-> answer[c]]
  /\ \A c \in Callers : fresh[c] => snapshot[c] = tables
  /\ \A c \in Callers : call[c] # None =>
       /\ answer[c] = None
       /\ call[c].op \in {"register", "publish"} => call[c].flaw = "none"

\* Who holds the write lock has read the tables as they are, and goes on to write.
Writing ==
  /\ writer \in Callers \cup {None}
  /\ writer # None =>
       /\ call[writer] # None /\ snapshot[writer] = tables
       /\ Outcome(call[writer], snapshot[writer]) = None

Inv == Good(tables) /\ Calling /\ Writing

-----------------------------------------------------------------------------
(* Addresses and prefixes *)

\* overlayIPFromSlot gives two slots two addresses.
LEMMA SlotsTold ==
  ASSUME NEW s \in Nat, NEW t \in Nat, OverlayIP(s) = OverlayIP(t)
  PROVE  s = t
BY DEF OverlayIP

\* overlayIPFromSlot gives an address, for whatever slot.
LEMMA AddressTyped ==
  ASSUME NEW s \in Nat
  PROVE  OverlayIP(s) \in Store!Address
<1>1. s \div 250 \in Int /\ s % 250 \in 0..249
  OBVIOUS
<1>2. s \div 250 >= 0
  BY Z3
<1> QED BY <1>1, <1>2 DEF OverlayIP, Store!Address

\* Of two prefixes that share an address one holds the other, and its base.
LEMMA OverlapFinds ==
  ASSUME NEW p \in Prefixes, NEW q \in Prefixes, ~Overlap(p, q)
  PROVE  p \cap q = {}
<1>1. Base(p) \in p /\ Base(q) \in q
  BY BaseAssumption DEF Base
<1> QED BY <1>1, PrefixesAssumption DEF Overlap

-----------------------------------------------------------------------------
(* Requests and what they write *)

\* A request is of the kind its op names.
LEMMA RequestsTyped ==
  ASSUME NEW r \in Requests
  PROVE  /\ r.op \in {"register", "heartbeat", "fetch", "publish"}
         /\ r.op = "register" => r \in Registrations
         /\ r.op = "heartbeat" => r \in Heartbeats
         /\ r.op = "fetch" => r \in Fetches
         /\ r.op = "publish" => r \in Publications
         /\ r # None
BY RequestsAssumption, NamesAssumption DEF Registrations, Heartbeats, Fetches, Publications

TablesOf(ns, rs, ss, v, i) ==
  [nodes |-> ns, routes |-> rs, states |-> ss, bootstrapVersion |-> v, overlayNextIP |-> i]

\* The five tables and what is in them.
LEMMA TablesTyped ==
  ASSUME NEW t \in Tables
  PROVE  /\ t.nodes \in [NodeIds -> {None} \cup NodeRecords]
         /\ t.routes \in SUBSET [prefix : Prefixes, via : NodeIds, priority : Priorities]
         /\ t.states \in [NodeIds -> SUBSET NodeIds]
         /\ t.bootstrapVersion \in Nat /\ t.overlayNextIP \in Nat
         /\ t = TablesOf(t.nodes, t.routes, t.states, t.bootstrapVersion, t.overlayNextIP)
BY DEF Tables, TablesOf

\* What CreateDeviceAndNode writes, table by table.
LEMMA NodeWritten ==
  ASSUME NEW ns, NEW rs, NEW ss, NEW v, NEW i, NEW n, NEW k
  PROVE  WithNode(TablesOf(ns, rs, ss, v, i), n, k)
           = TablesOf([ns EXCEPT ![n] = NewNode(i, k)], rs, ss, v, i + 1)
<1> DEFINE t == TablesOf(ns, rs, ss, v, i)
           w == [t EXCEPT !.overlayNextIP = t.overlayNextIP + 1]
<1>1. WithNode(t, n, k) = [w EXCEPT !.nodes[n] = NewNode(t.overlayNextIP, k)]
  BY Zenon DEF WithNode, NextOverlaySlot
<1>2. t.overlayNextIP = i /\ w = TablesOf(ns, rs, ss, v, i + 1)
  BY SMT DEF TablesOf
<1> HIDE DEF t, w
<1>3. [w EXCEPT !.nodes[n] = NewNode(t.overlayNextIP, k)] = TablesOf([ns EXCEPT ![n] = NewNode(i, k)], rs, ss, v, i + 1)
  BY <1>2, SMT DEF TablesOf
<1> QED BY <1>1, <1>3 DEF t

\* The version after a heartbeat of node that found v.
Bumped(node, r, v) == IF Rotates(node, r) \/ Moves(node, r) THEN v + 1 ELSE v

\* What UpdateHeartbeat writes, table by table.
LEMMA HeartbeatWrites ==
  ASSUME NEW t \in Tables, NEW r
  PROVE  WithHeartbeat(t, r)
           = TablesOf([t.nodes EXCEPT ![r.node] = Refreshed(t.nodes[r.node], r)], t.routes,
                      [t.states EXCEPT ![r.node] = r.about],
                      Bumped(t.nodes[r.node], r, t.bootstrapVersion), t.overlayNextIP)
<1> DEFINE ns == [t.nodes EXCEPT ![r.node] = Refreshed(t.nodes[r.node], r)]
           ss == [t.states EXCEPT ![r.node] = r.about]
           b == Bumped(t.nodes[r.node], r, t.bootstrapVersion)
           w == [t EXCEPT !.nodes = ns]
           x == [w EXCEPT !.bootstrapVersion = b]
           rs == t.routes
           s0 == t.states
           v == t.bootstrapVersion
           i == t.overlayNextIP
<1>1. WithHeartbeat(t, r) = [x EXCEPT !.states[r.node] = r.about]
  BY Zenon DEF WithHeartbeat, IncrementedVersion, Bumped
<1>2. t = TablesOf(t.nodes, rs, s0, v, i) /\ ss = [s0 EXCEPT ![r.node] = r.about]
  BY TablesTyped
<1> HIDE DEF ns, ss, b, rs, s0, v, i
<1>3. w = TablesOf(ns, rs, s0, v, i)
  BY <1>2, SMT DEF TablesOf
<1> HIDE DEF w
<1>4. x = TablesOf(ns, rs, s0, b, i)
  BY <1>3, SMT DEF TablesOf
<1> HIDE DEF x
<1>5. [x EXCEPT !.states = ss] = TablesOf(ns, rs, ss, b, i)
  BY <1>4, SMT DEF TablesOf
<1>6. [x EXCEPT !.states[r.node] = r.about] = [x EXCEPT !.states = ss]
  <2>1. x.states = s0
    BY <1>4 DEF TablesOf
  <2> QED BY <1>2, <2>1
<1> QED BY <1>1, <1>5, <1>6 DEF ns, ss, b, rs, i

\* What CreateRoute writes, table by table.
LEMMA RouteWritten ==
  ASSUME NEW ns, NEW rs, NEW ss, NEW v, NEW i, NEW r
  PROVE  WithRoute(TablesOf(ns, rs, ss, v, i), r)
           = TablesOf(ns, rs \cup {RouteOf(r)}, ss, v + 1, i)
<1> DEFINE t == TablesOf(ns, rs, ss, v, i)
           w == [t EXCEPT !.routes = t.routes \cup {RouteOf(r)}]
<1>1. WithRoute(t, r) = [w EXCEPT !.bootstrapVersion = t.bootstrapVersion + 1]
  BY Zenon DEF WithRoute, IncrementedVersion
<1>2. t.bootstrapVersion = v /\ w = TablesOf(ns, rs \cup {RouteOf(r)}, ss, v, i)
  BY SMT DEF TablesOf
<1> HIDE DEF w, t
<1> QED BY <1>1, <1>2, SMT DEF TablesOf, t

\* A registration leaves good tables: its slot has never been taken.
LEMMA GoodNode ==
  ASSUME NEW t, Good(t), NEW n \in NodeIds, NEW k \in Keys, ~Has(t, n)
  PROVE  Good(WithNode(t, n, k))
<1> DEFINE u == WithNode(t, n, k)
<1>1. t.overlayNextIP \in Nat /\ t.overlayNextIP >= 10
  BY DEF Good, Tables, Slotted
<1>2. NewNode(t.overlayNextIP, k) \in NodeRecords
      /\ NewNode(t.overlayNextIP, k).address = OverlayIP(t.overlayNextIP)
  BY <1>1, AddressTyped, NamesAssumption DEF NewNode, NodeRecords
<1>3. /\ u \in Tables /\ u.overlayNextIP = t.overlayNextIP + 1 /\ u.routes = t.routes
      /\ u.nodes[n] = NewNode(t.overlayNextIP, k)
      /\ \A m \in NodeIds \ {n} : u.nodes[m] = t.nodes[m]
  <2> DEFINE ns == [t.nodes EXCEPT ![n] = NewNode(t.overlayNextIP, k)]
  <2>1. t \in Tables
    BY DEF Good
  <2>2. u = TablesOf(ns, t.routes, t.states, t.bootstrapVersion, t.overlayNextIP + 1)
    BY <2>1, TablesTyped, NodeWritten
  <2>3. /\ ns \in [NodeIds -> {None} \cup NodeRecords]
        /\ ns[n] = NewNode(t.overlayNextIP, k)
        /\ \A m \in NodeIds \ {n} : ns[m] = t.nodes[m]
    BY <1>2, <2>1, TablesTyped
  <2> HIDE DEF ns, u
  <2> QED BY <1>1, <2>1, <2>2, <2>3, TablesTyped DEF Tables, TablesOf
<1> HIDE DEF u
<1>4. Slotted(u)
  <2> SUFFICES ASSUME NEW m \in NodeIds, Has(u, m)
               PROVE  \E s \in 10..(u.overlayNextIP - 1) : u.nodes[m].address = OverlayIP(s)
    BY <1>1, <1>3 DEF Slotted
  <2>1. CASE m = n
    BY <1>1, <1>2, <1>3, <2>1
  <2>2. CASE m # n
    <3>1. PICK s \in 10..(t.overlayNextIP - 1) : t.nodes[m].address = OverlayIP(s)
      BY <1>3, <2>2 DEF Good, Slotted, Has
    <3>2. s \in 10..(u.overlayNextIP - 1)
      BY <1>1, <1>3
    <3> QED BY <1>3, <2>2, <3>1, <3>2
  <2> QED BY <2>1, <2>2
<1>5. \A m \in NodeIds \ {n} : Has(t, m) => t.nodes[m].address # OverlayIP(t.overlayNextIP)
  <2> SUFFICES ASSUME NEW m \in NodeIds, Has(t, m), t.nodes[m].address = OverlayIP(t.overlayNextIP)
               PROVE  FALSE
    OBVIOUS
  <2>1. PICK s \in 10..(t.overlayNextIP - 1) : t.nodes[m].address = OverlayIP(s)
    BY DEF Good, Slotted
  <2>2. s \in Nat /\ s # t.overlayNextIP
    BY <1>1
  <2> QED BY <1>1, <2>1, <2>2, SlotsTold
<1>6. Unique(u)
  BY <1>2, <1>3, <1>5 DEF Unique, Good, Has
<1>7. Apart(u)
  BY <1>3 DEF Apart, Good
<1> QED BY <1>3, <1>4, <1>6, <1>7 DEF Good, u

\* A heartbeat leaves good tables: a node keeps its address.
LEMMA GoodHeartbeat ==
  ASSUME NEW t, Good(t), NEW r \in Heartbeats, Has(t, r.node)
  PROVE  Good(WithHeartbeat(t, r))
<1> DEFINE u == WithHeartbeat(t, r)
<1>1. r.node \in NodeIds /\ r.key \in Keys \cup {NoKey} /\ r.endpoints \in Endpoints
      /\ r.about \in SUBSET NodeIds
  BY DEF Heartbeats
<1>2. t.nodes[r.node] \in NodeRecords
  BY <1>1 DEF Good, Tables, Has
<1>3. /\ Refreshed(t.nodes[r.node], r) \in NodeRecords
      /\ Refreshed(t.nodes[r.node], r).address = t.nodes[r.node].address
  BY <1>1, <1>2 DEF Refreshed, NodeRecords
<1>4. /\ u \in Tables /\ u.overlayNextIP = t.overlayNextIP /\ u.routes = t.routes
      /\ u.nodes[r.node] = Refreshed(t.nodes[r.node], r)
      /\ \A m \in NodeIds \ {r.node} : u.nodes[m] = t.nodes[m]
  <2> DEFINE ns == [t.nodes EXCEPT ![r.node] = Refreshed(t.nodes[r.node], r)]
             v == Bumped(t.nodes[r.node], r, t.bootstrapVersion)
             ss == [t.states EXCEPT ![r.node] = r.about]
  <2>1. t \in Tables
    BY DEF Good
  <2>2. u = TablesOf(ns, t.routes, ss, v, t.overlayNextIP)
    BY <2>1, HeartbeatWrites
  <2>3. /\ ns \in [NodeIds -> {None} \cup NodeRecords]
        /\ ns[r.node] = Refreshed(t.nodes[r.node], r)
        /\ \A m \in NodeIds \ {r.node} : ns[m] = t.nodes[m]
    BY <1>1, <1>3, <2>1, TablesTyped
  <2>4. v \in Nat
    BY <2>1, TablesTyped DEF Bumped
  <2>5. ss \in [NodeIds -> SUBSET NodeIds]
    BY <1>1, <2>1, TablesTyped
  <2> HIDE DEF ns, ss, v, u
  <2> QED BY <2>1, <2>2, <2>3, <2>4, <2>5, TablesTyped DEF Tables, TablesOf
<1> HIDE DEF u
<1>5. \A m \in NodeIds : Has(u, m) => Has(t, m) /\ u.nodes[m].address = t.nodes[m].address
  BY <1>3, <1>4 DEF Has
<1>6. Slotted(u) /\ Unique(u) /\ Apart(u)
  BY <1>4, <1>5 DEF Slotted, Unique, Apart, Good
<1> QED BY <1>4, <1>6 DEF Good, u

\* A route that conflicts with none leaves good tables.
LEMMA GoodRoute ==
  ASSUME NEW t, Good(t), NEW r \in Publications, ~Conflicts(t.routes, r.prefix)
  PROVE  Good(WithRoute(t, r))
<1> DEFINE u == WithRoute(t, r)
<1>1. RouteOf(r) \in [prefix : Prefixes, via : NodeIds, priority : Priorities]
      /\ RouteOf(r).prefix = r.prefix /\ r.prefix \in Prefixes
  BY DEF RouteOf, Publications
<1>2. /\ u \in Tables /\ u.overlayNextIP = t.overlayNextIP /\ u.nodes = t.nodes
      /\ u.routes = t.routes \cup {RouteOf(r)}
  <2>1. t \in Tables
    BY DEF Good
  <2>2. u = TablesOf(t.nodes, t.routes \cup {RouteOf(r)}, t.states,
                     t.bootstrapVersion + 1, t.overlayNextIP)
    BY <2>1, TablesTyped, RouteWritten
  <2>3. t.routes \cup {RouteOf(r)} \in SUBSET [prefix : Prefixes, via : NodeIds, priority : Priorities]
    BY <1>1, <2>1, TablesTyped
  <2> HIDE DEF u
  <2> QED BY <2>1, <2>2, <2>3, TablesTyped DEF Tables, TablesOf
<1> HIDE DEF u
<1>3. \A s \in t.routes : s.prefix \cap r.prefix = {}
  BY <1>1, OverlapFinds DEF Conflicts, Good, Tables
<1>4. Apart(u)
  BY <1>1, <1>2, <1>3 DEF Apart, Good
<1>5. Slotted(u) /\ Unique(u)
  BY <1>2 DEF Slotted, Unique, Good, Has
<1> QED BY <1>2, <1>4, <1>5 DEF Good, u

\* What a write leaves behind: the tables are well formed, and either the
\* version has grown or the routes and the nodes that were known are the same.
Follows(t, u) ==
  /\ u.bootstrapVersion >= t.bootstrapVersion
  /\ u.bootstrapVersion = t.bootstrapVersion =>
       u.routes = t.routes /\ \A n \in NodeIds : Has(t, n) => u.nodes[n] = t.nodes[n]

\* A registration changes no node that was known.
LEMMA NodeFollows ==
  ASSUME NEW t, Good(t), NEW n \in NodeIds, NEW k \in Keys, ~Has(t, n)
  PROVE  Follows(t, WithNode(t, n, k))
<1>1. t \in Tables
  BY DEF Good
<1>2. WithNode(t, n, k) = TablesOf([t.nodes EXCEPT ![n] = NewNode(t.overlayNextIP, k)], t.routes,
                                   t.states, t.bootstrapVersion, t.overlayNextIP + 1)
  BY <1>1, TablesTyped, NodeWritten
<1> QED BY <1>1, <1>2, TablesTyped DEF Follows, TablesOf

\* A heartbeat that changes its node counts the version up.
LEMMA HeartbeatFollows ==
  ASSUME NEW t, Good(t), NEW r \in Heartbeats, Has(t, r.node)
  PROVE  Follows(t, WithHeartbeat(t, r))
<1> DEFINE node == t.nodes[r.node]
           ns == [t.nodes EXCEPT ![r.node] = Refreshed(node, r)]
           ss == [t.states EXCEPT ![r.node] = r.about]
           v == Bumped(node, r, t.bootstrapVersion)
<1>1. t \in Tables /\ r.node \in NodeIds
  BY DEF Good, Heartbeats
<1>2. WithHeartbeat(t, r) = TablesOf(ns, t.routes, ss, v, t.overlayNextIP)
  BY <1>1, HeartbeatWrites
<1>3. v \in Nat /\ t.bootstrapVersion \in Nat /\ v >= t.bootstrapVersion
  BY <1>1, TablesTyped DEF Bumped
<1>4. node \in NodeRecords
  BY <1>1, TablesTyped DEF Has
<1>5. v = t.bootstrapVersion => Refreshed(node, r) = node
  <2> SUFFICES ASSUME ~Rotates(node, r), ~Moves(node, r)
               PROVE  Refreshed(node, r) = node
    BY <1>1, TablesTyped DEF Bumped
  <2> QED BY <1>4 DEF Rotates, Moves, Refreshed, NodeRecords
<1>6. v = t.bootstrapVersion => ns = t.nodes
  BY <1>1, <1>5, TablesTyped
<1> HIDE DEF ns, ss, v
<1> QED BY <1>2, <1>3, <1>6 DEF Follows, TablesOf

\* A route counts the version up.
LEMMA RouteFollows ==
  ASSUME NEW t, Good(t), NEW r
  PROVE  Follows(t, WithRoute(t, r))
<1>1. t \in Tables
  BY DEF Good
<1>2. WithRoute(t, r) = TablesOf(t.nodes, t.routes \cup {RouteOf(r)}, t.states,
                                 t.bootstrapVersion + 1, t.overlayNextIP)
  BY <1>1, TablesTyped, RouteWritten
<1> QED BY <1>1, <1>2, TablesTyped DEF Follows, TablesOf

-----------------------------------------------------------------------------
(* The invariant *)

\* The tables of a new file.
LEMMA SeededMigrated ==
  Seeded(Migrated) = TablesOf([n \in NodeIds |-> None], {}, [n \in NodeIds |-> {}], 1, 10)
<1> DEFINE t == Migrated
           w == [t EXCEPT !.bootstrapVersion = 1]
           e == [n \in NodeIds |-> None]
           x == [n \in NodeIds |-> {}]
<1>1. Seeded(t) = [w EXCEPT !.overlayNextIP = 10]
  <2>1. t.bootstrapVersion = None /\ t.overlayNextIP = None
    BY DEF Migrated
  <2> HIDE DEF t
  <2> QED BY <2>1, Zenon DEF Seeded
<1>2. w = TablesOf(e, {}, x, 1, None)
  BY SMT DEF Migrated, TablesOf
<1> HIDE DEF t, w, e, x
<1>3. Seeded(t) = TablesOf(e, {}, x, 1, 10)
  BY <1>1, <1>2, SMT DEF TablesOf
<1> QED BY <1>3 DEF t, e, x

\* The tables of a new file are good.
LEMMA MigratedGood == Good(Seeded(Migrated)) /\ Seeded(Migrated).overlayNextIP = 10
BY SeededMigrated DEF Good, Tables, TablesOf, Slotted, Unique, Apart, Has

\* ensureMetadata changes nothing in a file that was seeded.
LEMMA SeededAgain ==
  ASSUME NEW t \in Tables
  PROVE  Seeded(t) = t
<1> DEFINE w == [t EXCEPT !.bootstrapVersion = t.bootstrapVersion]
<1>1. t.bootstrapVersion # None /\ t.overlayNextIP # None
  BY TablesTyped, NamesAssumption
<1>2. Seeded(t) = [w EXCEPT !.overlayNextIP = w.overlayNextIP]
  BY <1>1, Zenon DEF Seeded
<1>3. w = t
  BY DEF Tables
<1> HIDE DEF w
<1> QED BY <1>2, <1>3 DEF Tables

\* A new file satisfies the invariant.
LEMMA InitInv == Init => Inv
BY MigratedGood DEF Init, Inv, Calling, Writing

\* A caller in a transaction that writes: its request is in Requests, the
\* node it names is known, and its prefix is free.
LEMMA Writer ==
  ASSUME Inv, NEW c \in Callers, writer = c
  PROVE  /\ call[c] \in Requests /\ snapshot[c] = tables /\ answer[c] = None
         /\ Outcome(call[c], tables) = None
         /\ call[c].op = "register" => call[c] \in Registrations /\ call[c].flaw = "none"
         /\ call[c].op = "heartbeat" => call[c] \in Heartbeats
         /\ call[c].op = "publish" => call[c] \in Publications /\ call[c].flaw = "none"
<1>1. /\ call[c] \in Requests /\ snapshot[c] = tables /\ answer[c] = None
      /\ Outcome(call[c], tables) = None
      /\ call[c].op \in {"register", "publish"} => call[c].flaw = "none"
  BY NamesAssumption DEF Inv, Calling, Writing
<1> QED BY <1>1, RequestsTyped

\* A heartbeat that goes on to write is of a known node, with its token.
LEMMA HeartbeatAllowed ==
  ASSUME NEW r, NEW t, r.op = "heartbeat", Outcome(r, t) = None
  PROVE  Has(t, r.node) /\ r.authentic
BY RefusalsAssumption, Zenon DEF Outcome, Flaws

\* A route that is written is via a known node and conflicts with none.
LEMMA PublishAllowed ==
  ASSUME NEW r, NEW t, r.op = "publish", Outcome(r, t) = None
  PROVE  Has(t, r.via) /\ ~Conflicts(t.routes, r.prefix)
BY RefusalsAssumption, Zenon DEF Outcome, Flaws

\* A step in which caller c enters or leaves a transaction and no table is written.
LEMMA CallKeeps ==
  ASSUME Inv, NEW c \in Callers, NEW q, NEW s, NEW f, NEW a, NEW w,
         q \in Requests \cup {None}, s \in Tables \cup {None}, f \in BOOLEAN,
         f => s = tables,
         q # None => a = None /\ (q.op \in {"register", "publish"} => q.flaw = "none"),
         call' = [call EXCEPT ![c] = q], snapshot' = [snapshot EXCEPT ![c] = s],
         fresh' = [fresh EXCEPT ![c] = f], answer' = [answer EXCEPT ![c] = a],
         writer' = w, tables' = tables,
         w = c => q # None /\ s = tables /\ Outcome(q, s) = None,
         w # c => w = None \/ w = writer
  PROVE  Inv'
<1>1. Good(tables)'
  BY DEF Inv, Good, Tables, Slotted, Unique, Apart, Has
<1>2. /\ call' \in [Callers -> Requests \cup {None}]
      /\ snapshot' \in [Callers -> Tables \cup {None}]
      /\ fresh' \in [Callers -> BOOLEAN]
  BY DEF Inv, Calling
<1>3. answer' = [b \in Callers |-> answer'[b]]
  BY DEF Inv, Calling
<1>4. \A b \in Callers : fresh'[b] => snapshot'[b] = tables'
  BY DEF Inv, Calling
<1>5. \A b \in Callers : call'[b] # None =>
        /\ answer'[b] = None
        /\ call'[b].op \in {"register", "publish"} => call'[b].flaw = "none"
  BY DEF Inv, Calling
<1>6. Writing'
  BY DEF Inv, Calling, Writing
<1> QED BY <1>1, <1>2, <1>3, <1>4, <1>5, <1>6 DEF Inv, Calling

\* A transaction that commits tables u.
LEMMA CommitKeeps ==
  ASSUME Inv, NEW c \in Callers, NEW u, NEW a, Good(u), Commit(c, u, a)
  PROVE  Inv'
<1>1. Good(tables)'
  BY DEF Commit, Good, Tables, Slotted, Unique, Apart, Has
<1>2. /\ call' \in [Callers -> Requests \cup {None}]
      /\ snapshot' \in [Callers -> Tables \cup {None}]
      /\ fresh' \in [Callers -> BOOLEAN]
      /\ answer' = [b \in Callers |-> answer'[b]]
  BY DEF Commit, Inv, Calling
<1>3. \A b \in Callers : ~fresh'[b]
  BY DEF Commit
<1>4. \A b \in Callers : call'[b] # None =>
        /\ answer'[b] = None
        /\ call'[b].op \in {"register", "publish"} => call'[b].flaw = "none"
  BY DEF Commit, Inv, Calling
<1>5. Writing'
  BY DEF Commit, Writing
<1> QED BY <1>1, <1>2, <1>3, <1>4, <1>5 DEF Inv, Calling

\* The tables a writing transaction commits are good, and follow those it read.
LEMMA Written ==
  ASSUME Inv, NEW c \in Callers, writer = c
  PROVE  /\ \A n \in NodeIds : Register(c, n) =>
              LET u == WithNode(tables, n, call[c].key)
              IN  /\ Good(u) /\ Follows(tables, u)
                  /\ Commit(c, u, Registered(n, CurrentBootstrap(u, n)))
         /\ Heartbeat(c) =>
              LET u == WithHeartbeat(tables, call[c])
              IN  Good(u) /\ Follows(tables, u) /\ Commit(c, u, Heard(u.bootstrapVersion))
         /\ Publish(c) =>
              LET u == WithRoute(tables, call[c])
              IN  Good(u) /\ Follows(tables, u) /\ Commit(c, u, Published(RouteOf(call[c])))
<1>1. Good(tables)
  BY DEF Inv
<1>2. ASSUME NEW n \in NodeIds, Register(c, n)
      PROVE  LET u == WithNode(tables, n, call[c].key)
             IN  /\ Good(u) /\ Follows(tables, u)
                 /\ Commit(c, u, Registered(n, CurrentBootstrap(u, n)))
  <2>1. call[c].key \in Keys /\ ~Has(tables, n)
    BY <1>2, Writer DEF Register, Registrations
  <2>2. Commit(c, WithNode(tables, n, call[c].key),
               Registered(n, CurrentBootstrap(WithNode(tables, n, call[c].key), n)))
    BY <1>2, Writer DEF Register
  <2> QED BY <1>1, <2>1, <2>2, GoodNode, NodeFollows
<1>3. ASSUME Heartbeat(c)
      PROVE  LET u == WithHeartbeat(tables, call[c])
             IN  Good(u) /\ Follows(tables, u) /\ Commit(c, u, Heard(u.bootstrapVersion))
  <2>1. call[c] \in Heartbeats /\ Has(tables, call[c].node)
    BY <1>3, Writer, HeartbeatAllowed DEF Heartbeat
  <2>2. Commit(c, WithHeartbeat(tables, call[c]), Heard(WithHeartbeat(tables, call[c]).bootstrapVersion))
    BY <1>3, Writer DEF Heartbeat
  <2> QED BY <1>1, <2>1, <2>2, GoodHeartbeat, HeartbeatFollows
<1>4. ASSUME Publish(c)
      PROVE  LET u == WithRoute(tables, call[c])
             IN  Good(u) /\ Follows(tables, u) /\ Commit(c, u, Published(RouteOf(call[c])))
  <2>1. call[c] \in Publications /\ ~Conflicts(tables.routes, call[c].prefix)
    BY <1>4, Writer, PublishAllowed DEF Publish
  <2>2. Commit(c, WithRoute(tables, call[c]), Published(RouteOf(call[c])))
    BY <1>4, Writer DEF Publish
  <2> QED BY <1>1, <2>1, <2>2, GoodRoute, RouteFollows
<1> QED BY <1>2, <1>3, <1>4

\* One call at a time enters, leaves or writes; a restart ends them all.
LEMMA NextInv == Inv /\ [Next]_vars => Inv'
<1> SUFFICES ASSUME Inv, [Next]_vars
             PROVE  Inv'
  OBVIOUS
<1> USE NamesAssumption
<1>t. /\ tables \in Tables
      /\ call \in [Callers -> Requests \cup {None}] /\ snapshot \in [Callers -> Tables \cup {None}]
      /\ fresh \in [Callers -> BOOLEAN] /\ answer = [b \in Callers |-> answer[b]]
      /\ \A b \in Callers : fresh[b] => snapshot[b] = tables
      /\ \A b \in Callers : call[b] # None =>
           answer[b] = None /\ (call[b].op \in {"register", "publish"} => call[b].flaw = "none")
  BY DEF Inv, Calling, Good
<1>0. CASE UNCHANGED vars
  BY <1>0 DEF vars, tx, Inv, Good, Tables, Slotted, Unique, Apart, Has, Calling, Writing
<1>1. ASSUME NEW c \in Callers, NEW r \in Requests, Reject(c, r)
      PROVE  Inv'
  <2>1. /\ call[c] = None /\ snapshot[c] \in Tables \cup {None} /\ fresh[c] \in BOOLEAN
        /\ fresh[c] => snapshot[c] = tables
        /\ call' = [call EXCEPT ![c] = None] /\ snapshot' = [snapshot EXCEPT ![c] = snapshot[c]]
        /\ fresh' = [fresh EXCEPT ![c] = fresh[c]]
        /\ writer' = writer /\ tables' = tables
        /\ answer' = [answer EXCEPT ![c] = Refusal(r.flaw)]
    BY <1>1, <1>t DEF Reject, Idle, tx
  <2>2. writer # c
    BY <2>1 DEF Inv, Writing
  <2> QED BY <2>1, <2>2, CallKeeps
<1>2. ASSUME NEW c \in Callers, NEW r \in Requests, Begin(c, r)
      PROVE  Inv'
  <2>1. /\ call[c] = None /\ answer[c] = None
        /\ call' = [call EXCEPT ![c] = r] /\ snapshot' = [snapshot EXCEPT ![c] = tables]
        /\ fresh' = [fresh EXCEPT ![c] = TRUE] /\ answer' = [answer EXCEPT ![c] = None]
        /\ writer' = writer /\ tables' = tables
        /\ r.op \in {"register", "publish"} => r.flaw = "none"
    BY <1>2, <1>t DEF Begin, Idle, Enter
  <2>2. writer # c
    BY <2>1 DEF Inv, Writing
  <2> QED BY <1>t, <2>1, <2>2, CallKeeps
<1>3. ASSUME NEW c \in Callers, NEW r \in Requests, BeginRegistration(c, r)
      PROVE  Inv'
  <2>1. /\ call' = [call EXCEPT ![c] = r] /\ snapshot' = [snapshot EXCEPT ![c] = tables]
        /\ fresh' = [fresh EXCEPT ![c] = TRUE] /\ answer' = [answer EXCEPT ![c] = None]
        /\ writer' = c /\ tables' = tables
        /\ r.op = "register" /\ r.flaw = "none" /\ r # None
    BY <1>3, <1>t, RequestsTyped DEF BeginRegistration, Idle, Enter
  <2>2. Outcome(r, tables) = None
    BY <2>1, Zenon DEF Outcome
  <2> QED BY <1>t, <2>1, <2>2, CallKeeps
<1>4. ASSUME NEW c \in Callers, NEW r \in Requests, BusyRegistration(c, r)
      PROVE  Inv'
  <2>1. /\ call[c] = None /\ snapshot[c] \in Tables \cup {None} /\ fresh[c] \in BOOLEAN
        /\ fresh[c] => snapshot[c] = tables
        /\ call' = [call EXCEPT ![c] = None] /\ snapshot' = [snapshot EXCEPT ![c] = snapshot[c]]
        /\ fresh' = [fresh EXCEPT ![c] = fresh[c]]
        /\ writer' = writer /\ tables' = tables
        /\ answer' = [answer EXCEPT ![c] = Failed]
    BY <1>4, <1>t DEF BusyRegistration, Idle, tx
  <2>2. writer # c
    BY <2>1 DEF Inv, Writing
  <2> QED BY <2>1, <2>2, CallKeeps
<1>5. ASSUME NEW c \in Callers, NEW a, Leave(c, a), tables' = tables,
             writer' = None \/ (writer' = writer /\ writer # c)
      PROVE  Inv'
  <2>1. /\ call' = [call EXCEPT ![c] = None] /\ snapshot' = [snapshot EXCEPT ![c] = None]
        /\ fresh' = [fresh EXCEPT ![c] = FALSE] /\ answer' = [answer EXCEPT ![c] = a]
        /\ writer' # c
    BY <1>5 DEF Leave
  <2> QED BY <1>5, <2>1, CallKeeps
<1>6. ASSUME NEW c \in Callers, Finish(c)
      PROVE  Inv'
  BY <1>5, <1>6 DEF Finish
<1>7. ASSUME NEW c \in Callers, Lock(c)
      PROVE  Inv'
  <2>1. /\ call[c] \in Requests /\ snapshot[c] = tables /\ answer[c] = None
        /\ Outcome(call[c], tables) = None /\ call[c] # None
        /\ call[c].op \in {"register", "publish"} => call[c].flaw = "none"
        /\ call' = [call EXCEPT ![c] = call[c]] /\ snapshot' = [snapshot EXCEPT ![c] = tables]
        /\ fresh' = [fresh EXCEPT ![c] = TRUE] /\ answer' = [answer EXCEPT ![c] = None]
        /\ writer' = c /\ tables' = tables
    BY <1>7, <1>t DEF Lock, Writes, tx
  <2> QED BY <1>t, <2>1, CallKeeps
<1>8. ASSUME NEW c \in Callers, Busy(c)
      PROVE  Inv'
  BY <1>5, <1>8 DEF Busy, Writes
<1>9. ASSUME NEW c \in Callers, Heartbeat(c)
      PROVE  Inv'
  BY <1>9, Written, CommitKeeps DEF Heartbeat
<1>10. ASSUME NEW c \in Callers, Publish(c)
       PROVE  Inv'
  BY <1>10, Written, CommitKeeps DEF Publish
<1>11. ASSUME NEW c \in Callers, WriteFails(c)
       PROVE  Inv'
  BY <1>5, <1>11 DEF WriteFails
<1>12. ASSUME NEW c \in Callers, Take(c)
       PROVE  Inv'
  <2>1. /\ call[c] = None /\ snapshot[c] \in Tables \cup {None} /\ fresh[c] \in BOOLEAN
        /\ fresh[c] => snapshot[c] = tables
        /\ call' = [call EXCEPT ![c] = None] /\ snapshot' = [snapshot EXCEPT ![c] = snapshot[c]]
        /\ fresh' = [fresh EXCEPT ![c] = fresh[c]]
        /\ writer' = writer /\ tables' = tables
        /\ answer' = [answer EXCEPT ![c] = None]
    BY <1>12, <1>t DEF Take, tx
  <2>2. writer # c
    BY <2>1 DEF Inv, Writing
  <2> QED BY <2>1, <2>2, CallKeeps
<1>13. ASSUME NEW c \in Callers, NEW n \in NodeIds, Register(c, n)
       PROVE  Inv'
  BY <1>13, Written, CommitKeeps DEF Register
<1>14. CASE Restart
  <2>1. tables' = tables
    BY <1>14, <1>t, SeededAgain DEF Restart
  <2>2. Good(tables)'
    BY <2>1 DEF Inv, Good, Tables, Slotted, Unique, Apart, Has
  <2>3. Calling'
    BY <1>14 DEF Restart, Calling
  <2>4. Writing'
    BY <1>14 DEF Restart, Writing
  <2> QED BY <2>2, <2>3, <2>4 DEF Inv
<1> QED BY <1>0, <1>1, <1>2, <1>3, <1>4, <1>6, <1>7, <1>8, <1>9, <1>10, <1>11, <1>12, <1>13,
           <1>14 DEF Next

\* The invariant holds in every behaviour.
LEMMA InvHolds == Spec => []Inv
BY InitInv, NextInv, PTL DEF Spec

-----------------------------------------------------------------------------
(* The theorems *)

\* The tables are well formed and who holds the write lock has read them as
\* they are, whatever fails and however often the process starts again.
THEOREM TypeCorrect == Spec => []TypeOK
<1>1. Inv => TypeOK
  <2> SUFFICES ASSUME Inv
               PROVE  TypeOK
    OBVIOUS
  <2>1. tables \in Tables /\ tables.overlayNextIP >= 10
    BY DEF Inv, Good, Slotted
  <2>2. tables.overlayNextIP - 10 \in Nat
    BY <2>1, TablesTyped
  <2>3. Store!TypeOK
    BY <2>1, <2>2, TablesTyped DEF Store!TypeOK, NodeRecords
  <2> QED BY <2>3 DEF TypeOK, Inv, Calling, Writing
<1> QED BY <1>1, InvHolds, PTL

\* No two nodes ever have the same overlay address.
THEOREM AddressesUnique == Spec => []UniqueAddresses
<1>1. Inv => UniqueAddresses
  BY DEF Inv, Good, Unique, UniqueAddresses, Store!UniqueAddresses, Store!Known, Has
<1> QED BY <1>1, InvHolds, PTL

\* No address belongs to two routes, although the overlap check compares base
\* addresses only and routes are created at once.
THEOREM RoutesApart == Spec => []RoutesDisjoint
<1>1. Inv => RoutesDisjoint
  BY DEF Inv, Good, Apart, RoutesDisjoint, Store!RoutesDisjoint
<1> QED BY <1>1, InvHolds, PTL

\* Every step leaves the tables alone or writes ones that follow them.
LEMMA StepFollows ==
  ASSUME Inv, [Next]_vars
  PROVE  tables' = tables \/ Follows(tables, tables')
<1>1. \A c \in Callers : \A u, a : Commit(c, u, a) => tables' = u
  BY DEF Commit
<1>2. ASSUME NEW c \in Callers, NEW n \in NodeIds, Register(c, n)
      PROVE  Follows(tables, tables')
  BY <1>1, <1>2, Written DEF Register
<1>3. ASSUME NEW c \in Callers, Heartbeat(c)
      PROVE  Follows(tables, tables')
  BY <1>1, <1>3, Written DEF Heartbeat
<1>4. ASSUME NEW c \in Callers, Publish(c)
      PROVE  Follows(tables, tables')
  BY <1>1, <1>4, Written DEF Publish
<1>5. Restart => tables' = tables
  BY SeededAgain DEF Restart, Inv, Good
<1> QED BY <1>2, <1>3, <1>4, <1>5
      DEF Next, vars, Reject, Begin, BeginRegistration, BusyRegistration, Finish, Lock, Busy,
          WriteFails, Take

\* While the version stays, the nodes that were known and the routes stay.
THEOREM VersionTold == Spec => VersionStandsForContent
<1>1. Inv /\ [Next]_vars =>
        [/\ (tables.bootstrapVersion)' >= tables.bootstrapVersion
         /\ (tables.bootstrapVersion)' = tables.bootstrapVersion =>
              /\ (tables.routes)' = tables.routes
              /\ \A n \in Store!Known(tables.nodes) : (tables.nodes)'[n] = tables.nodes[n]]_Store!stored
  <2> SUFFICES ASSUME Inv, [Next]_vars, tables' # tables
               PROVE  Follows(tables, tables')
    BY DEF Store!stored, Follows, Store!Known, Has
  <2> QED BY StepFollows
<1> QED BY <1>1, InvHolds, PTL DEF Spec, VersionStandsForContent, Store!VersionStandsForContent

-----------------------------------------------------------------------------
(* Refinement: the registry that serves one call after the other *)

Answers == [c \in Callers |-> Seen(c)]

\* What the registry's callers see when only caller c has moved.
LEMMA OthersSee ==
  ASSUME NEW c \in Callers, NEW q, NEW s, NEW f, NEW a, Inv,
         call' = [call EXCEPT ![c] = q], snapshot' = [snapshot EXCEPT ![c] = s],
         answer' = [answer EXCEPT ![c] = a]
  PROVE  /\ Answers' = [Answers EXCEPT ![c] = Seen(c)']
         /\ Seen(c)' = IF q # None THEN Outcome(q, s) ELSE IF a = Failed THEN None ELSE a
<1>1. /\ call \in [Callers -> Requests \cup {None}]
      /\ snapshot \in [Callers -> Tables \cup {None}] /\ answer = [b \in Callers |-> answer[b]]
  BY DEF Inv, Calling
<1>2. call'[c] = q /\ snapshot'[c] = s /\ answer'[c] = a
  BY <1>1
<1>3. \A b \in Callers \ {c} : call'[b] = call[b] /\ snapshot'[b] = snapshot[b] /\ answer'[b] = answer[b]
  BY <1>1
<1>4. \A b \in Callers \ {c} : Seen(b)' = Seen(b)
  BY <1>3 DEF Seen
<1>5. Seen(c)' = IF q # None THEN Outcome(q, s) ELSE IF a = Failed THEN None ELSE a
  BY <1>2 DEF Seen
<1>6. Answers' = [b \in Callers |-> Seen(b)']
  BY DEF Answers
<1>7. Answers' = [Answers EXCEPT ![c] = Seen(c)']
  BY <1>4, <1>6 DEF Answers
<1> QED BY <1>5, <1>7

\* The registry has what the tables hold.
LEMMA StoreTables ==
  ASSUME tables' = tables
  PROVE  Store!stored' = Store!stored
BY DEF Store!stored

\* The two copies of the operators of TenantData agree.
LEMMA SameOperators ==
  /\ \A why : Store!Refusal(why) = Refusal(why)
  /\ \A n, x : Store!Registered(n, x) = Registered(n, x)
  /\ \A v : Store!Heard(v) = Heard(v)
  /\ \A x : Store!Fetched(x) = Fetched(x)
  /\ \A x : Store!Published(x) = Published(x)
  /\ \A rs, p : Store!Conflicts(rs, p) = Conflicts(rs, p)
  /\ \A i, k : Store!NewNode(i, k) = NewNode(i, k)
  /\ \A x, r : Store!Refreshed(x, r) = Refreshed(x, r)
  /\ \A x, r : Store!Rotates(x, r) = Rotates(x, r) /\ Store!Moves(x, r) = Moves(x, r)
  /\ \A ns, rs, ss, v, n : Store!Bootstrap(ns, rs, ss, v, n) = Bootstrap(ns, rs, ss, v, n)
<1>1. \A why : Store!Refusal(why) = Refusal(why)
  BY DEF Store!Refusal, Refusal
<1>2. \A n, x : Store!Registered(n, x) = Registered(n, x)
  BY DEF Store!Registered, Registered
<1>3. \A v : Store!Heard(v) = Heard(v)
  BY DEF Store!Heard, Heard
<1>4. \A x : Store!Fetched(x) = Fetched(x)
  BY DEF Store!Fetched, Fetched
<1>5. \A x : Store!Published(x) = Published(x)
  BY DEF Store!Published, Published
<1>6. \A rs, p : Store!Conflicts(rs, p) = Conflicts(rs, p)
  BY DEF Store!Conflicts, Conflicts, Store!Overlap, Overlap, Store!Base, Base
<1>7. \A i, k : Store!NewNode(i, k) = NewNode(i, k)
  BY DEF Store!NewNode, NewNode, Store!OverlayIP, OverlayIP
<1>8. \A x, r : Store!Refreshed(x, r) = Refreshed(x, r)
  BY Zenon DEF Store!Refreshed, Refreshed, Store!NoKey, NoKey
<1>9. \A x, r : Store!Rotates(x, r) = Rotates(x, r) /\ Store!Moves(x, r) = Moves(x, r)
  BY Zenon DEF Store!Rotates, Rotates, Store!Moves, Moves, Store!NoKey, NoKey
<1>10. \A ns, rs, ss, v, n : Store!Bootstrap(ns, rs, ss, v, n) = Bootstrap(ns, rs, ss, v, n)
  BY DEF Store!Bootstrap, Bootstrap, Store!Known, Known, Store!Peer, Peer,
         Store!ExitNode, ExitNode, Store!AllowedPrefixes, AllowedPrefixes
<1> QED BY <1>1, <1>2, <1>3, <1>4, <1>5, <1>6, <1>7, <1>8, <1>9, <1>10

\* A caller that had no answer and is given one is answered by the registry.
LEMMA StoreAnswers ==
  ASSUME NEW c \in Callers, NEW a, Seen(c) = None, Answers' = [Answers EXCEPT ![c] = a]
  PROVE  Store!Answer(c, a)
<1>1. Answers[c] = None
  BY DEF Answers
<1> QED BY <1>1 DEF Answers, Store!Answer

\* Without a change of tables or answers the registry does nothing.
LEMMA StoreStutters ==
  ASSUME tables' = tables, Answers' = Answers
  PROVE  UNCHANGED Store!vars
BY StoreTables DEF Answers, Store!vars

\* No call that ends without a write looks like one that failed.
LEMMA OnlyRefusals ==
  ASSUME NEW r, NEW t, Outcome(r, t) # None
  PROVE  Outcome(r, t) # Failed
BY Zenon DEF Outcome, Failed, Refusal, Fetched

\* No answer of the registry looks like a failure.
LEMMA NotFailed ==
  /\ \A why : Refusal(why) # Failed
  /\ \A n, x : Registered(n, x) # Failed
  /\ \A v : Heard(v) # Failed
  /\ \A x : Fetched(x) # Failed
  /\ \A x : Published(x) # Failed
<1>1. Failed.as = "failed"
  BY DEF Failed
<1> QED BY <1>1 DEF Refusal, Registered, Heard, Fetched, Published

\* A request that ends without a write is answered as the registry answers it.
LEMMA Answered ==
  ASSUME NEW c \in Callers, NEW r \in Requests, Seen(c) = None, tables' = tables,
         Outcome(r, tables) # None, Answers' = [Answers EXCEPT ![c] = Outcome(r, tables)],
         r.op \in {"register", "publish"} => r.flaw = "none"
  PROVE  Store!Serve(c, r)
<1>1. Store!Answer(c, Outcome(r, tables)) /\ UNCHANGED Store!stored
  BY StoreAnswers, StoreTables
<1>2. CASE r.op = "heartbeat" \/ r.op = "fetch"
  <2>1. CASE tables.nodes[r.node] = None
    <3>1. Outcome(r, tables) = Refusal("not found")
      BY <1>2, <2>1, Zenon DEF Outcome, Has
    <3> QED BY <1>1, <1>2, <2>1, <3>1, SameOperators DEF Store!Serve, Store!TurnAway, Store!Turned
  <2>2. CASE tables.nodes[r.node] # None /\ ~r.authentic
    <3>1. Outcome(r, tables) = Refusal("unauthorized")
      BY <1>2, <2>2, Zenon DEF Outcome, Has
    <3> QED BY <1>1, <1>2, <2>2, <3>1, SameOperators DEF Store!Serve, Store!TurnAway, Store!Turned
  <2>3. CASE tables.nodes[r.node] # None /\ r.authentic
    <3>1. r.op = "fetch"
      BY <1>2, <2>3, Zenon DEF Outcome, Has
    <3>2. Outcome(r, tables) = Fetched(CurrentBootstrap(tables, r.node))
      BY <2>3, <3>1, Zenon DEF Outcome, Has
    <3> QED BY <1>1, <2>3, <3>1, <3>2, SameOperators DEF Store!Serve, Store!Fetch, CurrentBootstrap
  <2> QED BY <2>1, <2>2, <2>3
<1>3. CASE r.op = "publish"
  <2>1. CASE tables.nodes[r.via] = None
    <3>1. Outcome(r, tables) = Refusal("not found")
      BY <1>3, <2>1, Zenon DEF Outcome, Has
    <3> QED BY <1>1, <1>3, <2>1, <3>1, SameOperators DEF Store!Serve, Store!RefuseRoute
  <2>2. CASE tables.nodes[r.via] # None
    <3>1. Conflicts(tables.routes, r.prefix) /\ Outcome(r, tables) = Refusal("conflict")
      BY <1>3, <2>2, Zenon DEF Outcome, Has
    <3> QED BY <1>1, <1>3, <2>2, <3>1, SameOperators DEF Store!Serve, Store!RefuseRoute
  <2> QED BY <2>1, <2>2
<1>4. r.op # "register"
  BY Zenon DEF Outcome
<1> QED BY <1>2, <1>3, <1>4, RequestsTyped

\* Serving one request is a step of the registry.
LEMMA ServeIsNext ==
  ASSUME NEW c \in Callers, NEW r \in Requests, Store!Serve(c, r)
  PROVE  Store!Next
BY DEF Store!Next

\* A registration that commits is one call of the registry.
LEMMA RegisterServes ==
  ASSUME Inv, NEW c \in Callers, NEW n \in NodeIds, Register(c, n)
  PROVE  Store!Next
<1> DEFINE r == call[c]
           u == WithNode(tables, n, r.key)
           a == Registered(n, CurrentBootstrap(u, n))
<1>1. /\ writer = c /\ r \in Requests /\ r.op = "register" /\ r.flaw = "none"
      /\ Outcome(r, tables) = None /\ snapshot[c] = tables /\ ~Has(tables, n)
  BY Writer DEF Register
<1>2. Commit(c, u, a)
  BY <1>1, Written
<1>3. Seen(c) = None
  BY <1>1, NamesAssumption DEF Seen
<1>4. tables \in Tables
  BY DEF Inv, Good
<1>5. u = TablesOf([tables.nodes EXCEPT ![n] = NewNode(tables.overlayNextIP, r.key)], tables.routes,
                   tables.states, tables.bootstrapVersion, tables.overlayNextIP + 1)
  BY <1>4, TablesTyped, NodeWritten
<1> HIDE DEF u, a
<1>6. Answers' = [Answers EXCEPT ![c] = a]
  <2>1. Answers' = [Answers EXCEPT ![c] = Seen(c)'] /\ Seen(c)' = IF a = Failed THEN None ELSE a
    BY <1>2, OthersSee DEF Commit
  <2>2. a # Failed
    BY NotFailed DEF a
  <2> QED BY <2>1, <2>2
<1>7. tables' = u
  BY <1>2 DEF Commit
<1>8. /\ (tables.overlayNextIP - 10)' = (tables.overlayNextIP - 10) + 1
      /\ (tables.nodes)' = [tables.nodes EXCEPT ![n] = NewNode(tables.overlayNextIP, r.key)]
      /\ (tables.routes)' = tables.routes /\ (tables.states)' = tables.states
      /\ (tables.bootstrapVersion)' = tables.bootstrapVersion
  BY <1>4, <1>5, <1>7, TablesTyped DEF TablesOf
<1>9. (tables.overlayNextIP - 10)' + 10 - 1 = tables.overlayNextIP
  BY <1>4, <1>8, TablesTyped
<1>10. a = Store!Registered(n, Store!Bootstrap((tables.nodes)', tables.routes, tables.states,
                                               tables.bootstrapVersion, n))
  BY <1>7, <1>8, SameOperators DEF a, CurrentBootstrap
<1>11. Store!Answer(c, a)
  BY <1>3, <1>6, StoreAnswers
<1>12. Store!Register(c, r, n)
  BY <1>1, <1>8, <1>9, <1>10, <1>11, SameOperators DEF Store!Register, Store!FirstSlot, Has
<1>13. Store!Serve(c, r)
  BY <1>12 DEF Store!Serve
<1> QED BY <1>1, <1>13, ServeIsNext

\* A heartbeat that commits is one call of the registry.
LEMMA HeartbeatServes ==
  ASSUME Inv, NEW c \in Callers, Heartbeat(c)
  PROVE  Store!Next
<1> DEFINE r == call[c]
           node == tables.nodes[r.node]
           u == WithHeartbeat(tables, r)
           a == Heard(u.bootstrapVersion)
<1>1. /\ writer = c /\ r \in Requests /\ r \in Heartbeats /\ r.op = "heartbeat"
      /\ Outcome(r, tables) = None /\ snapshot[c] = tables
  BY Writer DEF Heartbeat
<1>2. Commit(c, u, a)
  BY <1>1, Written
<1>3. Seen(c) = None
  BY <1>1, NamesAssumption DEF Seen
<1>4. tables \in Tables
  BY DEF Inv, Good
<1>5. u = TablesOf([tables.nodes EXCEPT ![r.node] = Refreshed(node, r)], tables.routes,
                   [tables.states EXCEPT ![r.node] = r.about],
                   Bumped(node, r, tables.bootstrapVersion), tables.overlayNextIP)
  BY <1>4, HeartbeatWrites
<1> HIDE DEF u, a
<1>6. Answers' = [Answers EXCEPT ![c] = a]
  <2>1. Answers' = [Answers EXCEPT ![c] = Seen(c)'] /\ Seen(c)' = IF a = Failed THEN None ELSE a
    BY <1>2, OthersSee DEF Commit
  <2>2. a # Failed
    BY NotFailed DEF a
  <2> QED BY <2>1, <2>2
<1>7. tables' = u
  BY <1>2 DEF Commit
<1>8. /\ (tables.overlayNextIP - 10)' = tables.overlayNextIP - 10
      /\ (tables.nodes)' = [tables.nodes EXCEPT ![r.node] = Refreshed(node, r)]
      /\ (tables.routes)' = tables.routes
      /\ (tables.states)' = [tables.states EXCEPT ![r.node] = r.about]
      /\ (tables.bootstrapVersion)' = Bumped(node, r, tables.bootstrapVersion)
  BY <1>5, <1>7 DEF TablesOf
<1>9. a = Store!Heard((tables.bootstrapVersion)')
  BY <1>7, SameOperators DEF a
<1>10. Store!Answer(c, a)
  BY <1>3, <1>6, StoreAnswers
<1>11. node # None /\ r.authentic
  BY <1>1, HeartbeatAllowed DEF Has
<1>12. Store!Heartbeat(c, r)
  BY <1>1, <1>8, <1>9, <1>10, <1>11, SameOperators DEF Store!Heartbeat, Bumped
<1>13. Store!Serve(c, r)
  BY <1>12 DEF Store!Serve
<1> QED BY <1>1, <1>13, ServeIsNext

\* A route that commits is one call of the registry.
LEMMA PublishServes ==
  ASSUME Inv, NEW c \in Callers, Publish(c)
  PROVE  Store!Next
<1> DEFINE r == call[c]
           u == WithRoute(tables, r)
           a == Published(RouteOf(r))
<1>1. /\ writer = c /\ r \in Requests /\ r.op = "publish" /\ r.flaw = "none"
      /\ Outcome(r, tables) = None /\ snapshot[c] = tables
  BY Writer DEF Publish
<1>2. Commit(c, u, a)
  BY <1>1, Written
<1>3. Seen(c) = None
  BY <1>1, NamesAssumption DEF Seen
<1>4. tables \in Tables
  BY DEF Inv, Good
<1>5. u = TablesOf(tables.nodes, tables.routes \cup {RouteOf(r)}, tables.states,
                   tables.bootstrapVersion + 1, tables.overlayNextIP)
  BY <1>4, TablesTyped, RouteWritten
<1> HIDE DEF u, a
<1>6. Answers' = [Answers EXCEPT ![c] = a]
  <2>1. Answers' = [Answers EXCEPT ![c] = Seen(c)'] /\ Seen(c)' = IF a = Failed THEN None ELSE a
    BY <1>2, OthersSee DEF Commit
  <2>2. a # Failed
    BY NotFailed DEF a
  <2> QED BY <2>1, <2>2
<1>7. tables' = u
  BY <1>2 DEF Commit
<1>8. /\ (tables.overlayNextIP - 10)' = tables.overlayNextIP - 10
      /\ (tables.nodes)' = tables.nodes /\ (tables.states)' = tables.states
      /\ (tables.routes)' = tables.routes \cup {RouteOf(r)}
      /\ (tables.bootstrapVersion)' = tables.bootstrapVersion + 1
  BY <1>5, <1>7 DEF TablesOf
<1>9. Store!Answer(c, a)
  BY <1>3, <1>6, StoreAnswers
<1>10. tables.nodes[r.via] # None /\ ~Store!Conflicts(tables.routes, r.prefix)
  BY <1>1, PublishAllowed, SameOperators DEF Has
<1>11. Store!Publish(c, r)
  BY <1>1, <1>8, <1>9, <1>10, SameOperators DEF Store!Publish, RouteOf, a
<1>12. Store!Serve(c, r)
  BY <1>11 DEF Store!Serve
<1> QED BY <1>1, <1>12, ServeIsNext

\* Every step of the store is one call of the registry, one that is over, or none.
LEMMA StepRefines ==
  ASSUME Inv, [Next]_vars
  PROVE  [Store!Next]_Store!vars
<1> USE NamesAssumption
<1>t. /\ tables \in Tables
      /\ call \in [Callers -> Requests \cup {None}] /\ snapshot \in [Callers -> Tables \cup {None}]
      /\ answer = [b \in Callers |-> answer[b]]
      /\ \A b \in Callers : call[b] # None => answer[b] = None
  BY DEF Inv, Calling, Good
<1>0. CASE UNCHANGED vars
  BY <1>0, StoreStutters DEF vars, tx, Answers, Seen
<1>1. ASSUME NEW c \in Callers, NEW r \in Requests, Reject(c, r)
      PROVE  Store!Next
  <2>1. Seen(c) = None
    BY <1>1 DEF Reject, Idle, Seen, Failed
  <2>2. /\ call' = [call EXCEPT ![c] = None] /\ snapshot' = [snapshot EXCEPT ![c] = snapshot[c]]
        /\ answer' = [answer EXCEPT ![c] = Refusal(r.flaw)] /\ tables' = tables
    BY <1>1, <1>t DEF Reject, Idle, tx
  <2>3. Answers' = [Answers EXCEPT ![c] = Refusal(r.flaw)]
    BY <2>2, OthersSee, NotFailed
  <2>4. Store!Reject(c, r)
    BY <1>1, <2>1, <2>2, <2>3, StoreAnswers, StoreTables, SameOperators DEF Store!Reject, Reject
  <2> QED BY <2>4, ServeIsNext DEF Store!Serve
<1>2. ASSUME NEW c \in Callers, NEW r \in Requests, Begin(c, r)
      PROVE  [Store!Next]_Store!vars
  <2>1. Seen(c) = None
    BY <1>2 DEF Begin, Idle, Seen
  <2>2. /\ call' = [call EXCEPT ![c] = r] /\ snapshot' = [snapshot EXCEPT ![c] = tables]
        /\ answer' = [answer EXCEPT ![c] = None] /\ tables' = tables
        /\ r.op \in {"register", "publish"} => r.flaw = "none"
    BY <1>2, <1>t DEF Begin, Idle, Enter
  <2>3. Answers' = [Answers EXCEPT ![c] = Outcome(r, tables)]
    BY <2>2, OthersSee
  <2>4. CASE Outcome(r, tables) = None
    <3>1. Answers' = Answers
      BY <2>1, <2>3, <2>4 DEF Answers
    <3> QED BY <2>2, <3>1, StoreStutters
  <2>5. CASE Outcome(r, tables) # None
    <3>1. Store!Serve(c, r)
      BY <2>1, <2>2, <2>3, <2>5, Answered
    <3> QED BY <3>1, ServeIsNext
  <2> QED BY <2>4, <2>5
<1>3. ASSUME NEW c \in Callers, NEW q, NEW s, NEW a, Seen(c) = None, tables' = tables,
             call' = [call EXCEPT ![c] = q], snapshot' = [snapshot EXCEPT ![c] = s],
             answer' = [answer EXCEPT ![c] = a],
             IF q # None THEN Outcome(q, s) = None ELSE a = Failed
      PROVE  UNCHANGED Store!vars
  <2>1. Answers' = [Answers EXCEPT ![c] = None]
    BY <1>3, OthersSee
  <2>2. Answers' = Answers
    BY <1>3, <2>1 DEF Answers
  <2> QED BY <1>3, <2>2, StoreStutters
<1>4. ASSUME NEW c \in Callers, NEW r \in Requests, BeginRegistration(c, r)
      PROVE  UNCHANGED Store!vars
  <2>1. r.op = "register" /\ Outcome(r, tables) = None
    BY <1>4, Zenon DEF BeginRegistration, Outcome
  <2>2. Seen(c) = None
    BY <1>4 DEF BeginRegistration, Idle, Seen
  <2>3. /\ call' = [call EXCEPT ![c] = r] /\ snapshot' = [snapshot EXCEPT ![c] = tables]
        /\ answer' = [answer EXCEPT ![c] = None] /\ tables' = tables
    BY <1>4, <1>t DEF BeginRegistration, Idle, Enter
  <2> QED BY <1>3, <2>1, <2>2, <2>3
<1>5. ASSUME NEW c \in Callers, NEW r \in Requests, BusyRegistration(c, r)
      PROVE  UNCHANGED Store!vars
  <2>1. Seen(c) = None
    BY <1>5 DEF BusyRegistration, Idle, Seen
  <2>2. /\ call' = [call EXCEPT ![c] = None] /\ snapshot' = [snapshot EXCEPT ![c] = snapshot[c]]
        /\ answer' = [answer EXCEPT ![c] = Failed] /\ tables' = tables
    BY <1>5, <1>t DEF BusyRegistration, Idle, tx
  <2> QED BY <1>3, <2>1, <2>2
<1>6. ASSUME NEW c \in Callers, Finish(c)
      PROVE  UNCHANGED Store!vars
  <2> DEFINE a == Outcome(call[c], snapshot[c])
  <2>1. a # None /\ a # Failed /\ Seen(c) = a
    BY <1>6, OnlyRefusals DEF Finish, Seen
  <2>2. /\ call' = [call EXCEPT ![c] = None] /\ snapshot' = [snapshot EXCEPT ![c] = None]
        /\ answer' = [answer EXCEPT ![c] = a] /\ tables' = tables
    BY <1>6 DEF Finish, Leave
  <2> HIDE DEF a
  <2>3. Answers' = [Answers EXCEPT ![c] = a]
    BY <2>1, <2>2, OthersSee
  <2>4. Answers' = Answers
    BY <2>1, <2>3 DEF Answers
  <2> QED BY <2>2, <2>4, StoreStutters
<1>7. ASSUME NEW c \in Callers, Lock(c)
      PROVE  UNCHANGED Store!vars
  BY <1>7, StoreStutters DEF Lock, tx, Answers, Seen
<1>8. ASSUME NEW c \in Callers, Leave(c, Failed), tables' = tables,
             call[c] # None, Outcome(call[c], snapshot[c]) = None
      PROVE  UNCHANGED Store!vars
  <2>1. Seen(c) = None
    BY <1>8 DEF Seen
  <2> QED BY <1>3, <1>8, <2>1 DEF Leave
<1>9. ASSUME NEW c \in Callers, Busy(c)
      PROVE  UNCHANGED Store!vars
  BY <1>8, <1>9 DEF Busy, Writes
<1>10. ASSUME NEW c \in Callers, WriteFails(c)
       PROVE  UNCHANGED Store!vars
  BY <1>8, <1>10 DEF WriteFails, Inv, Writing
<1>11. ASSUME NEW c \in Callers, Take(c)
       PROVE  [Store!Next]_Store!vars
  <2>1. call[c] = None
    BY <1>11, <1>t DEF Take
  <2>2. /\ call' = [call EXCEPT ![c] = None] /\ snapshot' = [snapshot EXCEPT ![c] = snapshot[c]]
        /\ answer' = [answer EXCEPT ![c] = None] /\ tables' = tables
    BY <1>11, <1>t, <2>1 DEF Take, tx
  <2>3. Answers' = [Answers EXCEPT ![c] = None]
    BY <2>2, OthersSee DEF Failed
  <2>4. Answers' = [b \in Callers |-> IF b \in {c} THEN None ELSE Answers[b]]
    BY <2>3 DEF Answers
  <2>5. Store!Take({c})
    BY <2>2, <2>4, StoreTables DEF Store!Take, Answers
  <2> QED BY <2>5 DEF Store!Next
<1>12. CASE Restart
  <2>1. tables' = tables
    BY <1>12, <1>t, SeededAgain DEF Restart
  <2>2. \A b \in Callers : Seen(b)' = None
    BY <1>12 DEF Restart, Seen
  <2>3. Answers' = [b \in Callers |-> IF b \in Callers THEN None ELSE Answers[b]]
    BY <2>2 DEF Answers
  <2>4. Store!Take(Callers)
    BY <2>1, <2>3, StoreTables DEF Store!Take, Answers
  <2> QED BY <2>4 DEF Store!Next
<1> QED BY <1>0, <1>1, <1>2, <1>4, <1>5, <1>6, <1>7, <1>9, <1>10, <1>11, <1>12,
           RegisterServes, HeartbeatServes, PublishServes DEF Next

\* Overlapping, failing and interrupted transactions answer as a registry
\* that serves one call after the other: SQLiteStore promises what
\* MemoryStore does.
THEOREM Refinement == Spec => ImplementsRegistry
<1>1. Init => Store!Init
  <2> SUFFICES ASSUME Init
               PROVE  Store!Init
    OBVIOUS
  <2>1. tables = Seeded(Migrated) /\ tables.overlayNextIP = 10 /\ tables \in Tables
    BY MigratedGood DEF Init, Good
  <2>2. /\ tables.nodes = [n \in NodeIds |-> None] /\ tables.routes = {}
        /\ tables.states = [n \in NodeIds |-> {}] /\ tables.bootstrapVersion = 1
    BY <2>1, SeededMigrated DEF TablesOf
  <2>3. [c \in Callers |-> Seen(c)] = [c \in Callers |-> None]
    BY DEF Init, Seen, Failed
  <2> QED BY <2>1, <2>2, <2>3 DEF Store!Init
<1>2. Inv /\ [Next]_vars => [Store!Next]_Store!vars
  BY StepRefines
<1> QED BY <1>1, <1>2, InvHolds, PTL DEF Spec, ImplementsRegistry, Store!Spec

=============================================================================
