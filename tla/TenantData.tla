----------------------------- MODULE TenantData ------------------------------
(***************************************************************************)
(* What both stores of the control plane keep of a tenant and compute from *)
(* it (services/controlplane/internal/store): requests, addresses, routes  *)
(* and the configuration of a node.                                        *)
(*                                                                         *)
(* Names, instants, regions and NAT summaries are left out; the attempts a *)
(* heartbeat schedules are Coordinator's.  A prefix is the set of its      *)
(* addresses.                                                              *)
(***************************************************************************)
EXTENDS Integers, FiniteSets

CONSTANTS
  Callers,     \* the requests that may be under way at once
  NodeIds,     \* what newID may return
  Keys,        \* public keys
  Endpoints,   \* lists of observed endpoints, newest first
  Prefixes,    \* the prefixes a route may have, masked
  Priorities,  \* priorities of routes
  Requests,    \* the requests that are made
  ExitNodeId,  \* cfg.ExitNodeID
  None         \* no node, no route, no answer

NoKey == "no key"

Flaws == {"none", "unauthorized", "invalid", "not found"}

Registrations == [op : {"register"}, flaw : Flaws, key : Keys]
Heartbeats    == [op : {"heartbeat"}, node : NodeIds, authentic : BOOLEAN,
                  key : Keys \cup {NoKey}, endpoints : Endpoints, about : SUBSET NodeIds]
Fetches       == [op : {"fetch"}, node : NodeIds, authentic : BOOLEAN]
Publications  == [op : {"publish"}, flaw : Flaws, via : NodeIds, prefix : Prefixes,
                  priority : Priorities]

\* Two prefixes are disjoint, or one holds the other.
ASSUME PrefixesAssumption ==
  /\ \A p \in Prefixes : p # {} /\ p \subseteq Int
  /\ \A p, q \in Prefixes : p \cap q = {} \/ p \subseteq q \/ q \subseteq p
ASSUME BaseAssumption == \A p \in Prefixes : \E a \in p : \A b \in p : a <= b
ASSUME RequestsAssumption ==
  Requests \subseteq Registrations \cup Heartbeats \cup Fetches \cup Publications
ASSUME NamesAssumption ==
  /\ NoKey \notin Keys /\ <<>> \in Endpoints
  /\ None \notin Int /\ None \notin Requests /\ None \notin Callers

-----------------------------------------------------------------------------
(* Addresses and prefixes *)

\* Mutant of OverlayIP: one octet formatted twice.
M_OverlayIP(slot) == <<100, 64, slot \div 250, slot \div 250>>

\* overlayIPFromSlot.  Octets are not bounded: slot 64000 gives 100.64.256.0.
OverlayIP(slot) == <<100, 64, slot \div 250, slot % 250>>

FirstSlot == 10

Base(p) == CHOOSE a \in p : \A b \in p : a <= b

\* Mutant of Overlap: one direction only.
M_Overlap(p, q) == Base(q) \in p

Overlap(p, q) == Base(q) \in p \/ Base(p) \in q

Conflicts(rs, p) == \E r \in rs : Overlap(r.prefix, p)

-----------------------------------------------------------------------------
(* The configuration of a node, computed from the nodes ns, routes rs,      *)
(* reports ss and version v of one instant.                                 *)

Known(ns) == {n \in NodeIds : ns[n] # None}

AllowedPrefixes(rs, n) == {r.prefix : r \in {x \in rs : x.via = n}}

Peer(ns, rs, ss, self, n) ==
  [address   |-> ns[n].address,
   key       |-> ns[n].key,
   endpoints |-> ns[n].endpoints,
   allowed   |-> AllowedPrefixes(rs, n),
   observed  |-> self \in ss[n]]

ExitNode(ns, self) ==
  IF ExitNodeId # self /\ ExitNodeId \in Known(ns) THEN ExitNodeId ELSE None

Bootstrap(ns, rs, ss, v, self) ==
  [version |-> v,
   address |-> ns[self].address,
   peers   |-> [n \in Known(ns) \ {self} |-> Peer(ns, rs, ss, self, n)],
   routes  |-> rs,
   exit    |-> ExitNode(ns, self)]

-----------------------------------------------------------------------------
(* What requests do to a node, and the answers *)

NewNode(slot, key) == [address |-> OverlayIP(slot), key |-> key, endpoints |-> <<>>]

Rotates(node, r) == r.key # NoKey /\ r.key # node.key

\* Mutant of Moves: a heartbeat without endpoints changes nothing.
M_Moves(node, r) == r.endpoints # node.endpoints /\ r.endpoints # <<>>

Moves(node, r) == r.endpoints # node.endpoints

Refreshed(node, r) ==
  [node EXCEPT !.key       = IF r.key = NoKey THEN @ ELSE r.key,
               !.endpoints = r.endpoints]

Refusal(why)          == [as |-> "refused", why |-> why]
Registered(n, config) == [as |-> "registered", node |-> n, config |-> config]
Heard(v)              == [as |-> "heartbeat", version |-> v]
Fetched(config)       == [as |-> "bootstrap", config |-> config]
Published(route)      == [as |-> "route", route |-> route]

ASSUME RefusalsAssumption == \A why \in Flaws \cup {"conflict"} : Refusal(why) # None
=============================================================================
