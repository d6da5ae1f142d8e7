--------------------------- MODULE MCSqliteStore ----------------------------
(* A model-checking instance of SqliteStore: prefixes of four addresses and  *)
(* the requests that can interfere with each other.                          *)
EXTENDS SqliteStore

CONSTANTS n1, n2, k1, k2, e1

MCNodeIds    == {n1, n2}
MCKeys       == {k1, k2}
MCEndpoints  == {<<>>, <<e1>>}
MCPrefixes   == {0..3, 0..1, 2..2}
MCPriorities == {1000}

MCRequests ==
  {[op |-> "register", flaw |-> f, key |-> k1] : f \in {"none", "invalid"}}
  \cup {[op |-> "heartbeat", node |-> n1, authentic |-> x, key |-> k2, endpoints |-> e,
         about |-> p] : x \in BOOLEAN, e \in {<<e1>>}, p \in {{}, {n2}}}
  \cup {[op |-> "heartbeat", node |-> n2, authentic |-> TRUE, key |-> "no key",
         endpoints |-> e, about |-> {n1}] : e \in MCEndpoints}
  \cup {[op |-> "fetch", node |-> n1, authentic |-> TRUE]}
  \cup {[op |-> "publish", flaw |-> "none", via |-> n2, prefix |-> p, priority |-> 1000]
        : p \in MCPrefixes}
=============================================================================
