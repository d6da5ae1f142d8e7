---------------------------- MODULE SqliteStore -----------------------------
(***************************************************************************)
(* SQLiteStore (services/controlplane/internal/store/sqlite.go): every     *)
(* call is a deferred transaction on a connection of its own.  Its first   *)
(* read takes a snapshot of the tables and its first write the only write  *)
(* lock; a transaction whose snapshot has been overtaken cannot write any  *)
(* more.  The process may stop at any step and start again on the file.    *)
(*                                                                         *)
(* Store is the registry it implements, one call at a time (Registry).     *)
(***************************************************************************)
EXTENDS TenantData

CONSTANT MaxVersion  \* bound: versions at which heartbeats and routes still begin

VARIABLES
  tables,    \* the committed contents of the file
  call,      \* the request whose transaction each caller is in, or None
  snapshot,  \* the tables that transaction reads
  fresh,     \* whether nobody has committed since
  writer,    \* the caller that holds the write lock, or None
  answer     \* what each caller was answered

tx   == <<call, snapshot, fresh>>
vars == <<tables, tx, writer, answer>>

-----------------------------------------------------------------------------
(* Reading the tables of a snapshot *)

Migrated ==
  [nodes            |-> [n \in NodeIds |-> None],
   routes           |-> {},
   states           |-> [n \in NodeIds |-> {}],
   bootstrapVersion |-> None,
   overlayNextIP    |-> None]

\* ensureMetadata leaves the values of an earlier start alone.
Seeded(t) ==
  [t EXCEPT !.bootstrapVersion = IF @ = None THEN 1 ELSE @,
            !.overlayNextIP    = IF @ = None THEN 10 ELSE @]

Has(t, n) == t.nodes[n] # None

\* Mutant of CurrentBootstrap: the version is read outside the transaction.
M_CurrentBootstrap(t, self) ==
  Bootstrap(t.nodes, t.routes, t.states, tables.bootstrapVersion, self)

CurrentBootstrap(t, self) ==
  Bootstrap(t.nodes, t.routes, t.states, t.bootstrapVersion, self)

\* How a call ends that writes nothing, None for one that goes on to write.
Outcome(r, t) ==
  CASE r.op \in {"heartbeat", "fetch"} /\ ~Has(t, r.node) -> Refusal("not found")
    [] r.op \in {"heartbeat", "fetch"} /\ Has(t, r.node) /\ ~r.authentic -> Refusal("unauthorized")
    [] r.op = "fetch" /\ Has(t, r.node) /\ r.authentic -> Fetched(CurrentBootstrap(t, r.node))
    [] r.op = "publish" /\ ~Has(t, r.via) -> Refusal("not found")
    [] r.op = "publish" /\ Has(t, r.via) /\ Conflicts(t.routes, r.prefix) -> Refusal("conflict")
    [] OTHER -> None

-----------------------------------------------------------------------------
(* Writing them: the tables after a transaction that read t, and its answer *)

NextOverlaySlot(t) == t.overlayNextIP

WithNode(t, n, key) ==
  [t EXCEPT !.overlayNextIP = NextOverlaySlot(t) + 1,
            !.nodes[n] = NewNode(NextOverlaySlot(t), key)]

IncrementedVersion(t) == t.bootstrapVersion + 1

WithHeartbeat(t, r) ==
  LET node == t.nodes[r.node]
  IN  [t EXCEPT !.nodes[r.node] = Refreshed(node, r),
                !.bootstrapVersion =
                   IF Rotates(node, r) \/ Moves(node, r)
                   THEN IncrementedVersion(t) ELSE @,
                !.states[r.node] = r.about]

RouteOf(r) == [prefix |-> r.prefix, via |-> r.via, priority |-> r.priority]

WithRoute(t, r) ==
  [t EXCEPT !.routes = @ \cup {RouteOf(r)}, !.bootstrapVersion = IncrementedVersion(t)]

-----------------------------------------------------------------------------
Failed == [as |-> "failed"]

\* The registry as its callers see it: a call that only reads has its answer
\* as soon as it has its snapshot, and a failed one has not happened.
Seen(c) ==
  IF call[c] # None THEN Outcome(call[c], snapshot[c])
  ELSE IF answer[c] = Failed THEN None ELSE answer[c]

Store == INSTANCE Registry WITH
  nodes     <- tables.nodes,
  routes    <- tables.routes,
  states    <- tables.states,
  version   <- tables.bootstrapVersion,
  ipCounter <- tables.overlayNextIP - 10,
  answer    <- [c \in Callers |-> Seen(c)]

Init ==
  /\ tables   = Seeded(Migrated)
  /\ call     = [c \in Callers |-> None]
  /\ snapshot = [c \in Callers |-> None]
  /\ fresh    = [c \in Callers |-> FALSE]
  /\ writer   = None
  /\ answer   = [c \in Callers |-> None]

Idle(c) == call[c] = None /\ answer[c] = None

Enter(c, r) ==
  /\ call'     = [call EXCEPT ![c] = r]
  /\ snapshot' = [snapshot EXCEPT ![c] = tables]
  /\ fresh'    = [fresh EXCEPT ![c] = TRUE]

Leave(c, a) ==
  /\ call'     = [call EXCEPT ![c] = None]
  /\ snapshot' = [snapshot EXCEPT ![c] = None]
  /\ fresh'    = [fresh EXCEPT ![c] = FALSE]
  /\ answer'   = [answer EXCEPT ![c] = a]

\* The checks before the transaction begins.
Reject(c, r) ==
  /\ Idle(c) /\ r.op \in {"register", "publish"} /\ r.flaw # "none"
  /\ answer' = [answer EXCEPT ![c] = Refusal(r.flaw)]
  /\ UNCHANGED <<tables, tx, writer>>

\* db.Begin, and loadNodeTx as the first read.
Begin(c, r) ==
  /\ Idle(c) /\ tables.bootstrapVersion < MaxVersion
  /\ r.op \in {"heartbeat", "fetch"} \/ (r.op = "publish" /\ r.flaw = "none")
  /\ Enter(c, r)
  /\ UNCHANGED <<tables, writer, answer>>

\* CreateDeviceAndNode writes the device before it reads anything, so its
\* snapshot is the newest one.
BeginRegistration(c, r) ==
  /\ Idle(c) /\ r.op = "register" /\ r.flaw = "none"
  /\ writer = None
  /\ writer' = c
  /\ Enter(c, r)
  /\ UNCHANGED <<tables, answer>>

BusyRegistration(c, r) ==
  /\ Idle(c) /\ r.op = "register" /\ r.flaw = "none"
  /\ writer # None
  /\ answer' = [answer EXCEPT ![c] = Failed]
  /\ UNCHANGED <<tables, tx, writer>>

\* A transaction that only reads: its answer is that of its snapshot.
Finish(c) ==
  /\ call[c] # None /\ writer # c
  /\ Outcome(call[c], snapshot[c]) # None
  /\ Leave(c, Outcome(call[c], snapshot[c]))
  /\ UNCHANGED <<tables, writer>>

\* The first write of UpdateHeartbeat and CreateRoute.
Writes(c) == call[c] # None /\ writer # c /\ Outcome(call[c], snapshot[c]) = None

\* Mutant of Lock: what was read outside the transaction may be overtaken.
M_Lock(c) ==
  /\ Writes(c) /\ writer = None
  /\ writer' = c
  /\ UNCHANGED <<tables, tx, answer>>

Lock(c) ==
  /\ Writes(c) /\ writer = None /\ fresh[c]
  /\ writer' = c
  /\ UNCHANGED <<tables, tx, answer>>

Busy(c) ==
  /\ Writes(c) /\ (writer # None \/ ~fresh[c])
  /\ Leave(c, Failed)
  /\ UNCHANGED <<tables, writer>>

\* tx.Commit: every other snapshot is overtaken.
Commit(c, t, a) ==
  /\ tables'   = t
  /\ writer'   = None
  /\ call'     = [call EXCEPT ![c] = None]
  /\ snapshot' = [snapshot EXCEPT ![c] = None]
  /\ fresh'    = [b \in Callers |-> FALSE]
  /\ answer'   = [answer EXCEPT ![c] = a]

Register(c, n) ==
  /\ writer = c /\ call[c].op = "register" /\ ~Has(snapshot[c], n)
  /\ LET t == WithNode(snapshot[c], n, call[c].key)
     IN  Commit(c, t, Registered(n, CurrentBootstrap(t, n)))

Heartbeat(c) ==
  /\ writer = c /\ call[c].op = "heartbeat"
  /\ LET t == WithHeartbeat(snapshot[c], call[c])
     IN  Commit(c, t, Heard(t.bootstrapVersion))

Publish(c) ==
  /\ writer = c /\ call[c].op = "publish"
  /\ Commit(c, WithRoute(snapshot[c], call[c]), Published(RouteOf(call[c])))

\* A write fails and what the transaction has written is rolled back: the
\* disk is full, or a report is about a node that is not in the table, which
\* violates a foreign key (on the one connection that checks them).
WriteFails(c) ==
  /\ writer = c
  /\ writer' = None
  /\ Leave(c, Failed)
  /\ UNCHANGED tables

\* The answer arrives, or is lost on the way.
Take(c) ==
  /\ answer[c] # None
  /\ answer' = [answer EXCEPT ![c] = None]
  /\ UNCHANGED <<tables, tx, writer>>

\* The process ends and NewSQLiteStore opens the file again.
Restart ==
  /\ tables'   = Seeded(tables)
  /\ call'     = [c \in Callers |-> None]
  /\ snapshot' = [c \in Callers |-> None]
  /\ fresh'    = [c \in Callers |-> FALSE]
  /\ writer'   = None
  /\ answer'   = [c \in Callers |-> None]

Next ==
  \/ \E c \in Callers, r \in Requests :
       Reject(c, r) \/ Begin(c, r) \/ BeginRegistration(c, r) \/ BusyRegistration(c, r)
  \/ \E c \in Callers :
       \/ Finish(c) \/ Lock(c) \/ Busy(c)
       \/ Heartbeat(c) \/ Publish(c) \/ WriteFails(c) \/ Take(c)
  \/ \E c \in Callers, n \in NodeIds : Register(c, n)
  \/ Restart

Spec == Init /\ [][Next]_vars

-----------------------------------------------------------------------------
(* Properties *)

\* Only the holder of the write lock has a current snapshot to change, and it
\* is the only one that commits.
TypeOK ==
  /\ Store!TypeOK
  /\ writer \in Callers \cup {None}
  /\ writer # None => call[writer] # None /\ snapshot[writer] = tables
  /\ \A c \in Callers : fresh[c] => snapshot[c] = tables

\* Every answer is one the registry gives when it serves one call after the
\* other, also when calls interleave, fail as busy and die in a restart.
ImplementsRegistry == Store!Spec

UniqueAddresses         == Store!UniqueAddresses
RoutesDisjoint          == Store!RoutesDisjoint
VersionStandsForContent == Store!VersionStandsForContent
=============================================================================
