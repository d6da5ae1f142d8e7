----------------------------- MODULE AgentSync ------------------------------
(***************************************************************************)
(* How linux-agent comes to run the newest configuration                   *)
(* (clients/linux-agent/internal/agent): registration, bootstrap, the      *)
(* files of ApplyRuntime, the driver, the forwarding runtimes, the         *)
(* dataplane, heartbeats and the two tickers of Run.                       *)
(*                                                                         *)
(* Run is one goroutine, and a step of it is one request, one file or one  *)
(* start.  Requests, writes, reads and starts fail, and the process ends   *)
(* and is started again at any step, until the world calms down; an error  *)
(* before the loop of Run is such an end.  The scheduler of direct         *)
(* attempts is AgentAttempts', the stores of the control plane are         *)
(* Registry's.                                                             *)
(***************************************************************************)
EXTENDS Naturals

CONSTANTS
  NodeIds,     \* the nodes the control plane may register for the agent
  MaxContent,  \* bound: how often the configuration changes
  None,        \* no node, no file, no configuration
  Torn         \* a file that broke off or was not read, a driver that did not finish

ASSUME NamesAssumption == None \notin NodeIds /\ Torn # None /\ MaxContent \in Nat
ASSUME PlansAssumption ==
  \A n \in NodeIds, c \in 0..MaxContent : [node |-> n, content |-> c] \notin {None, Torn}

VARIABLES
  world,           \* the control plane's version and the content it stands for
  keyFile,         \* PrivateKeyPath
  stateFile,       \* StatePath
  runtimeFile,     \* RuntimePath
  sessionFile,     \* SessionPath
  dataplaneFile,   \* DataplanePath
  kernel,          \* what the driver has applied
  step,            \* where Run is
  starting,        \* whether Run has not reached its loop yet
  refreshing,      \* whether a heartbeat asked for the configuration
  memory,          \* state: the node and its configuration
  observed,        \* BootstrapVersion of the last heartbeat's answer
  forwarding,      \* forwardingSignature
  dataplane,       \* dataplaneRuntime
  calm             \* whether nothing fails any more

files   == <<keyFile, stateFile, runtimeFile, sessionFile, dataplaneFile>>
run     == <<step, starting, refreshing>>
runtime == <<forwarding, dataplane>>
vars    == <<world, files, kernel, run, memory, observed, runtime, calm>>

Configuration(n) == [node |-> n, version |-> world.version, content |-> world.content]

\* What overlay.Compile makes of a configuration, as far as the driver, the
\* forwarding runtimes and the dataplane tell it apart: without the version.
Compiled(c) == [node |-> c.node, content |-> c.content]

Key == "key"

Blank == [node |-> None, config |-> None]

\* The same to the code, but of a state file that is whole and was not read.
Unread == [node |-> None, config |-> Torn]

Init ==
  /\ world = [version |-> 1, content |-> 0]
  /\ keyFile = None /\ stateFile = None /\ runtimeFile = None /\ sessionFile = None /\ dataplaneFile = None
  /\ kernel = None
  /\ step = "down" /\ starting = TRUE /\ refreshing = FALSE
  /\ memory = Blank /\ observed = 0
  /\ forwarding = None /\ dataplane = None
  /\ calm = FALSE

-----------------------------------------------------------------------------
(* The control plane *)

\* A key, an endpoint or a route changes.
Change ==
  /\ world.content < MaxContent
  /\ world' = [version |-> world.version + 1, content |-> world.content + 1]
  /\ UNCHANGED <<files, kernel, run, memory, observed, runtime, calm>>

\* A node registers, or is observed again at the same endpoint: peers are
\* configured anew, and the version stays.
Drift ==
  /\ world.content < MaxContent
  /\ world' = [world EXCEPT !.content = @ + 1]
  /\ UNCHANGED <<files, kernel, run, memory, observed, runtime, calm>>

-----------------------------------------------------------------------------
(* Run: where it goes on *)

Go(s) == step' = s /\ UNCHANGED <<starting, refreshing>>

Goes(s, whileStarting, byHeartbeat) ==
  step' = s /\ starting' = whileStarting /\ refreshing' = byHeartbeat

Idle == Goes("idle", FALSE, FALSE)

\* The process is gone, with all it held in memory.
Down ==
  /\ Goes("down", TRUE, FALSE)
  /\ memory' = Blank /\ observed' = 0
  /\ forwarding' = None /\ dataplane' = None

\* Mutant of GiveUp: an error is logged only, also before the loop.
M_GiveUp == Go("idle") /\ UNCHANGED <<memory, observed, runtime>>

\* An error ends Run before its loop, and in the loop it is logged only.
GiveUp ==
  IF starting THEN Down
  ELSE Idle /\ UNCHANGED <<memory, observed, runtime>>

\* A file is written in place: a write that fails may leave a torn file.
Written(file, content) == file' = content

Broken(file, content) == ~calm /\ file' \in {file, Torn, content}

Onward(s) == Go(s) /\ UNCHANGED <<memory, observed, runtime>>

-----------------------------------------------------------------------------
(* Run: registration and bootstrap *)

\* Mutant of Load: an earlier state is not looked for.
M_Load == Blank

\* state.Load: New goes on without a state that cannot be parsed.
Load == IF stateFile \in {None, Torn} THEN Blank ELSE stateFile

\* New ignores every error of state.Load, so also one of reading a whole file.
Start ==
  /\ step = "down"
  /\ Goes("identity", TRUE, FALSE)
  /\ \/ memory' = Load
     \/ ~calm /\ stateFile \notin {None, Torn} /\ memory' = Unread
  /\ UNCHANGED <<world, files, kernel, observed, runtime, calm>>

\* resolveIdentity: a missing key is made, one that cannot be read is an error.
Identify ==
  /\ step = "identity"
  /\ \/ keyFile \in {None, Key} /\ Written(keyFile, Key) /\ Onward("enroll")
     \/ keyFile = None /\ Broken(keyFile, Key) /\ GiveUp
     \/ keyFile = Torn /\ UNCHANGED keyFile /\ GiveUp
  /\ UNCHANGED <<world, stateFile, runtimeFile, sessionFile, dataplaneFile, kernel, calm>>

\* EnsureEnrolled of a node that is known, and startResponder.
Enrolled ==
  /\ step = "enroll" /\ memory.node # None
  /\ Go("sync")
  /\ UNCHANGED <<world, files, kernel, memory, observed, runtime, calm>>

\* The control plane gives every registration a node of its own; the model
\* uses the names of NodeIds again.
Register(n) ==
  /\ step = "enroll" /\ memory.node = None
  /\ memory' = [node |-> n, config |-> Configuration(n)]
  /\ Go("save")
  /\ UNCHANGED <<world, files, kernel, observed, runtime, calm>>

\* A refused registration, or one whose answer is lost.
RegisterFails ==
  /\ step = "enroll" /\ memory.node = None /\ ~calm
  /\ GiveUp
  /\ UNCHANGED <<world, files, kernel, calm>>

\* persistState and persistBootstrap.
Save(from, to) ==
  /\ step = from
  /\ \/ Written(stateFile, memory) /\ Onward(to)
     \/ Broken(stateFile, memory) /\ GiveUp
  /\ UNCHANGED <<world, keyFile, runtimeFile, sessionFile, dataplaneFile, kernel, calm>>

Enrol == Save("save", "sync")

\* GetBootstrap: the configuration is the agent's before it is saved.
Sync ==
  /\ step = "sync"
  /\ memory' = [memory EXCEPT !.config = Configuration(memory.node)]
  /\ Go("persist")
  /\ UNCHANGED <<world, files, kernel, observed, runtime, calm>>

SyncFails ==
  /\ step = "sync" /\ ~calm
  /\ GiveUp
  /\ UNCHANGED <<world, files, kernel, calm>>

Persist == Save("persist", "runtime")

-----------------------------------------------------------------------------
(* Run: ApplyRuntime *)

WriteRuntime ==
  /\ step = "runtime"
  /\ \/ Written(runtimeFile, Compiled(memory.config)) /\ Onward("session")
     \/ Broken(runtimeFile, Compiled(memory.config)) /\ GiveUp
  /\ UNCHANGED <<world, keyFile, stateFile, sessionFile, dataplaneFile, kernel, calm>>

WriteSession ==
  /\ step = "session"
  /\ \/ Written(sessionFile, Compiled(memory.config)) /\ Onward("dataplane")
     \/ Broken(sessionFile, Compiled(memory.config)) /\ GiveUp
  /\ UNCHANGED <<world, keyFile, stateFile, runtimeFile, dataplaneFile, kernel, calm>>

WriteDataplane ==
  /\ step = "dataplane"
  /\ \/ Written(dataplaneFile, Compiled(memory.config)) /\ Onward("apply")
     \/ Broken(dataplaneFile, Compiled(memory.config)) /\ GiveUp
  /\ UNCHANGED <<world, keyFile, stateFile, runtimeFile, sessionFile, kernel, calm>>

\* The driver runs its commands one by one and skips what is in place; it
\* deletes nothing.
BeginApply ==
  /\ step = "apply"
  /\ kernel' = IF kernel = Compiled(memory.config) THEN kernel ELSE Torn
  /\ Go("applying")
  /\ UNCHANGED <<world, files, memory, observed, runtime, calm>>

\* Mutant of Apply: an error of the driver is noted in its report only.
M_Apply ==
  /\ step = "applying"
  /\ Written(kernel, Compiled(memory.config)) \/ Broken(kernel, Compiled(memory.config))
  /\ Onward("forward")
  /\ UNCHANGED <<world, files, calm>>

Apply ==
  /\ step = "applying"
  /\ \/ Written(kernel, Compiled(memory.config)) /\ Onward("forward")
     \/ Broken(kernel, Compiled(memory.config)) /\ GiveUp
  /\ UNCHANGED <<world, files, calm>>

-----------------------------------------------------------------------------
(* Run: the runtimes *)

\* reloadForwardingRuntimes: those of another signature make way for new ones.
Forward ==
  /\ step = "forward"
  /\ forwarding' = runtimeFile
  /\ Go("reload")
  /\ UNCHANGED <<world, files, kernel, memory, observed, dataplane, calm>>

\* The runtime file cannot be read back: the forwarding runtimes are stopped,
\* their signature is cleared, and Run goes on.
ForwardFails ==
  /\ step = "forward" /\ ~calm
  /\ forwarding' = None
  /\ Go("reload")
  /\ UNCHANGED <<world, files, kernel, memory, observed, dataplane, calm>>

\* After a reload the agent sends a heartbeat, unless a heartbeat asked for it.
Reloaded == IF refreshing THEN Idle ELSE Go("heartbeat")

Signature == [spec |-> dataplaneFile, session |-> sessionFile]

KeepDataplane ==
  /\ step = "reload" /\ dataplane = Signature
  /\ Reloaded
  /\ UNCHANGED <<world, files, kernel, memory, observed, runtime, calm>>

\* A file of the dataplane cannot be read back: the one that runs is kept.
ReloadFails ==
  /\ step = "reload" /\ ~calm
  /\ GiveUp
  /\ UNCHANGED <<world, files, kernel, calm>>

StopDataplane ==
  /\ step = "reload" /\ dataplane # Signature
  /\ dataplane' = None
  /\ Go("start")
  /\ UNCHANGED <<world, files, kernel, memory, observed, forwarding, calm>>

StartDataplane ==
  /\ step = "start"
  /\ dataplane' = Signature
  /\ Reloaded
  /\ UNCHANGED <<world, files, kernel, memory, observed, forwarding, calm>>

\* The socket or the tunnel device cannot be opened.
StartFails ==
  /\ step = "start" /\ ~calm
  /\ GiveUp
  /\ UNCHANGED <<world, files, kernel, calm>>

-----------------------------------------------------------------------------
(* Run: heartbeats and tickers *)

SendHeartbeat ==
  /\ step = "heartbeat"
  /\ observed' = world.version
  /\ Go("heard")
  /\ UNCHANGED <<world, files, kernel, memory, runtime, calm>>

HeartbeatFails ==
  /\ step = "heartbeat" /\ ~calm
  /\ GiveUp
  /\ UNCHANGED <<world, files, kernel, calm>>

\* persistState and SaveRecoveryStates
Heard == Save("heard", "compare")

\* refreshBootstrapIfNeeded
Refresh ==
  /\ step = "compare"
  /\ IF observed > memory.config.version THEN Goes("sync", starting, TRUE) ELSE Idle
  /\ UNCHANGED <<world, files, kernel, memory, observed, runtime, calm>>

HeartbeatTick ==
  /\ step = "idle"
  /\ Go("heartbeat")
  /\ UNCHANGED <<world, files, kernel, memory, observed, runtime, calm>>

\* Mutant of BootstrapTick: only a version that is new is fetched again.
M_BootstrapTick ==
  /\ step = "idle" /\ observed > memory.config.version
  /\ Go("sync")
  /\ UNCHANGED <<world, files, kernel, memory, observed, runtime, calm>>

BootstrapTick ==
  /\ step = "idle"
  /\ Go("sync")
  /\ UNCHANGED <<world, files, kernel, memory, observed, runtime, calm>>

-----------------------------------------------------------------------------
(* Faults *)

\* The process is killed, between two steps or within a write.
Crash ==
  /\ step # "down" /\ ~calm
  /\ Down
  /\ UNCHANGED <<world, files, kernel, calm>>

CalmDown ==
  /\ ~calm /\ calm' = TRUE
  /\ UNCHANGED <<world, files, kernel, run, memory, observed, runtime>>

Steps ==
  \/ Identify \/ Enrolled \/ (\E n \in NodeIds : Register(n)) \/ RegisterFails \/ Enrol
  \/ Sync \/ SyncFails \/ Persist
  \/ WriteRuntime \/ WriteSession \/ WriteDataplane \/ BeginApply \/ Apply
  \/ Forward \/ ForwardFails \/ ReloadFails
  \/ KeepDataplane \/ StopDataplane \/ StartDataplane \/ StartFails
  \/ SendHeartbeat \/ HeartbeatFails \/ Heard \/ Refresh

Next ==
  \/ Start \/ Steps \/ HeartbeatTick \/ BootstrapTick
  \/ Change \/ Drift \/ Crash \/ CalmDown

Spec == Init /\ [][Next]_vars

\* systemd starts the process again (Restart=always); the loop of Run serves
\* one of its tickers, whichever the select picks.
FairSpec ==
  /\ Spec
  /\ WF_vars(Start) /\ WF_vars(Steps)
  /\ SF_vars(HeartbeatTick) /\ SF_vars(BootstrapTick)

-----------------------------------------------------------------------------
(* Properties *)

Contents == 0..MaxContent

Configurations ==
  [node : NodeIds, version : 1..(MaxContent + 1), content : Contents]

Plans == [node : NodeIds, content : Contents] \cup {None, Torn}

Memories == [node : NodeIds, config : Configurations] \cup {Blank, Unread}

TypeOK ==
  /\ world \in [version : 1..(MaxContent + 1), content : Contents]
  /\ stateFile \in (Memories \ {Blank, Unread}) \cup {None, Torn}
  /\ keyFile \in {None, Torn, Key}
  /\ runtimeFile \in Plans /\ sessionFile \in Plans /\ dataplaneFile \in Plans
  /\ kernel \in Plans /\ forwarding \in Plans
  /\ dataplane \in [spec : Plans, session : Plans] \cup {None}
  /\ step \in {"down", "identity", "enroll", "save", "sync", "persist", "runtime", "session",
              "dataplane", "apply", "applying", "forward", "reload", "start",
              "heartbeat", "heard", "compare", "idle"}
  /\ starting \in BOOLEAN /\ refreshing \in BOOLEAN
  /\ memory \in Memories
  /\ observed \in 0..(MaxContent + 1)
  /\ calm \in BOOLEAN
  /\ step = "idle" => ~starting

\* A dataplane is started only with what the driver has applied, its two files
\* made of one configuration of one node, whatever failed or was torn before.
\* The forwarding runtimes run that configuration by then, or none where the
\* runtime file could not be read back, and never an earlier one.
StartsApplied ==
  [][dataplane' \notin {None, dataplane} =>
       /\ dataplane'.spec \notin {None, Torn}
       /\ dataplane'.spec = Compiled(memory.config)
       /\ {dataplane'.session, kernel} = {dataplane'.spec}
       /\ forwarding \in {None, dataplane'.spec}]_vars

\* The agent takes a second node only when the file of the first was never
\* written, is torn, or could not be read when the process started: no other
\* restart, no refused bootstrap and no failed write of another file leaves a
\* node behind.
OneNodePerStateFile ==
  [][memory'.node \notin {None, memory.node} =>
       IF memory.node = None /\ step = "down"
         THEN stateFile \notin {None, Torn} /\ memory'.node = stateFile.node
         ELSE memory.node = None /\ (stateFile \in {None, Torn} \/ memory = Unread)]_vars

\* What the control plane would answer now.
Newest == Compiled(Configuration(memory.node))

\* The kernel, the forwarding runtimes and the dataplane are of that one.
Converged ==
  /\ kernel = Newest /\ forwarding = Newest
  /\ dataplane = [spec |-> Newest, session |-> Newest]

\* Once nothing fails any more, the agent comes to run the newest
\* configuration and stays with it: also when its state file is torn, when a
\* driver did not finish, and when peers changed without a new version.  Only a
\* torn key is never mended: the agent ends on it at every start.
Converges == <>calm => <>[](Converged \/ keyFile = Torn)

=============================================================================
