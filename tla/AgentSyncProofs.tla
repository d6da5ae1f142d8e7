--------------------------- MODULE AgentSyncProofs ---------------------------
(***************************************************************************)
(* AgentSync for any nodes and any number of changes: its types, that a    *)
(* dataplane starts only with what was applied, and that a node is left    *)
(* behind only with its state file.                                        *)
(***************************************************************************)
EXTENDS AgentSync, TLAPS

Enrolments == [node : NodeIds, config : Configurations]

Plan == Compiled(memory.config)

FilesTyped ==
  /\ stateFile \in (Memories \ {Blank, Unread}) \cup {None, Torn} /\ keyFile \in {None, Torn, Key}
  /\ runtimeFile \in Plans /\ sessionFile \in Plans /\ dataplaneFile \in Plans
  /\ kernel \in Plans

Wellformed == TypeOK /\ world.version <= world.content + 1

\* Where Run is says what it holds: nothing, what the state file holds or had when
\* it could not be read, or a node.
Enrolment ==
  /\ step \in {"down", "identity", "enroll", "save"} => starting
  /\ step = "down" => memory = Blank
  /\ step \in {"identity", "enroll"} => memory \in {Load, Unread}
  /\ step \notin {"down", "identity", "enroll"} => memory \in Enrolments

\* How far ApplyRuntime and the reloads have come with one configuration.
Applied ==
  /\ step \in {"session", "dataplane", "apply", "applying", "forward", "reload", "start"} =>
       runtimeFile = Plan
  /\ step \in {"dataplane", "apply", "applying", "forward", "reload", "start"} =>
       sessionFile = Plan
  /\ step \in {"apply", "applying", "forward", "reload", "start"} => dataplaneFile = Plan
  /\ step \in {"forward", "reload", "start"} => kernel = Plan
  /\ step \in {"reload", "start"} => forwarding \in {None, Plan}

Inv == Wellformed /\ Enrolment /\ Applied

-----------------------------------------------------------------------------
(* What the configurations are made of *)

\* A generated configuration is one.
LEMMA ConfigurationTyped ==
  ASSUME Wellformed, NEW n \in NodeIds
  PROVE  Configuration(n) \in Configurations
BY NamesAssumption DEF Wellformed, TypeOK, Configuration, Configurations, Contents

\* What a configuration compiles to can stand in a file, and is neither torn nor missing.
LEMMA CompiledTyped ==
  ASSUME NEW c \in Configurations
  PROVE  Compiled(c) \in Plans /\ Compiled(c) \notin {None, Torn}
BY PlansAssumption DEF Compiled, Configurations, Plans, Contents

\* Once the node is enrolled it holds a configuration, and what it compiles to.
LEMMA PlanTyped ==
  ASSUME Inv, step \notin {"down", "identity", "enroll"}
  PROVE  Plan \in Plans /\ Plan \notin {None, Torn} /\ memory.config \in Configurations
<1>1. memory.config \in Configurations
  BY DEF Inv, Enrolment, Enrolments
<1> QED BY <1>1, CompiledTyped DEF Plan

\* A node's memory is not without a node, so neither blank nor unread.
LEMMA NamedNode ==
  ASSUME NEW m \in Enrolments
  PROVE  m.node \in NodeIds /\ m.node # None /\ m \notin {Blank, Unread} /\ m \in Memories
BY NamesAssumption DEF Enrolments, Blank, Unread, Memories

\* A memory with a node is one of an enrolled agent.
LEMMA NamedEnrolled ==
  ASSUME NEW m \in Memories, m.node # None
  PROVE  m \in Enrolments
BY DEF Memories, Enrolments, Blank, Unread

\* loadState gives a state whatever the state file holds.
LEMMA LoadTyped ==
  ASSUME Wellformed
  PROVE  /\ Load \in Memories
         /\ Load.node # None => stateFile \notin {None, Torn} /\ Load = stateFile
         /\ stateFile \notin {None, Torn} => Load \in Enrolments
<1>1. CASE stateFile \in {None, Torn}
  BY <1>1 DEF Load, Blank, Memories
<1>2. CASE stateFile \notin {None, Torn}
  BY <1>2 DEF Load, Wellformed, TypeOK, Memories, Enrolments
<1> QED BY <1>1, <1>2

-----------------------------------------------------------------------------
(* The ends of a step *)

\* A process that has ended holds no state, so a step that ends it keeps the invariant.
LEMMA DownKeeps ==
  ASSUME Inv, Down, UNCHANGED <<world, calm>>, FilesTyped'
  PROVE  Inv'
<1>1. /\ step' = "down" /\ starting' = TRUE /\ refreshing' = FALSE
      /\ memory' = Blank /\ observed' = 0 /\ forwarding' = None /\ dataplane' = None
  BY DEF Down, Goes
<1>2. Blank \in Memories /\ None \in Plans
  BY DEF Memories, Plans
<1>3. Wellformed'
  <2>1. (world \in [version : 1..(MaxContent + 1), content : Contents]
        /\ world.version <= world.content + 1 /\ calm \in BOOLEAN)'
    BY DEF Inv, Wellformed, TypeOK
  <2>2. (forwarding \in Plans /\ dataplane \in [spec : Plans, session : Plans] \cup {None}
        /\ memory \in Memories /\ starting \in BOOLEAN /\ refreshing \in BOOLEAN)'
    BY <1>1, <1>2
  <2>3. (observed \in 0..(MaxContent + 1))'
    BY <1>1, NamesAssumption
  <2> QED BY <1>1, <2>1, <2>2, <2>3 DEF Wellformed, TypeOK, FilesTyped
<1>4. Enrolment' /\ Applied'
  BY <1>1 DEF Enrolment, Applied
<1> QED BY <1>3, <1>4 DEF Inv

\* Waiting in the run loop keeps the invariant.
LEMMA IdleKeeps ==
  ASSUME Inv, Idle, UNCHANGED <<world, memory, observed, runtime, calm>>,
         step \notin {"down", "identity", "enroll"}, FilesTyped'
  PROVE  Inv'
BY DEF Inv, Wellformed, TypeOK, FilesTyped, Enrolment, Applied, Idle, Goes, runtime, Enrolments

\* An apply that is given up keeps the invariant.
LEMMA GiveUpKeeps ==
  ASSUME Inv, GiveUp, UNCHANGED <<world, calm>>, FilesTyped'
  PROVE  Inv'
<1>1. CASE starting
  BY <1>1, DownKeeps DEF GiveUp
<1>2. CASE ~starting
  <2>1. step \notin {"down", "identity", "enroll"}
    BY <1>2 DEF Inv, Enrolment
  <2> QED BY <1>2, <2>1, IdleKeeps DEF GiveUp
<1> QED BY <1>1, <1>2

-----------------------------------------------------------------------------
(* The invariant *)

\* A new installation satisfies the invariant.
THEOREM InitInv == Init => Inv
<1> SUFFICES ASSUME Init PROVE Inv
  OBVIOUS
<1>1. None \in Plans /\ Blank \in Memories
  BY DEF Plans, Memories
<1>2. /\ world \in [version : 1..(MaxContent + 1), content : Contents]
      /\ world.version <= world.content + 1 /\ observed \in 0..(MaxContent + 1)
  BY NamesAssumption DEF Init, Contents
<1>3. Wellformed
  BY <1>1, <1>2 DEF Init, Wellformed, TypeOK
<1>4. Enrolment /\ Applied
  BY DEF Init, Enrolment, Applied
<1> QED BY <1>3, <1>4 DEF Inv

\* The invariant gives the types of the files.
LEMMA FilesAreTyped == Inv => FilesTyped
BY DEF Inv, Wellformed, TypeOK, FilesTyped

\* A change in the control plane keeps the invariant.
LEMMA ChangeKeeps ==
  ASSUME Inv, Change
  PROVE  Inv'
<1>1. Wellformed'
  BY NamesAssumption DEF Change, files, run, runtime, Inv, Wellformed, TypeOK, Contents
<1>2. Enrolment'
  BY NamesAssumption DEF Change, files, run, runtime, Inv, Enrolment, Load
<1>3. Applied'
  BY NamesAssumption DEF Change, files, run, runtime, Inv, Applied, Plan
<1> QED BY <1>1, <1>2, <1>3 DEF Inv

\* Observations that change a generated configuration keep the invariant.
LEMMA DriftKeeps ==
  ASSUME Inv, Drift
  PROVE  Inv'
<1>1. Wellformed'
  BY NamesAssumption DEF Drift, files, run, runtime, Inv, Wellformed, TypeOK, Contents
<1>2. Enrolment'
  BY NamesAssumption DEF Drift, files, run, runtime, Inv, Enrolment, Load
<1>3. Applied'
  BY NamesAssumption DEF Drift, files, run, runtime, Inv, Applied, Plan
<1> QED BY <1>1, <1>2, <1>3 DEF Inv

\* The end of the disturbances keeps the invariant.
LEMMA CalmDownKeeps ==
  ASSUME Inv, CalmDown
  PROVE  Inv'
<1>1. Wellformed'
  BY DEF CalmDown, files, run, runtime, Inv, Wellformed, TypeOK
<1>2. Enrolment'
  BY DEF CalmDown, files, run, runtime, Inv, Enrolment, Load
<1>3. Applied'
  BY DEF CalmDown, files, run, runtime, Inv, Applied, Plan
<1> QED BY <1>1, <1>2, <1>3 DEF Inv

\* A start of the process keeps the invariant.
LEMMA StartKeeps ==
  ASSUME Inv, Start
  PROVE  Inv'
<1>1. Wellformed /\ Load \in Memories
  BY LoadTyped DEF Inv
<1>2. Wellformed'
  BY <1>1 DEF Start, Goes, files, run, runtime, Inv, Wellformed, TypeOK, Memories
<1>3. Enrolment'
  BY <1>1 DEF Start, Goes, files, run, runtime, Inv, Enrolment, Load
<1>4. Applied'
  BY <1>1 DEF Start, Goes, files, run, runtime, Inv, Applied
<1> QED BY <1>2, <1>3, <1>4 DEF Inv

\* Loading or generating the key keeps the invariant.
LEMMA IdentifyKeeps ==
  ASSUME Inv, Identify
  PROVE  Inv'
<1>1. CASE ~GiveUp
  <2>1. Wellformed'
    BY <1>1 DEF Identify, Onward, Go, Written, files, run, runtime, Inv, Wellformed, TypeOK, Key
  <2>2. Enrolment'
    BY <1>1 DEF Identify, Onward, Go, Written, files, run, runtime, Inv, Enrolment, Load
  <2>3. Applied'
    BY <1>1 DEF Identify, Onward, Go, Written, files, run, runtime, Inv, Applied
  <2> QED BY <2>1, <2>2, <2>3 DEF Inv
<1>2. CASE GiveUp
  <2>1. FilesTyped'
    BY FilesAreTyped DEF Identify, Written, Broken, FilesTyped
  <2> QED BY <1>2, <2>1, GiveUpKeeps DEF Identify
<1> QED BY <1>1, <1>2

\* A start that finds a node in the state file keeps the invariant.
LEMMA EnrolledKeeps ==
  ASSUME Inv, Enrolled
  PROVE  Inv'
<1>1. memory \in Enrolments
  BY NamedEnrolled DEF Enrolled, Inv, Wellformed, TypeOK
<1>2. Wellformed'
  BY <1>1 DEF Enrolled, Go, files, run, runtime, Inv, Wellformed, TypeOK
<1>3. Enrolment'
  BY <1>1 DEF Enrolled, Go, files, run, runtime, Inv, Enrolment
<1>4. Applied'
  BY <1>1 DEF Enrolled, Go, files, run, runtime, Inv, Applied
<1> QED BY <1>2, <1>3, <1>4 DEF Inv

\* A registration keeps the invariant.
LEMMA RegisterKeeps ==
  ASSUME NEW n \in NodeIds, Inv, Register(n)
  PROVE  Inv'
<1>1. memory' \in Enrolments /\ memory' \in Memories
  BY ConfigurationTyped, NamedNode DEF Inv, Register, Enrolments
<1>2. Wellformed'
  BY <1>1 DEF Register, Go, files, run, runtime, Inv, Wellformed, TypeOK
<1>3. Enrolment'
  BY <1>1 DEF Register, Go, files, run, runtime, Inv, Enrolment
<1>4. Applied'
  BY <1>1 DEF Register, Go, files, run, runtime, Inv, Applied
<1> QED BY <1>2, <1>3, <1>4 DEF Inv

\* A registration that fails keeps the invariant.
LEMMA RegisterFailsKeeps ==
  ASSUME Inv, RegisterFails
  PROVE  Inv'
BY FilesAreTyped, GiveUpKeeps DEF RegisterFails, files, FilesTyped

\* A fetch that fails keeps the invariant.
LEMMA SyncFailsKeeps ==
  ASSUME Inv, SyncFails
  PROVE  Inv'
BY FilesAreTyped, GiveUpKeeps DEF SyncFails, files, FilesTyped

\* A heartbeat that fails keeps the invariant.
LEMMA HeartbeatFailsKeeps ==
  ASSUME Inv, HeartbeatFails
  PROVE  Inv'
BY FilesAreTyped, GiveUpKeeps DEF HeartbeatFails, files, FilesTyped

\* A start of the dataplane that fails keeps the invariant.
LEMMA StartFailsKeeps ==
  ASSUME Inv, StartFails
  PROVE  Inv'
BY FilesAreTyped, GiveUpKeeps DEF StartFails, files, FilesTyped

\* Writing the state file keeps the invariant.
LEMMA SaveKeeps ==
  ASSUME Inv, NEW from \in {"save", "persist", "heard"},
         NEW to \in {"sync", "runtime", "compare"}, Save(from, to)
  PROVE  Inv'
<1>1. memory \in Enrolments /\ memory \in Memories \ {Blank, Unread}
  BY NamedNode DEF Save, Inv, Enrolment
<1>2. CASE ~GiveUp
  <2>1. Wellformed'
    BY <1>1, <1>2 DEF Save, Onward, Go, Written, files, run, runtime, Inv, Wellformed, TypeOK
  <2>2. Enrolment'
    BY <1>1, <1>2 DEF Save, Onward, Go, Written, files, run, runtime, Inv, Enrolment
  <2>3. Applied'
    BY <1>1, <1>2 DEF Save, Onward, Go, Written, files, run, runtime, Inv, Applied
  <2> QED BY <2>1, <2>2, <2>3 DEF Inv
<1>3. CASE GiveUp
  <2>1. FilesTyped'
    BY <1>1, FilesAreTyped DEF Save, Written, Broken, FilesTyped
  <2> QED BY <1>3, <2>1, GiveUpKeeps DEF Save
<1> QED BY <1>2, <1>3

\* A fetched configuration keeps the invariant.
LEMMA SyncKeeps ==
  ASSUME Inv, Sync
  PROVE  Inv'
<1>1. memory \in Enrolments
  BY DEF Sync, Inv, Enrolment
<1>2. memory.node \in NodeIds /\ memory' = [node |-> memory.node, config |-> Configuration(memory.node)]
  BY <1>1 DEF Sync, Enrolments
<1>3. memory' \in Enrolments /\ memory' \in Memories
  BY <1>2, ConfigurationTyped, NamedNode DEF Inv, Enrolments
<1>4. Wellformed'
  BY <1>3 DEF Sync, Go, files, run, runtime, Inv, Wellformed, TypeOK
<1>5. Enrolment'
  BY <1>3 DEF Sync, Go, files, run, runtime, Inv, Enrolment
<1>6. Applied'
  BY <1>3 DEF Sync, Go, files, run, runtime, Inv, Applied
<1> QED BY <1>4, <1>5, <1>6 DEF Inv

\* Writing the overlay and runtime files keeps the invariant.
LEMMA WriteRuntimeKeeps ==
  ASSUME Inv, WriteRuntime
  PROVE  Inv'
<1>0. Compiled(memory.config) = Plan /\ Plan \in Plans /\ Torn \in Plans
  BY PlanTyped DEF WriteRuntime, Plan, Plans
<1>1. CASE ~GiveUp
  <2>1. Wellformed'
    BY <1>0, <1>1 DEF WriteRuntime, Onward, Go, Written, files, run, runtime, Inv, Wellformed, TypeOK
  <2>2. Enrolment'
    BY <1>0, <1>1 DEF WriteRuntime, Onward, Go, Written, files, run, runtime, Inv, Enrolment
  <2>3. Applied'
    BY <1>0, <1>1 DEF WriteRuntime, Onward, Go, Written, files, run, runtime, Inv, Applied, Plan
  <2> QED BY <2>1, <2>2, <2>3 DEF Inv
<1>2. CASE GiveUp
  <2>1. FilesTyped'
    BY FilesAreTyped, <1>0 DEF WriteRuntime, files, Written, Broken, FilesTyped
  <2> QED BY <1>2, <2>1, GiveUpKeeps DEF WriteRuntime, files
<1> QED BY <1>1, <1>2

\* Writing the session files keeps the invariant.
LEMMA WriteSessionKeeps ==
  ASSUME Inv, WriteSession
  PROVE  Inv'
<1>0. Compiled(memory.config) = Plan /\ Plan \in Plans /\ Torn \in Plans
  BY PlanTyped DEF WriteSession, Plan, Plans
<1>1. CASE ~GiveUp
  <2>1. Wellformed'
    BY <1>0, <1>1 DEF WriteSession, Onward, Go, Written, files, run, runtime, Inv, Wellformed, TypeOK
  <2>2. Enrolment'
    BY <1>0, <1>1 DEF WriteSession, Onward, Go, Written, files, run, runtime, Inv, Enrolment
  <2>3. Applied'
    BY <1>0, <1>1 DEF WriteSession, Onward, Go, Written, files, run, runtime, Inv, Applied, Plan
  <2> QED BY <2>1, <2>2, <2>3 DEF Inv
<1>2. CASE GiveUp
  <2>1. FilesTyped'
    BY FilesAreTyped, <1>0 DEF WriteSession, files, Written, Broken, FilesTyped
  <2> QED BY <1>2, <2>1, GiveUpKeeps DEF WriteSession, files
<1> QED BY <1>1, <1>2

\* Writing the dataplane file keeps the invariant.
LEMMA WriteDataplaneKeeps ==
  ASSUME Inv, WriteDataplane
  PROVE  Inv'
<1>0. Compiled(memory.config) = Plan /\ Plan \in Plans /\ Torn \in Plans
  BY PlanTyped DEF WriteDataplane, Plan, Plans
<1>1. CASE ~GiveUp
  <2>1. Wellformed'
    BY <1>0, <1>1 DEF WriteDataplane, Onward, Go, Written, files, run, runtime, Inv, Wellformed, TypeOK
  <2>2. Enrolment'
    BY <1>0, <1>1 DEF WriteDataplane, Onward, Go, Written, files, run, runtime, Inv, Enrolment
  <2>3. Applied'
    BY <1>0, <1>1 DEF WriteDataplane, Onward, Go, Written, files, run, runtime, Inv, Applied, Plan
  <2> QED BY <2>1, <2>2, <2>3 DEF Inv
<1>2. CASE GiveUp
  <2>1. FilesTyped'
    BY FilesAreTyped, <1>0 DEF WriteDataplane, files, Written, Broken, FilesTyped
  <2> QED BY <1>2, <2>1, GiveUpKeeps DEF WriteDataplane, files
<1> QED BY <1>1, <1>2

\* An operation of the driver keeps the invariant.
LEMMA ApplyKeeps ==
  ASSUME Inv, Apply
  PROVE  Inv'
<1>0. Compiled(memory.config) = Plan /\ Plan \in Plans /\ Torn \in Plans
  BY PlanTyped DEF Apply, Plan, Plans
<1>1. CASE ~GiveUp
  <2>1. Wellformed'
    BY <1>0, <1>1 DEF Apply, Onward, Go, Written, files, run, runtime, Inv, Wellformed, TypeOK
  <2>2. Enrolment'
    BY <1>0, <1>1 DEF Apply, Onward, Go, Written, files, run, runtime, Inv, Enrolment
  <2>3. Applied'
    BY <1>0, <1>1 DEF Apply, Onward, Go, Written, files, run, runtime, Inv, Applied, Plan
  <2> QED BY <2>1, <2>2, <2>3 DEF Inv
<1>2. CASE GiveUp
  <2>1. FilesTyped'
    BY FilesAreTyped, <1>0 DEF Apply, files, Written, Broken, FilesTyped
  <2> QED BY <1>2, <2>1, GiveUpKeeps DEF Apply, files
<1> QED BY <1>1, <1>2

\* The start of an apply keeps the invariant.
LEMMA BeginApplyKeeps ==
  ASSUME Inv, BeginApply
  PROVE  Inv'
<1>1. Torn \in Plans
  BY DEF Plans
<1>2. Wellformed'
  BY <1>1 DEF BeginApply, Go, files, run, runtime, Inv, Wellformed, TypeOK
<1>3. Enrolment'
  BY DEF BeginApply, Go, files, run, runtime, Inv, Enrolment
<1>4. Applied'
  BY DEF BeginApply, Go, files, run, runtime, Inv, Applied, Plan
<1> QED BY <1>2, <1>3, <1>4 DEF Inv

\* Handing the forwarding plan over keeps the invariant.
LEMMA ForwardKeeps ==
  ASSUME Inv, Forward
  PROVE  Inv'
<1>1. Wellformed'
  BY DEF Forward, Go, files, run, runtime, Inv, Wellformed, TypeOK
<1>2. Enrolment'
  BY DEF Forward, Go, files, run, runtime, Inv, Enrolment
<1>3. Applied'
  BY DEF Forward, Go, files, run, runtime, Inv, Applied, Plan
<1> QED BY <1>1, <1>2, <1>3 DEF Inv

\* A runtime file that cannot be read back keeps the invariant.
LEMMA ForwardFailsKeeps ==
  ASSUME Inv, ForwardFails
  PROVE  Inv'
<1>1. None \in Plans
  BY DEF Plans
<1>2. Wellformed'
  BY <1>1 DEF ForwardFails, Go, files, run, runtime, Inv, Wellformed, TypeOK
<1>3. Enrolment'
  BY DEF ForwardFails, Go, files, run, runtime, Inv, Enrolment
<1>4. Applied'
  BY DEF ForwardFails, Go, files, run, runtime, Inv, Applied, Plan
<1> QED BY <1>2, <1>3, <1>4 DEF Inv

\* A file of the dataplane that cannot be read back keeps the invariant.
LEMMA ReloadFailsKeeps ==
  ASSUME Inv, ReloadFails
  PROVE  Inv'
BY FilesAreTyped, GiveUpKeeps DEF ReloadFails, files, FilesTyped

\* A dataplane that is left running keeps the invariant.
LEMMA KeepDataplaneKeeps ==
  ASSUME Inv, KeepDataplane
  PROVE  Inv'
<1>1. CASE refreshing
  BY <1>1, FilesAreTyped, IdleKeeps DEF KeepDataplane, Reloaded, files, FilesTyped
<1>2. CASE ~refreshing
  <2>1. Wellformed'
    BY <1>2 DEF KeepDataplane, Reloaded, Go, files, run, runtime, Inv, Wellformed, TypeOK
  <2>2. Enrolment'
    BY <1>2 DEF KeepDataplane, Reloaded, Go, files, run, runtime, Inv, Enrolment
  <2>3. Applied'
    BY <1>2 DEF KeepDataplane, Reloaded, Go, files, run, runtime, Inv, Applied
  <2> QED BY <2>1, <2>2, <2>3 DEF Inv
<1> QED BY <1>1, <1>2

\* Stopping the dataplane keeps the invariant.
LEMMA StopDataplaneKeeps ==
  ASSUME Inv, StopDataplane
  PROVE  Inv'
<1>1. Wellformed'
  BY DEF StopDataplane, Go, files, run, runtime, Inv, Wellformed, TypeOK
<1>2. Enrolment'
  BY DEF StopDataplane, Go, files, run, runtime, Inv, Enrolment
<1>3. Applied'
  BY DEF StopDataplane, Go, files, run, runtime, Inv, Applied, Plan
<1> QED BY <1>1, <1>2, <1>3 DEF Inv

\* Starting the dataplane keeps the invariant.
LEMMA StartDataplaneKeeps ==
  ASSUME Inv, StartDataplane
  PROVE  Inv'
<1>1. Signature \in [spec : Plans, session : Plans]
  BY DEF Signature, Inv, Wellformed, TypeOK
<1>2. Wellformed'
  BY <1>1 DEF StartDataplane, Reloaded, Idle, Goes, Go, files, Inv, Wellformed, TypeOK
<1>3. Enrolment'
  BY DEF StartDataplane, Reloaded, Idle, Goes, Go, files, Inv, Enrolment
<1>4. Applied'
  BY DEF StartDataplane, Reloaded, Idle, Goes, Go, files, Inv, Applied
<1> QED BY <1>2, <1>3, <1>4 DEF Inv

\* A heartbeat keeps the invariant.
LEMMA SendHeartbeatKeeps ==
  ASSUME Inv, SendHeartbeat
  PROVE  Inv'
<1>1. Wellformed'
  BY NamesAssumption DEF SendHeartbeat, Go, files, run, runtime, Inv, Wellformed, TypeOK, Contents
<1>2. Enrolment'
  BY NamesAssumption DEF SendHeartbeat, Go, files, run, runtime, Inv, Enrolment
<1>3. Applied'
  BY NamesAssumption DEF SendHeartbeat, Go, files, run, runtime, Inv, Applied
<1> QED BY <1>1, <1>2, <1>3 DEF Inv

\* What follows an answer that names a newer version keeps the invariant.
LEMMA RefreshKeeps ==
  ASSUME Inv, Refresh
  PROVE  Inv'
<1>1. CASE observed > memory.config.version
  <2>1. Wellformed'
    BY <1>1 DEF Refresh, Goes, files, run, runtime, Inv, Wellformed, TypeOK
  <2>2. Enrolment'
    BY <1>1 DEF Refresh, Goes, files, run, runtime, Inv, Enrolment
  <2>3. Applied'
    BY <1>1 DEF Refresh, Goes, files, run, runtime, Inv, Applied
  <2> QED BY <2>1, <2>2, <2>3 DEF Inv
<1>2. CASE ~(observed > memory.config.version)
  BY <1>2, FilesAreTyped, IdleKeeps DEF Refresh, files, FilesTyped
<1> QED BY <1>1, <1>2

\* The heartbeat ticker keeps the invariant.
LEMMA HeartbeatTickKeeps ==
  ASSUME Inv, HeartbeatTick
  PROVE  Inv'
<1>1. Wellformed'
  BY DEF HeartbeatTick, Go, files, run, runtime, Inv, Wellformed, TypeOK
<1>2. Enrolment'
  BY DEF HeartbeatTick, Go, files, run, runtime, Inv, Enrolment
<1>3. Applied'
  BY DEF HeartbeatTick, Go, files, run, runtime, Inv, Applied
<1> QED BY <1>1, <1>2, <1>3 DEF Inv

\* The bootstrap ticker keeps the invariant.
LEMMA BootstrapTickKeeps ==
  ASSUME Inv, BootstrapTick
  PROVE  Inv'
<1>1. Wellformed'
  BY DEF BootstrapTick, Go, files, run, runtime, Inv, Wellformed, TypeOK
<1>2. Enrolment'
  BY DEF BootstrapTick, Go, files, run, runtime, Inv, Enrolment
<1>3. Applied'
  BY DEF BootstrapTick, Go, files, run, runtime, Inv, Applied
<1> QED BY <1>1, <1>2, <1>3 DEF Inv

\* A crash keeps the invariant.
LEMMA CrashKeeps ==
  ASSUME Inv, Crash
  PROVE  Inv'
BY FilesAreTyped, DownKeeps DEF Crash, files, FilesTyped

\* Every step of the agent and of its surroundings keeps the invariant.
THEOREM NextInv == Inv /\ [Next]_vars => Inv'
<1> SUFFICES ASSUME Inv, [Next]_vars PROVE Inv'
  OBVIOUS
<1>1. CASE Start \/ HeartbeatTick \/ BootstrapTick \/ Change \/ Drift \/ Crash \/ CalmDown
  BY <1>1, StartKeeps, HeartbeatTickKeeps, BootstrapTickKeeps, ChangeKeeps, DriftKeeps,
     CrashKeeps, CalmDownKeeps
<1>2. CASE Identify \/ Enrolled \/ (\E n \in NodeIds : Register(n)) \/ RegisterFails
  BY <1>2, IdentifyKeeps, EnrolledKeeps, RegisterKeeps, RegisterFailsKeeps
<1>3. CASE Enrol \/ Persist \/ Heard
  BY <1>3, SaveKeeps DEF Enrol, Persist, Heard
<1>4. CASE Sync \/ SyncFails \/ WriteRuntime \/ WriteSession \/ WriteDataplane \/ BeginApply \/ Apply
  BY <1>4, SyncKeeps, SyncFailsKeeps, WriteRuntimeKeeps, WriteSessionKeeps, WriteDataplaneKeeps,
     BeginApplyKeeps, ApplyKeeps
<1>5. CASE \/ Forward \/ ForwardFails \/ ReloadFails
           \/ KeepDataplane \/ StopDataplane \/ StartDataplane \/ StartFails
  BY <1>5, ForwardKeeps, ForwardFailsKeeps, ReloadFailsKeeps, KeepDataplaneKeeps, StopDataplaneKeeps, StartDataplaneKeeps,
     StartFailsKeeps
<1>6. CASE SendHeartbeat \/ HeartbeatFails \/ Refresh
  BY <1>6, SendHeartbeatKeeps, HeartbeatFailsKeeps, RefreshKeeps
<1>7. CASE UNCHANGED vars
  <2>1. Wellformed'
    BY <1>7 DEF vars, files, run, runtime, Inv, Wellformed, TypeOK
  <2>2. Enrolment'
    BY <1>7 DEF vars, files, run, runtime, Inv, Enrolment, Load
  <2>3. Applied'
    BY <1>7 DEF vars, files, run, runtime, Inv, Applied, Plan
  <2> QED BY <2>1, <2>2, <2>3 DEF Inv
<1> QED BY <1>1, <1>2, <1>3, <1>4, <1>5, <1>6, <1>7 DEF Next, Steps

\* The invariant holds in every behaviour.
THEOREM InvHolds == Spec => []Inv
BY InitInv, NextInv, PTL DEF Spec

\* Every file, the driver and the runtimes hold what a configuration of a node
\* is made of, or nothing, or the remains of a write that broke off.
THEOREM TypeCorrect == Spec => []TypeOK
<1>1. Inv => TypeOK
  BY DEF Inv, Wellformed
<1> QED BY <1>1, InvHolds, PTL

-----------------------------------------------------------------------------
(* A dataplane starts with what was applied *)

\* Only StartDataplane sets a dataplane.
LEMMA OnlyStartSets ==
  ASSUME Next, dataplane' \notin {None, dataplane}
  PROVE  StartDataplane
<1>1. CASE GiveUp
  BY <1>1 DEF GiveUp, Down, runtime
<1>2. CASE Steps /\ ~GiveUp
  BY <1>2 DEF Steps, Identify, Enrolled, Register, RegisterFails, Enrol, Persist, Heard, Save,
     Sync, SyncFails, WriteRuntime, WriteSession, WriteDataplane, BeginApply, Apply, Forward,
     ForwardFails, ReloadFails, KeepDataplane, StopDataplane, StartFails, SendHeartbeat, HeartbeatFails, Refresh, Onward,
     runtime
<1>3. CASE ~Steps
  BY <1>3 DEF Next, Start, HeartbeatTick, BootstrapTick, Change, Drift, Crash, CalmDown, Down,
     runtime
<1> QED BY <1>1, <1>2, <1>3

\* A dataplane is started only with what the driver has applied, its files made
\* of one configuration, while the forwarding runtimes run that one or none: for
\* any nodes and changes, whatever failed, was torn or could not be read before.
THEOREM AppliedFirst == Spec => StartsApplied
<1>1. ASSUME Inv, Next, dataplane' \notin {None, dataplane}
      PROVE  /\ dataplane'.spec \notin {None, Torn}
             /\ dataplane'.spec = Compiled(memory.config)
             /\ {dataplane'.session, kernel} = {dataplane'.spec}
             /\ forwarding \in {None, dataplane'.spec}
  <2>1. StartDataplane
    BY <1>1, OnlyStartSets
  <2>2. step = "start" /\ dataplane' = [spec |-> dataplaneFile, session |-> sessionFile]
    BY <2>1 DEF StartDataplane, Signature
  <2>3. dataplaneFile = Plan /\ sessionFile = Plan /\ kernel = Plan /\ forwarding \in {None, Plan}
    BY <1>1, <2>2 DEF Inv, Applied
  <2>4. Plan \notin {None, Torn}
    BY <1>1, <2>2, PlanTyped
  <2> QED BY <2>2, <2>3, <2>4 DEF Plan
<1>2. Inv /\ [Next]_vars => [dataplane' \notin {None, dataplane} =>
         /\ dataplane'.spec \notin {None, Torn}
         /\ dataplane'.spec = Compiled(memory.config)
         /\ {dataplane'.session, kernel} = {dataplane'.spec}
         /\ forwarding \in {None, dataplane'.spec}]_vars
  BY <1>1
<1> QED BY <1>2, InvHolds, PTL DEF Spec, StartsApplied

-----------------------------------------------------------------------------
(* One node for each state file *)

\* Start takes the node of the state file, Register a new one, and no other
\* step changes the node.
LEMMA OnlyEnrolmentNames ==
  ASSUME Inv, Next, memory'.node \notin {None, memory.node}
  PROVE  Start \/ \E n \in NodeIds : Register(n)
<1>1. CASE GiveUp
  <2>1. memory' = memory \/ memory' = Blank
    BY <1>1 DEF GiveUp, Down
  <2> QED BY <2>1 DEF Blank
<1>2. CASE Sync
  BY <1>2 DEF Sync, Inv, Enrolment, Enrolments
<1>3. CASE Steps /\ ~GiveUp /\ ~Sync
  BY <1>3 DEF Steps, Identify, Enrolled, RegisterFails, Enrol, Persist, Heard, Save,
     SyncFails, WriteRuntime, WriteSession, WriteDataplane, BeginApply, Apply, Forward,
     ForwardFails, ReloadFails, KeepDataplane, StopDataplane, StartDataplane, StartFails, SendHeartbeat, HeartbeatFails,
     Refresh, Onward
<1>4. CASE HeartbeatTick \/ BootstrapTick \/ Change \/ Drift \/ Crash \/ CalmDown
  <2>1. memory' = memory \/ memory' = Blank
    BY <1>4 DEF HeartbeatTick, BootstrapTick, Change, Drift, Crash, CalmDown, Down
  <2> QED BY <2>1 DEF Blank
<1> QED BY <1>1, <1>2, <1>3, <1>4 DEF Next

\* The agent takes a second node only when the file of the first was never
\* written, is torn or could not be read at the start: for any number of nodes,
\* failures and restarts.
THEOREM NodeKept == Spec => OneNodePerStateFile
<1>1. ASSUME Inv, Next, memory'.node \notin {None, memory.node}
      PROVE  IF memory.node = None /\ step = "down"
             THEN stateFile \notin {None, Torn} /\ memory'.node = stateFile.node
             ELSE memory.node = None /\ (stateFile \in {None, Torn} \/ memory = Unread)
  <2>1. CASE Start
    <3>1. memory.node = None /\ step = "down" /\ memory' = Load
      BY <1>1, <2>1 DEF Start, Inv, Enrolment, Blank, Unread
    <3>2. stateFile \notin {None, Torn} /\ Load = stateFile
      BY <1>1, <3>1, LoadTyped DEF Inv
    <3> QED BY <3>1, <3>2
  <2>2. CASE \E n \in NodeIds : Register(n)
    <3>1. memory.node = None /\ step = "enroll" /\ memory \in {Load, Unread}
      BY <1>1, <2>2 DEF Register, Inv, Enrolment
    <3>2. stateFile \in {None, Torn} \/ memory = Unread
      BY <1>1, <3>1, LoadTyped, NamedNode DEF Inv
    <3> QED BY <3>1, <3>2
  <2> QED BY <1>1, <2>1, <2>2, OnlyEnrolmentNames
<1>2. Inv /\ [Next]_vars => [memory'.node \notin {None, memory.node} =>
         IF memory.node = None /\ step = "down"
         THEN stateFile \notin {None, Torn} /\ memory'.node = stateFile.node
         ELSE memory.node = None /\ (stateFile \in {None, Torn} \/ memory = Unread)]_vars
  BY <1>1
<1> QED BY <1>2, InvHolds, PTL DEF Spec, OneNodePerStateFile
=============================================================================
