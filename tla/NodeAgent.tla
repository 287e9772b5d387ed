----------------------------- MODULE NodeAgent -----------------------------
(***************************************************************************)
(* The agent of one node: NodeNetworkConfigReconciler of                   *)
(* pkg/reconciler/common/nodenetworkconfig.go, with the health checker of  *)
(* pkg/healthcheck.  agent-cra-frr and agent-cra-vsr differ only in the    *)
(* applier and in RestoreOnReconcileFailure.                               *)
(*                                                                         *)
(* One step is one call that leaves the process: a read from the informer  *)
(* cache, a status update, ApplyConfig, the health check, the write of the *)
(* file.  Between two of them the operator may change the object and the   *)
(* agent may crash.  A revision stands for the whole content of the spec.  *)
(***************************************************************************)
EXTENDS NodeConfigObject, Naturals

CONSTANTS
    RestoreOnReconcileFailure,  \* TRUE for FRR, FALSE for VSR
    DurablePath,    \* NodeNetworkConfigPath survives a restart of the agent
    Returns,        \* the operator may deploy a revision it deployed before
    MaxMoves,       \* bound: writes of the operator
    MaxFaults       \* bound: crashes, failed API calls and failed file writes

ASSUME AgentAssumption ==
    /\ RestoreOnReconcileFailure \in BOOLEAN
    /\ DurablePath \in BOOLEAN
    /\ Returns \in BOOLEAN
    /\ MaxMoves \in Nat
    /\ MaxFaults \in Nat
    /\ {"torn", "mixed"} \intersect (Revisions \union {NoRevision}) = {}

VARIABLES
    nnc,            \* the object in the API server
    cache,          \* the object in the informer cache of the agent
    cacheCurrent,   \* cache has the resourceVersion of nnc
    cfg,            \* the copy that Reconcile works on
    cfgCurrent,     \* cfg has the resourceVersion of nnc
    pc,             \* where Reconcile is
    restore,        \* invalidate was called by invalidateAndRestore
    memory,         \* r.NodeNetworkConfig
    file,           \* the file at NodeNetworkConfigPath
    dataplane,      \* what the routing agent runs
    tainted,        \* the node carries the configured taints
    taintsRemoved,  \* HealthChecker.taintsRemoved
    condition,      \* the NetworkOperatorReady condition of the node
    healthy,        \* history: revisions that passed checkHealth
    deployed,       \* history: revisions the operator deployed
    moves, faults   \* counters behind MaxMoves and MaxFaults

object == <<nnc, cache, cacheCurrent>>
work == <<cfg, cfgCurrent, pc, restore>>
stored == <<memory, file>>
node == <<dataplane, tainted, taintsRemoved, condition, healthy>>
environment == <<deployed, moves, faults>>
vars == <<object, work, stored, node, environment>>

Steps == {"down", "idle", "fast", "fastStatus", "fastTaints", "start", "apply",
          "health", "provisioned", "store", "invalidate", "restore"}

Known == Revisions \union {NoRevision}

TypeOK ==
    /\ nnc \in Object
    /\ cache \in Object
    /\ cfg \in Object
    /\ cacheCurrent \in BOOLEAN
    /\ cfgCurrent \in BOOLEAN
    /\ pc \in Steps
    /\ restore \in BOOLEAN
    /\ memory \in Known
    /\ file \in Known \union {"torn"}
    /\ dataplane \in Known \union {"mixed"}
    /\ tainted \in BOOLEAN
    /\ taintsRemoved \in BOOLEAN
    /\ condition \in {"none", "True", "False"}
    /\ healthy \subseteq Revisions
    /\ deployed \subseteq Revisions
    /\ moves \in 0..MaxMoves
    /\ faults \in 0..MaxFaults

Init ==
    /\ nnc = Absent /\ cache = Absent /\ cfg = Absent
    /\ cacheCurrent = TRUE /\ cfgCurrent = FALSE
    /\ pc = "idle" /\ restore = FALSE
    /\ memory = NoRevision /\ file = NoRevision
    /\ dataplane = NoRevision
    /\ tainted = TRUE /\ taintsRemoved = FALSE /\ condition = "none"
    /\ healthy = {} /\ deployed = {}
    /\ moves = 0 /\ faults = 0

-----------------------------------------------------------------------------
\* The operator creates, moves or deletes the object.
OperatorWrites ==
    /\ moves < MaxMoves
    /\ moves' = moves + 1
    /\ \/ \E r \in Revisions :
              /\ Returns \/ r \notin deployed
              /\ r # nnc.revision
              /\ nnc' = IF nnc.exists THEN [nnc EXCEPT !.revision = r]
                                      ELSE Created(r)
              /\ deployed' = deployed \union {r}
       \/ nnc.exists /\ nnc' = Absent /\ UNCHANGED deployed
    /\ cacheCurrent' = FALSE /\ cfgCurrent' = FALSE
    /\ UNCHANGED <<cache, cfg, pc, restore, stored, node, faults>>

\* The watch delivers the object to the informer cache.
CacheSyncs ==
    /\ ~cacheCurrent
    /\ cache' = nnc /\ cacheCurrent' = TRUE
    /\ UNCHANGED <<nnc, work, stored, node, environment>>

\* A call to the API server or a write of the file fails.
Fault == faults < MaxFaults /\ faults' = faults + 1

\* SetStatusWithError(status): the update is refused when the object changed
\* since it was read.
SetStatus(s, next) ==
    \/ /\ cfgCurrent
       /\ cfg' = WithStatus(cfg, s) /\ nnc' = WithStatus(cfg, s)
       /\ cacheCurrent' = FALSE
       /\ pc' = next
       /\ UNCHANGED <<cache, cfgCurrent, faults>>
    \/ /\ ~cfgCurrent
       /\ pc' = "idle"
       /\ UNCHANGED <<object, cfg, cfgCurrent, faults>>
    \/ /\ Fault
       /\ pc' = "idle"
       /\ UNCHANGED <<object, cfg, cfgCurrent>>


-----------------------------------------------------------------------------
\* Mutant: an invalid configuration is not discarded, it is tried again.
FetchRetriesInvalid ==
    /\ pc = "idle"
    /\ cfg' = cache /\ cfgCurrent' = cacheCurrent
    /\ pc' = CASE ~cache.exists -> "idle"
               [] cache.exists /\ memory # NoRevision /\ memory = cache.revision -> "fast"
               [] OTHER -> "start"
    /\ UNCHANGED <<object, restore, stored, node, environment>>

\* fetchNodeConfig, and the branch that Reconcile takes on what it found:
\* nothing there, already running, already found invalid, or to be processed.
Fetch ==
    /\ pc = "idle"
    /\ cfg' = cache /\ cfgCurrent' = cacheCurrent
    /\ pc' = CASE ~cache.exists -> "idle"
               [] cache.exists /\ memory # NoRevision /\ memory = cache.revision -> "fast"
               [] cache.exists /\ memory # cache.revision
                  /\ cache.status = "invalid"
                  /\ cache.lastApplied = cache.revision -> "idle"
               [] OTHER -> "start"
    /\ UNCHANGED <<object, restore, stored, node, environment>>

\* storeConfig: the memory is replaced before the file, which may be left as
\* it was, or torn, when the write fails.
StoreConfig(next) ==
    /\ memory' = cfg.revision
    /\ \/ file' = cfg.revision /\ pc' = next /\ UNCHANGED faults
       \/ Fault /\ file' \in {file, "torn"} /\ pc' = "idle"
    /\ UNCHANGED <<object, cfg, cfgCurrent, restore, node, deployed, moves>>

\* The revision in memory is the one to run: store it again.
FastStore ==
    /\ pc = "fast"
    /\ StoreConfig("fastStatus")

\* The status is also written when only the reported AS number is out of date.
FastStatus ==
    /\ pc = "fastStatus"
    /\ \/ SetStatus("provisioned", "fastTaints")
       \/ /\ cfg.status = "provisioned"
          /\ pc' = "fastTaints"
          /\ UNCHANGED <<object, cfg, cfgCurrent, faults>>
    /\ UNCHANGED <<restore, stored, node, deployed, moves>>

\* RemoveTaints: a conflict or an error leaves both as they were, and the
\* next reconciliation tries again.
RemoveTaints ==
    \/ tainted' = FALSE /\ taintsRemoved' = TRUE /\ UNCHANGED faults
    \/ Fault /\ UNCHANGED <<tainted, taintsRemoved>>

\* Mutant: the fast path returns before it looks at the taints.
FastTaintsSkipped ==
    /\ pc = "fastTaints"
    /\ pc' = "idle"
    /\ UNCHANGED <<object, cfg, cfgCurrent, restore, stored, node, environment>>

FastTaints ==
    /\ pc = "fastTaints"
    /\ pc' = "idle"
    /\ IF taintsRemoved THEN UNCHANGED <<tainted, taintsRemoved, faults>>
                        ELSE RemoveTaints
    /\ UNCHANGED <<object, cfg, cfgCurrent, restore, stored,
                   dataplane, condition, healthy, deployed, moves>>

\* processConfig, first call: status "provisioning".
StartProvisioning ==
    /\ pc = "start"
    /\ SetStatus("provisioning", "apply")
    /\ UNCHANGED <<restore, stored, node, deployed, moves>>

\* Mutant: the configuration is remembered as working before the check.
ApplyRemembers ==
    /\ pc = "apply"
    /\ dataplane' = cfg.revision
    /\ memory' = cfg.revision
    /\ pc' = "health"
    /\ UNCHANGED <<object, cfg, cfgCurrent, restore, file, tainted,
                   taintsRemoved, condition, healthy, environment>>

\* ApplyConfig succeeds.
ApplySucceeds ==
    /\ pc = "apply"
    /\ dataplane' = cfg.revision
    /\ pc' = "health"
    /\ UNCHANGED <<object, cfg, cfgCurrent, restore, stored, tainted,
                   taintsRemoved, condition, healthy, environment>>

\* What a failed ApplyConfig(r) leaves behind.  The error may be a lost reply
\* to a change that was made; FRR may also have applied part of it.
AfterFailedApply(r) ==
    {dataplane, r} \union (IF RestoreOnReconcileFailure THEN {"mixed"} ELSE {})

\* Mutant: the error of ApplyConfig is dropped.
ApplyErrorDropped ==
    /\ pc = "apply"
    /\ dataplane' \in AfterFailedApply(cfg.revision)
    /\ pc' = "health"
    /\ UNCHANGED <<object, cfg, cfgCurrent, restore, stored, tainted,
                   taintsRemoved, condition, healthy, environment>>

\* Mutant: the error is returned before the object is marked invalid.
ApplyErrorReturned ==
    /\ pc = "apply"
    /\ dataplane' \in AfterFailedApply(cfg.revision)
    /\ pc' = "idle"
    /\ UNCHANGED <<object, cfg, cfgCurrent, restore, stored, tainted,
                   taintsRemoved, condition, healthy, environment>>

ApplyFails ==
    /\ pc = "apply"
    /\ dataplane' \in AfterFailedApply(cfg.revision)
    /\ restore' = RestoreOnReconcileFailure
    /\ pc' = "invalidate"
    /\ UNCHANGED <<object, cfg, cfgCurrent, stored, tainted,
                   taintsRemoved, condition, healthy, environment>>

\* checkHealth passes: readiness condition, then the taints.
HealthPasses ==
    /\ pc = "health"
    /\ healthy' = healthy \union {cfg.revision}
    /\ \/ condition' = "True" /\ tainted' = FALSE /\ taintsRemoved' = TRUE
          /\ UNCHANGED faults
       \/ /\ Fault
          /\ condition' \in {"True", condition}
          /\ \/ tainted' = FALSE /\ taintsRemoved' = TRUE
             \/ UNCHANGED <<tainted, taintsRemoved>>
    /\ pc' = "provisioned"
    /\ UNCHANGED <<object, cfg, cfgCurrent, restore, stored, dataplane,
                   deployed, moves>>

\* Mutant: the taints go before the outcome of the check is known.
HealthFailsUntaints ==
    /\ pc = "health"
    /\ condition' = "False" /\ tainted' = FALSE /\ taintsRemoved' = TRUE
    /\ restore' = TRUE
    /\ pc' = "invalidate"
    /\ UNCHANGED <<object, cfg, cfgCurrent, stored, dataplane, healthy, environment>>

\* checkHealth fails; the error of the condition update is dropped.
HealthFails ==
    /\ pc = "health"
    /\ \/ condition' = "False" /\ UNCHANGED faults
       \/ Fault /\ UNCHANGED condition
    /\ restore' = TRUE
    /\ pc' = "invalidate"
    /\ UNCHANGED <<object, cfg, cfgCurrent, stored, dataplane, tainted,
                   taintsRemoved, healthy, deployed, moves>>

\* processConfig, last call: status "provisioned".
FinishProvisioning ==
    /\ pc = "provisioned"
    /\ SetStatus("provisioned", "store")
    /\ UNCHANGED <<restore, stored, node, deployed, moves>>

\* Reconcile stores a configuration that was provisioned.
StoreProvisioned ==
    /\ pc = "store"
    /\ StoreConfig("idle")

\* invalidateNodeNetworkConfig: without a successful status update nothing is
\* restored.
Invalidate ==
    /\ pc = "invalidate"
    /\ SetStatus("invalid",
                 IF restore /\ memory # NoRevision THEN "restore" ELSE "idle")
    /\ UNCHANGED <<restore, stored, node, deployed, moves>>

\* restoreNodeNetworkConfig: ApplyConfig of the configuration in memory.
Restore ==
    /\ pc = "restore"
    /\ dataplane' \in {memory} \union AfterFailedApply(memory)
    /\ pc' = "idle"
    /\ UNCHANGED <<object, cfg, cfgCurrent, restore, stored, tainted,
                   taintsRemoved, condition, healthy, environment>>

-----------------------------------------------------------------------------
\* The process dies: a write of the file may be cut short, a request to the
\* routing agent may still be carried out.
Crash ==
    /\ pc # "down"
    /\ Fault
    /\ pc' = "down"
    /\ memory' = NoRevision
    /\ taintsRemoved' = FALSE
    /\ file' \in IF ~DurablePath THEN {NoRevision}
                 ELSE {file} \union (IF pc \in {"fast", "store"} THEN {"torn"} ELSE {})
    /\ dataplane' \in CASE pc = "apply" -> AfterFailedApply(cfg.revision)
                        [] pc = "restore" -> AfterFailedApply(memory)
                        [] OTHER -> {dataplane}
    /\ UNCHANGED <<object, cfg, cfgCurrent, restore, tainted, condition,
                   healthy, deployed, moves>>

\* NewNodeNetworkConfigReconciler: the file is read back; one that does not
\* parse keeps the agent from starting.
Restart ==
    /\ pc = "down"
    /\ file # "torn"
    /\ memory' = file
    /\ pc' = "idle"
    /\ cache' = nnc /\ cacheCurrent' = TRUE
    /\ cfgCurrent' = FALSE
    /\ UNCHANGED <<nnc, cfg, restore, file, node, environment>>

AgentStep ==
    \/ Fetch \/ FastStore \/ FastStatus \/ FastTaints
    \/ StartProvisioning \/ ApplySucceeds \/ ApplyFails
    \/ HealthPasses \/ HealthFails \/ FinishProvisioning \/ StoreProvisioned
    \/ Invalidate \/ Restore \/ Restart

Next == OperatorWrites \/ CacheSyncs \/ AgentStep \/ Crash

Spec == Init /\ [][Next]_vars

\* The controller requeues (requeueTime), the kubelet restarts the agent, and
\* the informer's watch is re-established: all of them keep running.
FairSpec == Spec /\ WF_vars(AgentStep) /\ WF_vars(CacheSyncs)

-----------------------------------------------------------------------------
\* What the agent would restore, from memory or after a restart from the
\* file, is a configuration that was applied and passed the health check.
LastKnownGood ==
    /\ memory # NoRevision => memory \in healthy
    /\ file \in Revisions => file \in healthy

\* Pods are let onto the node only after some configuration was applied on it
\* and passed the health check, also when the taints go in the fast path.
TaintsNeedHealth == ~tainted => healthy # {}

\* The object moves only as its readers may assume: an agent never starts
\* again on a revision it reported invalid, and reports invalid only what it
\* had started on, whatever the operator writes in between.
Contract == INSTANCE ConfigStatus
KeepsContract == Contract!ContractSpec

\* The agent cannot start because the file was cut short.
TornFile == pc = "down" /\ file = "torn"

\* Once the operator is quiet the agent reports the outcome of the deployed
\* revision, crashes, conflicts and stale reads notwithstanding.
EventuallyReported == <>[](nnc.exists => Reported(nnc) \/ TornFile)

\* A node that runs its configuration does not keep its taints for ever: a
\* removal that met a conflict is tried again.
TaintsEventuallyRemoved ==
    <>[](nnc.exists /\ nnc.status = "provisioned" => ~tainted \/ TornFile)

\* "current in-memory config has the same revision as the fetched one this
\* means that NodeNetworkConfig was already provisioned" (comment in
\* Reconcile): a node reported as provisioned runs that revision.
ProvisionedIsApplied ==
    nnc.exists /\ nnc.status = "provisioned" /\ nnc.lastApplied = nnc.revision
        => dataplane = nnc.revision
=============================================================================
