-------------------------- MODULE NodeAgentProofs --------------------------
(***************************************************************************)
(* Proofs about NodeAgent, for any set of revisions, both appliers, any    *)
(* operator and any number of crashes and failed calls.                    *)
(***************************************************************************)
EXTENDS NodeAgent, TLAPS

\* Every object that exists has a revision.
HasRevision(o) == o.exists => o.revision \in Revisions

\* A copy with the current resourceVersion is the object.
CopiesMatch ==
    /\ cacheCurrent => cache = nnc
    /\ cfgCurrent => cfg = nnc

\* What Reconcile knows of its copy at each step.
StepKnows ==
    /\ pc \in {"fast", "fastStatus", "fastTaints", "start", "apply", "health",
               "provisioned", "store", "invalidate"} => cfg.exists
    /\ pc \in {"fast", "fastStatus", "fastTaints"} =>
           memory = cfg.revision /\ memory # NoRevision
    /\ pc = "start" => ~(cfg.status = "invalid" /\ cfg.lastApplied = cfg.revision)
    /\ pc \in {"apply", "health", "provisioned", "invalidate"} =>
           cfg.status = "provisioning"
    /\ pc \in {"provisioned", "store"} => cfg.revision \in healthy

\* The inductive invariant: LastKnownGood and TaintsNeedHealth follow from
\* what the steps before a store or a taint removal have established.
AgentInv ==
    /\ TypeOK
    /\ HasRevision(nnc) /\ HasRevision(cache) /\ HasRevision(cfg)
    /\ CopiesMatch
    /\ StepKnows
    /\ LastKnownGood
    /\ TaintsNeedHealth

\* A status update keeps the type of the object and its revision.
LEMMA WithStatusType ==
    ASSUME NEW o \in Object, NEW s \in Statuses
    PROVE  /\ WithStatus(o, s) \in Object
           /\ WithStatus(o, s).exists = o.exists
           /\ WithStatus(o, s).revision = o.revision
           /\ WithStatus(o, s).status = s
  BY DEF WithStatus, Object, Statuses

\* The objects the operator writes are well typed.
LEMMA OperatorObjects ==
    /\ Absent \in Object
    /\ HasRevision(Absent)
    /\ \A r \in Revisions : Created(r) \in Object /\ HasRevision(Created(r))
    /\ \A r \in Revisions, o \in Object :
           /\ [o EXCEPT !.revision = r] \in Object
           /\ HasRevision([o EXCEPT !.revision = r])
  BY DEF Absent, Created, Object, Statuses, HasRevision

\* The node starts with nothing stored and nothing applied.
LEMMA InitAgentInv == Init => AgentInv
<1> SUFFICES ASSUME Init PROVE AgentInv
    OBVIOUS
<1>1. TypeOK
  <2>1. nnc \in Object /\ cache \in Object /\ cfg \in Object
        BY OperatorObjects DEF Init
  <2>2. /\ pc \in Steps /\ condition \in {"none", "True", "False"}
        /\ memory \in Known /\ file \in Known \union {"torn"}
        /\ dataplane \in Known \union {"mixed"}
        /\ healthy \subseteq Revisions /\ deployed \subseteq Revisions
        BY DEF Init, Steps, Known
  <2>3. moves \in 0..MaxMoves /\ faults \in 0..MaxFaults
        BY AgentAssumption DEF Init
  <2>4. /\ cacheCurrent \in BOOLEAN /\ cfgCurrent \in BOOLEAN
        /\ restore \in BOOLEAN
        /\ tainted \in BOOLEAN /\ taintsRemoved \in BOOLEAN
        BY DEF Init
  <2> QED BY <2>1, <2>2, <2>3, <2>4 DEF TypeOK
<1>2. HasRevision(nnc) /\ HasRevision(cache) /\ HasRevision(cfg) /\ CopiesMatch
      BY OperatorObjects DEF Init, CopiesMatch
<1>3. StepKnows /\ LastKnownGood /\ TaintsNeedHealth
      BY NoRevisionAssumption DEF Init, StepKnows, LastKnownGood, TaintsNeedHealth
<1> QED BY <1>1, <1>2, <1>3 DEF AgentInv

\* SetStatus reaches the API server only from a current copy.
LEMMA SetStatusStep ==
    ASSUME AgentInv, NEW s \in Statuses, NEW next \in Steps,
           SetStatus(s, next), cfg.exists
    PROVE  /\ nnc' \in Object /\ cache' \in Object /\ cfg' \in Object
           /\ cacheCurrent' \in BOOLEAN /\ cfgCurrent' \in BOOLEAN
           /\ HasRevision(nnc)' /\ HasRevision(cache)' /\ HasRevision(cfg)'
           /\ CopiesMatch'
           /\ faults' \in 0..MaxFaults
           /\ cfg'.exists /\ cfg'.revision = cfg.revision
           /\ \/ pc' = "idle"
              \/ pc' = next /\ cfg'.status = s
<1> USE DEF AgentInv, TypeOK, CopiesMatch, object
<1>1. faults' \in 0..MaxFaults
      BY AgentAssumption DEF SetStatus, Fault
<1>2. CASE /\ cfgCurrent
           /\ cfg' = WithStatus(cfg, s) /\ nnc' = WithStatus(cfg, s)
           /\ cacheCurrent' = FALSE
           /\ pc' = next
           /\ UNCHANGED <<cache, cfgCurrent>>
      BY <1>1, <1>2, WithStatusType DEF HasRevision
<1>3. CASE pc' = "idle" /\ UNCHANGED <<object, cfg, cfgCurrent>>
      BY <1>1, <1>3 DEF HasRevision
<1> QED BY <1>2, <1>3 DEF SetStatus

\* A step that writes a status and leaves the node and the store alone.
LEMMA StatusStepInv ==
    ASSUME AgentInv, NEW s \in Statuses, NEW next \in Steps,
           SetStatus(s, next), cfg.exists,
           UNCHANGED <<restore, stored, node, deployed, moves>>,
           \/ next \in {"idle", "restore"}
           \/ next = "fastTaints" /\ memory = cfg.revision /\ memory # NoRevision
           \/ next = "apply" /\ s = "provisioning"
           \/ next = "store" /\ cfg.revision \in healthy
    PROVE  AgentInv'
<1>1. TypeOK'
      BY SetStatusStep, SMT DEF AgentInv, TypeOK, stored, node, Steps
<1>2. HasRevision(nnc)' /\ HasRevision(cache)' /\ HasRevision(cfg)' /\ CopiesMatch'
      BY SetStatusStep
<1>3. StepKnows'
      BY SetStatusStep DEF AgentInv, StepKnows, stored, node, Steps
<1>4. LastKnownGood' /\ TaintsNeedHealth'
      BY DEF AgentInv, LastKnownGood, TaintsNeedHealth, stored, node
<1> QED BY <1>1, <1>2, <1>3, <1>4 DEF AgentInv

\* A step that leaves the objects and the copy alone.
LEMMA LocalStepInv ==
    ASSUME AgentInv, UNCHANGED <<object, cfg, cfgCurrent>>, TypeOK',
           StepKnows', LastKnownGood', TaintsNeedHealth'
    PROVE  AgentInv'
  BY DEF AgentInv, object, CopiesMatch, HasRevision

\* storeConfig of a revision that is known to work.
LEMMA StoreStepInv ==
    ASSUME AgentInv, pc \in {"fast", "store"}, NEW next \in {"idle", "fastStatus"},
           StoreConfig(next), cfg.revision \in healthy
    PROVE  AgentInv'
<1> USE DEF AgentInv, StoreConfig
<1>1. faults' \in 0..MaxFaults
      BY AgentAssumption DEF TypeOK, Fault
<1>2. cfg.revision \in Revisions
      BY DEF TypeOK
<1>3. file' \in {file, cfg.revision, "torn"} /\ pc' \in {"idle", "fastStatus"}
      OBVIOUS
<1>4. TypeOK'
      BY <1>1, <1>2, <1>3 DEF TypeOK, object, node, Known, Steps
<1>5. StepKnows'
      BY <1>2, <1>3, NoRevisionAssumption DEF StepKnows, node
<1>6. LastKnownGood' /\ TaintsNeedHealth'
      BY <1>2, <1>3, AgentAssumption DEF LastKnownGood, TaintsNeedHealth, node
<1> QED BY <1>4, <1>5, <1>6, LocalStepInv

\* The revisions that a failed apply may leave in the data plane.
LEMMA FailedApplyType ==
    ASSUME AgentInv, NEW r \in Known
    PROVE  AfterFailedApply(r) \subseteq Known \union {"mixed"}
  BY DEF AgentInv, TypeOK, AfterFailedApply

\* Every step of the agent, of its environment and every crash preserves the
\* invariant.
LEMMA NextAgentInv == AgentInv /\ [Next]_vars => AgentInv'
<1> SUFFICES ASSUME AgentInv, [Next]_vars
             PROVE  AgentInv'
    OBVIOUS
<1> USE DEF AgentInv
<1>1. CASE OperatorWrites
  <2>1. moves' \in 0..MaxMoves
        BY <1>1, AgentAssumption DEF OperatorWrites, TypeOK
  <2>2. nnc' \in Object /\ HasRevision(nnc)' /\ deployed' \subseteq Revisions
        BY <1>1, OperatorObjects DEF OperatorWrites, TypeOK
  <2>3. TypeOK'
        BY <1>1, <2>1, <2>2 DEF OperatorWrites, TypeOK, stored, node
  <2>4. HasRevision(cache)' /\ HasRevision(cfg)' /\ CopiesMatch'
        BY <1>1 DEF OperatorWrites, CopiesMatch, HasRevision
  <2>5. StepKnows' /\ LastKnownGood' /\ TaintsNeedHealth'
        BY <1>1 DEF OperatorWrites, StepKnows, LastKnownGood, TaintsNeedHealth,
                    stored, node
  <2> QED BY <2>2, <2>3, <2>4, <2>5
<1>2. CASE CacheSyncs
  <2>1. TypeOK'
        BY <1>2 DEF CacheSyncs, TypeOK, work, stored, node, environment
  <2>2. HasRevision(nnc)' /\ HasRevision(cache)' /\ HasRevision(cfg)' /\ CopiesMatch'
        BY <1>2 DEF CacheSyncs, CopiesMatch, HasRevision, work
  <2>3. StepKnows' /\ LastKnownGood' /\ TaintsNeedHealth'
        BY <1>2 DEF CacheSyncs, StepKnows, LastKnownGood, TaintsNeedHealth,
                    work, stored, node
  <2> QED BY <2>1, <2>2, <2>3
<1>3. CASE Fetch
  <2>1. pc' \in {"idle", "fast", "start"}
        BY <1>3 DEF Fetch
  <2>2. TypeOK'
        BY <1>3, <2>1 DEF Fetch, TypeOK, Steps, object, stored, node, environment
  <2>3. HasRevision(nnc)' /\ HasRevision(cache)' /\ HasRevision(cfg)' /\ CopiesMatch'
        BY <1>3 DEF Fetch, CopiesMatch, HasRevision, object
  <2>4. StepKnows'
    <3>1. CASE pc' = "idle"
          BY <3>1 DEF StepKnows
    <3>2. CASE pc' = "fast"
          BY <1>3, <3>2 DEF Fetch, StepKnows, stored
    <3>3. CASE pc' = "start"
          BY <1>3, <3>3, NoRevisionAssumption DEF Fetch, StepKnows, stored, HasRevision
    <3> QED BY <2>1, <3>1, <3>2, <3>3
  <2>5. LastKnownGood' /\ TaintsNeedHealth'
        BY <1>3 DEF Fetch, LastKnownGood, TaintsNeedHealth, stored, node
  <2> QED BY <2>2, <2>3, <2>4, <2>5
<1>4. CASE FastStore
      BY <1>4, StoreStepInv DEF FastStore, StepKnows, LastKnownGood
<1>5. CASE FastStatus
  <2>1. CASE SetStatus("provisioned", "fastTaints")
        BY <1>5, <2>1, StatusStepInv DEF FastStatus, StepKnows, Statuses, Steps
  <2>2. CASE pc' = "fastTaints" /\ UNCHANGED <<object, cfg, cfgCurrent, faults>>
    <3>1. TypeOK'
          BY <1>5, <2>2 DEF FastStatus, TypeOK, Steps, object, stored, node
    <3>2. StepKnows' /\ LastKnownGood' /\ TaintsNeedHealth'
          BY <1>5, <2>2 DEF FastStatus, StepKnows, LastKnownGood,
                            TaintsNeedHealth, stored, node
    <3> QED BY <2>2, <3>1, <3>2, LocalStepInv
  <2> QED BY <1>5, <2>1, <2>2 DEF FastStatus
<1>6. CASE FastTaints
  <2>1. faults' \in 0..MaxFaults
        BY <1>6, AgentAssumption DEF FastTaints, RemoveTaints, Fault, TypeOK
  <2>2. TypeOK'
        BY <1>6, <2>1 DEF FastTaints, RemoveTaints, TypeOK, Steps, object, stored
  <2>3. StepKnows' /\ LastKnownGood'
        BY <1>6 DEF FastTaints, StepKnows, LastKnownGood, stored
  <2>4. TaintsNeedHealth'
        BY <1>6 DEF FastTaints, TaintsNeedHealth, StepKnows, LastKnownGood
  <2> QED BY <1>6, <2>2, <2>3, <2>4, LocalStepInv DEF FastTaints
<1>7. CASE StartProvisioning
      BY <1>7, StatusStepInv DEF StartProvisioning, StepKnows, Statuses, Steps
<1>8. CASE ApplySucceeds
  <2>1. TypeOK'
        BY <1>8 DEF ApplySucceeds, TypeOK, StepKnows, Steps, Known, Object, object, stored, environment
  <2>2. StepKnows' /\ LastKnownGood' /\ TaintsNeedHealth'
        BY <1>8 DEF ApplySucceeds, StepKnows, LastKnownGood, TaintsNeedHealth, stored
  <2> QED BY <1>8, <2>1, <2>2, LocalStepInv DEF ApplySucceeds
<1>9. CASE ApplyFails
  <2>1. cfg.revision \in Known
        BY DEF TypeOK, Object, Known
  <2>2. TypeOK'
        BY <1>9, <2>1, FailedApplyType, AgentAssumption
           DEF ApplyFails, TypeOK, Steps, object, stored, environment
  <2>3. StepKnows' /\ LastKnownGood' /\ TaintsNeedHealth'
        BY <1>9 DEF ApplyFails, StepKnows, LastKnownGood, TaintsNeedHealth, stored
  <2> QED BY <1>9, <2>2, <2>3, LocalStepInv DEF ApplyFails
<1>10. CASE HealthPasses
  <2>1. faults' \in 0..MaxFaults
        BY <1>10, AgentAssumption DEF HealthPasses, Fault, TypeOK
  <2>2. cfg.revision \in Revisions
        BY <1>10 DEF HealthPasses, StepKnows, HasRevision
  <2>3. /\ condition' \in {"none", "True", "False"}
        /\ tainted' \in BOOLEAN /\ taintsRemoved' \in BOOLEAN
        BY <1>10 DEF HealthPasses, TypeOK
  <2>4. TypeOK'
        BY <1>10, <2>1, <2>2, <2>3 DEF HealthPasses, TypeOK, Steps, object, stored
  <2>5. StepKnows' /\ LastKnownGood' /\ TaintsNeedHealth'
        BY <1>10 DEF HealthPasses, StepKnows, LastKnownGood, TaintsNeedHealth, stored
  <2> QED BY <1>10, <2>4, <2>5, LocalStepInv DEF HealthPasses
<1>11. CASE HealthFails
  <2>1. faults' \in 0..MaxFaults
        BY <1>11, AgentAssumption DEF HealthFails, Fault, TypeOK
  <2>2. TypeOK'
        BY <1>11, <2>1 DEF HealthFails, TypeOK, Steps, object, stored
  <2>3. StepKnows' /\ LastKnownGood' /\ TaintsNeedHealth'
        BY <1>11 DEF HealthFails, StepKnows, LastKnownGood, TaintsNeedHealth, stored
  <2> QED BY <1>11, <2>2, <2>3, LocalStepInv DEF HealthFails
<1>12. CASE FinishProvisioning
      BY <1>12, StatusStepInv DEF FinishProvisioning, StepKnows, Statuses, Steps
<1>13. CASE StoreProvisioned
      BY <1>13, StoreStepInv DEF StoreProvisioned, StepKnows
<1>14. CASE Invalidate
      BY <1>14, StatusStepInv DEF Invalidate, StepKnows, Statuses, Steps
<1>15. CASE Restore
  <2>1. TypeOK'
        BY <1>15, FailedApplyType DEF Restore, TypeOK, Steps, object, stored, environment
  <2>2. StepKnows' /\ LastKnownGood' /\ TaintsNeedHealth'
        BY <1>15 DEF Restore, StepKnows, LastKnownGood, TaintsNeedHealth, stored
  <2> QED BY <1>15, <2>1, <2>2, LocalStepInv DEF Restore
<1>16. CASE Crash
  <2>1. faults' \in 0..MaxFaults
        BY <1>16, AgentAssumption DEF Crash, Fault, TypeOK
  <2>2. file' \in {file, NoRevision, "torn"}
        BY <1>16 DEF Crash
  <2>3. dataplane' \in Known \union {"mixed"}
    <3>1. cfg.revision \in Known /\ memory \in Known
          BY DEF TypeOK, Object, Known
    <3>2. dataplane' \in AfterFailedApply(cfg.revision) \union AfterFailedApply(memory)
                          \union {dataplane}
          BY <1>16 DEF Crash
    <3> QED BY <3>1, <3>2, FailedApplyType DEF TypeOK
  <2>4. TypeOK'
        BY <1>16, <2>1, <2>2, <2>3 DEF Crash, TypeOK, Steps, Known, object
  <2>5. StepKnows' /\ LastKnownGood' /\ TaintsNeedHealth'
        BY <1>16, <2>2, AgentAssumption, NoRevisionAssumption
           DEF Crash, StepKnows, LastKnownGood, TaintsNeedHealth
  <2> QED BY <1>16, <2>4, <2>5, LocalStepInv DEF Crash
<1>17. CASE Restart
  <2>1. TypeOK'
        BY <1>17 DEF Restart, TypeOK, Steps, node, environment
  <2>2. HasRevision(nnc)' /\ HasRevision(cache)' /\ HasRevision(cfg)' /\ CopiesMatch'
        BY <1>17 DEF Restart, CopiesMatch, HasRevision
  <2>3. StepKnows' /\ LastKnownGood' /\ TaintsNeedHealth'
        BY <1>17 DEF Restart, StepKnows, LastKnownGood, TaintsNeedHealth, TypeOK,
                     Known, node
  <2> QED BY <2>1, <2>2, <2>3
<1>18. CASE UNCHANGED vars
  <2>1. TypeOK'
        BY <1>18 DEF TypeOK, vars, object, work, stored, node, environment
  <2>2. StepKnows' /\ LastKnownGood' /\ TaintsNeedHealth'
        BY <1>18 DEF StepKnows, LastKnownGood, TaintsNeedHealth,
                     vars, object, work, stored, node, environment
  <2> QED BY <1>18, <2>1, <2>2, LocalStepInv DEF vars, object, work
<1> QED BY <1>1, <1>2, <1>3, <1>4, <1>5, <1>6, <1>7, <1>8, <1>9, <1>10, <1>11,
           <1>12, <1>13, <1>14, <1>15, <1>16, <1>17, <1>18 DEF Next, AgentStep

\* The variables of the agent keep their types.
THEOREM AgentTypeCorrect == Spec => []TypeOK
<1>1. AgentInv => TypeOK
      BY DEF AgentInv
<1> QED BY <1>1, InitAgentInv, NextAgentInv, PTL DEF Spec

\* What the agent would restore was applied and passed the health check.
THEOREM AgentLastKnownGood == Spec => []LastKnownGood
<1>1. AgentInv => LastKnownGood
      BY DEF AgentInv
<1> QED BY <1>1, InitAgentInv, NextAgentInv, PTL DEF Spec

\* The taints of the node outlast the first health check that passes.
THEOREM AgentTaintsNeedHealth == Spec => []TaintsNeedHealth
<1>1. AgentInv => TaintsNeedHealth
      BY DEF AgentInv
<1> QED BY <1>1, InitAgentInv, NextAgentInv, PTL DEF Spec

-----------------------------------------------------------------------------
\* A status update of Reconcile is a step of the contract, or no step.
LEMMA SetStatusImplements ==
    ASSUME AgentInv, NEW s \in {"provisioning", "provisioned", "invalid"}, NEW next,
           SetStatus(s, next), cfg.exists,
           s = "provisioning" =>
               ~(cfg.status = "invalid" /\ cfg.lastApplied = cfg.revision),
           s = "invalid" => cfg.status = "provisioning"
    PROVE  Contract!ContractNext \/ UNCHANGED nnc
<1> USE DEF AgentInv, CopiesMatch
<1>1. CASE cfgCurrent /\ nnc' = WithStatus(cfg, s)
  <2>1. cfg = nnc
        BY <1>1
  <2>2. CASE s = "provisioning"
        BY <1>1, <2>1, <2>2 DEF Contract!ContractNext, Contract!AgentStarts,
                                Contract!WithStatus, WithStatus
  <2>3. CASE s = "provisioned"
        BY <1>1, <2>1, <2>3 DEF Contract!ContractNext, Contract!AgentProvisions,
                                Contract!WithStatus, WithStatus
  <2>4. CASE s = "invalid"
        BY <1>1, <2>1, <2>4 DEF Contract!ContractNext, Contract!AgentInvalidates,
                                Contract!WithStatus, WithStatus
  <2> QED BY <2>2, <2>3, <2>4
<1>2. CASE UNCHANGED object
      BY <1>2 DEF object
<1> QED BY <1>1, <1>2 DEF SetStatus

\* The agent implements the contract that the readers of the status rely on:
\* with conflicts, stale caches and crashes at any point.
THEOREM AgentKeepsContract == Spec => KeepsContract
<1>1. Init => Contract!ContractInit
      BY DEF Init, Contract!ContractInit, Absent, Contract!Absent
<1>2. AgentInv /\ [Next]_vars => [Contract!ContractNext]_nnc
  <2> SUFFICES ASSUME AgentInv, [Next]_vars
               PROVE  Contract!ContractNext \/ UNCHANGED nnc
      OBVIOUS
  <2> USE DEF AgentInv
  <2>1. CASE OperatorWrites
    <3>1. ASSUME NEW r \in Revisions,
                 nnc' = IF nnc.exists THEN [nnc EXCEPT !.revision = r] ELSE Created(r)
          PROVE  Contract!ContractNext
          BY <3>1 DEF Contract!ContractNext, Contract!OperatorMoves,
                      Contract!OperatorCreates, Contract!Created, Created
    <3>2. CASE nnc.exists /\ nnc' = Absent
          BY <3>2 DEF Contract!ContractNext, Contract!OperatorDeletes,
                      Contract!Absent, Absent
    <3> QED BY <2>1, <3>1, <3>2 DEF OperatorWrites
  <2>2. CASE FastStatus
        BY <2>2, SetStatusImplements DEF FastStatus, StepKnows, object
  <2>3. CASE StartProvisioning
        BY <2>3, SetStatusImplements DEF StartProvisioning, StepKnows
  <2>4. CASE FinishProvisioning
        BY <2>4, SetStatusImplements DEF FinishProvisioning, StepKnows
  <2>5. CASE Invalidate
        BY <2>5, SetStatusImplements DEF Invalidate, StepKnows
  <2>6. CASE \/ CacheSyncs \/ Fetch \/ FastStore \/ FastTaints \/ ApplySucceeds
             \/ ApplyFails \/ HealthPasses \/ HealthFails \/ StoreProvisioned
             \/ Restore \/ Crash \/ Restart \/ UNCHANGED vars
        BY <2>6 DEF CacheSyncs, Fetch, FastStore, FastTaints, ApplySucceeds,
                    ApplyFails, HealthPasses, HealthFails, StoreProvisioned,
                    StoreConfig, Restore, Crash, Restart, vars, object
  <2> QED BY <2>1, <2>2, <2>3, <2>4, <2>5, <2>6 DEF Next, AgentStep
<1> QED BY <1>1, <1>2, InitAgentInv, NextAgentInv, PTL
        DEF Spec, KeepsContract, Contract!ContractSpec

-----------------------------------------------------------------------------
\* The statuses that Reconcile writes.
LEMMA AgentStatuses == {"provisioning", "provisioned", "invalid"} \subseteq Statuses
  BY DEF Statuses

\* The object asks for revision r.
Asks(r) == nnc.exists /\ nnc.revision = r

\* The object that the operator has just deleted or created.
LEMMA AbsentFields ==
    ~Absent.exists /\ Absent.lastApplied = NoRevision /\ Absent.status # "provisioned"
  BY DEF Absent

\* A created object names its revision and reports nothing yet.
LEMMA CreatedFields ==
    \A r : /\ Created(r).exists /\ Created(r).revision = r
           /\ Created(r).lastApplied = NoRevision /\ Created(r).status # "provisioned"
  BY DEF Created

\* Whatever the agent has read was deployed.
Deployed(o) == o.exists => o.revision \in deployed
DeployedInv == Deployed(nnc) /\ Deployed(cache) /\ Deployed(cfg)

\* Every step keeps what the agent has read among what was deployed.
LEMMA DeployedStep == ASSUME AgentInv, DeployedInv, [Next]_vars PROVE DeployedInv'
<1>1. CASE OperatorWrites
  <2>1. ASSUME NEW r \in Revisions,
               nnc' = IF nnc.exists THEN [nnc EXCEPT !.revision = r] ELSE Created(r)
        PROVE  nnc'.revision = r
    <3>1. CASE nnc.exists
          BY <2>1, <3>1 DEF AgentInv, TypeOK, Object
    <3>2. CASE ~nnc.exists
          BY <2>1, <3>2, CreatedFields
    <3> QED BY <3>1, <3>2
  <2>2. Deployed(nnc)' /\ deployed \subseteq deployed'
        BY <1>1, <2>1, AbsentFields DEF OperatorWrites, Deployed
  <2> QED BY <1>1, <2>2 DEF OperatorWrites, DeployedInv, Deployed
<1>2. ASSUME UNCHANGED <<cache, deployed>>, NEW s \in Statuses, NEW next, SetStatus(s, next)
      PROVE  DeployedInv'
  <2>1. WithStatus(cfg, s).exists = cfg.exists /\ WithStatus(cfg, s).revision = cfg.revision
        BY WithStatusType DEF AgentInv, TypeOK
  <2> QED BY <1>2, <2>1 DEF SetStatus, DeployedInv, Deployed, object
<1>3. CASE CacheSyncs \/ Fetch \/ Restart
      BY <1>3 DEF CacheSyncs, Fetch, Restart, DeployedInv, Deployed, object, work, environment
<1>4. CASE \/ FastStore \/ FastTaints \/ ApplySucceeds \/ ApplyFails \/ HealthPasses
           \/ HealthFails \/ StoreProvisioned \/ Restore \/ Crash \/ UNCHANGED vars
      BY <1>4 DEF FastStore, FastTaints, ApplySucceeds, ApplyFails, HealthPasses,
                  HealthFails, StoreProvisioned, StoreConfig, Restore, Crash, vars,
                  object, work, environment, DeployedInv, Deployed
<1>5. CASE FastStatus \/ StartProvisioning \/ FinishProvisioning \/ Invalidate
  <2>1. /\ UNCHANGED <<cache, deployed>>
        /\ \/ \E s \in Statuses : \E next : SetStatus(s, next)
           \/ UNCHANGED <<nnc, cfg>>
        BY <1>5, AgentStatuses DEF FastStatus, StartProvisioning, FinishProvisioning,
                                   Invalidate, SetStatus, object
  <2> QED BY <1>2, <2>1 DEF DeployedInv, Deployed
<1> QED BY <1>1, <1>3, <1>4, <1>5 DEF Next, AgentStep

\* From the first status update of processConfig to its end.
Processing == {"apply", "health", "provisioned", "store", "invalidate", "restore"}

\* The inductive invariant behind ProvisionedIsApplied.  A revision that the
\* object has left does not come back, so what is remembered of an earlier one
\* is not what the object asks for while another is being processed; as long as
\* the object asks for what memory or file hold, nothing else is applied.
AppliedInv ==
    /\ {memory, file, nnc.lastApplied} \subseteq deployed \union {NoRevision, "torn"}
    /\ pc = "start" /\ cfgCurrent => memory # cfg.revision
    /\ pc \in Processing => ~Asks(memory)
    /\ pc \in Processing \ {"store"} => nnc.status # "provisioned"
    /\ pc \in {"health", "provisioned", "store"} => dataplane = cfg.revision
    /\ pc # "down" /\ Asks(file) => memory = file
    /\ Asks(memory) => dataplane = memory
    /\ Asks(file) => dataplane = file
    /\ ProvisionedIsApplied

\* Before anything is deployed there is nothing to remember.
LEMMA InitAppliedInv == Init => AppliedInv
  BY AbsentFields DEF Init, AppliedInv, Asks, Processing, ProvisionedIsApplied

\* A step back to the start of Reconcile, or within its fast path.
LEMMA OutsideApplied ==
    ASSUME AppliedInv, UNCHANGED <<nnc, stored, dataplane, deployed>>, pc # "down",
           pc' \notin Processing \union {"start"}
    PROVE  AppliedInv'
  BY DEF AppliedInv, stored, Asks, Processing, ProvisionedIsApplied

\* A status update: refused, or of the object that cfg is.
LEMMA StatusApplied ==
    ASSUME AgentInv, DeployedInv, AppliedInv, NEW s \in Statuses, NEW next, SetStatus(s, next),
           cfg.exists, pc # "down",
           UNCHANGED <<stored, dataplane, deployed>>,
           cfgCurrent /\ pc' = next =>
               /\ next # "start"
               /\ next \in Processing => memory # cfg.revision
               /\ next \in Processing \ {"store"} => s # "provisioned"
               /\ next \in {"health", "provisioned", "store"} => dataplane = cfg.revision
               /\ s = "provisioned" => dataplane = cfg.revision
    PROVE  AppliedInv'
<1>1. CASE /\ cfgCurrent
           /\ cfg' = WithStatus(cfg, s) /\ nnc' = WithStatus(cfg, s)
           /\ pc' = next
  <2>1. /\ cfg = nnc
        /\ nnc \in Object
        BY <1>1 DEF AgentInv, CopiesMatch, TypeOK
  <2>2. /\ nnc'.exists = nnc.exists /\ nnc'.revision = nnc.revision
        /\ nnc'.status = s /\ cfg'.revision = cfg.revision
        /\ nnc'.lastApplied \in {nnc.revision, nnc.lastApplied}
        BY <1>1, <2>1 DEF WithStatus, Object
  <2>3. \A r : Asks(r)' = Asks(r)
        BY <2>2 DEF Asks
  <2>4. ProvisionedIsApplied'
        BY <1>1, <2>1, <2>2 DEF ProvisionedIsApplied
  <2>5. ~(pc' = "start") /\ (pc' \in Processing => ~Asks(memory)')
        BY <1>1, <2>1, <2>3 DEF stored, Asks
  <2> QED BY <1>1, <2>1, <2>2, <2>3, <2>4, <2>5 DEF AppliedInv, stored, DeployedInv, Deployed
<1>2. CASE pc' = "idle" /\ UNCHANGED object
      BY <1>2, OutsideApplied DEF object, Processing
<1> QED BY <1>1, <1>2 DEF SetStatus

\* ApplyConfig or a crash in it: the data plane changes while the object asks for
\* none of the remembered revisions and is not reported as provisioned.
LEMMA DataplaneApplied ==
    ASSUME AppliedInv, UNCHANGED <<nnc, deployed>>, pc \in Processing \ {"store"},
           memory' \in {memory, NoRevision}, file' \in {file, NoRevision, "torn"},
           AgentInv,
           pc' \in {"idle", "health", "invalidate", "down"},
           pc' \in {"health", "invalidate"} => memory' = memory,
           pc' = "health" => dataplane' = cfg'.revision
    PROVE  AppliedInv'
<1>1. ~Asks(NoRevision) /\ ~Asks("torn")
      BY NoRevisionAssumption, AgentAssumption DEF AgentInv, HasRevision, Asks
<1>2. ~Asks(memory) /\ ~Asks(file)
      BY DEF AppliedInv, Processing
<1>3. \A r : Asks(r)' = Asks(r)
      BY DEF Asks
<1>4. ~Asks(memory)' /\ ~Asks(file)'
      BY <1>1, <1>2, <1>3
<1>5. nnc.status # "provisioned"
      BY DEF AppliedInv
<1> QED BY <1>3, <1>4, <1>5 DEF AppliedInv, Processing, ProvisionedIsApplied

\* AppliedInv is inductive, given AgentInv, when no revision returns.
LEMMA AppliedStep ==
    ASSUME ~Returns, AgentInv, DeployedInv, AppliedInv, [Next]_vars PROVE AppliedInv'
<1>0. ~Asks(NoRevision) /\ ~Asks("torn")
      BY NoRevisionAssumption, AgentAssumption DEF AgentInv, HasRevision, Asks
<1>1. CASE OperatorWrites
  <2>1. ASSUME NEW r \in Revisions, r \notin deployed,
               nnc' = IF nnc.exists THEN [nnc EXCEPT !.revision = r] ELSE Created(r),
               deployed' = deployed \union {r}
        PROVE  AppliedInv'
    <3>1. /\ nnc'.exists /\ nnc'.revision = r
          /\ nnc'.lastApplied \in {nnc.lastApplied, NoRevision}
          /\ nnc'.status = "provisioned" => nnc.status = "provisioned"
      <4>1. CASE nnc.exists
            BY <2>1, <4>1 DEF AgentInv, TypeOK, Object
      <4>2. CASE ~nnc.exists
            BY <2>1, <4>2, CreatedFields
      <4> QED BY <4>1, <4>2
    <3>2. ~Asks(memory)' /\ ~Asks(file)' /\ nnc'.lastApplied # nnc'.revision
          BY <1>1, <2>1, <3>1, NoRevisionAssumption, AgentAssumption
             DEF OperatorWrites, AppliedInv, Asks, stored
    <3> QED BY <1>1, <2>1, <3>1, <3>2
            DEF OperatorWrites, AppliedInv, ProvisionedIsApplied, stored, node
  <2>2. ASSUME nnc' = Absent, UNCHANGED deployed
        PROVE  AppliedInv'
    <3>1. \A r : ~Asks(r)'
          BY <2>2, AbsentFields DEF Asks
    <3> QED BY <1>1, <2>2, <3>1, AbsentFields
            DEF OperatorWrites, AppliedInv, ProvisionedIsApplied, stored, node
  <2> QED BY <1>1, <2>1, <2>2 DEF OperatorWrites
<1>2. CASE CacheSyncs \/ UNCHANGED vars
      BY <1>2 DEF CacheSyncs, vars, object, work, stored, node, environment,
                  AppliedInv, Asks, ProvisionedIsApplied
<1>3. CASE Fetch
  <2>1. /\ pc' \in {"idle", "fast", "start"}
        /\ UNCHANGED <<nnc, stored, dataplane, deployed>>
        BY <1>3 DEF Fetch, object, node, environment
  <2>2. CASE pc' # "start"
        BY <1>3, <2>1, <2>2, OutsideApplied DEF Fetch, Processing
  <2>3. CASE pc' = "start"
    <3>1. memory' # cfg'.revision
          BY <1>3, <2>3, NoRevisionAssumption DEF Fetch, AgentInv, HasRevision, stored
    <3> QED BY <1>3, <2>1, <2>3, <3>1
            DEF Fetch, AppliedInv, Processing, Asks, ProvisionedIsApplied, stored
  <2> QED BY <2>2, <2>3
<1>4. CASE FastStore \/ StoreProvisioned
  <2>1. /\ memory' = cfg.revision /\ file' \in {cfg.revision, file, "torn"}
        /\ UNCHANGED <<nnc, dataplane, deployed, cfg>>
        /\ pc' \in {"idle", "fastStatus"} /\ pc # "down"
        BY <1>4 DEF FastStore, StoreProvisioned, StoreConfig, object, node
  <2>2. \A r : Asks(r)' = Asks(r)
        BY <2>1 DEF Asks
  <2>3. /\ Asks(cfg.revision) => dataplane = cfg.revision
        /\ Asks(file) => cfg.revision = file
    <3>1. CASE pc = "fast"
          BY <3>1 DEF AgentInv, StepKnows, AppliedInv
    <3>2. CASE pc = "store"
          BY <3>2 DEF AppliedInv, Processing
    <3> QED BY <1>4, <3>1, <3>2 DEF FastStore, StoreProvisioned
  <2>4. cfg.revision \in deployed
    <3>1. CASE pc = "fast"
          BY <3>1, AgentAssumption DEF AgentInv, StepKnows, AppliedInv, TypeOK, Known
    <3>2. CASE pc = "store"
          BY <3>2 DEF AgentInv, StepKnows, DeployedInv, Deployed
    <3> QED BY <1>4, <3>1, <3>2 DEF FastStore, StoreProvisioned
  <2> QED BY <1>0, <2>1, <2>2, <2>3, <2>4 DEF AppliedInv, Processing, ProvisionedIsApplied
<1>5. CASE FastStatus
  <2>1. CASE SetStatus("provisioned", "fastTaints")
    <3>1. cfgCurrent => dataplane = cfg.revision
          BY <1>5 DEF FastStatus, AgentInv, StepKnows, CopiesMatch, AppliedInv, Asks
    <3> QED BY <1>5, <2>1, <3>1, StatusApplied, AgentStatuses
            DEF FastStatus, AgentInv, StepKnows, Processing, node
  <2>2. CASE pc' = "fastTaints" /\ UNCHANGED object
        BY <1>5, <2>2, OutsideApplied DEF FastStatus, object, node, Processing
  <2> QED BY <1>5, <2>1, <2>2 DEF FastStatus
<1>6. CASE FastTaints
      BY <1>6, OutsideApplied DEF FastTaints, object, Processing
<1>7. CASE StartProvisioning
      BY <1>7, StatusApplied, AgentStatuses DEF StartProvisioning, AgentInv, StepKnows,
                                 Processing, AppliedInv, node
<1>8. CASE ApplySucceeds \/ ApplyFails \/ Restore
      BY <1>8, DataplaneApplied DEF ApplySucceeds, ApplyFails, Restore, Processing,
                                    object, stored, environment
<1>9. CASE HealthPasses \/ HealthFails
      BY <1>9 DEF HealthPasses, HealthFails, AppliedInv, Processing, Asks,
                  ProvisionedIsApplied, object, stored
<1>10. CASE FinishProvisioning
  <2>1. dataplane = cfg.revision /\ (cfgCurrent => memory # cfg.revision)
        BY <1>10 DEF FinishProvisioning, AgentInv, StepKnows, CopiesMatch, AppliedInv, Asks,
                     Processing
  <2> QED BY <1>10, <2>1, StatusApplied, AgentStatuses DEF FinishProvisioning, AgentInv, StepKnows,
                                            Processing, node
<1>11. CASE Invalidate
  <2>1. cfgCurrent => memory # cfg.revision
        BY <1>11 DEF Invalidate, AgentInv, StepKnows, CopiesMatch, AppliedInv, Asks, Processing
  <2> QED BY <1>11, <2>1, StatusApplied, AgentStatuses DEF Invalidate, AgentInv, StepKnows,
                                            Processing, node
<1>12. CASE Crash
  <2>1. /\ UNCHANGED <<nnc, deployed>> /\ pc' = "down" /\ memory' = NoRevision
        /\ file' \in {file, NoRevision, "torn"}
        BY <1>12 DEF Crash, object
  <2>2. CASE pc \in {"apply", "restore"}
        BY <2>1, <2>2, DataplaneApplied DEF Processing
  <2>3. CASE pc \notin {"apply", "restore"}
    <3>1. dataplane' = dataplane
          BY <1>12, <2>3 DEF Crash
    <3>2. \A r : Asks(r)' = Asks(r)
          BY <2>1 DEF Asks
    <3> QED BY <1>0, <2>1, <3>1, <3>2 DEF AppliedInv, Processing, ProvisionedIsApplied
  <2> QED BY <2>2, <2>3
<1>13. CASE Restart
      BY <1>13 DEF Restart, AppliedInv, Asks, Processing, ProvisionedIsApplied, node, environment
<1> QED BY <1>1, <1>2, <1>3, <1>4, <1>5, <1>6, <1>7, <1>8, <1>9, <1>10, <1>11, <1>12, <1>13
        DEF Next, AgentStep

\* A node that is reported as provisioned runs the revision it is reported for,
\* as long as the operator does not deploy a revision to it a second time:
\* crashes, failed and half made applies, restored configurations, stale copies
\* and refused updates notwithstanding.
THEOREM AgentProvisionedIsApplied == ~Returns => (Spec => []ProvisionedIsApplied)
<1> SUFFICES ASSUME ~Returns PROVE Spec => []ProvisionedIsApplied
    OBVIOUS
<1>1. Init => AgentInv /\ DeployedInv /\ AppliedInv
      BY InitAgentInv, InitAppliedInv, AbsentFields DEF Init, DeployedInv, Deployed
<1>2. AgentInv /\ DeployedInv /\ AppliedInv /\ [Next]_vars
          => AgentInv' /\ DeployedInv' /\ AppliedInv'
      BY NextAgentInv, DeployedStep, AppliedStep
<1>3. AppliedInv => ProvisionedIsApplied
      BY DEF AppliedInv
<1> QED BY <1>1, <1>2, <1>3, PTL DEF Spec
=============================================================================
