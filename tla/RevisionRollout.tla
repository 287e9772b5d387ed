-------------------------- MODULE RevisionRollout --------------------------
(***************************************************************************)
(* The rollout of the operator: ConfigReconciler turns the configuration   *)
(* of the cluster into NetworkConfigRevisions (config_reconciler.go),      *)
(* ConfigRevisionReconciler moves the NodeNetworkConfigs to the newest     *)
(* valid one, a few nodes at a time (configrevision_reconciler.go).  The   *)
(* node agents answer through the status of the objects, as ConfigStatus   *)
(* has it; the garbage collector of the cluster follows the owners.        *)
(*                                                                         *)
(* One step is one API call, or a series of calls that only this           *)
(* reconciler makes; such a series may stop after any of its calls, for an *)
(* error or a crash.  A revision stands for the hash of its content, which *)
(* is also its name.  Failure messages, and counters that no decision      *)
(* reads, are left out.                                                    *)
(***************************************************************************)
EXTENDS NodeConfigObject, Naturals, FiniteSets

CONSTANTS
    Nodes,
    Threads,       \* goroutines in ConfigReconciler.ReconcileDebounced
    Broken,        \* revisions that fail on some node
    MaxUpdating,   \* --max-updating
    MaxChanges,    \* bound: changes of the configuration
    MaxCreated,    \* bound: revision objects created
    MaxFaults      \* bound: failed calls, crashes, restarts, readiness changes

ASSUME RolloutAssumption ==
    /\ Broken \subseteq Revisions
    /\ IsFiniteSet(Nodes)
    /\ MaxUpdating \in Nat \ {0}
    /\ MaxChanges \in Nat
    /\ MaxCreated \in Nat
    /\ MaxFaults \in Nat

VARIABLES
    config,      \* the revision that the configuration of the cluster hashes to
    revs,        \* the NetworkConfigRevisions: the larger its uid, the newer
    nnc,         \* nnc[n]: the NodeNetworkConfig of node n
    owner,       \* owner[n]: uid of the revision that owns nnc[n], 0 for none
    netplan,     \* netplan[n]: revision of the NodeNetplanConfig of node n
    ready,       \* the nodes with condition Ready
    expired,     \* expired[n]: LastUpdate of nnc[n] is older than the timeout
    thread,      \* thread[t]: where t is, and the revision it prepared
    pc,          \* where ConfigRevisionReconciler is
    seen,        \* the lists that the current pass works on, while it needs them
    deploy,      \* what the current pass is about to deploy
    created,     \* counter behind MaxCreated, and source of uids
    changes, faults,
    started      \* started[n]: the revision that the agent of n last started on

cluster == <<config, changes>>
objects == <<revs, nnc, owner, netplan>>
nodes == <<ready, expired>>
pass == <<pc, seen, deploy>>
vars == <<cluster, objects, nodes, thread, pass, created, faults, started>>

NothingSeen == [revs |-> {}, ready |-> {}, nnc |-> [n \in Nodes |-> Absent],
                owner |-> [n \in Nodes |-> 0], expired |-> {}, isInvalid |-> {}]

\* revisionToDeploy and nodesToDeploy, while there is a slot for a node.
NothingToDeploy == [revision |-> NoRevision, uid |-> 0, nodes |-> {}]

Init ==
    /\ config \in Revisions
    /\ revs = {}
    /\ nnc = [n \in Nodes |-> Absent]
    /\ owner = [n \in Nodes |-> 0]
    /\ netplan = [n \in Nodes |-> NoRevision]
    /\ ready = Nodes
    /\ expired = [n \in Nodes |-> FALSE]
    /\ thread = [t \in Threads |-> [at |-> "idle", revision |-> NoRevision]]
    /\ pc = "idle"
    /\ seen = NothingSeen
    /\ deploy = NothingToDeploy
    /\ created = 0 /\ changes = 0 /\ faults = 0
    /\ started = [n \in Nodes |-> NoRevision]

Fault == faults < MaxFaults /\ faults' = faults + 1

\* The revisions of a list of objects, by name and by uid.
Known(list, r) == \E o \in list : o.revision = r
HasUid(list, u) == \E o \in list : o.uid = u

\* Every list of revisions is sorted, newest first.  A loop over it that stops
\* early has done one of its beginnings.
Newest(list) == CHOOSE o \in list : \A p \in list : p.uid <= o.uid
Beginnings(list) ==
    {done \in SUBSET list : \A o \in done, p \in list \ done : p.uid < o.uid}

-----------------------------------------------------------------------------
\* A user changes the configuration objects.
UserChanges ==
    /\ changes < MaxChanges
    /\ changes' = changes + 1
    /\ config' \in Revisions \ {config}
    /\ UNCHANGED <<objects, nodes, thread, pass, created, faults, started>>

\* fetchConfigData and NewRevision.
FetchConfigData(t) ==
    /\ thread[t].at = "idle"
    /\ thread' = [thread EXCEPT ![t] = [at |-> "list", revision |-> config]]
    /\ UNCHANGED <<cluster, objects, nodes, pass, created, faults, started>>

Valid(list) == {o \in list : ~o.isInvalid}

\* Mutant: the newest revision, valid or not.
FirstKnown(list) == Newest(list)

\* getFirstValidRevision of a list that has a valid one.
FirstValid(list) == Newest(Valid(list))

\* shouldSkip: r is the newest revision, the newest valid one, or invalid.
ShouldSkip(list, r) ==
    \/ list # {} /\ Newest(list).revision = r
    \/ Valid(list) # {} /\ FirstValid(list).revision = r
    \/ \E o \in list : o.revision = r /\ o.isInvalid

Leave(t) == thread' = [thread EXCEPT ![t] = [at |-> "idle", revision |-> NoRevision]]
GoTo(t, at) == thread' = [thread EXCEPT ![t].at = at]

\* listRevisions, and the decision to skip.
ListRevisions(t) ==
    /\ thread[t].at = "list"
    /\ IF ShouldSkip(revs, thread[t].revision) THEN Leave(t) ELSE GoTo(t, "create")
    /\ UNCHANGED <<cluster, objects, nodes, pass, created, faults, started>>

NewRevision(r) == [revision |-> r, uid |-> created + 1, isInvalid |-> FALSE,
                   ready |-> 0, total |-> 0]

\* createRevision: Create, and Delete and Create when the name is taken.
CreateRevision(t) ==
    /\ thread[t].at \in {"create", "recreate"}
    /\ LET r == thread[t].revision
       IN  IF Known(revs, r)
           THEN /\ IF thread[t].at = "create" THEN GoTo(t, "delete") ELSE Leave(t)
                /\ UNCHANGED <<revs, created>>
           ELSE /\ created < MaxCreated
                /\ revs' = revs \union {NewRevision(r)}
                /\ created' = created + 1
                /\ Leave(t)
    /\ UNCHANGED <<cluster, nnc, owner, netplan, nodes, pass, faults, started>>

DeleteRevision(t) ==
    /\ thread[t].at = "delete"
    /\ created < MaxCreated
    /\ revs' = {o \in revs : o.revision # thread[t].revision}
    /\ GoTo(t, "recreate")
    /\ UNCHANGED <<cluster, nnc, owner, netplan, nodes, pass, created, faults, started>>

-----------------------------------------------------------------------------
\* A pass of ConfigRevisionReconciler.reconcileDebounced.

EndPass == pc' = "idle" /\ seen' = NothingSeen /\ deploy' = NothingToDeploy

\* listRevisions, listNodes (Ready ones only) and listConfigs: all from the
\* informer cache, which holds the effects of earlier passes.
PassLists ==
    /\ pc = "idle"
    /\ pc' = "process"
    /\ seen' = [revs |-> revs, ready |-> ready, nnc |-> nnc, owner |-> owner,
                expired |-> {n \in Nodes : expired[n]}, isInvalid |-> {}]
    /\ UNCHANGED <<cluster, objects, nodes, thread, deploy, created, faults, started>>

\* removeRedundantConfigs: an object that lost an owner is to be deleted.
Redundant == {n \in Nodes : seen.nnc[n].exists /\ seen.owner[n] = 0}

\* getRevisionCounters, over the objects that are left.
ConfigsOf(o) ==
    {n \in Nodes \ Redundant : seen.nnc[n].exists /\ seen.nnc[n].revision = o.revision}
ReadyOf(o) == {n \in ConfigsOf(o) : seen.nnc[n].status = "provisioned"}
OngoingOf(o) == {n \in ConfigsOf(o) : seen.nnc[n].status \in {"", "provisioning"}}

InvalidOf(o) ==
    {n \in ConfigsOf(o) : seen.nnc[n].status = "invalid" \/ n \in seen.expired}

\* The statuses with the marks that this pass made.
Marked(list, us) ==
    {[o EXCEPT !.isInvalid = @ \/ o.uid \in us] : o \in list}

\* Why a series of writes of revisions stopped before o: the object is gone, or
\* the call failed.
StoppedAt(o) == IF HasUid(revs, o.uid) THEN Fault ELSE UNCHANGED faults

Delete(gone) ==
    /\ nnc' = [n \in Nodes |-> IF n \in gone THEN Absent ELSE nnc[n]]
    /\ owner' = [n \in Nodes |-> IF n \in gone THEN 0 ELSE owner[n]]
    /\ expired' = [n \in Nodes |-> n \notin gone /\ expired[n]]

\* removeRedundantConfigs stops at an error.
RemovalFails ==
    /\ pc = "process"
    /\ Fault
    /\ seen.revs # {}
    /\ \E gone \in SUBSET Redundant : gone # Redundant /\ Delete(gone)
    /\ EndPass
    /\ UNCHANGED <<cluster, revs, netplan, ready, thread, created, started>>

\* processConfigsForRevision for the first revisions: one that is valid so far
\* and has an invalid object is marked.  One that is invalid already may be
\* written again, for the name of another failed node.
PassProcesses ==
    /\ pc = "process"
    /\ Delete(IF seen.revs # {} THEN Redundant ELSE {})
    /\ \E done \in Beginnings(seen.revs) :
        LET Fails(o) == InvalidOf(o) # {}
            invalid == {o.uid : o \in {p \in Valid(done) : Fails(p)}}
            next == Newest(seen.revs \ done)
        IN  /\ \A u \in invalid : HasUid(revs, u)
            /\ revs' = Marked(revs, invalid)
            /\ \/ /\ done = seen.revs
                  /\ pc' = "counters"
                  /\ seen' = [seen EXCEPT !.isInvalid = invalid]
                  /\ UNCHANGED <<deploy, faults>>
               \/ /\ done # seen.revs
                  /\ \/ Fails(next) /\ StoppedAt(next)
                     \/ done # {} /\ Redundant # {} /\ Fault
                  /\ EndPass
    /\ UNCHANGED <<cluster, netplan, ready, thread, created, started>>

\* The list as the pass sees it after its marks, and the revision to deploy.
Current == Marked(seen.revs, seen.isInvalid)
Target == FirstValid(Current)

\* Mutant: a node that has an object counts as up to date.
OutdatedMissing == {n \in seen.ready : ~seen.nnc[n].exists}

\* getOutdatedNodes: the redundant objects still count here.
Outdated ==
    {n \in seen.ready : ~(seen.nnc[n].exists /\ seen.nnc[n].revision = Target.revision)}

\* The nodes to choose from: none when enough of them are at work.
Slots == IF Cardinality(OngoingOf(Target)) < MaxUpdating THEN Outdated ELSE {}

\* What updateRevisionCounters writes: the whole status, as the pass has it.
Counted(o) ==
    [o EXCEPT !.isInvalid = \E c \in Current : c.uid = o.uid /\ c.isInvalid,
              !.ready = Cardinality(ReadyOf(o)),
              !.total = Cardinality(seen.ready)]

\* updateRevisionCounters for the first revisions, and the end of the pass when
\* no revision is valid.
PassCounts ==
    /\ pc = "counters"
    /\ \E done \in Beginnings(seen.revs) :
        /\ \A o \in done : HasUid(revs, o.uid)
        /\ revs' = {IF HasUid(done, o.uid) THEN Counted(o) ELSE o : o \in revs}
        /\ \/ done # seen.revs /\ StoppedAt(Newest(seen.revs \ done)) /\ EndPass
           \/ done = seen.revs /\ Valid(Current) = {} /\ EndPass /\ UNCHANGED faults
           \/ /\ done = seen.revs /\ Valid(Current) # {}
              /\ pc' = "deploy"
              /\ deploy' = [revision |-> Target.revision, uid |-> Target.uid,
                            nodes |-> Slots]
              /\ seen' = [NothingSeen EXCEPT !.revs = seen.revs, !.nnc = seen.nnc]
              /\ UNCHANGED faults
    /\ UNCHANGED <<cluster, nnc, owner, netplan, nodes, thread, created, started>>

ToCleanup == pc' = "cleanup" /\ deploy' = NothingToDeploy /\ UNCHANGED seen

\* Mutant: the update clears the status.
DeployClearsStatus(n, o) ==
    /\ nnc' = [nnc EXCEPT ![n] = Created(o.revision)]
    /\ owner' = [owner EXCEPT ![n] = o.uid]

\* deployNodeNetworkConfig writes spec and owners and leaves the status alone.
DeployNodeNetworkConfig(n, o) ==
    /\ nnc' = [nnc EXCEPT ![n] = IF @.exists THEN [@ EXCEPT !.revision = o.revision]
                                             ELSE Created(o.revision)]
    /\ owner' = [owner EXCEPT ![n] = o.uid]

\* deployNodeConfig: the NodeNetworkConfig, then the NodeNetplanConfig.
DeployNodeConfig(n, o) ==
    \/ /\ nnc[n].exists /\ nnc[n].revision = o.revision
       /\ ToCleanup
       /\ UNCHANGED <<nnc, owner, netplan, faults>>
    \/ /\ ~(nnc[n].exists /\ nnc[n].revision = o.revision)
       /\ \/ \* both written
             /\ DeployNodeNetworkConfig(n, o)
             /\ netplan' = [netplan EXCEPT ![n] = o.revision]
             /\ ToCleanup
             /\ UNCHANGED faults
          \/ \* an error at the first object, or written and lost its answer
             /\ Fault
             /\ DeployNodeNetworkConfig(n, o) \/ UNCHANGED <<nnc, owner>>
             /\ UNCHANGED netplan
             /\ EndPass
          \/ \* every retry hit its deadline: the loop ends without an error
             /\ Fault
             /\ netplan' = [netplan EXCEPT ![n] = o.revision]
             /\ ToCleanup
             /\ UNCHANGED <<nnc, owner>>

\* One outdated node per pass, whichever a Go map yields first.
PassDeploys ==
    /\ pc = "deploy"
    /\ \/ deploy.nodes = {} /\ ToCleanup /\ UNCHANGED <<nnc, owner, netplan, faults>>
       \/ \E n \in deploy.nodes : DeployNodeConfig(n, deploy)
    /\ UNCHANGED <<cluster, revs, nodes, thread, created, started>>

\* Mutant: nobody counts the references.
ObsoleteUncounted(list, configs) ==
    {o \in list :
        /\ o # Newest(list)
        /\ ~Newest(list).isInvalid
        /\ Newest(list).ready = Newest(list).total}

\* revisionCleanup, over the lists that it reads: the revisions it deletes.
Obsolete(list, configs) ==
    {o \in list :
        /\ o # Newest(list)
        /\ ~Newest(list).isInvalid
        /\ Newest(list).ready = Newest(list).total
        /\ \A n \in Nodes : ~(configs[n].exists /\ configs[n].revision = o.revision)}

\* It lists again, but the cache need not have caught up with this pass, and it
\* deletes by name: a revision that was recreated since goes as well.
PassCleansUp ==
    /\ pc = "cleanup"
    /\ \E list \in {revs, seen.revs}, configs \in {nnc, seen.nnc} :
        LET obsolete == Obsolete(list, configs)
        IN  \E done \in Beginnings(list) :
              LET deleted == obsolete \intersect done
                  next == Newest(list \ done)
              IN  /\ \A o \in deleted : Known(revs, o.revision)
                  /\ revs' = {o \in revs : ~Known(deleted, o.revision)}
                  /\ \/ done = list /\ UNCHANGED faults
                     \/ /\ done # list /\ next \in obsolete
                        /\ IF Known(revs, next.revision) THEN Fault ELSE UNCHANGED faults
    /\ EndPass
    /\ UNCHANGED <<cluster, nnc, owner, netplan, nodes, thread, created, started>>

\* The process dies or loses the lease, or a list call fails; for the pass
\* and for a thread of ConfigReconciler.
OperatorFails ==
    /\ Fault
    /\ \/ pc # "idle" /\ EndPass /\ UNCHANGED thread
       \/ \E t \in Threads : thread[t].at # "idle" /\ Leave(t) /\ UNCHANGED pass
    /\ UNCHANGED <<cluster, objects, nodes, created, started>>

-----------------------------------------------------------------------------
\* The cluster around the operator.

\* The garbage collector takes the reference to a deleted revision away.
CollectGarbage(n) ==
    /\ owner[n] # 0 /\ ~HasUid(revs, owner[n])
    /\ owner' = [owner EXCEPT ![n] = 0]
    /\ UNCHANGED <<cluster, revs, nnc, netplan, nodes, thread, pass, created, faults, started>>

ReadinessChanges(n) ==
    /\ Fault
    /\ ready' = IF n \in ready THEN ready \ {n} ELSE ready \union {n}
    /\ UNCHANGED <<cluster, objects, expired, thread, pass, created, started>>

\* LastUpdate of the object of n gets older than the timeout.  A status that was
\* never written has no LastUpdate, and wasConfigTimeoutReached denies it.
TimePasses(n) ==
    /\ nnc[n].status = "provisioning" /\ ~expired[n]
    /\ expired' = [expired EXCEPT ![n] = TRUE]
    /\ UNCHANGED <<cluster, objects, ready, thread, pass, created, faults, started>>

\* A status update of the agent of n, which renews LastUpdate.
Report(n, s) ==
    /\ nnc' = [nnc EXCEPT ![n] = WithStatus(@, s)]
    /\ expired' = [expired EXCEPT ![n] = FALSE]
    /\ UNCHANGED <<cluster, revs, owner, netplan, ready, thread, pass, created>>

AgentStarts(n) ==
    /\ nnc[n].exists /\ ~Reported(nnc[n])
    /\ ~(nnc[n].status = "provisioning" /\ started[n] = nnc[n].revision)
    /\ Report(n, "provisioning")
    /\ started' = [started EXCEPT ![n] = nnc[n].revision]
    /\ UNCHANGED faults

\* After its work, or at once for the revision that the agent runs already.
AgentProvisions(n) ==
    /\ nnc[n].exists /\ ~Reported(nnc[n])
    /\ Report(n, "provisioned")
    /\ UNCHANGED <<faults, started>>

AgentInvalidates(n) ==
    /\ nnc[n].exists /\ nnc[n].status = "provisioning"
    /\ started[n] = nnc[n].revision /\ nnc[n].revision \in Broken
    /\ Report(n, "invalid")
    /\ UNCHANGED <<faults, started>>

\* An agent that lost its memory provisions again.
AgentRestarts(n) ==
    /\ Fault
    /\ nnc[n].exists /\ nnc[n].status = "provisioned" /\ Reported(nnc[n])
    /\ Report(n, "provisioning")
    /\ started' = [started EXCEPT ![n] = nnc[n].revision]

-----------------------------------------------------------------------------
ConfigReconciler ==
    \E t \in Threads : \/ FetchConfigData(t) \/ ListRevisions(t)
                      \/ CreateRevision(t) \/ DeleteRevision(t)

Pass == \/ PassLists \/ PassProcesses \/ RemovalFails
        \/ PassCounts \/ PassDeploys \/ PassCleansUp

Agent(n) == \/ AgentStarts(n) \/ AgentProvisions(n)
            \/ AgentInvalidates(n) \/ AgentRestarts(n)

Next ==
    \/ UserChanges \/ ConfigReconciler \/ Pass \/ OperatorFails
    \/ \E n \in Nodes : \/ Agent(n) \/ CollectGarbage(n)
                       \/ ReadinessChanges(n) \/ TimePasses(n)

Spec == Init /\ [][Next]_vars

\* The operator keeps running passes (its controllers requeue periodically)
\* and the cluster collects garbage.
OperatorFairness ==
    /\ WF_vars(Pass)
    /\ \A t \in Threads : WF_vars(\/ FetchConfigData(t) \/ ListRevisions(t)
                                  \/ CreateRevision(t) \/ DeleteRevision(t))
    /\ \A n \in Nodes : WF_vars(CollectGarbage(n))

\* Every agent finishes what it starts.
FairSpec ==
    /\ Spec /\ OperatorFairness
    /\ \A n \in Nodes : WF_vars(AgentProvisions(n) \/ AgentInvalidates(n))

-----------------------------------------------------------------------------
OnRevision(n, r) == nnc[n].exists /\ nnc[n].revision = r

\* What a node's object goes through, seen from that node alone.
Contract(n) == INSTANCE ConfigStatus WITH nnc <- nnc[n]

\* Every object keeps the contract that the agents are built on, whatever
\* passes, recreated revisions, garbage collection and faults do to it.
NodesKeepContract ==
    /\ \A n \in Nodes : Contract(n)!ContractInit
    /\ [][\A n \in Nodes : nnc'[n] # nnc[n] => Contract(n)!ContractNext]_nnc

\* reconcileDebounced never moves a node to a revision whose object is marked
\* invalid, although it works on a list that it read several calls earlier.
NoMoveToInvalid ==
    [][\A n \in Nodes, o \in revs :
          o.isInvalid /\ nnc'[n].exists /\ nnc'[n].revision = o.revision
          => OnRevision(n, o.revision)]_vars

\* The revision of the object of n goes away in this step.
LosesRevision(n) ==
    nnc[n].exists /\ Known(revs, nnc[n].revision) /\ ~Known(revs', nnc[n].revision)

\* revisionCleanup, which reads its lists from a cache that may lag behind what
\* the same pass wrote, takes the revision from no object that the pass found
\* with it, and so from one object at most: the one that the pass deployed.
CleanupKeepsReferenced ==
    [][PassCleansUp => \A m, n \in Nodes :
          LosesRevision(m) =>
            /\ ~(seen.nnc[m].exists /\ seen.nnc[m].revision = nnc[m].revision)
            /\ LosesRevision(n) => m = n]_vars

\* The rollout ends: from some point on, the newest valid revision is what
\* every Ready node has provisioned, or no revision is valid.
RolloutConverges ==
    <>[](Valid(revs) # {} =>
           \A n \in ready : /\ OnRevision(n, FirstValid(revs).revision)
                            /\ nnc[n].status = "provisioned")

\* "IsInvalid determines if NetworkConfigRevision results in misconfigured
\* nodes": when a revision is marked, some node reported it, or had started on
\* it and took too long.
InvalidIsDeserved ==
    [][PassProcesses => \A o \in Valid(revs) :
          ~HasUid(Valid(revs'), o.uid)
          => \E n \in InvalidOf(o) :
                \/ Reported(seen.nnc[n])
                \/ seen.nnc[n].status = "provisioning" /\ started[n] = o.revision]_vars

\* "Configures how many nodes can be updated simultaneously when rolling update
\* is performed": of one revision, no more objects than that wait for an agent.
UpdatingIsBounded ==
    \A r \in Revisions :
        Cardinality({n \in Nodes : OnRevision(n, r) /\ ~Reported(nnc[n])}) <= MaxUpdating

\* "generating the NodeNetworkConfig and NodeNetplanConfig resources for each
\* node": both of them end up at the same revision.
NetplanFollows ==
    <>[](\A n \in ready : nnc[n].exists => netplan[n] = nnc[n].revision)
=============================================================================
