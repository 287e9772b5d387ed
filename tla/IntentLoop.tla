----------------------------- MODULE IntentLoop -----------------------------
(***************************************************************************)
(* The pass of the intent reconciler over the nodes                        *)
(* (pkg/reconciler/intent/reconciler.go): it fetches intents and nodes,    *)
(* removes the configs of nodes that are gone, builds every node's         *)
(* configuration and writes its NodeNetworkConfig (NNC) and                *)
(* NodeNetplanConfig, while nodes come and go, users change the intents,   *)
(* node agents provision and the garbage collector follows owner           *)
(* references.  What the builders compute is abstracted to the version of  *)
(* the intents they computed it from (module IntentL2 has the rest).      *)
(***************************************************************************)
EXTENDS Naturals, FiniteSets

CONSTANTS
  Nodes,        \* node names
  Legacy,       \* nodes that start with an NNC of the revision controller
  Unbuildable,  \* versions of the intents for which a builder fails
  Unnameable,   \* <<version, node>>: VRF name reduction fails for the node
  MaxVersion, MaxChurn,   \* bounds
  QuickRejoin   \* may a node come back under its name before its old
                \* configs are collected, or during a pass that read the old node?

VARIABLES
  version,   \* version of the intents in the API server
  uid,       \* node -> uid of its Node object, 0 when there is none
  nnc,       \* node -> NoNNC or [cfg, managed, owners, status, rv]
  npc,       \* node -> NoNPC or [cfg, owners]
  handled,   \* node -> configuration its agent last started on
  dirty,     \* a watch event has called the debouncer since the last pass
  pass, churn

vars == <<version, uid, nnc, npc, handled, dirty, pass, churn>>

NoNNC == [cfg |-> 0, managed |-> FALSE, owners |-> {}, status |-> "", rv |-> 0]
NoNPC == [cfg |-> 0, owners |-> {}]
Idle == [at |-> "idle", version |-> 0, uid |-> {}, todo |-> {}, node |-> {},
         attempt |-> 1, read |-> 0]
Live == {n \in Nodes : uid[n] # 0}
RevisionUID == MaxChurn + 3   \* of the NetworkConfigRevision
maxRetries == 5

Init ==
  /\ version = 1
  /\ uid = [n \in Nodes |-> IF n \in Legacy THEN 1 ELSE 0]
  /\ nnc = [n \in Nodes |->
              IF n \in Legacy
              THEN [NoNNC EXCEPT !.owners = {1, RevisionUID}, !.rv = 1]
              ELSE NoNNC]
  /\ npc = [n \in Nodes |-> NoNPC]
  /\ handled = [n \in Nodes |-> 0]
  /\ dirty = TRUE
  /\ pass = Idle
  /\ churn = 0

\* fetchAll: a consistent enough snapshot of intents and nodes.
Fetch ==
  /\ pass = Idle /\ dirty
  /\ dirty' = FALSE
  /\ pass' = [Idle EXCEPT !.at = "cleanup", !.version = version, !.uid = uid,
                          !.todo = Nodes \ Live]
  /\ UNCHANGED <<version, uid, handled, nnc, npc, churn>>

\* fetchAll fails: the debouncer keeps the call for another attempt.
FetchFails ==
  /\ pass = Idle /\ dirty /\ churn < MaxChurn
  /\ churn' = churn + 1
  /\ UNCHANGED <<version, uid, handled, nnc, npc, dirty, pass>>

\* Mutant: the label is not looked at.
CleanupUnmanaged(n) ==
  /\ pass.at = "cleanup" /\ n \in pass.todo
  /\ nnc' = [nnc EXCEPT ![n] = NoNNC] /\ npc' = [npc EXCEPT ![n] = NoNPC]
  /\ pass' = [pass EXCEPT !.todo = @ \ {n}]
  /\ UNCHANGED <<version, uid, handled, dirty, churn>>

\* cleanupOrphanedNNCs, cleanupOrphanedNetplanConfigs: by name and label.
CleanupOrphans(n) ==
  /\ pass.at = "cleanup" /\ n \in pass.todo
  /\ nnc' = [nnc EXCEPT ![n] = IF @.managed THEN NoNNC ELSE @]
  /\ npc' = [npc EXCEPT ![n] = NoNPC]
  /\ pass' = [pass EXCEPT !.todo = @ \ {n}]
  /\ UNCHANGED <<version, uid, handled, dirty, churn>>

\* The builders; a failure keeps the last good configuration of every node.
Build ==
  /\ pass.at = "cleanup" /\ pass.todo = {}
  /\ pass' = IF pass.version \in Unbuildable THEN Idle
             ELSE [pass EXCEPT !.at = "apply", !.todo = {n \in Nodes : pass.uid[n] # 0}]
  /\ UNCHANGED <<version, uid, handled, nnc, npc, dirty, churn>>

\* applyNodeConfigs, one node: names too long to reduce skip the node.
StartNode(n) ==
  /\ pass.at = "apply" /\ n \in pass.todo
  /\ pass' = IF <<pass.version, n>> \in Unnameable
             THEN [pass EXCEPT !.todo = @ \ {n}]
             ELSE [pass EXCEPT !.at = "get", !.node = n]
  /\ UNCHANGED <<version, uid, handled, nnc, npc, dirty, churn>>

Continue(p) ==
  [Idle EXCEPT !.at = "apply", !.version = p.version, !.uid = p.uid,
               !.todo = p.todo \ {p.node}]

\* Mutant: an NNC that its agent is provisioning is written.
GetNNCAnyway ==
  /\ pass.at = "get"
  /\ LET e == nnc[pass.node]
     IN  pass' = IF e.managed /\ e.cfg = pass.version
                 THEN [pass EXCEPT !.at = "netplan"]
                 ELSE [pass EXCEPT !.at = "write", !.read = e.rv]
  /\ UNCHANGED <<version, uid, handled, nnc, npc, dirty, churn>>

\* tryApplyNNC up to the write: unchanged and provisioning NNCs are left.
GetNNC ==
  /\ pass.at = "get"
  /\ LET e == nnc[pass.node]
     IN  pass' = IF \/ e # NoNNC /\ e.managed /\ e.cfg = pass.version
                    \/ e.status = "provisioning"
                 THEN [pass EXCEPT !.at = "netplan"]
                 ELSE [pass EXCEPT !.at = "write", !.read = e.rv]
  /\ UNCHANGED <<version, uid, handled, nnc, npc, dirty, churn>>

\* tryApplyNNC's Update (stripLegacyOwnerRefs leaves the Node) or Create.
Written(e) ==
  [cfg |-> pass.version, managed |-> TRUE, owners |-> {pass.uid[pass.node]},
   status |-> e.status, rv |-> e.rv + 1]

WriteNNC ==
  /\ pass.at = "write"
  /\ LET n == pass.node
     IN  IF nnc[n].rv = pass.read
         THEN /\ nnc' = [nnc EXCEPT ![n] = Written(@)]
              /\ pass' = [pass EXCEPT !.at = "netplan"]
         ELSE \* a conflict is retried; NotFound and AlreadyExists are not
              /\ pass' = IF nnc[n].rv # 0 /\ pass.read # 0 /\ pass.attempt < maxRetries
                         THEN [pass EXCEPT !.at = "get", !.attempt = @ + 1]
                         ELSE Continue(pass)
              /\ UNCHANGED nnc
  /\ UNCHANGED <<version, uid, handled, npc, dirty, churn>>

\* applyNetplanConfig: an update keeps the owners, a creation sets the Node.
ApplyNetplan ==
  /\ pass.at = "netplan"
  /\ npc' = [npc EXCEPT ![pass.node] =
               IF @ = NoNPC THEN [cfg |-> pass.version, owners |-> {pass.uid[pass.node]}]
               ELSE [@ EXCEPT !.cfg = pass.version]]
  /\ pass' = Continue(pass)
  /\ UNCHANGED <<version, uid, handled, nnc, dirty, churn>>

FinishPass ==
  /\ pass.at = "apply" /\ pass.todo = {}
  /\ pass' = Idle
  /\ UNCHANGED <<version, uid, handled, nnc, npc, dirty, churn>>

-----------------------------------------------------------------------------
\* intentCRDPredicate: a change of an intent's spec is an event.
ChangeIntents ==
  /\ version < MaxVersion
  /\ version' = version + 1 /\ dirty' = TRUE
  /\ UNCHANGED <<uid, handled, nnc, npc, pass, churn>>

\* nodePredicate: so is a node that comes or goes.
NodeJoins(n) ==
  /\ uid[n] = 0 /\ churn < MaxChurn
  /\ QuickRejoin \/ (pass = Idle /\ nnc[n] = NoNNC /\ npc[n] = NoNPC)
  /\ uid' = [uid EXCEPT ![n] = churn + 2]
  /\ dirty' = TRUE /\ churn' = churn + 1
  /\ UNCHANGED <<version, handled, nnc, npc, pass>>

NodeLeaves(n) ==
  /\ uid[n] # 0 /\ churn < MaxChurn
  /\ uid' = [uid EXCEPT ![n] = 0]
  /\ dirty' = TRUE /\ churn' = churn + 1
  /\ UNCHANGED <<version, handled, nnc, npc, pass>>

\* The garbage collector: every owner of the object is gone.
CollectGarbage(n) ==
  /\ \/ /\ nnc[n].owners # {} /\ nnc[n].owners \cap {uid[n], RevisionUID} = {}
        /\ nnc' = [nnc EXCEPT ![n] = NoNNC] /\ UNCHANGED npc
     \/ /\ npc[n].owners # {} /\ uid[n] \notin npc[n].owners
        /\ npc' = [npc EXCEPT ![n] = NoNPC] /\ UNCHANGED nnc
  /\ UNCHANGED <<version, uid, handled, dirty, pass, churn>>

\* SetStatus of the agent.
Reported(e, status) == [e EXCEPT !.status = status, !.rv = @ + 1]

\* The node agent starts on a configuration it has not handled and ends;
\* nncStatusPredicate passes on that the status leaves "provisioning".
AgentStarts(n) ==
  /\ nnc[n] # NoNNC /\ uid[n] # 0
  /\ nnc[n].status = "" \/ handled[n] # nnc[n].cfg
  /\ nnc[n].status # "provisioning"
  /\ nnc' = [nnc EXCEPT ![n] = Reported(@, "provisioning")]
  /\ handled' = [handled EXCEPT ![n] = nnc[n].cfg]
  /\ UNCHANGED <<version, uid, npc, dirty, pass, churn>>

\* Mutant: the end of provisioning raises no event.
AgentEndsUnseen(n) ==
  /\ nnc[n].status = "provisioning"
  /\ \E s \in {"provisioned", "failed"} :
       nnc' = [nnc EXCEPT ![n] = Reported(@, s)]
  /\ UNCHANGED <<version, uid, handled, npc, pass, churn, dirty>>

AgentEnds(n) ==
  /\ nnc[n].status = "provisioning"
  /\ \E s \in {"provisioned", "failed"} :
       nnc' = [nnc EXCEPT ![n] = Reported(@, s)]
  /\ dirty' = TRUE
  /\ UNCHANGED <<version, uid, handled, npc, pass, churn>>

Next ==
  \/ Fetch \/ FetchFails \/ Build \/ GetNNC \/ WriteNNC \/ ApplyNetplan
  \/ FinishPass \/ ChangeIntents
  \/ \E n \in Nodes : \/ CleanupOrphans(n) \/ StartNode(n) \/ NodeJoins(n)
                      \/ NodeLeaves(n) \/ CollectGarbage(n) \/ AgentStarts(n)
                      \/ AgentEnds(n)

\* The debouncer runs a requested pass and a pass runs to its end; an agent
\* ends what it started, and garbage is collected in the end.
Fairness ==
  /\ WF_vars(Fetch) /\ WF_vars(Build) /\ WF_vars(GetNNC) /\ WF_vars(WriteNNC)
  /\ WF_vars(ApplyNetplan) /\ WF_vars(FinishPass)
  /\ \A n \in Nodes : /\ WF_vars(CleanupOrphans(n)) /\ WF_vars(StartNode(n))
                      /\ WF_vars(AgentEnds(n)) /\ WF_vars(CollectGarbage(n))

Spec == Init /\ [][Next]_vars /\ Fairness

-----------------------------------------------------------------------------
\* The rolling update gate: no pass changes the configuration of an NNC its
\* agent is provisioning, however the agent's status write interleaves with
\* the reconciler's read and write.
ProvisioningUntouched ==
  [][\A n \in Nodes :
       nnc[n].status = "provisioning" /\ nnc'[n] # NoNNC => nnc'[n].cfg = nnc[n].cfg]_vars

\* A NodeNetworkConfig that the revision controller still owns stays, whatever
\* becomes of its node: the orphan cleanup passes it over, and the garbage
\* collector waits for its last owner.
LegacyKept ==
  [][\A n \in Nodes : RevisionUID \in nnc[n].owners => nnc'[n] # NoNNC]_vars

\* Once intents and nodes stop changing, every live node ends up with the
\* NNC and the netplan configuration of the last intents that can be built
\* for it: nothing skipped during provisioning, lost to a conflict or asked
\* for during a pass stays undone.
Reached(n) ==
  uid[n] # 0 /\ version \notin Unbuildable /\ <<version, n>> \notin Unnameable
    => nnc[n].cfg = version /\ npc[n].cfg = version

NodesConverge == \A n \in Nodes : <>[]Reached(n)
=============================================================================
