-------------------------- MODULE IntentLoopProofs --------------------------
(***************************************************************************)
(* Proofs about IntentLoop, for any nodes and intents, any mixture of      *)
(* legacy objects, any number of nodes that come and go and any            *)
(* interleaving of passes, agents and garbage collector, quick rejoins     *)
(* included.                                                               *)
(***************************************************************************)
EXTENDS IntentLoop, InUse, TLAPS

Statuses == {"", "provisioning", "provisioned", "failed"}
UIDs == 0 .. MaxChurn + 1
NNCs == [cfg : Nat, managed : BOOLEAN, owners : SUBSET Nat, status : Statuses, rv : Nat]
Passes == [at : {"cleanup", "apply", "get", "write", "netplan"}, version : Nat,
           uid : [Nodes -> UIDs], todo : SUBSET Nodes, node : Nodes \cup {{}},
           attempt : Nat, read : Nat]

LoopTypes ==
  /\ version \in Nat /\ churn \in 0 .. MaxChurn
  /\ uid \in [Nodes -> UIDs]
  /\ nnc \in [Nodes -> NNCs]
  /\ pass = Idle \/ pass \in Passes
  /\ pass.at \in {"get", "write", "netplan"} => pass.node \in Nodes

\* What is left of the gate when the write comes: the object is gone, has
\* changed since it was read, or is still not being provisioned.
Gate(e, read) ==
  \/ e = NoNNC
  \/ e.rv > read
  \/ e.rv = read /\ e.status # "provisioning"

GateHolds == pass.at = "write" => Gate(nnc[pass.node], pass.read)

\* The label and the owner reference of the revision controller exclude each other.
LabelMeansIntent == \A n \in Nodes : nnc[n].managed => RevisionUID \notin nnc[n].owners

LoopInv == LoopTypes /\ GateHolds /\ LabelMeansIntent

-----------------------------------------------------------------------------
\* The absent object is a value of nnc.
LEMMA NoNNCType == NoNNC \in NNCs
  BY DEF NoNNC, NNCs, Statuses

\* Each step of the pass leaves a pass.
LEMMA PassUpdates ==
  ASSUME NEW p \in Passes
  PROVE  /\ p.at # "idle" /\ p # Idle
         /\ \A n \in Nodes : [p EXCEPT !.todo = @ \ {n}] \in Passes
         /\ \A n \in Nodes : [p EXCEPT !.at = "get", !.node = n] \in Passes
         /\ [p EXCEPT !.at = "netplan"] \in Passes
         /\ \A r \in Nat : [p EXCEPT !.at = "write", !.read = r] \in Passes
         /\ [p EXCEPT !.at = "get", !.attempt = @ + 1] \in Passes
         /\ \A S \in SUBSET Nodes : [p EXCEPT !.at = "apply", !.todo = S] \in Passes
         /\ Continue(p) \in Passes /\ Continue(p).at = "apply"
<1>1. p.at # "idle" /\ p # Idle
  BY DEF Passes, Idle
<1>2. Continue(p) \in Passes /\ Continue(p).at = "apply"
  BY DEF Passes, Continue, Idle
<1>3. \A n \in Nodes : [p EXCEPT !.todo = @ \ {n}] \in Passes
  BY DEF Passes
<1>4. \A n \in Nodes : [p EXCEPT !.at = "get", !.node = n] \in Passes
  BY DEF Passes
<1>5. [p EXCEPT !.at = "netplan"] \in Passes
  BY DEF Passes
<1>6. \A r \in Nat : [p EXCEPT !.at = "write", !.read = r] \in Passes
  BY DEF Passes
<1>7. [p EXCEPT !.at = "get", !.attempt = @ + 1] \in Passes
  <2>1. \A k \in Nat : [p EXCEPT !.at = "get", !.attempt = k] \in Passes
    BY DEF Passes
  <2>2. p.attempt + 1 \in Nat
    BY DEF Passes
  <2> QED
    BY <2>1, <2>2
<1>8. \A S \in SUBSET Nodes : [p EXCEPT !.at = "apply", !.todo = S] \in Passes
  BY DEF Passes
<1> QED
  BY <1>1, <1>2, <1>3, <1>4, <1>5, <1>6, <1>7, <1>8

\* The pass that fetchAll starts.
LEMMA FetchedPass ==
  ASSUME NEW v \in Nat, NEW u \in [Nodes -> UIDs], NEW S \in SUBSET Nodes
  PROVE  [Idle EXCEPT !.at = "cleanup", !.version = v, !.uid = u, !.todo = S] \in Passes
  BY DEF Passes, Idle

\* The agent's status update touches the status and the resource version only.
LEMMA AgentUpdates ==
  ASSUME NEW e \in NNCs, NEW s \in Statuses
  PROVE  /\ Reported(e, s) \in NNCs
         /\ Reported(e, s).cfg = e.cfg /\ Reported(e, s).owners = e.owners
         /\ Reported(e, s).status = s /\ Reported(e, s).rv = e.rv + 1
         /\ Reported(e, s).managed = e.managed
<1>1. \A k \in Nat : [e EXCEPT !.status = s, !.rv = k] \in NNCs
  BY DEF NNCs
<1>2. e.rv + 1 \in Nat
  BY DEF NNCs
<1>3. Reported(e, s) \in NNCs
  BY <1>1, <1>2 DEF Reported
<1>4. Reported(e, s).cfg = e.cfg /\ Reported(e, s).owners = e.owners
  BY DEF Reported, NNCs
<1>5. Reported(e, s).status = s /\ Reported(e, s).rv = e.rv + 1
  BY DEF Reported, NNCs
<1>6. Reported(e, s).managed = e.managed
  BY DEF Reported, NNCs
<1> QED
  BY <1>3, <1>4, <1>5, <1>6

\* What tryApplyNNC writes carries the label and only the Node as its owner.
LEMMA WrittenType ==
  ASSUME MaxChurn \in Nat, pass \in Passes, pass.node \in Nodes, NEW e \in NNCs
  PROVE  /\ Written(e) \in NNCs
         /\ Written(e).managed = TRUE /\ RevisionUID \notin Written(e).owners
         /\ Written(e) # NoNNC
<1>1. pass.version \in Nat /\ pass.uid[pass.node] \in UIDs
  BY DEF Passes
<1>2. pass.uid[pass.node] \in Nat /\ pass.uid[pass.node] # RevisionUID
  BY <1>1 DEF UIDs, RevisionUID
<1>3. e.rv + 1 \in Nat /\ e.status \in Statuses
  BY DEF NNCs
<1>4. Written(e) \in NNCs
  BY <1>1, <1>2, <1>3 DEF Written, NNCs
<1>5. Written(e).managed = TRUE /\ RevisionUID \notin Written(e).owners
  BY <1>2 DEF Written
<1>6. Written(e) # NoNNC
  <2>1. NoNNC.managed = FALSE
    BY DEF NoNNC
  <2> QED
    BY <1>5, <2>1
<1> QED
  BY <1>4, <1>5, <1>6

-----------------------------------------------------------------------------
\* The invariant holds when the operator starts.
LEMMA LoopInit == ASSUME MaxChurn \in Nat, Init PROVE LoopInv
<1>1. \A n \in Nodes : /\ nnc[n] \in NNCs
                       /\ nnc[n].managed = FALSE
  <2>1. RevisionUID \in Nat
    BY DEF RevisionUID
  <2>2. [NoNNC EXCEPT !.owners = {1, RevisionUID}, !.rv = 1] \in NNCs
    <3>1. \A e \in NNCs : \A S \in SUBSET Nat : \A k \in Nat :
             [e EXCEPT !.owners = S, !.rv = k] \in NNCs
      BY DEF NNCs
    <3>2. {1, RevisionUID} \in SUBSET Nat /\ 1 \in Nat
      BY <2>1
    <3> QED
      BY <3>1, <3>2, NoNNCType
  <2>3. [NoNNC EXCEPT !.owners = {1, RevisionUID}, !.rv = 1].managed = FALSE
    BY DEF NoNNC
  <2> QED
    BY <2>2, <2>3, NoNNCType DEF Init, NoNNC
<1>2. nnc \in [Nodes -> NNCs]
  BY <1>1 DEF Init
<1>3. uid \in [Nodes -> UIDs]
  BY DEF Init, UIDs
<1>4. pass = Idle /\ pass.at = "idle"
  BY DEF Init, Idle
<1>5. LoopTypes
  BY <1>2, <1>3, <1>4 DEF LoopTypes, Init
<1> QED
  BY <1>1, <1>4, <1>5 DEF LoopInv, GateHolds, LabelMeansIntent

\* The pass: everything before the write leaves the objects alone.
LEMMA PassReads ==
  ASSUME MaxChurn \in Nat, LoopInv,
         \/ Fetch \/ FetchFails \/ Build \/ GetNNC \/ ApplyNetplan \/ FinishPass
         \/ \E n \in Nodes : StartNode(n)
  PROVE  LoopInv' /\ UNCHANGED nnc
<1> USE DEF LoopInv, LoopTypes
<1>0. Idle.at = "idle"
  BY DEF Idle
<1>1. CASE Fetch
  <2>1. pass' \in Passes
    BY <1>1, FetchedPass DEF Fetch, Live
  <2>2. pass'.at = "cleanup"
    BY <1>1 DEF Fetch, Idle
  <2> QED
    BY <1>1, <2>1, <2>2 DEF Fetch, GateHolds, LabelMeansIntent
<1>2. CASE FetchFails
  BY <1>2, <1>0 DEF FetchFails, GateHolds, LabelMeansIntent
<1>3. CASE Build
  <2>1. pass \in Passes
    BY <1>3, <1>0 DEF Build
  <2>2. (pass' = Idle \/ pass' \in Passes) /\ pass'.at \in {"idle", "apply"}
    <3>1. CASE pass.version \in Unbuildable
      BY <1>3, <1>0, <3>1 DEF Build
    <3>2. CASE pass.version \notin Unbuildable
      <4> DEFINE S == {n \in Nodes : pass.uid[n] # 0}
      <4>1. pass' = [pass EXCEPT !.at = "apply", !.todo = S]
        BY <1>3, <3>2 DEF Build
      <4>2. S \in SUBSET Nodes
        OBVIOUS
      <4>3. pass' \in Passes
        BY <2>1, <4>1, <4>2, PassUpdates
      <4>4. pass'.at = "apply"
        BY <2>1, <4>1 DEF Passes
      <4> QED
        BY <4>3, <4>4
    <3> QED
      BY <3>1, <3>2
  <2> QED
    BY <1>3, <2>2 DEF Build, GateHolds, LabelMeansIntent
<1>4. CASE GetNNC
  <2>1. pass \in Passes /\ pass.node \in Nodes
    BY <1>4, <1>0 DEF GetNNC
  <2> DEFINE e == nnc[pass.node]
  <2>2. e \in NNCs /\ e.rv \in Nat
    BY <2>1 DEF NNCs
  <2>3. \/ pass' = [pass EXCEPT !.at = "netplan"]
        \/ /\ pass' = [pass EXCEPT !.at = "write", !.read = e.rv]
           /\ e.status # "provisioning"
    BY <1>4 DEF GetNNC
  <2>4. pass' \in Passes
    BY <2>1, <2>2, <2>3, PassUpdates
  <2>5. pass'.node = pass.node /\ (pass'.at = "write" => pass'.read = e.rv /\ e.status # "provisioning")
    BY <2>1, <2>3 DEF Passes
  <2>6. nnc' = nnc
    BY <1>4 DEF GetNNC
  <2>7. GateHolds'
    BY <2>2, <2>5, <2>6 DEF GateHolds, Gate
  <2> QED
    BY <1>4, <2>1, <2>4, <2>5, <2>6, <2>7 DEF GetNNC, LabelMeansIntent
<1>5. CASE ApplyNetplan
  <2>1. pass \in Passes
    BY <1>5, <1>0 DEF ApplyNetplan
  <2>2. pass' \in Passes /\ pass'.at = "apply"
    BY <1>5, <2>1, PassUpdates DEF ApplyNetplan
  <2> QED
    BY <1>5, <2>2 DEF ApplyNetplan, GateHolds, LabelMeansIntent
<1>6. CASE FinishPass
  BY <1>6, <1>0 DEF FinishPass, GateHolds, LabelMeansIntent
<1>7. CASE \E n \in Nodes : StartNode(n)
  <2>1. PICK n \in Nodes : StartNode(n)
    BY <1>7
  <2>2. pass \in Passes
    BY <2>1, <1>0 DEF StartNode
  <2>3. \/ pass' = [pass EXCEPT !.todo = @ \ {n}]
        \/ pass' = [pass EXCEPT !.at = "get", !.node = n]
    BY <2>1 DEF StartNode
  <2>4. pass' \in Passes
    <3>1. CASE pass' = [pass EXCEPT !.todo = @ \ {n}]
      BY <2>2, <3>1 DEF Passes
    <3>2. CASE pass' = [pass EXCEPT !.at = "get", !.node = n]
      BY <2>2, <3>2 DEF Passes
    <3> QED
      BY <2>3, <3>1, <3>2
  <2>5. pass'.at # "write" /\ (pass'.at \in {"get", "netplan"} => pass'.node \in Nodes)
    BY <2>1, <2>2, <2>3 DEF Passes, StartNode
  <2> QED
    BY <2>1, <2>4, <2>5 DEF StartNode, GateHolds, LabelMeansIntent
<1> QED
  BY <1>1, <1>2, <1>3, <1>4, <1>5, <1>6, <1>7

-----------------------------------------------------------------------------
\* What a step may do to the NodeNetworkConfig of a node.
Untouched(n) ==
  nnc[n].status = "provisioning" /\ nnc'[n] # NoNNC => nnc'[n].cfg = nnc[n].cfg
Kept(n) == RevisionUID \in nnc[n].owners => nnc'[n] # NoNNC
StepAllowed == LoopInv' /\ \A n \in Nodes : Untouched(n) /\ Kept(n)

\* A step that leaves the objects alone and keeps the invariant is allowed.
LEMMA QuietStep ==
  ASSUME LoopInv, LoopInv', UNCHANGED nnc
  PROVE  StepAllowed
<1>1. NoNNC.owners = {}
  BY DEF NoNNC
<1> QED
  BY <1>1 DEF StepAllowed, Untouched, Kept

\* cleanupOrphanedNNCs deletes by the label, and the label excludes the
\* revision controller's owner reference.
LEMMA CleanupStep ==
  ASSUME MaxChurn \in Nat, LoopInv, NEW n \in Nodes, CleanupOrphans(n)
  PROVE  StepAllowed
<1>1. pass \in Passes /\ pass.at = "cleanup"
  BY DEF CleanupOrphans, LoopInv, LoopTypes, Idle
<1>2. pass' \in Passes /\ pass'.at = "cleanup"
  BY <1>1 DEF CleanupOrphans, Passes
<1>3. NoNNC.managed = FALSE /\ NoNNC.owners = {}
  BY DEF NoNNC
<1>4. \A m \in Nodes : \/ nnc'[m] = nnc[m]
                       \/ nnc'[m] = NoNNC /\ nnc[m].managed
  BY DEF CleanupOrphans, LoopInv, LoopTypes
<1>5. nnc' \in [Nodes -> NNCs]
  BY NoNNCType DEF CleanupOrphans, LoopInv, LoopTypes
<1>6. LoopTypes'
  BY <1>2, <1>5 DEF CleanupOrphans, LoopInv, LoopTypes
<1>7. LabelMeansIntent'
  BY <1>3, <1>4 DEF LoopInv, LabelMeansIntent, RevisionUID, CleanupOrphans
<1>8. GateHolds'
  BY <1>2 DEF GateHolds
<1>9. \A m \in Nodes : Untouched(m) /\ Kept(m)
  BY <1>3, <1>4 DEF Untouched, Kept, LoopInv, LabelMeansIntent
<1> QED
  BY <1>6, <1>7, <1>8, <1>9 DEF StepAllowed, LoopInv

\* tryApplyNNC's write: the resource version it carries is that of an object
\* that was not being provisioned, and it strips the legacy owners.
LEMMA WriteStep ==
  ASSUME MaxChurn \in Nat, LoopInv, WriteNNC
  PROVE  StepAllowed
<1>1. pass \in Passes /\ pass.node \in Nodes /\ pass.at = "write"
  BY DEF WriteNNC, LoopInv, LoopTypes, Idle
<1> DEFINE n == pass.node
<1>2. nnc[n] \in NNCs
  BY <1>1 DEF LoopInv, LoopTypes
<1>3. CASE nnc[n].rv = pass.read
  <2>1. nnc' = [nnc EXCEPT ![n] = Written(nnc[n])]
    BY <1>3 DEF WriteNNC
  <2>2. pass' = [pass EXCEPT !.at = "netplan"]
    BY <1>3 DEF WriteNNC
  <2>3. pass' \in Passes /\ pass'.at = "netplan" /\ pass'.node = n
    BY <1>1, <2>2 DEF Passes
  <2>4. /\ Written(nnc[n]) \in NNCs /\ RevisionUID \notin Written(nnc[n]).owners
        /\ Written(nnc[n]) # NoNNC
    BY <1>1, <1>2, WrittenType
  <2>5. \A m \in Nodes : nnc'[m] = IF m = n THEN Written(nnc[n]) ELSE nnc[m]
    BY <2>1 DEF LoopInv, LoopTypes
  <2>6. nnc' \in [Nodes -> NNCs]
    BY <2>1, <2>4 DEF LoopInv, LoopTypes
  <2>7. LoopTypes'
    BY <1>1, <2>3, <2>6 DEF LoopInv, LoopTypes, WriteNNC
  <2>8. GateHolds'
    BY <2>3 DEF GateHolds
  <2>9. LabelMeansIntent'
    BY <2>4, <2>5 DEF LabelMeansIntent, LoopInv, RevisionUID
  <2>10. nnc[n].status # "provisioning"
    <3>1. NoNNC.status = ""
      BY DEF NoNNC
    <3>2. nnc[n].rv \in Nat /\ ~(nnc[n].rv > pass.read)
      BY <1>2, <1>3 DEF NNCs
    <3> QED
      BY <1>1, <3>1, <3>2 DEF LoopInv, GateHolds, Gate
  <2>11. NoNNC.owners = {}
    BY DEF NoNNC
  <2>12. \A m \in Nodes : Untouched(m) /\ Kept(m)
    BY <2>4, <2>5, <2>10, <2>11 DEF Untouched, Kept
  <2> QED
    BY <2>7, <2>8, <2>9, <2>12 DEF StepAllowed, LoopInv
<1>4. CASE nnc[n].rv # pass.read
  <2>1. UNCHANGED nnc
    BY <1>4 DEF WriteNNC
  <2>2. \/ pass' = [pass EXCEPT !.at = "get", !.attempt = @ + 1]
        \/ pass' = Continue(pass)
    BY <1>4 DEF WriteNNC
  <2>3. pass' \in Passes
    <3>1. [pass EXCEPT !.at = "get", !.attempt = @ + 1] \in Passes /\ Continue(pass) \in Passes
      BY <1>1, PassUpdates
    <3> QED
      BY <2>2, <3>1
  <2>4. \/ pass'.at = "apply"
        \/ pass'.at = "get" /\ pass'.node = n
    <3>1. CASE pass' = [pass EXCEPT !.at = "get", !.attempt = @ + 1]
      BY <1>1, <3>1 DEF Passes
    <3>2. CASE pass' = Continue(pass)
      BY <1>1, <3>2, PassUpdates
    <3> QED
      BY <2>2, <3>1, <3>2
  <2>5. LoopTypes'
    BY <1>1, <2>1, <2>3, <2>4 DEF LoopInv, LoopTypes, WriteNNC
  <2>6. GateHolds' /\ LabelMeansIntent'
    BY <2>1, <2>4 DEF GateHolds, LabelMeansIntent, LoopInv, RevisionUID
  <2> QED
    BY <2>1, <2>5, <2>6, QuietStep DEF LoopInv
<1> QED
  BY <1>3, <1>4

\* The agent's status updates only raise the resource version.
LEMMA AgentStep ==
  ASSUME MaxChurn \in Nat, LoopInv, NEW n \in Nodes, AgentStarts(n) \/ AgentEnds(n)
  PROVE  StepAllowed
<1>1. PICK s \in Statuses : nnc' = [nnc EXCEPT ![n] = Reported(nnc[n], s)]
  BY DEF AgentStarts, AgentEnds, Statuses
<1>2. nnc[n] \in NNCs /\ nnc[n] # NoNNC
  <2>1. NoNNC.status = ""
    BY DEF NoNNC
  <2> QED
    BY <2>1 DEF AgentStarts, AgentEnds, LoopInv, LoopTypes
<1> DEFINE r == Reported(nnc[n], s)
<1>3. /\ r \in NNCs /\ r.cfg = nnc[n].cfg /\ r.owners = nnc[n].owners
      /\ r.rv = nnc[n].rv + 1 /\ r.managed = nnc[n].managed
  BY <1>2, AgentUpdates
<1>4. nnc[n].rv \in Nat
  BY <1>2 DEF NNCs
<1> HIDE DEF r
<1>5. r # NoNNC
  <2>1. NoNNC.rv = 0
    BY DEF NoNNC
  <2> QED
    BY <1>3, <1>4, <2>1
<1>6. \A m \in Nodes : nnc'[m] = IF m = n THEN r ELSE nnc[m]
  BY <1>1 DEF LoopInv, LoopTypes, r
<1>7. nnc' \in [Nodes -> NNCs]
  BY <1>1, <1>3 DEF LoopInv, LoopTypes, r
<1>8. UNCHANGED <<version, uid, pass, churn>>
  BY DEF AgentStarts, AgentEnds
<1>9. LoopTypes'
  BY <1>7, <1>8 DEF LoopInv, LoopTypes
<1>10. LabelMeansIntent'
  BY <1>3, <1>6 DEF LoopInv, LabelMeansIntent, RevisionUID
<1>11. GateHolds'
  <2>1. SUFFICES ASSUME pass.at = "write" PROVE Gate(nnc'[pass.node], pass.read)
    BY <1>8 DEF GateHolds
  <2>2. pass \in Passes /\ pass.node \in Nodes /\ pass.read \in Nat
    BY <2>1 DEF LoopInv, LoopTypes, Passes, Idle
  <2>3. Gate(nnc[pass.node], pass.read)
    BY <2>1 DEF LoopInv, GateHolds
  <2>4. CASE pass.node = n
    <3>1. nnc[n].rv >= pass.read
      BY <1>2, <1>4, <2>2, <2>3, <2>4 DEF Gate
    <3>2. r.rv > pass.read
      BY <1>3, <1>4, <2>2, <3>1
    <3> QED
      BY <1>6, <2>4, <3>2 DEF Gate
  <2>5. CASE pass.node # n
    BY <1>6, <2>2, <2>3, <2>5
  <2> QED
    BY <2>4, <2>5
<1>12. NoNNC.owners = {}
  BY DEF NoNNC
<1>13. \A m \in Nodes : Untouched(m) /\ Kept(m)
  BY <1>3, <1>5, <1>6, <1>12 DEF Untouched, Kept
<1> QED
  BY <1>9, <1>10, <1>11, <1>13 DEF StepAllowed, LoopInv

\* The garbage collector needs every owner gone, the revision included.
LEMMA CollectStep ==
  ASSUME MaxChurn \in Nat, LoopInv, NEW n \in Nodes, CollectGarbage(n)
  PROVE  StepAllowed
<1>1. NoNNC.managed = FALSE /\ NoNNC.owners = {}
  BY DEF NoNNC
<1>2. \A m \in Nodes : \/ nnc'[m] = nnc[m]
                       \/ nnc'[m] = NoNNC /\ RevisionUID \notin nnc[m].owners
  BY DEF CollectGarbage, LoopInv, LoopTypes
<1>3. nnc' \in [Nodes -> NNCs]
  BY NoNNCType DEF CollectGarbage, LoopInv, LoopTypes
<1>4. LoopTypes'
  BY <1>3 DEF CollectGarbage, LoopInv, LoopTypes
<1>5. LabelMeansIntent'
  BY <1>1, <1>2 DEF LoopInv, LabelMeansIntent, RevisionUID
<1>6. GateHolds'
  BY <1>2 DEF GateHolds, Gate, LoopInv, LoopTypes, CollectGarbage
<1>7. \A m \in Nodes : Untouched(m) /\ Kept(m)
  BY <1>1, <1>2 DEF Untouched, Kept
<1> QED
  BY <1>4, <1>5, <1>6, <1>7 DEF StepAllowed, LoopInv

\* Users and nodes change neither the objects nor the pass.
LEMMA ClusterStep ==
  ASSUME MaxChurn \in Nat, LoopInv, NEW n \in Nodes,
         ChangeIntents \/ NodeJoins(n) \/ NodeLeaves(n)
  PROVE  StepAllowed
<1>1. UNCHANGED <<nnc, pass>>
  BY DEF ChangeIntents, NodeJoins, NodeLeaves
<1>2. version' \in Nat
  BY DEF ChangeIntents, NodeJoins, NodeLeaves, LoopInv, LoopTypes
<1>3. churn' \in 0 .. MaxChurn
  BY DEF ChangeIntents, NodeJoins, NodeLeaves, LoopInv, LoopTypes
<1>4. uid' \in [Nodes -> UIDs]
  <2>1. CASE ChangeIntents
    BY <2>1 DEF ChangeIntents, LoopInv, LoopTypes
  <2>2. CASE NodeJoins(n)
    <3>1. churn + 2 \in UIDs
      BY <2>2 DEF NodeJoins, LoopInv, LoopTypes, UIDs
    <3> QED
      BY <2>2, <3>1 DEF NodeJoins, LoopInv, LoopTypes
  <2>3. CASE NodeLeaves(n)
    <3>1. 0 \in UIDs
      BY DEF UIDs
    <3> QED
      BY <2>3, <3>1 DEF NodeLeaves, LoopInv, LoopTypes
  <2> QED
    BY <2>1, <2>2, <2>3
<1>5. LoopInv'
  BY <1>1, <1>2, <1>3, <1>4 DEF LoopInv, LoopTypes, GateHolds, LabelMeansIntent
<1> QED
  BY <1>1, <1>5, QuietStep

\* Every step of the operator, its agents and its cluster is allowed.
LEMMA LoopStep ==
  ASSUME MaxChurn \in Nat, LoopInv, [Next]_vars
  PROVE  StepAllowed
<1>1. CASE \/ Fetch \/ FetchFails \/ Build \/ GetNNC \/ ApplyNetplan \/ FinishPass
           \/ \E n \in Nodes : StartNode(n)
  BY <1>1, PassReads, QuietStep
<1>2. CASE WriteNNC
  BY <1>2, WriteStep
<1>3. CASE \E n \in Nodes : CleanupOrphans(n)
  BY <1>3, CleanupStep
<1>4. CASE \E n \in Nodes : AgentStarts(n) \/ AgentEnds(n)
  BY <1>4, AgentStep
<1>5. CASE \E n \in Nodes : CollectGarbage(n)
  BY <1>5, CollectStep
<1>6. CASE \E n \in Nodes : NodeJoins(n) \/ NodeLeaves(n)
  BY <1>6, ClusterStep
<1>7. CASE ChangeIntents
  <2>1. CASE Nodes = {}
    BY <1>7, <2>1 DEF ChangeIntents, StepAllowed, LoopInv, LoopTypes, GateHolds,
                      LabelMeansIntent
  <2>2. CASE Nodes # {}
    BY <1>7, <2>2, ClusterStep
  <2> QED
    BY <2>1, <2>2
<1>8. CASE UNCHANGED vars
  <2>1. LoopInv'
    BY <1>8 DEF vars, LoopInv, LoopTypes, GateHolds, LabelMeansIntent
  <2> QED
    BY <1>8, <2>1, QuietStep DEF vars
<1> QED
  BY <1>1, <1>2, <1>3, <1>4, <1>5, <1>6, <1>7, <1>8 DEF Next

-----------------------------------------------------------------------------
\* The rolling update gate of tryApplyNNC holds for any number of nodes,
\* passes, conflicts and agents, whether or not nodes rejoin quickly.
THEOREM GateIsRespected ==
  ASSUME MaxChurn \in Nat
  PROVE  Spec => ProvisioningUntouched
<1>1. Init => LoopInv
  BY LoopInit
<1>2. LoopInv /\ [Next]_vars => LoopInv'
  BY LoopStep DEF StepAllowed
<1>3. LoopInv /\ [Next]_vars =>
        [\A n \in Nodes : nnc[n].status = "provisioning" /\ nnc'[n] # NoNNC
                            => nnc'[n].cfg = nnc[n].cfg]_vars
  BY LoopStep DEF StepAllowed, Untouched
<1> QED
  BY <1>1, <1>2, <1>3, PTL DEF Spec, ProvisioningUntouched

\* cleanupOrphanedNNCs never deletes an NNC the revision controller owns,
\* even when a pass and the adoption of the object by an earlier pass, its
\* collection and a rejoining node interleave.
THEOREM LegacyIsKept ==
  ASSUME MaxChurn \in Nat
  PROVE  Spec => LegacyKept
<1>1. Init => LoopInv
  BY LoopInit
<1>2. LoopInv /\ [Next]_vars => LoopInv'
  BY LoopStep DEF StepAllowed
<1>3. LoopInv /\ [Next]_vars =>
        [\A n \in Nodes : RevisionUID \in nnc[n].owners => nnc'[n] # NoNNC]_vars
  BY LoopStep DEF StepAllowed, Kept
<1> QED
  BY <1>1, <1>2, <1>3, PTL DEF Spec, LegacyKept

-----------------------------------------------------------------------------
(* The finalizers of objects in use.                                       *)

Entries == [uid : Nat, rv : Nat, deleting : BOOLEAN, fin : BOOLEAN]
Views == [Objects -> Entries]

IsPass(p) == p = [at |-> p.at, view |-> p.view, todo |-> p.todo]

\* The objects of a sweep that it has dealt with.
Done(p) ==
  {t \in Objects : \E i \in 1 .. 4 : /\ KindOf[t] = Order[i] /\ i <= p.at
                                     /\ i = p.at => t \notin p.todo}

\* A finalizer that a sweep has found on, or put on, a used object is there,
\* and the users that the last sweep found are the users of this sweep.
PassOK(p) ==
  /\ IsPass(p) /\ p.at \in 1 .. 4 /\ p.view \in Views /\ p.todo \subseteq Objects
  /\ \A t \in Objects :
       Used(p.view, t) /\ (p.view[t].fin = TRUE \/ t \in Active(p.view) \cap Done(p)) =>
         obj[t].fin = TRUE
  /\ \A e \in seen : e[1] \in Active(p.view)

UseInv ==
  /\ obj \in Views /\ edits \in Nat
  /\ sweep = NoSweep \/ PassOK(sweep)
  /\ \A e \in seen : /\ e[1] \in Active(obj) /\ e[2] \in Objects /\ e[2] \in Refs[e[1]]
                     /\ obj[e[2]].fin = TRUE

-----------------------------------------------------------------------------
\* The kinds of finalizer.go's order.
LEMMA Kinds ==
  /\ Len(Order) = 4 /\ 1 \in 1 .. 4
  /\ \A x \in 1 .. 4 : x # 4 => x + 1 \in 1 .. 4
  /\ \A x, i \in 1 .. 4 : i <= x + 1 <=> i <= x \/ i = x + 1
  BY DEF Order

\* An object that is not there carries no finalizer and is not being deleted.
LEMMA NoEntry == NoObj \in Entries /\ NoObj.fin = FALSE /\ NoObj.deleting = FALSE
  BY DEF NoObj, Entries

\* An update keeps the shape of an object and has the finalizer it wrote.
LEMMA NewerEntry ==
  ASSUME NEW e \in Entries, NEW d \in BOOLEAN, NEW f \in BOOLEAN
  PROVE  /\ Newer(e, d, f) \in Entries
         /\ Newer(e, d, f).fin = f /\ Newer(e, d, f).deleting = d
<1>1. e.uid \in Nat /\ e.rv + 1 \in Nat
  BY DEF Entries
<1>2. \A k \in Nat : /\ [uid |-> e.uid, rv |-> k, deleting |-> d, fin |-> f] \in Entries
                     /\ [uid |-> e.uid, rv |-> k, deleting |-> d, fin |-> f].fin = f
                     /\ [uid |-> e.uid, rv |-> k, deleting |-> d, fin |-> f].deleting = d
  BY <1>1 DEF Entries
<1> QED
  BY <1>1, <1>2 DEF Newer

\* An active object stays active when others change.
LEMMA StaysActive ==
  ASSUME NEW u, u \in Active(obj), obj'[u] = obj[u]
  PROVE  u \in Active(obj')
  BY DEF Active, Present

\* A finalizer is there only on an object.
LEMMA FinPresent == ASSUME NEW o, obj[o].fin = TRUE PROVE obj[o] # NoObj
  BY NoEntry

-----------------------------------------------------------------------------
\* The three-phase pass starts with no object in use.
LEMMA InitInv == ASSUME UseInit PROVE UseInv
  BY NoEntry DEF UseInit, UseInv, Views

\* ReconcileFinalizers begins on the lists of fetchAll.
LEMMA StartPassStep == ASSUME UseInv, StartPass PROVE UseInv'
<1>1. /\ IsPass(sweep') /\ sweep'.at = 1 /\ sweep'.view = obj
      /\ sweep'.todo = Listed(obj, Order[1])
  BY DEF StartPass, IsPass
<1>2. UNCHANGED <<obj, seen, edits>>
  BY DEF StartPass
<1>3. sweep'.at \in 1 .. 4 /\ sweep'.view \in Views /\ sweep'.todo \subseteq Objects
  BY <1>1, Kinds DEF UseInv, Listed, OfKind
<1>4. ASSUME NEW t \in Active(sweep'.view) \cap Done(sweep') PROVE FALSE
  <2>1. PICK i \in 1 .. 4 : KindOf[t] = Order[i] /\ i <= 1 /\ (i = 1 => t \notin sweep'.todo)
    BY <1>1, <1>4 DEF Done
  <2>2. KindOf[t] = Order[1] /\ t \notin sweep'.todo
    BY <2>1
  <2> QED
    BY <1>1, <1>4, <2>2 DEF Listed, OfKind, Active, Present
<1>5. PassOK(sweep)'
  BY <1>1, <1>2, <1>3, <1>4 DEF PassOK, UseInv
<1> QED
  BY <1>2, <1>5 DEF UseInv

\* From one kind to the next.
LEMMA NextKindStep == ASSUME RefsAreListed, UseInv, NextKind PROVE UseInv'
<1>1. PassOK(sweep) /\ sweep.todo = {} /\ UNCHANGED <<obj, edits>>
  BY DEF NextKind, UseInv
<1>2. CASE sweep.at = Len(Order)
  <2>1. /\ sweep' = NoSweep
        /\ seen' = {p \in (Active(sweep.view) \cap Active(obj)) \X Active(sweep.view) :
                        p[2] \in Refs[p[1]]}
    BY <1>2 DEF NextKind
  <2>2. ASSUME NEW e \in seen'
        PROVE  /\ e[1] \in Active(obj) /\ e[2] \in Objects /\ e[2] \in Refs[e[1]]
               /\ obj[e[2]].fin = TRUE
    <3>1. /\ e[1] \in Active(sweep.view) /\ e[1] \in Active(obj) /\ e[2] \in Active(sweep.view)
          /\ e[2] \in Refs[e[1]]
      BY <2>1, <2>2
    <3>2. e[1] \in Objects /\ e[2] \in Objects
      BY <3>1 DEF Active, Present
    <3>3. PICK i \in 1 .. 4 : KindOf[e[2]] = Order[i]
      BY <3>1, <3>2 DEF RefsAreListed
    <3>4. i <= sweep.at
      BY <1>2, Kinds
    <3>5. e[2] \in Done(sweep)
      BY <1>1, <3>2, <3>3, <3>4 DEF Done
    <3>6. Used(sweep.view, e[2])
      BY <3>1 DEF Used
    <3> QED
      BY <1>1, <3>1, <3>2, <3>5, <3>6 DEF PassOK
  <2> QED
    BY <1>1, <2>1, <2>2 DEF UseInv
<1>3. CASE sweep.at # Len(Order)
  <2>1. /\ sweep' = [sweep EXCEPT !.at = sweep.at + 1,
                      !.todo = Listed(sweep.view, Order[sweep.at + 1])]
        /\ UNCHANGED seen
    BY <1>3 DEF NextKind
  <2>2. sweep.at \in 1 .. 4 /\ sweep.at + 1 \in 1 .. 4
    BY <1>1, <1>3, Kinds DEF PassOK
  <2>3. /\ IsPass(sweep') /\ sweep'.at = sweep.at + 1 /\ sweep'.view = sweep.view
        /\ sweep'.todo = Listed(sweep.view, Order[sweep.at + 1])
    BY <1>1, <2>1 DEF PassOK, IsPass
  <2>4. sweep'.at \in 1 .. 4 /\ sweep'.todo \subseteq Objects
    BY <2>2, <2>3 DEF Listed, OfKind
  <2>5. ASSUME NEW t \in Active(sweep.view) \cap Done(sweep') PROVE t \in Done(sweep)
    <3>1. PICK i \in 1 .. 4 : /\ KindOf[t] = Order[i] /\ i <= sweep.at + 1
                              /\ i = sweep.at + 1 => t \notin sweep'.todo
      BY <2>3, <2>5 DEF Done
    <3>2. t \in Objects
      BY <2>5 DEF Done
    <3>3. i # sweep.at + 1
      BY <2>3, <2>5, <3>1, <3>2 DEF Listed, OfKind, Active, Present
    <3>4. i <= sweep.at
      BY <2>2, <3>1, <3>3, Kinds
    <3> QED
      BY <1>1, <3>1, <3>2, <3>4 DEF Done
  <2>6. PassOK(sweep)'
    BY <1>1, <2>1, <2>3, <2>4, <2>5 DEF PassOK
  <2> QED
    BY <1>1, <2>1, <2>6 DEF UseInv
<1> QED
  BY <1>2, <1>3

\* reconcileVRFFinalizers and the three others, one object.
LEMMA ReconcileFinalizerStep ==
  ASSUME UseInv, NEW o \in Objects, ReconcileFinalizer(o)
  PROVE  UseInv'
<1> DEFINE used == Used(sweep.view, o)
           rest == [sweep EXCEPT !.todo = sweep.todo \ {o}]
<1>1. PassOK(sweep) /\ UNCHANGED <<seen, edits>> /\ o \in sweep.todo
  BY DEF ReconcileFinalizer, UseInv
<1>2. used \in BOOLEAN /\ sweep.view[o].fin \in BOOLEAN /\ obj[o] \in Entries
      /\ obj[o].deleting \in BOOLEAN
  BY <1>1 DEF UseInv, PassOK, Views, Entries, Used
<1>3. \/ sweep' = rest /\ obj' = obj /\ used = sweep.view[o].fin
      \/ sweep' = rest /\ Stored(o, used)
      \/ sweep' = NoSweep /\ obj' = obj
  BY DEF ReconcileFinalizer
<1>4. /\ IsPass(rest) /\ rest.at = sweep.at /\ rest.view = sweep.view /\ rest.todo = sweep.todo \ {o}
  <2>1. rest = [sweep EXCEPT !.todo = sweep.todo \ {o}] /\ IsPass(sweep)
    BY <1>1 DEF PassOK
  <2> HIDE DEF rest
  <2> QED
    BY <2>1 DEF IsPass
<1> HIDE DEF rest
<1>5. \A t \in Done(rest) : t = o \/ t \in Done(sweep)
  BY <1>4 DEF Done
<1>6. rest.at \in 1 .. 4 /\ rest.view \in Views /\ rest.todo \subseteq Objects
  BY <1>1, <1>4 DEF PassOK
<1>7. CASE sweep' = NoSweep /\ obj' = obj
  BY <1>1, <1>7 DEF UseInv
<1>8. CASE sweep' = rest /\ obj' = obj /\ used = sweep.view[o].fin
  <2>1. PassOK(sweep)'
    BY <1>1, <1>4, <1>5, <1>6, <1>8 DEF PassOK
  <2> QED
    BY <1>1, <1>8, <2>1 DEF UseInv
<1>9. CASE sweep' = rest /\ Stored(o, used)
  <2>1. /\ obj' \in Views
        /\ \A t \in Objects : t # o => obj'[t] = obj[t]
        /\ obj'[o] = IF obj[o].deleting /\ ~used THEN NoObj ELSE Newer(obj[o], obj[o].deleting, used)
    <3> DEFINE e == IF obj[o].deleting /\ ~used THEN NoObj ELSE Newer(obj[o], obj[o].deleting, used)
    <3>1. e \in Entries
      BY <1>2, NoEntry, NewerEntry
    <3>2. obj' = [obj EXCEPT ![o] = e] /\ obj \in Views
      BY <1>9 DEF Stored, UseInv
    <3> HIDE DEF e
    <3>3. /\ obj' \in Views /\ obj'[o] = e /\ \A t \in Objects : t # o => obj'[t] = obj[t]
      BY <3>1, <3>2 DEF Views
    <3> QED
      BY <3>3 DEF e
  <2>2. used => obj'[o].fin = TRUE
    <3>1. used => obj'[o] = Newer(obj[o], obj[o].deleting, TRUE)
      BY <1>2, <2>1
    <3> QED
      BY <1>2, <3>1, NewerEntry
  <2>3. ASSUME NEW u \in Active(obj) PROVE u \in Active(obj')
    <3>1. CASE u # o
      <4>1. obj'[u] = obj[u]
        BY <2>1, <2>3, <3>1 DEF Active, Present
      <4> QED
        BY <2>3, <4>1, StaysActive
    <3>2. CASE u = o
      <4>1. ~obj[o].deleting /\ obj[o] \in Entries
        BY <1>2, <2>3, <3>2 DEF Active
      <4>2. obj'[o] = Newer(obj[o], obj[o].deleting, used)
        BY <2>1, <4>1
      <4>3. ~obj'[o].deleting
        <5>1. Newer(obj[o], obj[o].deleting, used).deleting = obj[o].deleting
          BY <1>2, NewerEntry
        <5> QED
          BY <4>1, <4>2, <5>1
      <4>4. obj'[o] # NoObj
        <5>1. Newer(obj[o], obj[o].deleting, used).rv = obj[o].rv + 1 /\ NoObj.rv = 0
          BY DEF Newer, NoObj
        <5>2. obj[o].rv \in Nat
          BY <1>2 DEF Entries
        <5>3. obj[o].rv + 1 # 0
          BY <5>2
        <5> QED
          BY <4>2, <5>1, <5>3
      <4> QED
        BY <3>2, <4>3, <4>4 DEF Active, Present
    <3> QED
      BY <3>1, <3>2
  <2>4. ASSUME NEW e \in seen
        PROVE  e[1] \in Active(obj') /\ obj'[e[2]].fin = TRUE
    <3>1. /\ e[1] \in Active(obj) /\ e[2] \in Objects /\ e[2] \in Refs[e[1]]
          /\ obj[e[2]].fin = TRUE /\ e[1] \in Active(sweep.view)
      BY <1>1, <2>4 DEF UseInv, PassOK
    <3>2. e[2] = o => used
      BY <3>1 DEF Used
    <3>3. obj'[e[2]].fin = TRUE
      BY <2>1, <2>2, <3>1, <3>2
    <3>4. e[1] \in Active(obj')
      BY <2>3, <3>1
    <3> QED
      BY <3>3, <3>4
  <2>5. ASSUME NEW t \in Objects, Used(rest.view, t),
               rest.view[t].fin = TRUE \/ t \in Active(rest.view) \cap Done(rest)
        PROVE  obj'[t].fin = TRUE
    <3>1. CASE t = o
      BY <1>4, <2>2, <2>5, <3>1
    <3>2. CASE t # o
      BY <1>1, <1>4, <1>5, <2>1, <2>5, <3>2 DEF PassOK
    <3> QED
      BY <3>1, <3>2
  <2>6. PassOK(sweep)'
    BY <1>1, <1>4, <1>6, <1>9, <2>5 DEF PassOK
  <2> QED
    BY <1>1, <2>1, <2>4, <2>6 DEF UseInv
<1> QED
  BY <1>3, <1>7, <1>8, <1>9

\* Users create and delete.
LEMMA CreateStep == ASSUME UseInv, NEW o \in Objects, Create(o) PROVE UseInv'
<1> DEFINE e == [uid |-> edits + 1, rv |-> 1, deleting |-> FALSE, fin |-> FALSE]
<1>1. obj[o] = NoObj /\ UNCHANGED <<sweep, seen>> /\ obj' = [obj EXCEPT ![o] = e]
      /\ edits' = edits + 1
  BY DEF Create
<1>2. edits + 1 \in Nat /\ 1 \in Nat
  BY DEF UseInv
<1>3. e \in Entries
  BY <1>2 DEF Entries
<1> HIDE DEF e
<1>4. obj' \in Views /\ \A t \in Objects : t # o => obj'[t] = obj[t]
  BY <1>1, <1>3 DEF UseInv, Views
<1>5. \A t \in Objects : obj[t].fin = TRUE => obj'[t].fin = TRUE
  BY <1>1, <1>4, NoEntry
<1>6. ASSUME NEW u \in Active(obj) PROVE u \in Active(obj')
  <2>1. u \in Objects /\ u # o
    BY <1>1, <1>6 DEF Active, Present
  <2> QED
    BY <1>4, <1>6, <2>1, StaysActive
<1>7. PassOK(sweep) => PassOK(sweep)'
  BY <1>1, <1>5 DEF PassOK
<1> QED
  BY <1>1, <1>2, <1>4, <1>5, <1>6, <1>7 DEF UseInv

\* A delete marks the object and leaves its finalizer in place.
LEMMA DeleteStep == ASSUME UseInv, NEW o \in Objects, Delete(o) PROVE UseInv'
<1> DEFINE e == IF obj[o].fin THEN Newer(obj[o], TRUE, TRUE) ELSE NoObj
<1>1. UNCHANGED sweep /\ seen' = {p \in seen : p[1] # o} /\ obj' = [obj EXCEPT ![o] = e]
      /\ edits' = edits + 1
  BY DEF Delete
<1>2. edits + 1 \in Nat /\ obj[o] \in Entries
  BY DEF UseInv, Views
<1>3. e \in Entries /\ (obj[o].fin = TRUE => e.fin = TRUE)
  BY <1>2, NoEntry, NewerEntry
<1> HIDE DEF e
<1>4. obj' \in Views /\ obj'[o] = e /\ \A t \in Objects : t # o => obj'[t] = obj[t]
  BY <1>1, <1>3 DEF UseInv, Views
<1>5. \A t \in Objects : obj[t].fin = TRUE => obj'[t].fin = TRUE
  BY <1>3, <1>4
<1>6. ASSUME NEW u \in Active(obj), u # o PROVE u \in Active(obj')
  <2>1. u \in Objects
    BY <1>6 DEF Active, Present
  <2> QED
    BY <1>4, <1>6, <2>1, StaysActive
<1>7. PassOK(sweep) => PassOK(sweep)'
  BY <1>1, <1>5 DEF PassOK
<1> QED
  BY <1>1, <1>2, <1>4, <1>5, <1>6, <1>7 DEF UseInv

\* Every step of the cluster or of the pass keeps the invariant.
LEMMA NextInv == ASSUME RefsAreListed, UseInv, [UseNext]_useVars PROVE UseInv'
<1>1. CASE UNCHANGED useVars
  BY <1>1 DEF UseInv, PassOK, useVars
<1>2. CASE StartPass
  BY <1>2, StartPassStep
<1>3. CASE NextKind
  BY <1>3, NextKindStep
<1>4. ASSUME NEW o \in Objects, ReconcileFinalizer(o) \/ Create(o) \/ Delete(o) PROVE UseInv'
  BY <1>4, ReconcileFinalizerStep, CreateStep, DeleteStep
<1> QED
  BY <1>1, <1>2, <1>3, <1>4 DEF UseNext

-----------------------------------------------------------------------------
\* What ReconcileFinalizers has found in use exists for as long as the object
\* that uses it is active, however passes, creations, deletions and refused
\* updates interleave.
THEOREM UsedIsKept ==
  ASSUME RefsAreListed
  PROVE  UseSpec => []UsedStays
<1>1. UseInit => UseInv
  BY InitInv
<1>2. UseInv /\ [UseNext]_useVars => UseInv'
  BY NextInv
<1>3. UseInv => UsedStays
  BY FinPresent DEF UseInv, UsedStays
<1> QED
  BY <1>1, <1>2, <1>3, PTL DEF UseSpec

=============================================================================
