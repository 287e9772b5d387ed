---------------------------- MODULE ClusterSync ----------------------------
(***************************************************************************)
(* network-sync: the intents of a namespace of the management cluster are  *)
(* copied to the workload cluster the namespace belongs to, and the status *)
(* of the copies back (controllers/sync).  The cluster controller keeps a  *)
(* client per Cluster with a kubeconfig; the sync controller works through *)
(* the namespace in passes, one API call per step, reading intents from an *)
(* informer cache.  Specs are abstracted to the version of the edit that   *)
(* made them, a Secret is an object without status.                        *)
(***************************************************************************)
EXTENDS Naturals, FiniteSets

CONSTANTS
  Intents,      \* intents of the namespace
  Counted,      \* Inbounds and Outbounds with a count: addresses from IPAM
  Peerings,     \* BGPPeerings: their authSecretRef is Secret
  Secret,
  Clusters,
  Home,         \* the Cluster that is there from the start
  Foreign,      \* names that exist, not managed by network-sync, remotely
  MaxEdits, MaxFaults

ASSUME SyncAssumption ==
  /\ Secret \notin Intents
  /\ Counted \subseteq Intents /\ Peerings \subseteq Intents
  /\ Home \in Clusters
  /\ MaxEdits \in Nat /\ MaxFaults \in Nat

VARIABLES
  edits,      \* creations, edits, deletions by users so far
  mgmt,       \* management objects
  cache,      \* what the informer shows of them
  kubeconfig, \* Cluster -> "absent", "pending" (no usable Secret) or "ready"
  clients,    \* RemoteClientManager: the Clusters that have a client
  remote,     \* Cluster -> its objects
  pass,       \* the running pass of the sync controller
  faults,
  abandoned,  \* history: copies whose intent was released without their deletion
  proved,     \* history: versions the workload cluster reported Ready
  lagged      \* history: has a pass started on an outdated cache?

vars == <<edits, mgmt, cache, kubeconfig, clients, remote, pass, faults, abandoned, proved, lagged>>
users == <<edits, mgmt, cache>>
fleet == <<kubeconfig, clients, remote>>
history == <<abandoned, proved, lagged>>

Names == Intents \cup {Secret}
Editable == IF Peerings = {} THEN Intents ELSE Names
NoObj == [ver |-> 0, gen |-> 0, deleting |-> FALSE, fin |-> FALSE, addr |-> FALSE,
          ready |-> FALSE, at |-> 0]
NoCopy == [ver |-> 0, managed |-> FALSE, addr |-> FALSE, sgen |-> 0, observed |-> FALSE,
           ready |-> FALSE, labels |-> {}, mine |-> {}]
Idle == [at |-> "idle", cl |-> "none", todo |-> {}, o |-> "none", copy |-> NoObj, allocs |-> {}]

\* The labels of a version: k comes and goes; x is somebody else's.
Labels(ver) == IF ver % 2 = 1 THEN {"managed-by", "k"} ELSE {"managed-by"}

Init ==
  /\ edits = 0
  /\ mgmt = [o \in Names |-> NoObj] /\ cache = mgmt
  /\ kubeconfig = [c \in Clusters |-> IF c = Home THEN "ready" ELSE "absent"] /\ clients = {}
  /\ remote = [c \in Clusters |-> [o \in Names |->
                 IF o \in Foreign THEN [NoCopy EXCEPT !.ver = MaxEdits + 1] ELSE NoCopy]]
  /\ pass = Idle /\ faults = 0
  /\ abandoned = {} /\ proved = {} /\ lagged = FALSE

-----------------------------------------------------------------------------
\* Users; the Secret has no finalizer.
Edit(o) ==
  /\ edits < MaxEdits /\ ~mgmt[o].deleting
  /\ edits' = edits + 1
  /\ mgmt' = [mgmt EXCEPT ![o] = [mgmt[o] EXCEPT !.ver = edits', !.gen = mgmt[o].gen + 1]]
  /\ UNCHANGED <<cache, fleet, pass, faults, history>>

Delete(o) ==
  /\ edits < MaxEdits /\ mgmt[o] # NoObj /\ ~mgmt[o].deleting
  /\ edits' = edits + 1
  /\ mgmt' = [mgmt EXCEPT ![o] = IF mgmt[o].fin THEN [mgmt[o] EXCEPT !.deleting = TRUE]
                                 ELSE NoObj]
  /\ UNCHANGED <<cache, fleet, pass, faults, history>>

CacheSync(o) ==
  /\ cache[o] # mgmt[o]
  /\ cache' = [cache EXCEPT ![o] = mgmt[o]]
  /\ UNCHANGED <<edits, mgmt, fleet, pass, faults, history>>

\* Clusters come with or without a kubeconfig, get or lose it, and go.
ClusterChanges(c) ==
  /\ faults < MaxFaults /\ faults' = faults + 1
  /\ \E k \in {"absent", "pending", "ready"} \ {kubeconfig[c]} :
       kubeconfig' = [kubeconfig EXCEPT ![c] = k]
  /\ remote' = [remote EXCEPT ![c] = IF kubeconfig'[c] = "absent" THEN [o \in Names |-> NoCopy] ELSE @]
  /\ UNCHANGED <<users, clients, pass, history>>

UpdateFromKubeconfig(c) == clients \cup {c}
Remove(c) == clients \ {c}

\* ClusterController.Reconcile: a client for each Cluster with a kubeconfig.
ReconcileCluster(c) ==
  /\ (kubeconfig[c] = "ready") # (c \in clients)
  /\ clients' = IF kubeconfig[c] = "ready" THEN UpdateFromKubeconfig(c) ELSE Remove(c)
  /\ UNCHANGED <<users, kubeconfig, remote, pass, faults, history>>

\* The workload operator handles the copy and reports on it.
WorkloadReports(c, o) ==
  /\ remote[c][o].managed /\ ~remote[c][o].observed /\ o # Secret
  /\ \E ok \in BOOLEAN :
       /\ remote' = [remote EXCEPT ![c][o] = [remote[c][o] EXCEPT !.observed = TRUE, !.ready = ok]]
       /\ proved' = IF ok THEN proved \cup {remote[c][o].ver} ELSE proved
  /\ UNCHANGED <<users, kubeconfig, clients, pass, faults, abandoned, lagged>>

\* Somebody labels a copy.
WorkloadLabels(c, o) ==
  /\ remote[c][o].managed /\ "x" \notin remote[c][o].labels
  /\ faults < MaxFaults /\ faults' = faults + 1
  /\ remote' = [remote EXCEPT ![c][o] = [remote[c][o] EXCEPT !.labels = @ \cup {"x"}]]
  /\ UNCHANGED <<users, kubeconfig, clients, pass, history>>

-----------------------------------------------------------------------------
\* Reconcile: no client drains, several block, one is synchronised, after the
\* IPAM allocation.  The allocations of the pass are those the cache shows
\* and the one just written; a refused write leaves none.
Mode == CASE clients = {} -> "drain" [] Cardinality(clients) > 1 -> "block" [] OTHER -> "sync"

reconcileIPAM ==
  LET want == {o \in Counted : cache[o] # NoObj /\ ~cache[o].addr}
      ok == \A o \in want : mgmt[o] = cache[o]
  IN  [mgmt |-> [o \in Names |-> IF o \in want /\ mgmt[o] = cache[o]
                                 THEN [mgmt[o] EXCEPT !.addr = TRUE] ELSE mgmt[o]],
       allocs |-> IF ok THEN {o \in Counted : cache[o] # NoObj} ELSE {}]

StartPass ==
  /\ pass = Idle
  /\ pass' = [Idle EXCEPT !.at = Mode, !.todo = Intents,
                          !.cl = IF Mode = "sync" THEN CHOOSE c \in clients : TRUE ELSE "none",
                          !.allocs = IF Mode = "sync" THEN reconcileIPAM.allocs ELSE {}]
  /\ mgmt' = IF Mode = "sync" THEN reconcileIPAM.mgmt ELSE mgmt
  /\ lagged' = (lagged \/ cache # mgmt)
  /\ UNCHANGED <<edits, cache, fleet, faults, abandoned, proved>>

\* An error ends the pass; the queue starts another.  A call may also have
\* been carried out before it was reported as failed.
PassFails ==
  /\ pass # Idle /\ faults < MaxFaults
  /\ pass' = Idle /\ faults' = faults + 1
  /\ UNCHANGED <<users, fleet, history>>

\* The process restarts without any client.
Restart ==
  /\ faults < MaxFaults /\ faults' = faults + 1
  /\ clients' = {} /\ pass' = Idle
  /\ UNCHANGED <<users, kubeconfig, remote, history>>

\* Optimistic concurrency: the object is still the one that was listed.  The
\* resource version is abstracted to the content.
Current(o) == mgmt[o] = pass.copy
Next1 == [pass EXCEPT !.at = "sync", !.o = "none", !.copy = NoObj]

\* The copies of an intent in the clusters that are not looked at.
Elsewhere(o, looked) == {<<c, o>> : c \in {d \in Clusters \ looked : remote[d][o].managed}}

\* drainFinalizersForLostRemote, one object.
Drain(o) ==
  /\ pass.at = "drain" /\ o \in pass.todo
  /\ IF cache[o].deleting /\ cache[o].fin
     THEN IF mgmt[o] = cache[o]
          THEN /\ mgmt' = [mgmt EXCEPT ![o] = NoObj]
               /\ abandoned' = abandoned \cup Elsewhere(o, {})
               /\ pass' = [pass EXCEPT !.todo = @ \ {o}]
          ELSE pass' = Idle /\ UNCHANGED <<mgmt, abandoned>>
     ELSE pass' = [pass EXCEPT !.todo = @ \ {o}] /\ UNCHANGED <<mgmt, abandoned>>
  /\ UNCHANGED <<edits, cache, fleet, faults, proved, lagged>>

\* blockOnMultipleRemotes, one object: Ready becomes False; updateStatusWithRetry
\* fetches a newer version after a conflict.
Block(o) ==
  /\ pass.at = "block" /\ o \in pass.todo
  /\ mgmt' = IF mgmt[o] = NoObj \/ cache[o].deleting \/ cache[o] = NoObj THEN mgmt
             ELSE [mgmt EXCEPT ![o] = [mgmt[o] EXCEPT !.ready = FALSE, !.at = cache[o].gen]]
  /\ pass' = [pass EXCEPT !.todo = @ \ {o}]
  /\ UNCHANGED <<edits, cache, fleet, faults, history>>

\* syncObject takes an object from the list: deleted ones go remotely first.
Take(o) ==
  /\ pass.at = "sync" /\ o \in pass.todo
  /\ pass' = [pass EXCEPT !.todo = @ \ {o}, !.o = o, !.copy = cache[o],
                !.at = CASE cache[o] = NoObj -> "sync"
                         [] cache[o].deleting -> IF cache[o].fin THEN "delete" ELSE "sync"
                         [] OTHER -> IF cache[o].fin THEN "apply" ELSE "finalize"]
  /\ UNCHANGED <<users, fleet, faults, history>>

\* Mutant: the finalizer is released although the call failed.
releaseAnyway ==
  /\ pass.at = "delete"
  /\ UNCHANGED remote
  /\ pass' = [pass EXCEPT !.at = "release"]
  /\ UNCHANGED <<users, kubeconfig, clients, faults, history>>

\* Mutant: a copy that is not there is an error.
deleteMustFind ==
  /\ pass.at = "delete"
  /\ remote' = [remote EXCEPT ![pass.cl][pass.o] = NoCopy]
  /\ pass' = IF remote[pass.cl][pass.o] = NoCopy THEN Idle ELSE [pass EXCEPT !.at = "release"]
  /\ UNCHANGED <<users, kubeconfig, clients, faults, history>>

\* deleteRemote, by name.
DeleteRemote ==
  /\ pass.at = "delete"
  /\ remote' = [remote EXCEPT ![pass.cl][pass.o] = NoCopy]
  /\ pass' = [pass EXCEPT !.at = "release"]
  /\ UNCHANGED <<users, kubeconfig, clients, faults, history>>

ReleaseFinalizer ==
  /\ pass.at = "release"
  /\ IF Current(pass.o)
     THEN /\ mgmt' = [mgmt EXCEPT ![pass.o] = NoObj] /\ pass' = Next1
          /\ abandoned' = abandoned \cup Elsewhere(pass.o, {pass.cl})
     ELSE pass' = Idle /\ UNCHANGED <<mgmt, abandoned>>
  /\ UNCHANGED <<edits, cache, fleet, faults, proved, lagged>>

AddFinalizer ==
  /\ pass.at = "finalize"
  /\ IF Current(pass.o) /\ ~mgmt[pass.o].deleting
     THEN /\ mgmt' = [mgmt EXCEPT ![pass.o] = [mgmt[pass.o] EXCEPT !.fin = TRUE]]
          /\ pass' = [pass EXCEPT !.at = "apply", !.copy = mgmt'[pass.o]]
     ELSE pass' = Idle /\ UNCHANGED mgmt
  /\ UNCHANGED <<edits, cache, fleet, faults, history>>

\* Mutant: labels that the source lost stay.
mergeOnly(existing, desired, prev) == existing \cup desired

\* mergeAndPrune.
mergeAndPrune(existing, desired, prev) == (existing \ (prev \ desired)) \cup desired

\* inboundAddresses, outboundAddresses: the allocation of the pass, else the
\* status that was listed.
ipamAddresses(o) == o \in pass.allocs \/ pass.copy.addr

promoteIPAMAddresses(o) == o \in Counted /\ ipamAddresses(o)

buildRemoteObject(copy, addr) ==
  [ver |-> copy.ver, sgen |-> copy.gen, addr |-> addr, labels |-> Labels(copy.ver)]

\* overlayBody and reconcileManagedMetadata: the spec, the source generation
\* and the managed keys replace what was there; a changed spec is unobserved.
Overlay(old, new) ==
  [old EXCEPT !.ver = new.ver, !.managed = TRUE, !.addr = new.addr, !.sgen = new.sgen,
              !.labels = mergeAndPrune(@, new.labels, old.mine), !.mine = new.labels,
              !.observed = @ /\ <<new.ver, new.addr>> = <<old.ver, old.addr>>]

\* applyRemote: an object that is not ours is an error.
ApplyRemote ==
  /\ pass.at = "apply"
  /\ LET old == remote[pass.cl][pass.o]
     IN  IF old # NoCopy /\ ~old.managed
         THEN pass' = Idle /\ UNCHANGED <<remote, abandoned>>
         ELSE /\ abandoned' = abandoned \ {<<pass.cl, pass.o>>}
              /\ remote' = [remote EXCEPT ![pass.cl][pass.o] = 
                                Overlay(old, buildRemoteObject(pass.copy, promoteIPAMAddresses(pass.o)))]
              /\ pass' = [pass EXCEPT !.at = "status"]
  /\ UNCHANGED <<users, kubeconfig, clients, faults, proved, lagged>>

\* Mutant: the annotation decides, not what the workload observed.
caughtUpByAnnotation(r, gen) == r.sgen = gen

\* workloadCaughtUp.
workloadCaughtUp(r, gen) == r.sgen = gen /\ r.observed

\* A status about something older mirrors as not Ready.
desiredMirroredConditions(r, gen) == workloadCaughtUp(r, gen) /\ r.ready

\* syncObjectStatusBack: mirrors Ready with the generation of the listed copy;
\* updateStatusWithRetry moves on to a newer object after a conflict; its
\* finalizer keeps the object there.
StatusBack ==
  /\ pass.at = "status"
  /\ LET r == remote[pass.cl][pass.o]
         gen == pass.copy.gen
     IN  mgmt' = IF r = NoCopy THEN mgmt
                 ELSE [mgmt EXCEPT ![pass.o] = [mgmt[pass.o] EXCEPT !.ready = desiredMirroredConditions(r, gen), !.at = gen]]
  /\ pass' = Next1
  /\ UNCHANGED <<edits, cache, fleet, faults, history>>

\* syncBGPSecrets: copy the referenced Secret, sweep what nobody references.
SyncSecrets ==
  /\ pass.at = "sync" /\ pass.todo = {}
  /\ LET desired == \E p \in Peerings : cache[p] # NoObj /\ ~cache[p].deleting
         old == remote[pass.cl][Secret]
         src == mgmt[Secret]
     IN  remote' = [remote EXCEPT ![pass.cl][Secret] =
                      CASE desired /\ src # NoObj /\ (old = NoCopy \/ old.managed) -> Overlay(old, buildRemoteObject(src, FALSE))
                        [] ~desired /\ old.managed -> NoCopy
                        [] OTHER -> old]
  /\ pass' = Idle
  /\ UNCHANGED <<users, kubeconfig, clients, faults, history>>

EndPass ==
  /\ pass.at \in {"drain", "block"} /\ pass.todo = {}
  /\ pass' = Idle
  /\ UNCHANGED <<users, fleet, faults, history>>

Steps ==
  \/ StartPass \/ DeleteRemote \/ ReleaseFinalizer \/ AddFinalizer \/ ApplyRemote \/ StatusBack
  \/ SyncSecrets \/ EndPass \/ \E o \in Intents : Drain(o) \/ Block(o) \/ Take(o)

Next ==
  \/ Steps \/ PassFails \/ Restart
  \/ \E o \in Editable : Edit(o) \/ Delete(o) \/ CacheSync(o)
  \/ \E c \in Clusters : \/ ClusterChanges(c) \/ ReconcileCluster(c)
                         \/ \E o \in Intents : WorkloadReports(c, o) \/ WorkloadLabels(c, o)

\* Passes are requeued for ever and end, caches and clients follow, the
\* workload operator reports on what it is given.
Fairness ==
  /\ WF_vars(Steps)
  /\ \A o \in Names : WF_vars(CacheSync(o))
  /\ \A c \in Clusters : WF_vars(ReconcileCluster(c))

Spec == Init /\ [][Next]_vars /\ Fairness

-----------------------------------------------------------------------------
\* A managed copy belongs to an intent that is still there, or was abandoned:
\* its intent was released when there was no client for the copy's cluster.
\* Retries, restarts, stale caches, intents deleted and created again and
\* clusters that come and go leave nothing else behind.
NothingLeaks ==
  \A o \in Intents, c \in Clusters :
    remote[c][o].managed => mgmt[o] # NoObj \/ <<c, o>> \in abandoned

\* The comment on drainFinalizersForLostRemote: what is drained cannot leak,
\* because "the cluster it lived in no longer exists".
DrainedCannotLeak ==
  pass.at = "drain" => \A a \in abandoned : ~remote[a[1]][a[2]].managed

\* A management object is shown Ready for its own generation only when the
\* workload cluster reported Ready for exactly that content, whatever was
\* edited, recreated, retried or restarted in between.
ReadyIsCurrent ==
  \A o \in Intents : mgmt[o].ready /\ mgmt[o].at = mgmt[o].gen => mgmt[o].ver \in proved

\* Labels that others put on a copy stay; of its own the copy has exactly those
\* of the version it was made from.
LabelsKept ==
  \A c \in Clusters, o \in Names : remote[c][o].managed /\ remote'[c][o].managed =>
    /\ "x" \in remote[c][o].labels => "x" \in remote'[c][o].labels
    /\ remote'[c][o].labels \ {"x"} = Labels(remote'[c][o].ver)

\* Addresses that were promoted into a copy are not taken back to count mode,
\* as long as no pass started on an outdated cache.
AddressesKept ==
  \A c \in Clusters, o \in Counted : remote[c][o].addr /\ ~remote'[c][o].addr /\ remote'[c][o].managed =>
    lagged \/ ~mgmt[o].addr

\* A copy keeps the labels of others (sync_controller.go:940-970) and the
\* addresses that IPAM gave it (sync_controller.go:764-792).
CopiesKept == [][LabelsKept /\ AddressesKept]_vars

\* With one cluster that stays, every intent and the Secret a peering refers to
\* end up as their owners left them, and intents whose deletion was requested
\* go, here and there.
Reachable == clients = {Home} /\ kubeconfig[Home] = "ready"
Settled ==
  \A o \in Intents :
    /\ ~mgmt[o].deleting
    /\ mgmt[o] # NoObj => remote[Home][o].ver = mgmt[o].ver /\ (o \in Counted => remote[Home][o].addr)
    /\ o \in Peerings /\ mgmt[o] # NoObj /\ mgmt[Secret] # NoObj =>
         remote[Home][Secret].ver = mgmt[Secret].ver
SyncSettles == <>[]Reachable => <>[]Settled
=============================================================================
