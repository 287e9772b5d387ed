------------------------------ MODULE Platform ------------------------------
(***************************************************************************)
(* The platform controllers (controllers/platform): CoilReconciler turns   *)
(* an Outbound into Calico IPPools, a Coil Egress and a NetworkPolicy,      *)
(* PodNetworkReconciler a PodNetwork into IPPools over its Network,         *)
(* MetalLBReconciler an Inbound into an IPAddressPool and an                *)
(* L2Advertisement, InterfaceConfigReconciler an InterfaceConfig into one   *)
(* NodeNetplanConfig per matching node.  The four share a skeleton: get     *)
(* the object from the cache, clean up and drop the finalizer when it is    *)
(* being deleted, wait for the CRDs, add the finalizer, write the derived   *)
(* objects one API call at a time.  An instance has objects of one Kind.    *)
(***************************************************************************)
EXTENDS Naturals, Sequences, FiniteSets

CONSTANTS Kind, Objects, Specs, Addresses, Inputs, Labelled, MaxEdits, MaxFaults

VARIABLES obj,      \* the objects: [there, deleting, fin, spec, status]
          cache,    \* the controller's cached copies of them
          env,      \* Destinations, Network families or Nodes the objects select
          envCache, \* the controller's cached copy of them
          crd,      \* whether the CRDs of the derived objects are registered
          target,   \* the derived objects
          seen,     \* the cached copy of them (NodeNetplanConfigs only)
          queue,    \* requests waiting for the worker
          pass,     \* the reconcile in progress
          edits, faults,
          clean,    \* history: what the last complete pass of an object worked on
          wiped,    \* history: the CRDs went away with what was derived
          moved     \* history: a pool was renamed, or a node left the selection
vars == <<obj, cache, env, envCache, crd, target, seen, queue, pass, edits,
          faults, clean, wiped, moved>>

Unset == {[ip |-> "<unset>", len |-> 0, fam |-> ""]}
NoSpec == [addrs |-> Unset, selects |-> FALSE, pool |-> "", l2 |-> FALSE, dev |-> ""]
NoStatus == [addrs |-> Unset, pools |-> {}]
Absent == [there |-> FALSE, deleting |-> FALSE, fin |-> FALSE, spec |-> NoSpec,
           status |-> NoStatus]
Nobody == [ns |-> "", name |-> ""]
Idle == [at |-> Nobody, steps |-> <<>>, copy |-> Absent, env |-> {}, todo |-> {},
         missed |-> FALSE]

(***************************************************************************)
(* What the reconcilers derive.                                            *)
(***************************************************************************)
managedLabels(o, by, fam) ==
    [by |-> by, name |-> o.name, ns |-> IF by = "podnetwork" THEN o.ns ELSE "", fam |-> fam]

\* owner is not part of the object: it remembers for whom it was written.
Derived(o, kind, key, label) ==
    [kind |-> kind, key |-> key, label |-> label, owner |-> o, addrs |-> {},
     pools |-> {}, dests |-> {}, block |-> 0]

ensureCIDR(a, defaultPrefix) == IF a.len = 0 THEN [a EXCEPT !.len = defaultPrefix] ELSE a

collectAddresses(c) == IF c.status.addrs # Unset THEN c.status.addrs ELSE c.spec.addrs

HostPrefix(fam) == IF fam = "v4" THEN 32 ELSE 128
CIDRs(c, fam) == {ensureCIDR(a, HostPrefix(fam)) : a \in {x \in collectAddresses(c) : x.fam = fam}}

calicoPoolName(o, fam, cidr) == <<o.name, fam, cidr.ip, cidr.len>>
CalicoPools(o, c, fam) ==
    {[Derived(o, "IPPool", calicoPoolName(o, fam, a), managedLabels(o, "outbound", fam))
        EXCEPT !.addrs = {a}, !.block = HostPrefix(fam)] : a \in CIDRs(c, fam)}

resolveDestinations(c, dests) == IF c.spec.selects THEN dests ELSE {}

CoilEgress(o, c, dests) ==
    [Derived(o, "Egress", <<o.ns, o.name>>, managedLabels(o, "outbound", ""))
        EXCEPT !.addrs = collectAddresses(c), !.dests = resolveDestinations(c, dests),
               !.pools = {t.key : t \in CalicoPools(o, c, "v4") \cup CalicoPools(o, c, "v6")}]

EgressNetworkPolicy(o, c, dests) ==
    [Derived(o, "NetworkPolicy", <<o.ns, o.name>>, managedLabels(o, "outbound", ""))
        EXCEPT !.dests = resolveDestinations(c, dests)]

podNetworkPoolName(o, net) == <<"pn", o.ns, o.name, net.fam, net.len>>
poolBlockSize(net) ==
    LET default == IF net.fam = "v4" THEN 26 ELSE 122
    IN  IF net.len > default THEN net.len ELSE default
PodNetworkPools(o, nets) ==
    {[Derived(o, "IPPool", podNetworkPoolName(o, n), managedLabels(o, "podnetwork", n.fam))
        EXCEPT !.addrs = {[ip |-> n.fam, len |-> n.len]}, !.block = poolBlockSize(n)] : n \in nets}

resolvePoolName(o, c) == IF c.spec.pool # "" THEN c.spec.pool ELSE o.name
newIPAddressPool(o, c) ==
    [Derived(o, "IPAddressPool", <<resolvePoolName(o, c)>>, managedLabels(o, "inbound", ""))
        EXCEPT !.addrs = CIDRs(c, "v4") \cup CIDRs(c, "v6")]
newL2Advertisement(o, c) ==
    [Derived(o, "L2Advertisement", <<resolvePoolName(o, c)>>, managedLabels(o, "inbound", ""))
        EXCEPT !.pools = {<<resolvePoolName(o, c)>>}]

NodeNetplanConfig(o, c, node) ==
    [Derived(o, "NodeNetplanConfig", <<node.name>>, managedLabels(o, "", ""))
        EXCEPT !.dests = {c.spec.dev}]

matchingNodes(c, nodes) == IF c.spec.selects THEN nodes \cap Labelled ELSE nodes

Same(s, t) == s.kind = t.kind /\ s.key = t.key
Upsert(ts) == {t \in target : \A s \in ts : ~Same(s, t)} \cup ts

(***************************************************************************)
(* The users, IPAM, the nodes and the API server around the controller.    *)
(***************************************************************************)
Init == /\ obj = [o \in Objects |-> Absent] /\ cache = obj
        /\ env \in SUBSET Inputs /\ envCache = env
        /\ crd \in BOOLEAN
        /\ target = {} /\ seen = {} /\ queue = {} /\ pass = Idle
        /\ edits = 0 /\ faults = 0
        /\ clean = [o \in Objects |-> [done |-> FALSE, env |-> {}]]
        /\ wiped = FALSE /\ moved = FALSE

controller == <<crd, target, seen, queue, pass, faults, clean, wiped>>

\* The edits after which something derived is no longer found again.
Leaves(old, new) == \/ old.pool # new.pool
                    \/ Kind = "InterfaceConfig" /\ old.selects # new.selects

Apply(o, spec) ==
    /\ edits < MaxEdits /\ ~obj[o].deleting /\ obj[o].spec # spec
    /\ obj' = [obj EXCEPT ![o] = [obj[o] EXCEPT !.there = TRUE, !.spec = spec]]
    /\ moved' = (moved \/ (obj[o].there /\ Leaves(obj[o].spec, spec)))
    /\ edits' = edits + 1
    /\ UNCHANGED <<cache, env, envCache, controller>>

\* The intent operator writes the allocation into the status.
Allocate(o, addrs) ==
    /\ edits < MaxEdits /\ obj[o].there /\ ~obj[o].deleting
    /\ obj[o].status.addrs # addrs
    /\ obj' = [obj EXCEPT ![o].status.addrs = addrs]
    /\ edits' = edits + 1
    /\ UNCHANGED <<cache, env, envCache, moved, controller>>

Delete(o) ==
    /\ edits < MaxEdits /\ obj[o].there /\ ~obj[o].deleting
    /\ obj' = [obj EXCEPT ![o] = IF obj[o].fin THEN [obj[o] EXCEPT !.deleting = TRUE] ELSE Absent]
    /\ edits' = edits + 1
    /\ UNCHANGED <<cache, env, envCache, moved, controller>>

InputChanges(i) ==
    /\ edits < MaxEdits
    /\ env' = IF i \in env THEN env \ {i} ELSE env \cup {i}
    /\ moved' = (moved \/ (Kind = "InterfaceConfig" /\ i \in env))
    /\ edits' = edits + 1
    /\ UNCHANGED <<obj, cache, envCache, controller>>

CacheSync(o) ==
    /\ cache[o] # obj[o]
    /\ cache' = [cache EXCEPT ![o] = obj[o]]
    /\ queue' = queue \cup {o}
    /\ UNCHANGED <<obj, env, envCache, crd, target, seen, pass, edits, faults, clean, wiped, moved>>

\* mapDestinationToOutbounds and mapNetworkToPodNetworks over the cached
\* objects.  A Node event asks for the InterfaceConfig named like the node.
requestsFor ==
    CASE Kind = "Outbound"   -> {o \in Objects : cache[o].there /\ cache[o].spec.selects}
      [] Kind = "PodNetwork" -> {o \in Objects : cache[o].there}
      [] OTHER               -> {o \in Objects : \E i \in env \cup envCache : i.name = o.name}

InputSync ==
    /\ envCache # env
    /\ envCache' = env
    /\ queue' = queue \cup requestsFor
    /\ UNCHANGED <<obj, cache, env, crd, target, seen, pass, edits, faults, clean, wiped, moved>>

SeenSync ==
    /\ Kind = "InterfaceConfig" /\ seen # target
    /\ seen' = target
    /\ UNCHANGED <<obj, cache, env, envCache, crd, target, queue, pass, edits, faults, clean, wiped, moved>>

CRDArrives ==
    /\ ~crd /\ crd' = TRUE
    /\ UNCHANGED <<obj, cache, env, envCache, target, seen, queue, pass, edits, faults, clean, wiped, moved>>

\* Uninstalling a CRD deletes its objects.
CRDGoes ==
    /\ crd /\ faults < MaxFaults
    /\ crd' = FALSE /\ faults' = faults + 1 /\ wiped' = TRUE
    /\ target' = {t \in target : t.kind \in {"NetworkPolicy", "NodeNetplanConfig"}}
    /\ pass' = IF pass = Idle THEN Idle ELSE [pass EXCEPT !.missed = TRUE]
    /\ UNCHANGED <<obj, cache, env, envCache, seen, queue, edits, clean, moved>>

Restart ==
    /\ faults < MaxFaults /\ faults' = faults + 1
    /\ cache' = obj /\ envCache' = env /\ seen' = target
    /\ queue' = {o \in Objects : obj[o].there} /\ pass' = Idle
    /\ UNCHANGED <<obj, env, crd, target, edits, clean, wiped, moved>>

(***************************************************************************)
(* The worker.  A request whose pass fails goes back to the queue.         *)
(***************************************************************************)
Steps(deleting) ==
    CASE Kind = "Outbound" /\ deleting   -> <<"deleteEgress", "deletePolicy", "deletePools", "release">>
      [] Kind = "Outbound" /\ ~deleting  -> <<"v4", "pruneV4", "v6", "pruneV6", "egress", "policy">>
      [] Kind = "PodNetwork" /\ deleting -> <<"deletePools", "release">>
      [] Kind = "PodNetwork" /\ ~deleting -> <<"pools", "prune", "status">>
      [] Kind = "Inbound" /\ deleting    -> <<"deletePool", "deleteAdvertisement", "release">>
      [] Kind = "Inbound" /\ ~deleting   -> <<"pool", "advertisement", "status">>
      [] OTHER -> IF deleting THEN <<"deleteConfigs", "release">> ELSE <<"configs">>

Running(step) == pass.steps # <<>> /\ Head(pass.steps) = step
api == <<cache, env, envCache, crd, seen, edits, faults, moved>>

\* The early returns of Reconcile: not found, deleted without our finalizer,
\* an Outbound that has no addresses yet.
NothingToDo(c) == ~c.there \/ (c.deleting /\ ~c.fin)
Deferred(c) == Kind = "Outbound" /\ ~c.deleting
               /\ (collectAddresses(c) = Unset \/ collectAddresses(c) = {})
ready(c) == c.deleting \/ Kind = "InterfaceConfig" \/ crd

\* Adding the finalizer is an Update of the cached copy, so it fails on a stale one.
StartPass(o) ==
    /\ o \in queue /\ pass = Idle
    /\ LET c == cache[o]
           adds == ~NothingToDo(c) /\ ~c.deleting /\ ~c.fin
           held == IF adds THEN [c EXCEPT !.fin = TRUE] ELSE c
       IN  /\ NothingToDo(c) \/ ready(c)
           /\ adds => c = obj[o]
           /\ obj' = IF adds THEN [obj EXCEPT ![o] = held] ELSE obj
           /\ queue' = queue \ {o}
           /\ pass' = IF NothingToDo(c) \/ Deferred(c) THEN Idle
                      ELSE [at |-> o, steps |-> Steps(c.deleting), copy |-> held,
                            env |-> envCache, todo |-> matchingNodes(c, envCache), missed |-> FALSE]
    /\ UNCHANGED <<api, target, clean, wiped>>

\* The next call of the pass, or its end.
Done == IF Len(pass.steps) > 1
        THEN /\ pass' = [pass EXCEPT !.steps = Tail(@)]
             /\ UNCHANGED <<clean, wiped>>
        ELSE /\ pass' = Idle
             /\ clean' = [clean EXCEPT ![pass.at] =
                    [done |-> ~pass.missed, env |-> pass.env]]
             /\ wiped' = (wiped /\ (pass.missed \/ pass.copy.deleting))

\* Mutant: a deletion that fails is not queued again.
dropped == /\ pass # Idle
           /\ \/ faults < MaxFaults /\ faults' = faults + 1
              \/ ~crd /\ UNCHANGED faults
           /\ pass' = Idle /\ queue' = IF pass.copy.deleting THEN queue ELSE queue \cup {pass.at}
           /\ UNCHANGED <<obj, cache, env, envCache, crd, target, seen, edits, clean, wiped, moved>>

Fail == /\ pass # Idle
        /\ \/ faults < MaxFaults /\ faults' = faults + 1
           \/ ~crd /\ UNCHANGED faults
        /\ pass' = Idle /\ queue' = queue \cup {pass.at}
        /\ UNCHANGED <<obj, cache, env, envCache, crd, target, seen, edits, clean, wiped, moved>>

Write(step, ts) == /\ Running(step) /\ target' = ts /\ Done
                   /\ UNCHANGED <<obj, api, queue>>

reconcileCalicoIPPools(fam) == crd /\ Write(fam, Upsert(CalicoPools(pass.at, pass.copy, fam)))

OwnedPools(o, fams) == {t \in target : t.kind = "IPPool" /\ t.label \in
    {managedLabels(o, IF Kind = "PodNetwork" THEN "podnetwork" ELSE "outbound", f) : f \in fams}}

pruneCalicoIPPools(fam) ==
    /\ crd
    /\ Write(IF fam = "v4" THEN "pruneV4" ELSE "pruneV6",
             target \ {t \in OwnedPools(pass.at, {fam}) :
                           \A s \in CalicoPools(pass.at, pass.copy, fam) : ~Same(s, t)})

upsertCoilEgress == crd /\ Write("egress", Upsert({CoilEgress(pass.at, pass.copy, pass.env)}))

upsertEgressNetworkPolicy == Write("policy", Upsert({EgressNetworkPolicy(pass.at, pass.copy, pass.env)}))

\* A pool that exists keeps its block size.
upsertPodNetworkPools ==
    /\ crd
    /\ Write("pools", Upsert({LET old == {s \in target : Same(s, t)}
                              IN  IF old = {} THEN t ELSE [t EXCEPT !.block = (CHOOSE s \in old : TRUE).block]
                              : t \in PodNetworkPools(pass.at, pass.env)}))

\* Mutant: only the families that the Network still has are looked at.
pruneCurrentFamilies ==
    /\ crd
    /\ Write("prune", target \ {t \in OwnedPools(pass.at, {i.fam : i \in pass.env}) :
                                    \A s \in PodNetworkPools(pass.at, pass.env) : ~Same(s, t)})

prunePodNetworkPools ==
    /\ crd
    /\ Write("prune", target \ {t \in OwnedPools(pass.at, {"v4", "v6"}) :
                                    \A s \in PodNetworkPools(pass.at, pass.env) : ~Same(s, t)})

\* Skipped when the copy of the pass already says so; the write is on a live read.
updateIPPoolStatus ==
    /\ Running("status") /\ Kind = "PodNetwork"
    /\ LET names == {t.key : t \in PodNetworkPools(pass.at, pass.env)}
       IN  obj' = IF pass.copy.status.pools = names THEN obj
                  ELSE [obj EXCEPT ![pass.at].status.pools = names]
    /\ Done
    /\ UNCHANGED <<api, target, queue>>

reconcilePool == crd /\ Write("pool", Upsert({newIPAddressPool(pass.at, pass.copy)}))

reconcileAdvertisement ==
    /\ crd
    /\ Write("advertisement",
             IF pass.copy.spec.l2 THEN Upsert({newL2Advertisement(pass.at, pass.copy)}) ELSE target)

\* The status goes out with the copy of the pass: a conflict fails the pass.
updatePoolName ==
    /\ Running("status") /\ Kind = "Inbound"
    /\ IF pass.copy = obj[pass.at]
       THEN /\ obj' = [obj EXCEPT ![pass.at].status.pools = {<<resolvePoolName(pass.at, pass.copy)>>}]
            /\ Done /\ UNCHANGED queue
       ELSE /\ pass' = Idle /\ queue' = queue \cup {pass.at}
            /\ UNCHANGED <<obj, clean, wiped>>
    /\ UNCHANGED <<api, target>>

\* One node: create what the cache does not show, update what it shows; a
\* create of an existing or an update of a changed object fails.  The error
\* is logged and the loop goes on.
reconcileNodeConfig(n) ==
    /\ Running("configs") /\ n \in pass.todo
    /\ LET t == NodeNetplanConfig(pass.at, pass.copy, n)
           read == {s \in seen : Same(s, t)}
           live == {s \in target : Same(s, t)}
       IN  /\ target' = IF read = live THEN Upsert({t}) ELSE target
           /\ pass' = [pass EXCEPT !.todo = @ \ {n}, !.missed = @ \/ read # live]
    /\ UNCHANGED <<obj, api, queue, clean, wiped>>

NodesDone ==
    /\ Running("configs") /\ pass.todo = {}
    /\ Done
    /\ UNCHANGED <<obj, api, target, queue>>

DeleteTargets(step, kinds, keys) == Write(step, {t \in target : ~(t.kind \in kinds /\ t.key \in keys)})

deleteEgress == crd /\ DeleteTargets("deleteEgress", {"Egress"}, {<<pass.at.ns, pass.at.name>>})
deletePolicy == DeleteTargets("deletePolicy", {"NetworkPolicy"}, {<<pass.at.ns, pass.at.name>>})
deletePools == /\ crd \/ Kind = "PodNetwork"
               /\ Write("deletePools", target \ OwnedPools(pass.at, {"v4", "v6"}))
deletePool == crd /\ DeleteTargets("deletePool", {"IPAddressPool"}, {<<resolvePoolName(pass.at, pass.copy)>>})
deleteAdvertisement ==
    crd /\ DeleteTargets("deleteAdvertisement", {"L2Advertisement"}, {<<resolvePoolName(pass.at, pass.copy)>>})
deleteConfigs == DeleteTargets("deleteConfigs", {"NodeNetplanConfig"}, {<<n.name>> : n \in pass.todo})

\* Removing the finalizer is an Update of the copy; the object goes with it.
release ==
    /\ Running("release")
    /\ IF pass.copy = obj[pass.at]
       THEN /\ obj' = [obj EXCEPT ![pass.at] = Absent] /\ Done /\ UNCHANGED queue
       ELSE /\ pass' = Idle /\ queue' = queue \cup {pass.at}
            /\ UNCHANGED <<obj, clean, wiped>>
    /\ UNCHANGED <<api, target>>

Call == \/ \E fam \in {"v4", "v6"} : reconcileCalicoIPPools(fam) \/ pruneCalicoIPPools(fam)
        \/ upsertCoilEgress \/ upsertEgressNetworkPolicy
        \/ upsertPodNetworkPools \/ prunePodNetworkPools \/ updateIPPoolStatus
        \/ reconcilePool \/ reconcileAdvertisement \/ updatePoolName
        \/ \E n \in Inputs : reconcileNodeConfig(n)
        \/ NodesDone
        \/ deleteEgress \/ deletePolicy \/ deletePools
        \/ deletePool \/ deleteAdvertisement \/ deleteConfigs \/ release

World == \/ \E o \in Objects : \/ \E spec \in Specs : Apply(o, spec)
                               \/ \E addrs \in Addresses : Allocate(o, addrs)
                               \/ Delete(o)
         \/ \E i \in Inputs : InputChanges(i)
         \/ CRDGoes \/ Restart \/ Fail

Next == \/ World \/ Call \/ CRDArrives \/ InputSync \/ SeenSync
        \/ \E o \in Objects : CacheSync(o) \/ StartPass(o)

Spec == Init /\ [][Next]_vars

(***************************************************************************)
(* Properties.                                                             *)
(***************************************************************************)
Quiet(o) == /\ obj[o].there /\ ~obj[o].deleting /\ cache[o] = obj[o] /\ envCache = env
            /\ o \notin queue /\ pass.at # o /\ ~wiped

Desired(o) ==
    CASE Kind = "Outbound"   -> CalicoPools(o, obj[o], "v4") \cup CalicoPools(o, obj[o], "v6")
                                \cup {CoilEgress(o, obj[o], env), EgressNetworkPolicy(o, obj[o], env)}
      [] Kind = "PodNetwork" -> PodNetworkPools(o, env)
      [] Kind = "Inbound"    -> {newIPAddressPool(o, obj[o])}
                                \cup (IF obj[o].spec.l2 THEN {newL2Advertisement(o, obj[o])} ELSE {})
      [] OTHER               -> IF clean[o].done
                                THEN {NodeNetplanConfig(o, obj[o], n) : n \in matchingNodes(obj[o], clean[o].env)}
                                ELSE {}

\* Once every event is handled, what a live object asks for is there and
\* current; Outbounds and PodNetworks own nothing else.  Holds across
\* conflicts, failed passes, restarts and inputs that change under a pass
\* (coil_controller.go:86-159, podnetwork_controller.go:85-147,
\* metallb_controller.go:59-94, interfaceconfig_controller.go:60-94).  An
\* InterfaceConfig is only held to the nodes of a pass without swallowed errors.
TargetsRight ==
    \A o \in Objects : Quiet(o) /\ ~Deferred(obj[o]) =>
        /\ Desired(o) \subseteq target
        /\ Kind \in {"Outbound", "PodNetwork"} => {t \in target : t.owner = o} = Desired(o)
        /\ Kind = "PodNetwork" => obj[o].status.pools = {t.key : t \in Desired(o)}

\* An object leaves the API only after everything derived from it: the
\* finalizer goes on before the first derived object is written and off
\* after the last is deleted (coil_controller.go:506-554).  A renamed
\* MetalLB pool and the configuration of a deselected node are left behind.
NothingOutlives ==
    \A o \in Objects : ~obj[o].there /\ ~moved => \A t \in target : t.owner # o

\* A pool is taken away only by the object it was made for: "deletes IPPools
\* owned by this Outbound" (coil_controller.go:281).
PrunesOwn ==
    [][\A t \in target \ target' : pass # Idle => t.owner = pass.at]_vars

\* No deletion is forgotten: while an object is being deleted, the event, the
\* request or the pass that will finish its cleanup exists, whatever
\* conflicts, failures and restarts the cleanup meets (coil_controller.go:506,
\* podnetwork_controller.go:330, metallb_controller.go:234).
DeletionPending ==
    \A o \in Objects : obj[o].deleting => cache[o] # obj[o] \/ o \in queue \/ pass.at = o
=============================================================================
