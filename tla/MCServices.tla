----------------------------- MODULE MCServices -----------------------------
(***************************************************************************)
(* The services around the operator, one at a time: which selects the      *)
(* component and its instance, the others rest in an initial state.        *)
(***************************************************************************)
EXTENDS ClusterSync, NeighborSync

VARIABLES which, obj, pcache, env, envCache, crd, target, seen, queue, ppass, clean, wiped, moved

syncVars == <<mgmt, cache, kubeconfig, clients, remote, pass, history>>
platformVars == <<obj, pcache, env, envCache, crd, target, seen, queue, ppass, clean, wiped, moved>>
all == <<which, edits, faults, syncVars, platformVars, neighVars>>

(***************************************************************************)
(* network-sync: an Inbound with a count and two Clusters (the constants   *)
(* of ClusterSync); a BGPPeering and its Secret; a name that is already    *)
(* taken in the workload cluster.                                          *)
(***************************************************************************)
Peering == INSTANCE ClusterSync WITH
    Counted <- {}, Peerings <- {"i"}, Foreign <- {}, MaxEdits <- 3, MaxFaults <- 0
Taken == INSTANCE ClusterSync WITH
    Counted <- {}, Peerings <- {}, Foreign <- {"i"}, MaxEdits <- 2, MaxFaults <- 0

(***************************************************************************)
(* The platform controllers.                                               *)
(***************************************************************************)
Addr(ip, len, fam) == [ip |-> ip, len |-> len, fam |-> fam]
Unset == {Addr("<unset>", 0, "")}
OneAddress == {Addr("10.0.0.1", 32, "v4")}
DualStack == {Addr("10.0.0.1", 0, "v4"), Addr("fd00::1", 0, "v6")}
Rerolled == {Addr("10.0.0.2", 0, "v4")}
Sp(addrs, selects, pool, l2, dev) ==
    [addrs |-> addrs, selects |-> selects, pool |-> pool, l2 |-> l2, dev |-> dev]
Input(name, fam, len) == [name |-> name, fam |-> fam, len |-> len]
Key(ns, name) == [ns |-> ns, name |-> name]

Coil == INSTANCE Platform WITH cache <- pcache, pass <- ppass, Kind <- "Outbound",
    Objects <- {Key("n1", "a")},
    Specs <- {Sp(Unset, TRUE, "", FALSE, ""), Sp(OneAddress, FALSE, "", FALSE, "")},
    Addresses <- {DualStack, Rerolled}, Inputs <- {Input("p1", "", 0)}, Labelled <- {},
    MaxEdits <- 3, MaxFaults <- 1
PodNetwork == INSTANCE Platform WITH cache <- pcache, pass <- ppass, Kind <- "PodNetwork",
    Objects <- {Key("n1", "a")},
    Specs <- {Sp(Unset, FALSE, "", FALSE, "x")}, Addresses <- {},
    Inputs <- {Input("net", "v4", 28), Input("net", "v6", 64)}, Labelled <- {},
    MaxEdits <- 3, MaxFaults <- 1
MetalLB == INSTANCE Platform WITH cache <- pcache, pass <- ppass, Kind <- "Inbound",
    Objects <- {Key("n1", "a")},
    Specs <- {Sp(Unset, FALSE, "", TRUE, ""), Sp(OneAddress, FALSE, "p", FALSE, "")},
    Addresses <- {DualStack}, Inputs <- {}, Labelled <- {}, MaxEdits <- 3, MaxFaults <- 1
Interfaces == INSTANCE Platform WITH cache <- pcache, pass <- ppass, Kind <- "InterfaceConfig",
    Objects <- {Key("n1", "a")},
    Specs <- {Sp(Unset, FALSE, "", FALSE, "e"), Sp(Unset, TRUE, "", FALSE, "f")}, Addresses <- {},
    Inputs <- {Input("w1", "", 0), Input("w2", "", 0)}, Labelled <- {Input("w1", "", 0)},
    MaxEdits <- 3, MaxFaults <- 1

(***************************************************************************)
(* Neighbours: two nodes and one MAC; one node that sees an address move   *)
(* between two MACs while the other is silent (the constants of            *)
(* NeighborSync).                                                          *)
(***************************************************************************)
Fabric == INSTANCE NeighborSync WITH Macs <- {"m1"}, MaxLosses <- 0

platformRests == /\ obj = <<>> /\ pcache = <<>> /\ env = {} /\ envCache = {} /\ crd = FALSE
                 /\ target = {} /\ seen = {} /\ queue = {} /\ ppass = <<>> /\ clean = <<>>
                 /\ wiped = FALSE /\ moved = FALSE

MCInit ==
    /\ NeighInit
    /\ \/ which = "counted" /\ Init /\ platformRests
       \/ which = "peering" /\ Peering!Init /\ platformRests
       \/ which = "taken" /\ Taken!Init /\ platformRests
       \/ which = "coil" /\ Init /\ Coil!Init
       \/ which = "podnetwork" /\ Init /\ PodNetwork!Init
       \/ which = "metallb" /\ Init /\ MetalLB!Init
       \/ which = "interfaces" /\ Init /\ Interfaces!Init
       \/ which \in {"fabric", "bridge"} /\ Init /\ platformRests

MCNext ==
    /\ UNCHANGED which
    /\ \/ which = "counted" /\ Next /\ UNCHANGED <<platformVars, neighVars>>
       \/ which = "peering" /\ Peering!Next /\ UNCHANGED <<platformVars, neighVars>>
       \/ which = "taken" /\ Taken!Next /\ UNCHANGED <<platformVars, neighVars>>
       \/ which = "coil" /\ Coil!Next /\ UNCHANGED <<syncVars, neighVars>>
       \/ which = "podnetwork" /\ PodNetwork!Next /\ UNCHANGED <<syncVars, neighVars>>
       \/ which = "metallb" /\ MetalLB!Next /\ UNCHANGED <<syncVars, neighVars>>
       \/ which = "interfaces" /\ Interfaces!Next /\ UNCHANGED <<syncVars, neighVars>>
       \/ which = "fabric" /\ Fabric!NeighNext /\ UNCHANGED <<edits, faults, syncVars, platformVars>>
       \/ which = "bridge" /\ (Step("a") \/ World("a"))
          /\ UNCHANGED <<edits, faults, syncVars, platformVars>>

\* The fairness of network-sync and of the neighbour goroutines; only the
\* selected component moves.
syncing == which \in {"counted", "peering"}
SyncSteps == \/ which = "counted" /\ Steps
             \/ which = "peering" /\ Peering!Steps
MCFairness == /\ WF_vars(SyncSteps)
              /\ \A o \in Names : WF_vars(syncing /\ CacheSync(o))
              /\ \A c \in Clusters : WF_vars(syncing /\ ReconcileCluster(c))
              /\ Fabric!NeighFairness

MCSpec == MCInit /\ [][MCNext]_all /\ MCFairness

\* Copies settle on the last version once the workload cluster stays reachable.
CopiesSettle == <>[](syncing /\ Reachable) =>
                <>[]((which = "counted" => Settled) /\ (which = "peering" => Peering!Settled))

\* What the platform controllers derive is right once they are quiet.
TargetsRight == /\ which = "coil" => Coil!TargetsRight
                /\ which = "podnetwork" => PodNetwork!TargetsRight
                /\ which = "metallb" => MetalLB!TargetsRight
                /\ which = "interfaces" => Interfaces!TargetsRight

\* Nothing derived outlives its object, and no deletion is forgotten.
DeletionsClean == /\ which = "coil" => Coil!NothingOutlives /\ Coil!DeletionPending
                  /\ which = "podnetwork" => PodNetwork!NothingOutlives /\ PodNetwork!DeletionPending
                  /\ which = "metallb" => MetalLB!NothingOutlives /\ MetalLB!DeletionPending
                  /\ which = "interfaces" => Interfaces!NothingOutlives /\ Interfaces!DeletionPending

\* Announcements of one MAC die out.
FloodsEnd == <>[](which = "fabric" => Silent)
=============================================================================
