------------------------------ MODULE MCAgents ------------------------------
(***************************************************************************)
(* The parts of the node agents, each for itself.  "debounce": the         *)
(* Debouncer with two callers, and two goroutine identities so that a      *)
(* second one could be spawned if the code allowed it.  The VSR router has *)
(* "wire", a few configurations over connections that break and beside a   *)
(* metrics handler, and "text", many configurations, one at a time and     *)
(* undisturbed.  "links" is the FRR router without its VRFs; "hbn" and     *)
(* "netplan" are the two agents for the interfaces of the host.            *)
(***************************************************************************)
EXTENDS Debounce, Sequences, MCLinkConfigs

Names == <<"blue", "cluster", "green", "mgmt", "purple", "red">>
Nets == {[fam |-> "ipv4", net |-> n] : n \in {"default", "link-local", "base", "other"}}
          \union {[fam |-> "ipv6", net |-> n] : n \in {"default", "link-local"}}
ExportCIDRs == <<[fam |-> "ipv4", net |-> "base"]>>

NoConf == [vni |-> "-1", peers |-> <<>>, imports |-> <<>>, connected |-> {}, static |-> {},
           export |-> {}, routes |-> <<>>, policy |-> <<>>, mirrors |-> <<>>,
           gres |-> <<>>, loopbacks |-> <<>>]
VRFsOnly(vs) == [vrfs |-> [v \in vs |-> [NoConf EXCEPT !.vni = v]], cluster |-> {NoConf},
                 layer2s |-> <<>>]
FewConfigs == {VRFsOnly(vs) : vs \in {{"red"}, {"green"}, {"blue", "red"}, {"blue", "green", "red"}}}

Item(prefix, community, action, add) ==
    [prefix |-> prefix, community |-> community, action |-> action, add |-> add]
Other == [fam |-> "ipv4", net |-> "other"]
Default6 == [fam |-> "ipv6", net |-> "default"]
Filters ==
    {[items |-> items, default |-> d] : d \in {"accept", "reject"}, items \in
        {<<>>, <<Item({Other}, {}, "reject", {}), Item({}, {}, "accept", {"c"})>>,
         <<Item({Other}, {"c"}, "accept", {"c"}), Item({Default6}, {}, "reject", {})>>,
         <<Item({}, {"65169:200"}, "reject", {})>>}}
Peer(key, in, out) ==
    [key |-> key, filters |-> [d \in {"ipv4", "ipv6"} \X {"in", "out"} |->
        IF d = <<"ipv4", "in">> THEN in ELSE IF d = <<"ipv6", "out">> THEN out ELSE {}]]
L2(vlan, vni, in, gateway, mac) ==
    [vlan |-> vlan, vni |-> vni, vrf |-> in, gateway |-> gateway, mac |-> mac,
     routeTarget |-> gateway,
     mirrors |-> <<[direction |-> "ingress", to |-> "gre1", match |-> vlan],
                   [direction |-> "ingress", to |-> "gre1", match |-> "all"]>>]
Acl == [direction |-> "egress", to |-> "gre1", match |-> "all"]
Route == [dest |-> Other, address |-> {"10.0.0.1"}, vrf |-> {}]

RedWith(f, g) ==
    [NoConf EXCEPT !.vni = "100", !.peers = <<Peer("p1", {f}, {g})>>, !.export = {g},
                   !.imports = <<[from |-> "cluster", filter |-> f]>>, !.static = {f},
                   !.mirrors = <<Acl>>, !.loopbacks = <<<<"lo.red">>>>,
                   !.gres = <<[name |-> <<"gre1">>, layer |-> "gretap"]>>]
LocalWith(f, peer) ==
    [NoConf EXCEPT !.connected = {f}, !.mirrors = <<Acl>>, !.routes = <<Route>>,
                   !.imports = <<[from |-> "red", filter |-> f]>>, !.peers = peer]
ClusterWith(f, hop) ==
    [NoConf EXCEPT !.imports = <<[from |-> "blue", filter |-> f], [from |-> "red", filter |-> f]>>,
                   !.routes = <<[Route EXCEPT !.vrf = {"red"}]>>,
                   !.policy = <<[prefix |-> {Other}, vrf |-> hop]>>]
SomeL2s == {<<>>, <<L2("10", "200", {"red"}, TRUE, TRUE), L2("11", "201", {}, FALSE, FALSE)>>,
            <<L2("10", "200", {"green"}, TRUE, TRUE)>>, <<L2("10", "200", {}, TRUE, TRUE)>>}
ManyConfigs ==
    {[vrfs |-> ("red" :> RedWith(f, g)) @@ ("blue" :> LocalWith(g, peer)),
      cluster |-> {ClusterWith(f, hop)}, layer2s |-> l2s] :
        f \in Filters, g \in Filters, l2s \in SomeL2s, hop \in {{}, {"blue"}, {"green"}},
        peer \in {<<>>, <<Peer("p1", {}, {[items |-> <<>>, default |-> "accept"]})>>}}
    \union {VRFsOnly({"purple"})}

-----------------------------------------------------------------------------
VARIABLES which, session, proc, stage, want, made, running, candidate, device, vsrAnswer, lost,
          excuse, applies, vsrFaults, kernel, cfg, step, todo, frrAnswer, mirrored, kept, hurt,
          frrExcuse, requests, frrFaults, hbnDesired, links, bridged, hbnStage, hbnTodo, hbnReady,
          hbnTaints, hbnHurt, hbnExcuse, hbnPasses, hbnFaults, desired, etc, host, netStep, fetched,
          object, initial, total, ready, taints, outcome, half, netExcuse, passes, netFaults

vsr == <<session, proc, stage, want, made, running, candidate, device, vsrAnswer, lost,
         excuse, applies, vsrFaults>>
frr == <<kernel, cfg, step, todo, frrAnswer, mirrored, kept, hurt, frrExcuse, requests, frrFaults>>
hbn == <<hbnDesired, links, bridged, hbnStage, hbnTodo, hbnReady, hbnTaints, hbnHurt, hbnExcuse,
         hbnPasses, hbnFaults>>
netplan == <<desired, etc, host, netStep, fetched, object, initial, total, ready, taints, outcome,
             half, netExcuse, passes, netFaults>>

Wire == INSTANCE VsrApply WITH
    Cluster <- "cluster", Mgmt <- "mgmt", TooLong <- {}, TableStart <- 50, TableEnd <- 52,
    Configs <- FewConfigs, Scrapers <- {"scrape"}, MaxApplies <- 2, MaxFaults <- 2,
    answer <- vsrAnswer, faults <- vsrFaults
Text == INSTANCE VsrApply WITH
    Cluster <- "cluster", Mgmt <- "mgmt", TooLong <- {"purple"}, TableStart <- 50, TableEnd <- 80,
    Configs <- ManyConfigs, Scrapers <- {}, MaxApplies <- 1, MaxFaults <- 0,
    answer <- vsrAnswer, faults <- vsrFaults

Links == INSTANCE NodeLinks WITH
    Mgmt <- "mgmt", VLANs <- {"10", "20"}, VNIs <- {"100", "200"}, VRFs <- {"red", "blue"},
    L3VNIs <- {"1", "2"}, Tables <- {50, 51}, Loopbacks <- {"lo", "lo2"}, Tunnels <- {"gre"},
    MirrorPriorities <- 6, Configs <- LinkConfigs, MaxApplies <- 3, MaxFaults <- 1,
    stage <- step, answer <- frrAnswer, excuse <- frrExcuse, applies <- requests, faults <- frrFaults

Hbn == INSTANCE HbnL2 WITH
    Names <- {"lan", "wan", "vlan10", "lo1"}, States <- HostStates, MaxPasses <- 3, MaxFaults <- 1,
    desired <- hbnDesired, kernel <- links, stage <- hbnStage, todo <- hbnTodo, ready <- hbnReady,
    taints <- hbnTaints, hurt <- hbnHurt, excuse <- hbnExcuse, passes <- hbnPasses, faults <- hbnFaults

Netplan == INSTANCE NetplanApply WITH
    States <- NetplanStates, MaxPasses <- 3, MaxFaults <- 1,
    step <- netStep, cfg <- fetched, excuse <- netExcuse, faults <- netFaults

NoHbn ==
    /\ hbnDesired = {} /\ links = {} /\ bridged = FALSE
    /\ hbnStage = "idle" /\ hbnTodo = {} /\ hbnReady = "none" /\ hbnTaints = TRUE
    /\ hbnHurt = {} /\ hbnExcuse = {} /\ hbnPasses = 0 /\ hbnFaults = 0

AgentInit ==
    /\ Init /\ Links!Init
    /\ which \in {"debounce", "wire", "text", "links", "hbn", "netplan"}
    /\ IF which = "text" THEN Text!Init ELSE Wire!Init
    /\ IF which = "hbn" THEN Hbn!Init ELSE NoHbn
    /\ Netplan!Init /\ (which # "netplan" => desired = {Ethernet, Device("vlan", "v", "1", {"e"})})

\* All configurations have been answered, or all passes made.
AllRead ==
    /\ \/ which = "text" /\ vsrAnswer # "none"
       \/ which = "links" /\ step = "idle" /\ requests = 3
    /\ UNCHANGED <<vars, vsr, frr, hbn, netplan>>

AgentNext ==
    /\ \/ which = "debounce" /\ Next /\ UNCHANGED <<vsr, frr, hbn, netplan>>
       \/ which = "wire" /\ Wire!Next /\ UNCHANGED <<vars, frr, hbn, netplan>>
       \/ which = "text" /\ Text!Next /\ UNCHANGED <<vars, frr, hbn, netplan>>
       \/ which = "links" /\ Links!Next /\ UNCHANGED <<vars, vsr, hbn, netplan>>
       \/ which = "hbn" /\ Hbn!Next /\ UNCHANGED <<vars, vsr, frr, netplan>>
       \/ which = "netplan" /\ Netplan!Next /\ UNCHANGED <<vars, vsr, frr, hbn>>
       \/ AllRead
    /\ UNCHANGED which

\* RequeueSpec of the Debouncer, while it is the one that runs.
AgentSpec ==
    /\ AgentInit /\ [][AgentNext]_<<which, vars, vsr, frr, hbn, netplan>>
    /\ \A c \in Callers : /\ WF_vars(which = "debounce" /\ DebounceStore(c))
                          /\ WF_vars(which = "debounce" /\ DebounceCAS(c))
    /\ \A g \in Goroutines : /\ WF_vars(which = "debounce" /\ RoutineStep(g))
                             /\ SF_vars(which = "debounce" /\ ~stopped /\ FunctionSucceeds(g))

-----------------------------------------------------------------------------
\* What ApplyConfiguration of the VSR agent reports as applied is what the router
\* runs, and means what the node configuration says.
VsrMeansConfigured ==
    /\ which = "wire" => Wire!AppliedMeansConfigured
    /\ which = "text" => Text!AppliedMeansConfigured

\* What the FRR router answers with 200 is what the kernel has: Layer2 networks,
\* rules for policy routes and mirrored traffic, whatever failed before.  When an
\* agent of the host goes on to the health checks, the interfaces of the desired
\* state are there, as far as it looks at them.
LinksMeanConfigured ==
    /\ which = "links" => Links!LinksAsConfigured
    /\ which = "hbn" => Hbn!HostAsConfigured
    /\ which = "netplan" => Netplan!NetplanAsConfigured

\* ApplyConfiguration of the VSR agent fails only for a cause that Send cannot make
\* up for; a request to the FRR router fails only for a call that fails, for what
\* its configuration says, or for what an earlier failure has left, and so does a
\* pass of an agent of the host.
AppliesFailForCause ==
    /\ which = "wire" => Wire!ApplyFailsForCause
    /\ which = "text" => Text!ApplyFailsForCause
    /\ which = "links" => Links!LinksFailForCause
    /\ which = "hbn" => Hbn!HostFailsForCause
    /\ which = "netplan" => Netplan!NetplanFailsForCause

\* A VRF that stays on the VSR router keeps its routing table.
VsrKeepsTables == [][which = "wire" => Wire!TableKept]_vsr
=============================================================================
