------------------------------ MODULE NodeLinks ------------------------------
(***************************************************************************)
(* What cmd/frr-cra does to the links of a node besides its VRFs: the      *)
(* Layer2 networks, the policy rules and the mirrors, as applyConfig goes  *)
(* through them.  CraApply has the VRFs, which are one step here.          *)
(*                                                                         *)
(* The handler holds applyMu, and a netlink call may fail: a procedure of  *)
(* pkg/nl is the sequence of changes that its calls make, and it stops     *)
(* after any of them.                                                      *)
(***************************************************************************)
EXTENDS MirrorRules, SequencesExt

CONSTANTS
    VLANs, VNIs,        \* of Layer2 networks
    VRFs, L3VNIs,       \* of fabric VRFs
    Mgmt,               \* the management VRF
    Tables,             \* routing tables for VRFs
    Loopbacks, Tunnels, \* interface names
    Configs,            \* the node configurations that may be applied
    MaxApplies,         \* bound: requests
    MaxFaults           \* bound: requests in which a call fails

VARIABLES
    kernel,    \* the links, filters and rules of the node
    cfg,       \* the configuration that is applied
    stage, todo,  \* where applyConfig is, and what it has left to do there
    answer,    \* of the last request: "none", "ok", "error"
    mirrored,  \* ReconcileMirror returned no error
    kept,      \* stale rules that could not be deleted in this request
    hurt,      \* links that a failed procedure has left down or loose
    excuse,    \* why this request may fail
    applies, faults  \* counters behind MaxApplies and MaxFaults

control == <<cfg, stage, todo>>
history == <<answer, mirrored, kept, hurt, excuse, applies, faults>>
vars == <<kernel, control, history>>

NoLink == [absent |-> TRUE]
EmptyConfig == [l2s |-> <<>>, vrfs |-> <<>>, routes |-> {}]
VLANPort(v) == <<"vlan", v>>
VXLANPort(n) == <<"vx", n>>
Ports == {VLANPort(v) : v \in VLANs} \union {VXLANPort(n) : n \in VNIs \union L3VNIs}
Forwarding == [forwarding |-> TRUE]   \* the filter of neighborsync on an access port

Init ==
    /\ kernel = [vrfs |-> [v \in VRFs |-> NoLink],
                 bridges |-> [v \in VLANs |-> NoLink],
                 vxlans |-> [n \in VNIs |-> NoLink],
                 vlans |-> [v \in VLANs |-> NoLink],
                 loopbacks |-> [l \in Loopbacks |-> NoLink],
                 tunnels |-> [t \in Tunnels |-> NoLink],
                 filters |-> [p \in Ports |-> {}],
                 rules |-> {}]
    /\ cfg = EmptyConfig /\ stage = "idle" /\ todo = {}
    /\ answer = "none" /\ mirrored = FALSE
    /\ kept = {} /\ hurt = {} /\ excuse = {}
    /\ applies = 0 /\ faults = 0

-----------------------------------------------------------------------------
(* What the agent makes of a node configuration.                           *)

convertLayer2(l2) ==
    [vni |-> l2.vni, mtu |-> l2.mtu, segmentation |-> l2.segmentation,
     mac |-> IF l2.irb = {} THEN "" ELSE (CHOOSE i \in l2.irb : TRUE).mac,
     vrf |-> IF l2.irb = {} THEN None ELSE (CHOOSE i \in l2.irb : TRUE).vrf,
     ips |-> UNION {i.ips : i \in l2.irb}]

Converted(c) == DOMAIN c.vrfs \ {Mgmt}
WantedL2(c, v) == convertLayer2(c.l2s[v])

\* appendMirrorVRFConfig
WantedLoopbacks(c) ==
    UNION {{[name |-> l, vrf |-> v, addrs |-> c.vrfs[v].loopbacks[l]]
              : l \in DOMAIN c.vrfs[v].loopbacks} : v \in Converted(c)}
WantedTunnels(c) ==
    UNION {{[name |-> t, vrf |-> v, ends |-> c.vrfs[v].gres[t].ends, lo |-> c.vrfs[v].gres[t].lo]
              : t \in DOMAIN c.vrfs[v].gres} : v \in Converted(c)}
WantedMirrors(c) ==
    LET l2s == [p \in {VLANPort(v) : v \in DOMAIN c.l2s} |->
                   [i \in DOMAIN c.l2s[p[2]].acls |-> convertMirrorACL(c.l2s[p[2]].acls[i], TRUE)]]
        vrfOf(n) == CHOOSE v \in Converted(c) : c.vrfs[v].vni = n
        l3s == [p \in {VXLANPort(c.vrfs[v].vni) : v \in Converted(c)} |->
                   [i \in DOMAIN c.vrfs[vrfOf(p[2])].acls |->
                       convertMirrorACL(c.vrfs[vrfOf(p[2])].acls[i], FALSE)]]
        all == [p \in DOMAIN l2s \union DOMAIN l3s |-> IF p[1] = "vlan" THEN l2s[p] ELSE l3s[p]]
    IN  [p \in {q \in DOMAIN all : all[q] # <<>>} |-> all[p]]

convertPolicyRoutes(c) == {r \in c.routes : r.vrf # None}

-----------------------------------------------------------------------------
(* Netlink: a change sets one link, or deletes it, with what hangs on it.  *)

Set(table, name, value) == <<table, name, value>>
Delete(table, name) == <<table, name, NoLink>>

Detached(k, c) ==
    CASE c[1] = "bridges" ->
             [k EXCEPT !.vxlans = [n \in VNIs |-> IF k.vxlans[n] # NoLink /\ k.vxlans[n].on = c[2]
                                                  THEN [k.vxlans[n] EXCEPT !.on = None] ELSE k.vxlans[n]],
                       !.vlans[c[2]] = IF @ # NoLink THEN [@ EXCEPT !.attached = FALSE] ELSE @]
      [] c[1] = "vxlans" -> [k EXCEPT !.filters[VXLANPort(c[2])] = {}]
      [] c[1] = "vlans" -> [k EXCEPT !.filters[VLANPort(c[2])] = {}]
      [] c[1] = "loopbacks" ->
             [k EXCEPT !.tunnels = [t \in Tunnels |-> IF k.tunnels[t] # NoLink /\ k.tunnels[t].lo = c[2]
                                                      THEN [k.tunnels[t] EXCEPT !.lo = None] ELSE k.tunnels[t]]]
      [] c[1] = "tunnels" ->
             [k EXCEPT !.filters = [p \in Ports |->
                           {IF f # Forwarding /\ f.to = c[2] THEN [f EXCEPT !.to = None] ELSE f : f \in k.filters[p]}]]

Do(k, c) ==
    IF c[1] # "filters" /\ c[3] = NoLink THEN [Detached(k, c) EXCEPT ![c[1]][c[2]] = NoLink]
    ELSE [k EXCEPT ![c[1]][c[2]] = c[3]]

\* A procedure: its changes, and whether it can then go on.
Procedure(changes, ok) == [changes |-> changes, ok |-> ok]
After(n, p) == FoldLeft(Do, kernel, SubSeq(p.changes, 1, n))

\* The VXLAN interface and the access port in the bridge of a VLAN, as ListL2 finds them.
VXLANOf(k, v) == {n \in VNIs : k.vxlans[n] # NoLink /\ k.vxlans[n].on = v}
VLANOf(k, v) == {u \in {v} : k.vlans[v] # NoLink /\ k.vlans[v].attached}

-----------------------------------------------------------------------------
(* Layer2.                                                                 *)

VRFsToDelete(c) ==
    {v \in VRFs : /\ kernel.vrfs[v] # NoLink
                  /\ v \notin Converted(c) \/ c.vrfs[v].vni # kernel.vrfs[v].vni}

VRFExists(v) == v \notin VRFs \/ kernel.vrfs[v] # NoLink

\* What CleanupL2 deletes; it goes on after an error.
CleanupL2(v) ==
    SetToSeq({Delete("vxlans", n) : n \in VXLANOf(kernel, v)}) \o <<Delete("bridges", v)>>
    \o SetToSeq({Delete("vlans", u) : u \in VLANOf(kernel, v)})

createVXLAN(v, d) ==
    LET x == [on |-> v, up |-> FALSE, learning |-> TRUE, suppressing |-> FALSE, mtu |-> d.mtu]
    IN  <<Set("vxlans", d.vni, x),
          Set("vxlans", d.vni, [x EXCEPT !.learning = FALSE]),
          Set("vxlans", d.vni, [x EXCEPT !.learning = FALSE, !.suppressing = d.ips # {}]),
          Set("vxlans", d.vni, [x EXCEPT !.learning = FALSE, !.suppressing = d.ips # {}, !.up = TRUE])>>

createVLAN(v, d) ==
    LET w == [attached |-> TRUE, up |-> FALSE, mtu |-> d.mtu, segmentation |-> TRUE]
    IN  <<Set("vlans", v, w), Set("vlans", v, [w EXCEPT !.up = TRUE]),
          Set("vlans", v, [w EXCEPT !.up = TRUE, !.segmentation = d.segmentation])>>

setupBridge(v, d) ==
    LET b == [vrf |-> d.vrf, mac |-> d.mac, mtu |-> d.mtu, ips |-> {}, vni |-> d.vni]
    IN  <<Set("bridges", v, b), Set("bridges", v, [b EXCEPT !.ips = d.ips])>>

\* An interface of that name that is there already is an error.
CreateL2(v, d) ==
    CASE ~VRFExists(d.vrf) \/ d.mac = "" -> Procedure(<<>>, FALSE)
      [] OTHER ->
         IF kernel.vxlans[d.vni] # NoLink THEN Procedure(setupBridge(v, d), FALSE)
         ELSE IF kernel.vlans[v] # NoLink
              THEN Procedure(setupBridge(v, d) \o createVXLAN(v, d), FALSE)
              ELSE Procedure(setupBridge(v, d) \o createVXLAN(v, d) \o createVLAN(v, d), TRUE)

\* setHardwareAddresses: with the VXLAN interface down; no address does not parse.
setHardwareAddresses(v, n, b, x, d) ==
    CASE d.mac = b.mac -> <<>>
      [] d.mac # b.mac /\ d.mac = "" -> <<Set("vxlans", n, [x EXCEPT !.up = FALSE])>>
      [] OTHER -> <<Set("vxlans", n, [x EXCEPT !.up = FALSE]),
                    Set("bridges", v, [b EXCEPT !.mac = d.mac]),
                    Set("vxlans", n, [x EXCEPT !.up = TRUE])>>

\* A port that joins a bridge learns until it is told not to.
reattachL2VNI(v, n, x) ==
    LET down == [x EXCEPT !.up = FALSE]
    IN  <<Set("vxlans", n, down), Set("vxlans", n, [down EXCEPT !.on = None]),
          Set("vxlans", n, [down EXCEPT !.learning = TRUE]),
          Set("vxlans", n, [down EXCEPT !.learning = FALSE]),
          Set("vxlans", n, [x EXCEPT !.learning = FALSE, !.up = TRUE])>>

isL2VNIreattachRequired(b, x, d) == b.vrf # d.vrf \/ x.learning

reconcileIPAddresses(v, b, d) ==
    <<Set("bridges", v, [b EXCEPT !.ips = b.ips \union d.ips]), Set("bridges", v, [b EXCEPT !.ips = d.ips])>>

\* The links are dereferenced without a look whether ListL2 has found them.
ReconcileL2(v, d) ==
    LET b0 == kernel.bridges[v]
        b == [b0 EXCEPT !.mtu = d.mtu]
        bMac == [b EXCEPT !.mac = d.mac]
        bVRF == [bMac EXCEPT !.vrf = d.vrf]
        n == CHOOSE m \in VXLANOf(kernel, v) : TRUE
        x == [kernel.vxlans[n] EXCEPT !.mtu = d.mtu]
        xMac == IF d.mac = b.mac THEN x ELSE [x EXCEPT !.up = TRUE]
        again == isL2VNIreattachRequired(b, x, d)
        xOn == IF again THEN [xMac EXCEPT !.learning = FALSE, !.up = TRUE] ELSE xMac
        w == [kernel.vlans[v] EXCEPT !.mtu = d.mtu]
        mtu == <<Set("bridges", v, b), Set("vxlans", n, x), Set("vlans", v, w)>>
        mac == mtu \o setHardwareAddresses(v, n, b, x, d)
    IN  IF VXLANOf(kernel, v) = {} THEN Procedure(<<Set("bridges", v, b)>>, FALSE)
        ELSE IF VLANOf(kernel, v) = {} THEN Procedure(SubSeq(mtu, 1, 2), FALSE)
        ELSE IF d.mac = "" \/ (d.vrf # b.vrf /\ ~VRFExists(d.vrf)) THEN Procedure(mac, FALSE)
        ELSE Procedure(
                 mac \o <<Set("bridges", v, bVRF)>>
                 \o (IF again THEN reattachL2VNI(v, n, xMac) ELSE <<>>)
                 \o <<Set("vxlans", n, [xOn EXCEPT !.suppressing = d.ips # {}])>>
                 \o reconcileIPAddresses(v, bVRF, d)
                 \o <<Set("vlans", v, [w EXCEPT !.segmentation = d.segmentation])>>, TRUE)

-----------------------------------------------------------------------------
(* Mirrors.                                                                *)

isDesiredLoopback(l) == kernel.loopbacks[l.name] # NoLink /\ kernel.loopbacks[l.name].vrf = l.vrf

ensureLoopback(l) ==
    LET there == isDesiredLoopback(l)
        old == IF there THEN kernel.loopbacks[l.name].addrs ELSE {}
        with(addrs) == Set("loopbacks", l.name, [vrf |-> l.vrf, addrs |-> addrs])
    IN  IF ~VRFExists(l.vrf) THEN Procedure(<<>>, FALSE)
        ELSE Procedure(
                 (IF ~there /\ kernel.loopbacks[l.name] # NoLink THEN <<Delete("loopbacks", l.name)>> ELSE <<>>)
                 \o <<with(old), with(old \union l.addrs), with(l.addrs)>>, TRUE)

\* The interface that the tunnel is bound to is not compared.
greTunnelUpToDateVRF(t) == kernel.tunnels[t.name].vrf = t.vrf
greTunnelUpToDate(t) == kernel.tunnels[t.name].vrf = t.vrf /\ kernel.tunnels[t.name].ends = t.ends

ensureGRETunnel(t) ==
    LET there == kernel.tunnels[t.name] # NoLink
        made == [vrf |-> t.vrf, ends |-> t.ends, lo |-> t.lo, up |-> FALSE]
    IN  IF ~VRFExists(t.vrf) \/ kernel.loopbacks[t.lo] = NoLink THEN Procedure(<<>>, FALSE)
        ELSE IF there /\ greTunnelUpToDate(t) THEN Procedure(<<>>, TRUE)
        ELSE Procedure((IF there THEN <<Delete("tunnels", t.name)>> ELSE <<>>)
                       \o <<Set("tunnels", t.name, made), Set("tunnels", t.name, [made EXCEPT !.up = TRUE])>>, TRUE)

\* Only filters of the mirror priorities go.
clearMirrorFilters(p) ==
    LET left(hooks) == {f \in kernel.filters[p] : f = Forwarding \/ f.hook \in hooks}
    IN  <<Set("filters", p, left({"egress"})), Set("filters", p, left({}))>>

PortExists(p) ==
    \/ p[1] = "vlan" /\ kernel.vlans[p[2]] # NoLink
    \/ p[1] = "vx" /\ \E v \in VRFs : kernel.vrfs[v] # NoLink /\ kernel.vrfs[v].vni = p[2]

setupMirrorFilters(p, rules) ==
    LET fs == MirrorFilters(rules)
        known == {t.name : t \in WantedTunnels(cfg)}
        unknown == {i \in DOMAIN fs : fs[i].to \notin known}
        n == IF unknown = {} THEN Fitting(fs) ELSE Min({Fitting(fs), Min(unknown) - 1})
        base == kernel.filters[p] \intersect {Forwarding}
        upTo(i) == base \union {fs[j] : j \in 1..i}
    IN  IF ~PortExists(p) THEN Procedure(<<>>, FALSE)
        ELSE Procedure(clearMirrorFilters(p) \o [i \in 1..n |-> Set("filters", p, upTo(i))], n = Len(fs))

mirrorVRFIndexSet(c) == {t.vrf : t \in WantedTunnels(c)} \union {l.vrf : l \in WantedLoopbacks(c)}

\* cleanupMirrorLink, for a tunnel, a loopback or a source of mirrored traffic
StaleTunnels(c) ==
    {t \in Tunnels : kernel.tunnels[t] # NoLink /\ t \notin {w.name : w \in WantedTunnels(c)}}
StaleLoopbacks(c) ==
    {l \in Loopbacks : /\ kernel.loopbacks[l] # NoLink
                       /\ kernel.loopbacks[l].vrf \in mirrorVRFIndexSet(c)
                       /\ l \notin {w.name : w \in WantedLoopbacks(c)}}
StaleSources(c) == {p \in Ports : kernel.filters[p] \ {Forwarding} # {} /\ p \notin DOMAIN WantedMirrors(c)}

cleanupMirrorLink(x) ==
    Procedure(CASE x[1] = "tunnels" -> <<Delete("tunnels", x[2])>>
                [] x[1] = "loopbacks" -> <<Delete("loopbacks", x[2])>>
                [] OTHER -> clearMirrorFilters(x), TRUE)

-----------------------------------------------------------------------------
(* Policy rules.                                                           *)

buildDesiredRules(c) ==
    {[fam |-> r.fam, table |-> kernel.vrfs[r.vrf].table] :
        r \in {q \in convertPolicyRoutes(c) : kernel.vrfs[q.vrf] # NoLink}}
deleteStaleRules(fam) == {r \in kernel.rules : r.fam = fam} \ buildDesiredRules(cfg)
addMissingRules(fam) == {r \in buildDesiredRules(cfg) : r.fam = fam} \ kernel.rules

-----------------------------------------------------------------------------
(* applyConfig.                                                            *)

Stages == <<"l2delete", "layer3", "l2create", "rules", "loopbacks", "tunnels", "filters", "cleanup">>
MirrorStages == {"loopbacks", "tunnels", "filters", "cleanup"}

\* What a stage has to do when it begins.
Work(st, c) ==
    CASE st = "l2delete" -> {v \in VLANs : /\ kernel.bridges[v] # NoLink
                                           /\ v \notin DOMAIN c.l2s \/ kernel.bridges[v].vrf \in VRFsToDelete(c)}
      [] st = "layer3" -> {"all"}
      [] st = "l2create" -> DOMAIN c.l2s
      [] st = "rules" -> Families
      [] st = "loopbacks" -> WantedLoopbacks(c)
      [] st = "tunnels" -> WantedTunnels(c)
      [] st = "filters" -> DOMAIN WantedMirrors(c)
      [] st = "cleanup" -> {<<"tunnels", t>> : t \in StaleTunnels(c)} \union StaleSources(c)
                           \union {<<"loopbacks", l>> : l \in StaleLoopbacks(c)}

Fault == faults < MaxFaults /\ faults' = faults + 1 /\ excuse' = excuse \union {"fault"}
NoFault == UNCHANGED <<faults, excuse>>

\* Links that are not up, and tunnels whose loopback has gone.
Loose(k) ==
    {<<"l2", v>> : v \in {u \in VLANs : \/ \E n \in VXLANOf(k, u) : ~k.vxlans[n].up
                                        \/ \E w \in VLANOf(k, u) : ~k.vlans[w].up}}
    \union {<<"tunnel", t>> : t \in {u \in Tunnels : k.tunnels[u] # NoLink
                                                     /\ (~k.tunnels[u].up \/ k.tunnels[u].lo = None)}}

Done(item) ==
    /\ todo' = todo \ {item}
    /\ hurt' = hurt \intersect Loose(kernel')
    /\ UNCHANGED <<cfg, stage, answer, mirrored, applies>>

\* An error: of the mirrors it is only logged.
Stop ==
    /\ stage' = "idle" /\ todo' = {}
    /\ answer' = IF stage \in MirrorStages THEN "ok" ELSE "error"
    /\ mirrored' = FALSE
    /\ hurt' = Loose(kernel')
    /\ UNCHANGED <<cfg, applies>>

Perform(p, item) ==
    \/ /\ kernel' = After(Len(p.changes), p) /\ NoFault
       /\ IF p.ok THEN Done(item) ELSE Stop
    \/ /\ Fault /\ \E n \in 0..Len(p.changes) : kernel' = After(n, p)
       /\ Stop

\* Bridges without their ports, and ports without their bridge.
Leftovers ==
    \/ \E v \in VLANs : kernel.bridges[v] # NoLink /\ (VXLANOf(kernel, v) = {} \/ VLANOf(kernel, v) = {})
    \/ \E v \in VLANs : kernel.vlans[v] # NoLink /\ ~kernel.vlans[v].attached
    \/ \E n \in VNIs : kernel.vxlans[n] # NoLink /\ kernel.vxlans[n].on = None

Excuses(c) ==
    {e \in {"plain", "vrf", "vni", "leftovers"} :
        CASE e = "plain" -> \E v \in DOMAIN c.l2s : c.l2s[v].irb = {}
          [] e = "vrf" -> \E v \in DOMAIN c.l2s : \E i \in c.l2s[v].irb : i.vrf \notin DOMAIN c.vrfs
          [] e = "vni" -> \E v \in DOMAIN c.l2s : LET x == kernel.vxlans[c.l2s[v].vni]
                                                  IN  x # NoLink /\ x.on \in DOMAIN c.l2s \ {v}
          [] e = "leftovers" -> Leftovers}

Receive(c) ==
    /\ stage = "idle" /\ applies < MaxApplies
    /\ applies' = applies + 1
    /\ cfg' = c /\ stage' = "l2delete" /\ todo' = Work("l2delete", c)
    /\ answer' = "none" /\ mirrored' = FALSE /\ kept' = {} /\ excuse' = Excuses(c)
    /\ UNCHANGED <<kernel, hurt, faults>>

DeleteL2(v) ==
    LET all == CleanupL2(v)
    IN  /\ stage = "l2delete" /\ v \in todo
        /\ \/ kernel' = FoldLeft(Do, kernel, all) /\ NoFault /\ Done(v)
           \/ /\ Fault
              /\ \E lost \in SUBSET ToSet(all) \ {{}} :
                    kernel' = FoldLeft(Do, kernel, SelectSeq(all, LAMBDA c : c \notin lost))
              /\ Stop
        /\ UNCHANGED kept

\* VRFs that have gone, and what was in them.
WithoutVRFs(k, gone) ==
    [k EXCEPT !.vrfs = [v \in VRFs |-> IF v \in gone THEN NoLink ELSE k.vrfs[v]],
              !.bridges = [b \in VLANs |-> IF k.bridges[b] # NoLink /\ k.bridges[b].vrf \in gone
                                            THEN [k.bridges[b] EXCEPT !.vrf = None] ELSE k.bridges[b]],
              !.loopbacks = [l \in Loopbacks |-> IF k.loopbacks[l] # NoLink /\ k.loopbacks[l].vrf \in gone
                                                 THEN [k.loopbacks[l] EXCEPT !.vrf = None] ELSE k.loopbacks[l]],
              !.tunnels = [t \in Tunnels |-> IF k.tunnels[t] # NoLink /\ k.tunnels[t].vrf \in gone
                                             THEN [k.tunnels[t] EXCEPT !.vrf = None] ELSE k.tunnels[t]],
              !.filters = [p \in Ports |-> IF \E v \in gone : p = VXLANPort(k.vrfs[v].vni) THEN {} ELSE k.filters[p]]]

\* reconcileLayer3, the reload of FRR and the new VRFs: see CraApply.
Layer3 ==
    LET gone == VRFsToDelete(cfg)
        new == {v \in Converted(cfg) : kernel.vrfs[v] = NoLink \/ v \in gone}
        used == {kernel.vrfs[v].table : v \in {u \in VRFs \ gone : kernel.vrfs[u] # NoLink}}
        with(k, made, tables) ==
            [k EXCEPT !.vrfs = [v \in VRFs |-> IF v \in made THEN [vni |-> cfg.vrfs[v].vni, table |-> tables[v]]
                                               ELSE k.vrfs[v]]]
    IN  /\ stage = "layer3" /\ todo # {}
        /\ \E tables \in [new -> Tables \ used] :
              /\ \A u, v \in new : tables[u] = tables[v] => u = v
              /\ \/ kernel' = with(WithoutVRFs(kernel, gone), new, tables) /\ NoFault /\ Done("all")
                 \/ /\ Fault
                    /\ \/ \E some \in SUBSET gone : kernel' = WithoutVRFs(kernel, some)
                       \/ \E made \in SUBSET new : kernel' = with(WithoutVRFs(kernel, gone), made, tables)
                    /\ Stop
        /\ UNCHANGED kept

CreateLayer2(v) ==
    /\ stage = "l2create" /\ v \in todo
    /\ Perform(IF kernel.bridges[v] = NoLink THEN CreateL2(v, WantedL2(cfg, v))
               ELSE ReconcileL2(v, WantedL2(cfg, v)), v)
    /\ UNCHANGED kept

\* A stale rule that cannot be deleted is only logged.
ReconcilePolicyRoutes(fam) ==
    LET stale == deleteStaleRules(fam)
        missing == addMissingRules(fam)
        to(left, made) == kernel' = [kernel EXCEPT !.rules = (@ \ (stale \ left)) \union made]
    IN  /\ stage = "rules" /\ fam \in todo
        /\ \/ to({}, missing) /\ NoFault /\ Done(fam) /\ UNCHANGED kept
           \/ \E left \in SUBSET stale \ {{}} : to(left, missing) /\ Fault /\ Done(fam) /\ kept' = kept \union left
           \/ \E made \in SUBSET missing \ {missing} : to({}, made) /\ Fault /\ Stop /\ UNCHANGED kept

ReconcileMirror(item) ==
    /\ stage \in MirrorStages /\ item \in todo
    /\ Perform(CASE stage = "loopbacks" -> ensureLoopback(item)
                 [] stage = "tunnels" -> ensureGRETunnel(item)
                 [] stage = "filters" -> setupMirrorFilters(item, WantedMirrors(cfg)[item])
                 [] stage = "cleanup" -> cleanupMirrorLink(item), item)
    /\ UNCHANGED kept

\* The neighbour filters of the access ports, after the Layer2 networks.
reconcileNeighborSync(k) ==
    [k EXCEPT !.filters = [p \in Ports |->
        IF p[1] = "vlan" /\ p[2] \in DOMAIN cfg.l2s /\ WantedL2(cfg, p[2]).ips # {}
        THEN k.filters[p] \union {Forwarding} ELSE k.filters[p]]]

NextStage ==
    LET i == CHOOSE j \in DOMAIN Stages : Stages[j] = stage
    IN  /\ stage # "idle" /\ todo = {}
        /\ kernel' = IF stage = "l2create" THEN reconcileNeighborSync(kernel) ELSE kernel
        /\ IF i < Len(Stages)
           THEN /\ stage' = Stages[i + 1] /\ todo' = Work(Stages[i + 1], cfg)
                /\ UNCHANGED <<answer, mirrored>>
           ELSE /\ stage' = "idle" /\ todo' = {}
                /\ answer' = "ok" /\ mirrored' = TRUE
        /\ UNCHANGED <<cfg, kept, hurt, excuse, applies, faults>>

Next ==
    \/ \E c \in Configs : Receive(c)
    \/ \E v \in VLANs : DeleteL2(v) \/ CreateLayer2(v)
    \/ Layer3
    \/ \E fam \in Families : ReconcilePolicyRoutes(fam)
    \/ \E item \in todo : ReconcileMirror(item)
    \/ NextStage

Spec == Init /\ [][Next]_vars

-----------------------------------------------------------------------------
(* What an answer means.                                                   *)

Layer2AsWanted(v) ==
    LET d == WantedL2(cfg, v)
        b == kernel.bridges[v]
        x == kernel.vxlans[b.vni]
        w == kernel.vlans[v]
    IN  /\ b # NoLink
        /\ <<b.vrf, b.mac, b.mtu, b.ips>> = <<d.vrf, d.mac, d.mtu, d.ips>>
        /\ VXLANOf(kernel, v) = {b.vni} /\ VLANOf(kernel, v) = {v}
        /\ ~x.learning /\ x.suppressing = (d.ips # {}) /\ x.mtu = d.mtu
        /\ w.mtu = d.mtu /\ w.segmentation = d.segmentation
        /\ (x.up /\ w.up) \/ <<"l2", v>> \in hurt
        /\ d.ips # {} => Forwarding \in kernel.filters[VLANPort(v)]

ACLs(p) ==
    IF p[1] = "vlan" THEN IF p[2] \in DOMAIN cfg.l2s THEN ToSet(cfg.l2s[p[2]].acls) ELSE {}
    ELSE UNION {IF cfg.vrfs[v].vni = p[2] THEN ToSet(cfg.vrfs[v].acls) ELSE {} : v \in Converted(cfg)}

\* A port mirrors the packets that its ACLs ask for, to a tunnel that they name.
PortAsWanted(p) ==
    LET filters == kernel.filters[p] \ {Forwarding}
    IN  \A packet \in IF filters = {} /\ ACLs(p) = {} THEN {} ELSE Packets :
            LET takers == {f \in filters : Takes(f, packet, p[1] = "vlan")}
                first == CHOOSE f \in takers : \A g \in takers : f.prio <= g.prio
                asked == {a.destination : a \in {b \in ACLs(p) : Asks(b, packet)}}
            IN  IF takers = {} THEN asked = {} ELSE first.to \in asked

TunnelAsWanted(t) ==
    LET k == kernel.tunnels[t.name]
    IN  /\ k # NoLink /\ k.vrf = t.vrf /\ k.ends = t.ends
        /\ (k.up /\ k.lo = t.lo) \/ <<"tunnel", t.name>> \in hurt

LoopbacksAsWanted ==
    /\ \A l \in WantedLoopbacks(cfg) : kernel.loopbacks[l.name] = [vrf |-> l.vrf, addrs |-> l.addrs]
    /\ StaleLoopbacks(cfg) = {}

\* After a request that was answered with 200, whatever failed in earlier ones:
\* the node has the Layer2 networks of the configuration and no other, each with
\* its VRF, addresses and ports, the rules for its policy routes, and, unless an
\* error of the mirrors was logged, exactly the mirrored traffic that it asks
\* for.  A network keeps the VNI that it was created with, and what an earlier
\* failure left down may still be down.
LinksAsConfigured ==
    stage = "idle" /\ answer = "ok" =>
        /\ {v \in VLANs : kernel.bridges[v] # NoLink} = DOMAIN cfg.l2s
        /\ \A v \in DOMAIN cfg.l2s : Layer2AsWanted(v)
        /\ buildDesiredRules(cfg) \subseteq kernel.rules
        /\ kernel.rules \subseteq buildDesiredRules(cfg) \union kept
        /\ mirrored => /\ \A t \in WantedTunnels(cfg) : TunnelAsWanted(t)
                       /\ StaleTunnels(cfg) = {}
                       /\ LoopbacksAsWanted
                       /\ \A p \in Ports : PortAsWanted(p)

Unmirrorable ==
    \E rules \in {WantedMirrors(cfg)[p] : p \in DOMAIN WantedMirrors(cfg)} :
        \/ \E r \in ToSet(rules) : r.gre \notin {t.name : t \in WantedTunnels(cfg)}
        \/ \E f \in ToSet(MirrorFilters(rules)) : f.prio >= MirrorPriorities

\* A request fails only because a netlink call fails, because the configuration
\* has a network without an IRB, without its VRF or with the VNI of another one,
\* or because an earlier failure has left half a network; and the mirrors fail
\* only because a call does or because of what the ACLs say.
LinksFailForCause ==
    /\ answer = "error" => excuse # {}
    /\ stage = "idle" /\ answer = "ok" /\ ~mirrored => "fault" \in excuse \/ Unmirrorable
=============================================================================
