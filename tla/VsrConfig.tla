----------------------------- MODULE VsrConfig -----------------------------
(***************************************************************************)
(* What the VSR agent makes of a node configuration: makeVRouter of        *)
(* pkg/cra-vsr, with its layers for VRFs, layer 2 and BGP.  The result is  *)
(* a document for the router; the second half of the module says how the   *)
(* router reads it, and what the node configuration asks for.              *)
(*                                                                         *)
(* An optional value is a set with at most one member.  A name that the    *)
(* code puts together from parts is the tuple of its parts.  Appending to  *)
(* a named list, and creating it first if there is none, is appending an   *)
(* entry that carries the name of its list.                                *)
(***************************************************************************)
EXTENDS Integers, FiniteSets, SequencesExt, TLC

CONSTANTS
    Names,        \* the names of VRFs, in alphabetical order
    Cluster,      \* ClusterVRF.Name and
    Mgmt,         \* ManagementVRF.Name of the base configuration
    TooLong,      \* the names with more than maxVRFnameLen characters
    Nets,         \* [fam : {"ipv4", "ipv6"}, net]: the prefixes of routes
    ExportCIDRs,  \* the base configuration's, a sequence of prefixes
    TableStart,   \* vrfTableStart
    TableEnd      \* vrfTableEnd

isReservedVRF(v) == v \in {Cluster, Mgmt}
LocalVNI == "-1"
VRFNames == Range(Names)

\* One part of the document for every element of s, in order.
ForEach(s, part(_)) == FlattenSeq([i \in DOMAIN s |-> part(s[i])])
Numbered(s, part(_, _)) == FlattenSeq([i \in DOMAIN s |-> part(i - 1, s[i])])
ForSome(opt, part(_)) == IF opt = {} THEN <<>> ELSE part(CHOOSE x \in opt : TRUE)

-----------------------------------------------------------------------------
(* Layer 3: the routing tables and the devices of the VRFs.                *)

\* Mutant: the tables of the running configuration are not looked at.
forgetTableID(cfg, running) ==
    [v \in VRFNames |-> IF isReservedVRF(v) THEN running[v] ELSE 0]

\* The tables of the running configuration, without those of VRFs that go.
setupTableID(cfg, running) ==
    [v \in VRFNames |-> IF isReservedVRF(v) \/ v \in DOMAIN cfg.vrfs THEN running[v] ELSE 0]

\* The first table that is not taken; TableEnd when there is none.
findFreeTableID(tables) ==
    CHOOSE t \in TableStart..TableEnd :
        /\ \A v \in VRFNames : tables[v] # t \/ t = TableEnd
        /\ \A u \in TableStart..(t - 1) : \E v \in VRFNames : tables[v] = u

\* VRFs without a table are given one in the order of their names.
setupTables(cfg, running) ==
    FoldLeft(LAMBDA tables, v :
                 IF v \in DOMAIN cfg.vrfs /\ ~isReservedVRF(v) /\ tables[v] = 0
                 THEN [tables EXCEPT ![v] = findFreeTableID(tables)] ELSE tables,
             setupTableID(cfg, running), Names)

\* The VRFs that are set up, and the part of the configuration that each has.
\* The reserved ones have no VNI of their own.
Infos(cfg) == (DOMAIN cfg.vrfs \ {Cluster}) \union {Cluster, Mgmt}
ConfOf(cfg, v) ==
    IF v = Cluster THEN cfg.cluster
    ELSE IF v \in DOMAIN cfg.vrfs THEN {cfg.vrfs[v]} ELSE {}
VNIOf(cfg, v) == IF isReservedVRF(v) THEN LocalVNI ELSE cfg.vrfs[v].vni

l3BridgeName(v, vni) == <<"br", IF vni = LocalVNI THEN v ELSE vni>>
l3VXLANName(v, vni) == <<"vx", IF vni = LocalVNI THEN v ELSE vni>>

Intf(kind, name, vrf, slaves) ==
    <<[kind |-> kind, name |-> name, vrf |-> vrf, slaves |-> slaves]>>
createBridge(name, vrf, slaves) == Intf("bridge", name, vrf, slaves)
createVXLAN(name) == Intf("vxlan", name, {}, {})
createVLAN(id) == Intf("vlan", <<"vlan", id>>, {}, {})

\* createMirrorTraffic: one filter, and one action for it, per port, direction
\* and destination; its rules are numbered from 1.
createMirrorTraffic(port, direction, acl) ==
    <<[filter |-> <<port, direction, acl.to>>, match |-> acl.match]>>
Rules(mtraffic, filter) == SelectSeq(mtraffic, LAMBDA m : m.filter = filter)

\* setupVRF: the interfaces of a VRF, and the mirrors on its VXLAN, which a VRF
\* without VNI does not have.
setupVRF(cfg, v) ==
    LET vni == VNIOf(cfg, v)
    IN  (IF vni = LocalVNI THEN <<>>
         ELSE createBridge(l3BridgeName(v, vni), {v}, {l3VXLANName(v, vni)})
              \o createVXLAN(l3VXLANName(v, vni)))
        \o ForSome(ConfOf(cfg, v),
               LAMBDA c : ForEach(c.gres, LAMBDA g : Intf(g.layer, g.name, {v}, {}))
                          \o ForEach(c.loopbacks, LAMBDA l : Intf("loopback", l, {v}, {})))
mirrorVRF(cfg, v) ==
    IF VNIOf(cfg, v) = LocalVNI /\ ~isReservedVRF(v) THEN <<>>
    ELSE ForSome(ConfOf(cfg, v), LAMBDA c :
             ForEach(c.mirrors, LAMBDA acl :
                 createMirrorTraffic(l3VXLANName(v, VNIOf(cfg, v)), acl.direction, acl)))

-----------------------------------------------------------------------------
(* Layer 2.                                                                *)

flipMirrorDirection(d) == CASE d = "ingress" -> "egress"
                            [] d = "egress" -> "ingress"

\* What setup of Layer2 refuses; one such network fails the whole configuration.
InvalidL2(cfg, l2) ==
    \/ l2.vrf # {} /\ ~(l2.vrf \subseteq Infos(cfg))
    \/ l2.gateway /\ (~l2.mac \/ l2.vrf = {})

\* The bridge is in the VRF; its two ports, VXLAN and VLAN, are not.
setupL2(l2) ==
    createBridge(<<"l2", l2.vlan>>, l2.vrf, {<<"vx", l2.vni>>, <<"vlan", l2.vlan>>})
    \o createVXLAN(<<"vx", l2.vni>>) \o createVLAN(l2.vlan)

\* Mirrors are on the access port, which sees traffic in the opposite direction.
mirrorL2(l2) ==
    ForEach(l2.mirrors, LAMBDA acl :
        createMirrorTraffic(<<"vlan", l2.vlan>>, flipMirrorDirection(acl.direction), acl))

\* setupKPI: what the monitoring of the router is told to watch.
setupKPI(intfs) ==
    {intfs[i].name : i \in {j \in DOMAIN intfs : intfs[j].kind \in {"bridge", "vxlan", "vlan"}}}

-----------------------------------------------------------------------------
(* Layer BGP: entries of prefix lists, community lists and route maps.     *)

Families == {"ipv4", "ipv6"}
NoMatch == [prefix |-> {}, community |-> {}, vrf |-> {}]
Entry(kind, name, num, policy, match) ==
    [kind |-> kind, name |-> name, num |-> num, policy |-> policy, match |-> match,
     nets |-> {}, comms |-> {}, call |-> {}, next |-> FALSE]

mkPrefixList(fam, name, nets) ==
    <<[Entry("pl", <<fam, name>>, 5, "permit", NoMatch) EXCEPT !.nets = nets]>>
mkCommunityList(name, comms) ==
    <<[Entry("cm", name, 5, "permit", NoMatch) EXCEPT !.comms = comms]>>
mkRouteMap(name, num, policy, match) == <<Entry("rm", name, num, policy, match)>>

convActionToPolicy(action) == IF action = "accept" THEN "permit" ELSE "deny"

\* Mutant: the match on the community takes the place of the one on the prefix.
matchReplaced(name, i, item) ==
    LET list == Append(name, ToString(i))
    IN  ForSome(item.community, LAMBDA c : mkCommunityList(list, {c}))
        \o <<[Entry("rm", name, i + 10, convActionToPolicy(item.action),
                    [NoMatch EXCEPT !.community = {list : c \in item.community}])
              EXCEPT !.comms = item.add]>>

\* setupRouteMap: the i-th item of a filter, with lists of its own.
setupRouteMap(name, i, item) ==
    LET list == Append(name, ToString(i))
        prefix == {<<n.fam, list>> : n \in item.prefix}
        community == {list : c \in item.community}
    IN  ForSome(item.prefix, LAMBDA n : mkPrefixList(n.fam, list, {n}))
        \o ForSome(item.community, LAMBDA c : mkCommunityList(list, {c}))
        \o <<[Entry("rm", name, i + 10, convActionToPolicy(item.action),
                    [NoMatch EXCEPT !.prefix = prefix, !.community = community])
              EXCEPT !.comms = item.add]>>

setupRouteMaps(name, filter) ==
    Numbered(filter.items, LAMBDA i, item : setupRouteMap(name, i, item))
    \o mkRouteMap(name, Len(filter.items) + 10, convActionToPolicy(filter.default), NoMatch)

importMap(v) == <<v, "import">>
setupVRFImport(v, i, imp) ==
    <<[Entry("rm", importMap(v), i + 10, "permit", [NoMatch EXCEPT !.vrf = {imp.from}])
       EXCEPT !.call = {<<v, "import", imp.from>>}]>>
    \o setupRouteMaps(<<v, "import", imp.from>>, imp.filter)

\* The route maps of a peer are named after its address or listen range alone.
peerMap(peer, fam, dir) == <<peer.key, fam, dir>>
setupNeighbor(peer) ==
    ForEach(<<<<"ipv4", "in">>, <<"ipv4", "out">>, <<"ipv6", "in">>, <<"ipv6", "out">>>>,
            LAMBDA d : ForSome(peer.filters[d], LAMBDA f :
                           setupRouteMaps(peerMap(peer, d[1], d[2]), f)))

setupRedistributeRtMap(v, c) ==
    ForSome(c.connected, LAMBDA f : setupRouteMaps(<<v, "redist_connected">>, f))
    \o ForSome(c.static, LAMBDA f : setupRouteMaps(<<v, "redist_static">>, f))

\* What the configuration of a VRF adds to the lists: setupLocalVRF, setupFabricVRF,
\* setupClusterVRF and setupManagementVRF.  Only a fabric VRF has an export filter.
VRFLists(cfg, v) ==
    ForSome(ConfOf(cfg, v), LAMBDA c :
        (IF VNIOf(cfg, v) = LocalVNI THEN <<>>
         ELSE ForSome(c.export, LAMBDA f : setupRouteMaps(<<v, "export">>, f)))
        \o setupRedistributeRtMap(v, c)
        \o Numbered(c.imports, LAMBDA i, imp : setupVRFImport(v, i, imp))
        \o ForEach(c.peers, setupNeighbor))

\* setupGlobalConfiguration.  The import map of the cluster VRF has a fixed name.
Fabric == "65169:200"
Net(fam, net) == [fam |-> fam, net |-> net]
OfFamily(fam) == {n \in Nets : n.fam = fam}
ByList(fam, list) == [NoMatch EXCEPT !.prefix = {<<fam, list>>}]
FromVRF(match, v) == [match EXCEPT !.vrf = {v}]
Received == [NoMatch EXCEPT !.community = {<<"cm-received-fabric">>}]
setupGlobalConfiguration ==
    ForEach(ExportCIDRs, LAMBDA n : mkPrefixList(n.fam, <<"pl_export_base">>, {n}))
    \o ForEach(<<"ipv4", "ipv6">>, LAMBDA fam :
           mkPrefixList(fam, <<"pl_link_local">>, {Net(fam, "link-local")})
           \o mkPrefixList(fam, <<"ANY">>, OfFamily(fam))
           \o mkPrefixList(fam, <<"DEFAULT">>, {Net(fam, "default")}))
    \o mkCommunityList(<<"cm-received-fabric">>, {Fabric})
    \o <<[Entry("rm", <<"TAG-FABRIC-IN">>, 10, "permit", NoMatch) EXCEPT !.comms = {Fabric}]>>
    \o mkRouteMap(<<"DENY-TAG-FABRIC-OUT">>, 10, "deny", Received)
    \o mkRouteMap(<<"DENY-TAG-FABRIC-OUT">>, 20, "permit", NoMatch)
    \o mkRouteMap(<<"export_local">>, 10, "deny", Received)
    \o mkRouteMap(<<"export_local">>, 11, "deny", ByList("ipv4", <<"pl_link_local">>))
    \o mkRouteMap(<<"export_local">>, 12, "deny", ByList("ipv6", <<"pl_link_local">>))
    \o mkRouteMap(<<"export_local">>, 20, "permit", NoMatch)
    \o <<[Entry("rm", importMap("cluster"), 1, "permit", ByList("ipv4", <<"ANY">>))
          EXCEPT !.next = TRUE],
         [Entry("rm", importMap("cluster"), 2, "permit", NoMatch) EXCEPT !.next = TRUE]>>
    \o mkRouteMap(importMap("cluster"), 65533, "deny", FromVRF(ByList("ipv4", <<"DEFAULT">>), Mgmt))
    \o mkRouteMap(importMap("cluster"), 65534, "deny", FromVRF(ByList("ipv6", <<"DEFAULT">>), Mgmt))
    \o mkRouteMap(importMap("cluster"), 65535, "permit", FromVRF(NoMatch, Mgmt))
    \o mkRouteMap(importMap(Mgmt), 2, "permit", FromVRF(ByList("ipv4", <<"pl_export_base">>), Cluster))
    \o mkRouteMap(importMap(Mgmt), 3, "permit", FromVRF(ByList("ipv6", <<"pl_export_base">>), Cluster))

\* mkCommunityList appends to a copy when the list is already there.
LostAppend(lists, i) ==
    /\ lists[i].kind = "cm"
    /\ \E j \in 1..(i - 1) : lists[j].kind = "cm" /\ lists[j].name = lists[i].name
setupLists(cfg) ==
    LET order == SelectSeq(Names, LAMBDA v : v \in Infos(cfg) /\ ~isReservedVRF(v))
        all == setupGlobalConfiguration \o VRFLists(cfg, Mgmt) \o VRFLists(cfg, Cluster)
               \o ForEach(order, LAMBDA v : VRFLists(cfg, v))
    IN  FlattenSeq([i \in DOMAIN all |-> IF LostAppend(all, i) THEN <<>> ELSE <<all[i]>>])

\* convStaticRoute: a VRF as next hop comes before an address; the default is to
\* drop.  The cluster VRF has such a route for every exported prefix.
convStaticRoute(r) ==
    [dest |-> r.dest, hop |-> IF r.vrf # {} THEN r.vrf
                              ELSE IF r.address # {} THEN r.address ELSE {"blackhole"}]
setupStatic(cfg, v) ==
    ForSome(ConfOf(cfg, v), LAMBDA c : [i \in DOMAIN c.routes |-> convStaticRoute(c.routes[i])])
    \o (IF v # Cluster THEN <<>>
        ELSE [i \in DOMAIN ExportCIDRs |-> [dest |-> ExportCIDRs[i], hop |-> {"blackhole"}]])

\* The BGP instance of a VRF: whom it imports from, through which map, and which
\* maps it uses to advertise, to redistribute and towards its neighbours.
BGPInstance(cfg, v, imports, advertise) ==
    LET opt(x, name) == IF x = {} THEN {} ELSE {name}
    IN  [imports |-> imports \o ForSome(ConfOf(cfg, v), LAMBDA c :
             [i \in DOMAIN c.imports |-> c.imports[i].from]),
         map |-> importMap(v),
         advertise |-> advertise,
         connected |-> UNION {opt(c.connected, <<v, "redist_connected">>) : c \in ConfOf(cfg, v)},
         static |-> UNION {opt(c.static, <<v, "redist_static">>) : c \in ConfOf(cfg, v)},
         neighbors |-> ForSome(ConfOf(cfg, v), LAMBDA c :
             [i \in DOMAIN c.peers |->
                 [key |-> c.peers[i].key,
                  maps |-> [d \in Families \X {"in", "out"} |->
                               opt(c.peers[i].filters[d], peerMap(c.peers[i], d[1], d[2]))]]])]
setupLocalVRF(cfg, v) == BGPInstance(cfg, v, <<>>, {})
setupFabricVRF(cfg, v) ==
    BGPInstance(cfg, v, <<>>, IF cfg.vrfs[v].export = {} THEN {<<"export_local">>}
                              ELSE {<<v, "export">>})
setupClusterVRF(cfg) == BGPInstance(cfg, Cluster, <<Mgmt>>, {<<"export_local">>})
setupManagementVRF(cfg) == BGPInstance(cfg, Mgmt, <<Cluster>>, {<<"export_local">>})
setupBGP(cfg) ==
    [v \in Infos(cfg) |-> IF v = Cluster THEN setupClusterVRF(cfg)
                          ELSE IF v = Mgmt THEN setupManagementVRF(cfg)
                          ELSE IF VNIOf(cfg, v) = LocalVNI THEN setupLocalVRF(cfg, v)
                          ELSE setupFabricVRF(cfg, v)]

\* The neighbours of the base configuration: of the fabric, and of the cluster VRF.
setupBaseNeighbor(isUnderlay) ==
    IF isUnderlay THEN [in |-> <<"TAG-FABRIC-IN">>, out |-> <<"DENY-TAG-FABRIC-OUT">>]
    ELSE [prefixList |-> <<"ANY">>]

\* setupPolicyRoute: traffic with this source is looked up in the table of that VRF.
\* setupDefaultVRF: the layer 2 networks with a route target.
InvalidPolicyRoute(cfg, p) == p.prefix = {} \/ p.vrf = {} \/ ~(p.vrf \subseteq Infos(cfg))
PolicyRoutes(cfg) == ForSome(cfg.cluster, LAMBDA c : c.policy)
setupPolicyRoutes(cfg, tables) ==
    [i \in DOMAIN PolicyRoutes(cfg) |->
        [priority |-> i, prefix |-> PolicyRoutes(cfg)[i].prefix,
         table |-> tables[CHOOSE v \in PolicyRoutes(cfg)[i].vrf : TRUE]]]
setupDefaultVRF(cfg) == {l2.vni : l2 \in {x \in Range(cfg.layer2s) : x.routeTarget}}

\* makeVRouter fails for these.
Untranslatable(cfg, tables) ==
    \/ \E v \in Infos(cfg) : tables[v] \in {0, TableEnd} \/ v \in TooLong
    \/ \E l2 \in Range(cfg.layer2s) : InvalidL2(cfg, l2)
    \/ \E p \in Range(PolicyRoutes(cfg)) : InvalidPolicyRoute(cfg, p)

makeVRouter(cfg, tables) ==
    LET order == SelectSeq(Names, LAMBDA v : v \in Infos(cfg))
        intfs == ForEach(order, LAMBDA v : setupVRF(cfg, v)) \o ForEach(cfg.layer2s, setupL2)
    IN  [intfs |-> intfs,
         mtraffic |-> ForEach(order, LAMBDA v : mirrorVRF(cfg, v)) \o ForEach(cfg.layer2s, mirrorL2),
         lists |-> setupLists(cfg),
         bgp |-> setupBGP(cfg),
         underlay |-> setupBaseNeighbor(TRUE),
         clusterNeighbors |-> setupBaseNeighbor(FALSE),
         static |-> [v \in Infos(cfg) |-> setupStatic(cfg, v)],
         rules |-> setupPolicyRoutes(cfg, tables),
         vnis |-> setupDefaultVRF(cfg),
         monitored |-> setupKPI(intfs)]

-----------------------------------------------------------------------------
(* How the router reads the document.                                      *)

\* Lists have keys, and a document with two entries under one key is refused:
\* entries of one list, interfaces, sources of imports, neighbours.
Distinct(s) == \A i, j \in DOMAIN s : s[i] = s[j] => i = j
Accepts(doc) ==
    /\ Distinct([i \in DOMAIN doc.lists |->
                    <<doc.lists[i].kind, doc.lists[i].name, doc.lists[i].num>>])
    /\ Distinct([i \in DOMAIN doc.intfs |-> doc.intfs[i].name])
    /\ \A v \in DOMAIN doc.bgp :
          LET bgp == doc.bgp[v]
          IN  Distinct(bgp.imports)
              /\ Distinct([i \in DOMAIN bgp.neighbors |-> bgp.neighbors[i].key])

\* A route is [prefix, comms, vrf]; an entry matches it on everything it names.
Matches(doc, e, r) ==
    /\ \A l \in e.match.prefix : \E i \in DOMAIN doc.lists :
          LET p == doc.lists[i] IN p.kind = "pl" /\ p.name = l /\ r.prefix \in p.nets
    /\ \A l \in e.match.community : \E i \in DOMAIN doc.lists :
          LET c == doc.lists[i] IN c.kind = "cm" /\ c.name = l /\ c.comms \subseteq r.comms
    /\ e.match.vrf \subseteq {r.vrf}

\* A route map is read in the order of its numbers up to the first entry that
\* matches and does not go on; a route that a called map denies is denied.
MapEntries(doc, name) ==
    SortSeq(SelectSeq(doc.lists, LAMBDA e : e.kind = "rm" /\ e.name = name),
            LAMBDA a, b : a.num < b.num)
Denied(r) == [route |-> r, verdict |-> "deny"]
ReadMap(doc, entries, r, called(_, _)) ==
    LET step(acc, e) ==
            IF acc.verdict # "none" \/ ~Matches(doc, e, acc.route) THEN acc
            ELSE LET base == IF e.call = {} THEN [route |-> acc.route, verdict |-> "permit"]
                             ELSE called(CHOOSE m \in e.call : TRUE, acc.route)
                 IN  IF e.policy = "deny" \/ base.verdict = "deny" THEN Denied(r)
                     ELSE [route |-> [base.route EXCEPT !.comms = @ \union e.comms],
                           verdict |-> IF e.next THEN "none" ELSE "permit"]
        end == FoldLeft(step, [route |-> r, verdict |-> "none"], entries)
    IN  IF end.verdict = "permit" THEN end ELSE Denied(r)
RouteMap(doc, entries, r) ==
    ReadMap(doc, entries, r,
            LAMBDA m, x : ReadMap(doc, MapEntries(doc, m), x, LAMBDA n, y : Denied(y)))

-----------------------------------------------------------------------------
(* What the node configuration asks for.                                   *)

\* The first item of a filter that matches decides, then the default action.
FilterResult(f, r) ==
    LET hits == {i \in DOMAIN f.items : /\ f.items[i].prefix \subseteq {r.prefix}
                                        /\ f.items[i].community \subseteq r.comms}
        first == f.items[CHOOSE i \in hits : \A j \in hits : i <= j]
    IN  IF hits = {} THEN [route |-> r, verdict |-> convActionToPolicy(f.default)]
        ELSE IF first.action # "accept" THEN Denied(r)
        ELSE [route |-> [r EXCEPT !.comms = @ \union first.add], verdict |-> "permit"]

RoutesOf(v) == [prefix : Nets, comms : SUBSET {Fabric, "c"}, vrf : {v}]
Through(doc, map, f, v) ==
    LET entries == MapEntries(doc, map)
    IN  \A r \in RoutesOf(v) : RouteMap(doc, entries, r) = FilterResult(f, r)

\* Every filter of the configuration decides, for every route, as the map that
\* the router reads in its place: of peers, imports, redistribution and exports.
FiltersKept(cfg, doc) ==
    \A v \in Infos(cfg) : \A c \in ConfOf(cfg, v) :
        LET bgp == doc.bgp[v]
        IN  /\ \A i \in DOMAIN c.peers : \A d \in DOMAIN c.peers[i].filters :
                  \A f \in c.peers[i].filters[d] : \A m \in bgp.neighbors[i].maps[d] :
                     Through(doc, m, f, v)
            /\ \A f \in c.connected : \A m \in bgp.connected : Through(doc, m, f, v)
            /\ \A f \in c.static : \A m \in bgp.static : Through(doc, m, f, v)
            /\ VNIOf(cfg, v) # LocalVNI =>
                  \A f \in c.export : \A m \in bgp.advertise : Through(doc, m, f, v)
            /\ v # Mgmt => \A imp \in Range(c.imports) :
                  /\ imp.from \in Range(bgp.imports)
                  /\ Through(doc, bgp.map, imp.filter, imp.from)

\* What comes from the fabric does not go back to it, the default route of the
\* management VRF does not reach the cluster VRF by itself, and the list through
\* which the neighbours of the cluster VRF are heard is there.
FabricKeptApart(cfg, doc) ==
    LET in == MapEntries(doc, doc.underlay.in)
        out == MapEntries(doc, doc.underlay.out)
        export == MapEntries(doc, <<"export_local">>)
        import == MapEntries(doc, importMap(Cluster))
    IN  /\ \A fam \in Families : \E e \in Range(doc.lists) :
              e.kind = "pl" /\ e.name = <<fam, doc.clusterNeighbors.prefixList>>
        /\ \A r \in RoutesOf(Mgmt) :
            LET tagged == RouteMap(doc, in, r).route
            IN  /\ RouteMap(doc, out, tagged).verdict = "deny"
                /\ RouteMap(doc, export, tagged).verdict = "deny"
                /\ r.prefix.net = "default"
                   /\ (\A c \in cfg.cluster : \A imp \in Range(c.imports) : imp.from # Mgmt)
                   => RouteMap(doc, import, r).verdict = "deny"

\* No port is in two bridges, every port exists, a layer 2 bridge is in the VRF of
\* its gateway, and each ACL is a rule on the port of its network.
PortsKept(cfg, doc) ==
    /\ \A a, b \in Range(doc.intfs) : a.slaves \intersect b.slaves # {} => a = b
    /\ \A a \in Range(doc.intfs) : a.slaves \subseteq {b.name : b \in Range(doc.intfs)}
    /\ \A l2 \in Range(cfg.layer2s) :
          /\ \E a \in Range(doc.intfs) : /\ a.kind = "bridge" /\ a.vrf = l2.vrf
                                         /\ {<<"vlan", l2.vlan>>, <<"vx", l2.vni>>} = a.slaves
          /\ \A acl \in Range(l2.mirrors) :
                \E m \in Range(doc.mtraffic) :
                    /\ m.filter[1] = <<"vlan", l2.vlan>> /\ m.filter[2] # acl.direction
                    /\ m.filter[3] = acl.to /\ m.match = acl.match

\* Traffic that a policy route sends to a VRF is looked up in that VRF's table,
\* which no other VRF has.
TablesKept(cfg, tables, doc) ==
    /\ \A v, w \in Infos(cfg) : tables[v] = tables[w] => v = w
    /\ \A i \in DOMAIN doc.rules : \A v \in PolicyRoutes(cfg)[i].vrf :
          doc.rules[i].table = tables[v] /\ tables[v] \in TableStart..(TableEnd - 1)
                                           \union {tables[Cluster], tables[Mgmt]}
=============================================================================
