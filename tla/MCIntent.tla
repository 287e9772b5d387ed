------------------------------- MODULE MCIntent -------------------------------
(* Two parts of the intent reconciler, one per behaviour: the address          *)
(* allocation, and the builders, assembler and status over bounded worlds, a   *)
(* family of worlds per group of builders that varies what the group reads.    *)
EXTENDS Ipam

VARIABLES
  which,          \* the part that runs
  world, phase    \* the builders' input, and whether they have run

Cidr(net, len, fam) == [net |-> net, len |-> len, fam |-> fam]
Host(net) == Cidr(net, 32, 4)
Shortened(v) == IF v \in {"long1", "long2"} THEN "short" ELSE v
B == INSTANCE IntentStatus WITH reduce <- Shortened

Net(vni, vlan, v4, v6) == [vni |-> vni, vlan |-> vlan, v4 |-> v4, v6 |-> v6]
MCNets == [A |-> Net(1, 1, Cidr("a", 24, 4), B!NoCIDR), B |-> Net(0, 0, Cidr("b", 24, 4), Cidr("b6", 64, 6)),
           C |-> Net(3, 2, Cidr("c", 32, 4), B!NoCIDR), D |-> Net(0, 2, B!NoCIDR, B!NoCIDR)]
Dest(name, vrf, prefix, hop) ==
  [name |-> name, vrf |-> vrf, prefixes |-> {Cidr(prefix, 16, 4), Cidr(prefix, 48, 6)},
   hops |-> [f \in {4, 6} |-> IF f = 4 THEN hop ELSE B!None]]
MCDests == <<Dest("d1", "R1", "p1", B!None), Dest("d2", "R2", "p2", B!None),
             Dest("d3", B!None, "p3", "gw"), Dest("d4", "R9", "p4", B!None), Dest("d5", "R1", "p5", B!None)>>

Base == [nodes |-> [n1 |-> {Host("n1")}, n2 |-> {}], nets |-> MCNets,
         vrfs |-> [R1 |-> [name |-> "r1", rt |-> "t1"], R2 |-> [name |-> "long1", rt |-> B!None]],
         dests |-> MCDests, aps |-> {}, inb |-> <<>>, outb |-> <<>>, pods |-> <<>>, l2as |-> <<>>,
         peerings |-> <<>>, cols |-> <<>>, mirrors |-> <<>>, nas |-> <<>>]

Consumer(name, net, sel, spec, status) ==
  [name |-> name, net |-> net, sel |-> sel, spec |-> spec, status |-> status]
AP(vrf, sel, enabled, len) ==
  [vrf |-> vrf, sel |-> sel, host |-> {"h"}, enabled |-> enabled, agg |-> {"g"}, len4 |-> len, len6 |-> 0]
Sels == {B!Unset, B!Invalid, {"d1"}, {"d1", "d5"}, {"d1", "d2"}, {"d2", "d3", "d4"}}

RouteWorld ==
  \E s1, s2 \in Sels, net \in {"B", "X"}, s3 \in {B!Unset, {"d2"}},
     pods \in {<<>>, <<Consumer("p1", "B", {"d1", "d2"}, B!NoAddrs, B!NoAddrs)>>},
     aps \in SUBSET {AP("R1", B!Unset, FALSE, 0), AP("R1", {"i1", "o1"}, TRUE, 26),
                     AP("R2", {"i2"}, TRUE, 20)} :
    world = [Base EXCEPT !.inb = <<Consumer("i1", "A", s1, {Host("a1")}, B!NoAddrs),
                                   Consumer("i2", net, s2, B!NoAddrs, {Host("a2")})>>,
                         !.outb = <<Consumer("o1", "B", s3, B!NoAddrs, {Host("b1")})>>,
                         !.pods = pods, !.aps = aps]

L2A(name, net, iref, iname, nodes, sel) ==
  [name |-> name, net |-> net, sel |-> sel, nodes |-> nodes, iref |-> iref, iname |-> iname,
   mtu |-> 1500, mtuSet |-> FALSE, anycast |-> TRUE, nodeIPs |-> TRUE,
   alloc |-> [n \in {"n1", "n2"} |-> IF net = "A" THEN {Host("x1")} ELSE {}]]
Attachments(name) ==
  {L2A(name, net, iref, iname, nodes, sel) :
     net \in {"A", "B", "C", "D", "X"}, iref \in {B!None, "eth0"}, iname \in {B!None, "vlan.2"},
     nodes \in {B!Unset, {"n1"}}, sel \in {B!Unset, {"d1"}, {"d2", "d3"}}}
Mirror(name, src, kind, dir) ==
  [name |-> name, col |-> "c1", kind |-> kind, src |-> src, dir |-> dir, match |-> name]
Col(vrf) == [name |-> "c1", vrf |-> vrf, addressed |-> {"n1"}, loopback |-> "lo.c1", l2gre |-> FALSE]

L2World ==
  \E a \in {x \in Attachments("l1") : x.iname = B!None \/ x.iref = B!None}, b \in {x \in Attachments("l2") : x.nodes = B!Unset} :
    world = [Base EXCEPT !.l2as = <<a, b>>, !.cols = <<Col("R1")>>,
                         !.mirrors = <<Mirror("m1", "l1", "Layer2Attachment", B!None)>>,
                         !.aps = {AP("R2", B!Unset, TRUE, 0)}]

Peering(mode, att, refs) ==
  [name |-> "p", mode |-> mode, att |-> att, refs |-> refs, password |-> "pw", comm |-> {"c"},
   families |-> {}, inbounds |-> {"i1"}]
AttachWorld ==
  \E sel \in {B!Unset, {"d1"}, {"d1", "d2"}}, mode \in {"listenRange", "loopbackPeer", "other"},
     refs \in {{}, {"B"}, {"A", "X"}}, vrf \in {"R1", "R2", "X"}, sel2 \in {{"d1"}, {"d2", "d5"}},
     nodes \in {B!Unset, B!Invalid, {"n1"}}, src \in {"l1", "i1"}, kind \in {"Layer2Attachment", "Inbound", "Outbound"} :
    world = [Base EXCEPT !.l2as = <<L2A("l1", "A", B!None, B!None, B!Unset, sel)>>, !.peerings = <<Peering(mode, "l1", refs)>>,
                !.inb = <<Consumer("i1", "A", {"d2"}, {Host("a1")}, B!NoAddrs)>>,
                !.cols = <<Col(vrf)>>, !.nas = <<[name |-> "na", vrf |-> "R1", sel |-> sel2, nodes |-> nodes]>>,
                !.mirrors = <<Mirror("m1", src, kind, "ingress")>>]

-----------------------------------------------------------------------------
\* Ipam: two routed consumers share Network B, whose IPv4 part is too small for
\* both and ends with the address space; an attachment has A to itself.
Pool(ip, bits, v4) == [ip |-> ip, bits |-> bits, v4 |-> v4]
MCNetOf == [i1 |-> "B", o1 |-> "B", l1 |-> "A"]
MCCount == [i1 |-> 1, o1 |-> 2]
MCReservedRanges == [l1 |-> {Pool(10, 4, FALSE)}]
MCNetworks == [A |-> [v4 |-> Pool(4, 2, TRUE), v6 |-> Pool(8, 2, FALSE)],
               B |-> [v4 |-> Pool(14, 3, TRUE), v6 |-> Pool(0, 2, FALSE)]]
MCNoNet == Pool(99, 0, FALSE)
MCSubnet == [c1 |-> Pool(12, 2, TRUE)]

ASSUME NetworksAreWellFormed == WellFormed

-----------------------------------------------------------------------------
buildVars == <<world, phase>>

MCInit ==
  /\ Init
  /\ \/ which = "ipam" /\ world = Base /\ phase = "in"
     \/ which = "build" /\ phase = "in" /\ (RouteWorld \/ L2World \/ AttachWorld)

Build == phase = "in" /\ phase' = "out" /\ UNCHANGED world

MCNext ==
  \/ which = "ipam" /\ Next /\ UNCHANGED <<which, buildVars>>
  \/ which = "build" /\ Build /\ UNCHANGED <<which, vars>>

MCSpec == MCInit /\ [][MCNext]_<<which, buildVars, vars>>

-----------------------------------------------------------------------------
Built(P(_)) == phase = "out" => P(world)

\* See IntentStatus: what a node exports into a VRF comes from an object that
\* selects the VRF, and the Inbounds and Outbounds shown Ready are exported.
Exports == Built(B!ExportsJustified) /\ Built(B!ReadyIsAnnounced)
\* See IntentStatus: source-based routing has the routes its sources need.
Routed == Built(B!SourcesRouted)
\* See IntentStatus: attachments do not share interfaces, mirror ACLs are on
\* the segments they name, shortened VRF names still connect the configuration.
NodeStateSound == Built(B!DevicesDistinct) /\ Built(B!MirrorsPlaced) /\ Built(B!NamesStayConnected)
\* See IntentStatus: a Ready Inbound reaches a VRF.
InboundReaches == Built(B!ReadyInboundReaches)
=============================================================================
