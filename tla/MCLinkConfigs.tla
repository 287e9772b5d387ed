---------------------------- MODULE MCLinkConfigs ----------------------------
(***************************************************************************)
(* Node configurations for NodeLinks.  Between them a network moves to     *)
(* another VRF, changes its addresses and its VNI or has no IRB, two       *)
(* networks swap VNIs, a VRF gets another VNI, a tunnel moves, changes its *)
(* collector or is not there, a loopback moves or gets another name, and   *)
(* the ACLs need more filters than there are priorities.                   *)
(*                                                                         *)
(* Desired states for HbnL2: devices are renamed, change their VLAN, take  *)
(* the name or the VLAN of another one, want the same destination, or have *)
(* a route without a gateway.  For NetplanApply: devices need others that  *)
(* come later, or each other, and there is a dummy.                        *)
(***************************************************************************)
EXTENDS TLC

None == "none"

MirrorACL(direction, proto, src, dport) ==
    [direction |-> direction, proto |-> proto, src |-> src, dport |-> dport, destination |-> "gre"]
Layer2(vni, mtu, irb, segmentation, acls) ==
    [vni |-> vni, mtu |-> mtu, irb |-> irb, segmentation |-> segmentation, acls |-> acls]
IRB(v, mac, ips) == {[vrf |-> v, mac |-> mac, ips |-> ips]}
FabricVRF(vni, los, gres, acls) == [vni |-> vni, loopbacks |-> los, gres |-> gres, acls |-> acls]
Bare(vni) == FabricVRF(vni, <<>>, <<>>, <<>>)
GRE(ends, lo) == "gre" :> [ends |-> ends, lo |-> lo]
AllIngress == MirrorACL("ingress", "", None, FALSE)

LinkConfigs == {
    [l2s |-> "10" :> Layer2("100", 1500, IRB("red", "m1", {"a"}), TRUE,
                            <<MirrorACL("egress", "tcp", None, FALSE), MirrorACL("ingress", "icmp", None, FALSE)>>),
     vrfs |-> "red" :> FabricVRF("1", "lo" :> {"x"}, GRE("e1", "lo"), <<MirrorACL("ingress", "", "v4", FALSE)>>),
     routes |-> {[fam |-> "v4", vrf |-> "red"]}],
    [l2s |-> "10" :> Layer2("100", 9000, IRB("blue", "m2", {"b"}), FALSE, <<MirrorACL("ingress", "", None, TRUE)>>)
             @@ "20" :> Layer2("200", 1500, IRB("blue", "m2", {}), TRUE, <<>>),
     vrfs |-> "blue" :> FabricVRF("2", "lo" :> {"x", "y"}, GRE("e1", "lo"), <<>>) @@ "red" :> Bare("1"),
     routes |-> {[fam |-> "v6", vrf |-> "blue"], [fam |-> "v4", vrf |-> None]}],
    [l2s |-> "10" :> Layer2("200", 1500, IRB("red", "m1", {"b"}), TRUE,
                            <<MirrorACL("egress", "", None, TRUE), AllIngress>>),
     vrfs |-> "red" :> FabricVRF("1", "lo2" :> {"y"}, GRE("e2", "lo2"),
                                 <<MirrorACL("ingress", "", None, TRUE), MirrorACL("ingress", "udp", "v6", FALSE)>>),
     routes |-> {[fam |-> "v4", vrf |-> "red"]}],
    [l2s |-> "10" :> Layer2("100", 1500, {}, TRUE, <<>>), vrfs |-> "red" :> Bare("1"), routes |-> {}],
    [l2s |-> "10" :> Layer2("200", 1500, IRB("red", "m1", {"a"}), TRUE, <<AllIngress>>)
             @@ "20" :> Layer2("100", 1500, IRB("mgmt", "m1", {"a"}), TRUE, <<>>),
     vrfs |-> "red" :> Bare("2") @@ "mgmt" :> FabricVRF("3", "lo" :> {"x"}, GRE("e1", "lo"), <<AllIngress>>),
     routes |-> {}]}

VLANDevice(id, addrs, routes, offload) == [id |-> id, addrs |-> addrs, routes |-> routes, offload |-> offload]
Dummy(addrs) == [addrs |-> addrs, routes |-> {}]
To(to, via) == [to |-> to, via |-> via]

HostStates == {
    [vlans |-> "lan" :> VLANDevice("10", {"a"}, {To("default", "gw4"), To("net2", "gw4")}, TRUE),
     dummies |-> "lo1" :> Dummy({"x"})],
    [vlans |-> "vlan10" :> VLANDevice("10", {"b"}, {To("default", "gw6")}, FALSE), dummies |-> <<>>],
    [vlans |-> "lan" :> VLANDevice("20", {"a", "b"}, {To("default", "gw4")}, FALSE)
               @@ "wan" :> VLANDevice("30", {}, {To("default", "gw4")}, TRUE),
     dummies |-> "lo1" :> Dummy({"y"})],
    [vlans |-> "lan" :> VLANDevice("10", {"a"}, {To("net", None)}, TRUE) @@ "wan" :> VLANDevice("10", {}, {}, TRUE),
     dummies |-> "vlan10" :> Dummy({"x"})]}

Device(kind, name, value, needs) == [kind |-> kind, name |-> name, value |-> value, needs |-> needs]
Ethernet == Device("ethernet", "e", "1", {})

NetplanStates == {
    {Ethernet, Device("vlan", "v", "1", {"e"})},
    {Ethernet, Device("bond", "b", "1", {"e"}), Device("bridge", "br", "1", {"b"}), Device("vlan", "v", "2", {"br"})},
    {Ethernet, Device("vlan", "v", "1", {"e"}), Device("vrf", "r", "1", {"v"})},
    {Ethernet, Device("vlan", "v", "2", {"e"}), Device("dummy", "lo", "1", {})},
    {Device("vlan", "w", "1", {"v"}), Device("vlan", "v", "2", {"w"})}}
=============================================================================
