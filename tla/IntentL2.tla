------------------------------ MODULE IntentL2 ------------------------------
(***************************************************************************)
(* The Layer2Attachment and TrafficMirror builders, the assembly of all    *)
(* contributions into the configuration of a node (assembler), the         *)
(* reduction of VRF names (nncnames) and the node's netplan state.         *)
(***************************************************************************)
EXTENDS IntentRoutes

CONSTANT reduce(_)    \* vrfname.Reduce: what a VRF name becomes, or TooLong

TooLong == "<too long>"
vlanName(vlan) == "vlan." \o ToString(vlan)

\* netplanMapKey and netplanClaimName: the slot and the interface an
\* attachment takes on its nodes.
netplanMapKey(w, l) ==
  LET vlan == w.nets[l.net].vlan
  IN  IF vlan # 0 THEN <<"vlan", vlan>>
      ELSE IF l.iref # None THEN <<"eth", l.iref>> ELSE <<"vlan", 0>>

netplanClaimName(w, l) ==
  LET vlan == w.nets[l.net].vlan
  IN  IF vlan = 0 THEN l.iref
      ELSE IF l.iname # None THEN l.iname ELSE vlanName(vlan)

\* Mutant: only slots are claimed, not interface names.
slotClaims(w, l) == {<<n, <<"slot", netplanMapKey(w, l)>>>> : n \in matchNodes(w, l.nodes)}

\* ownershipClaims.
ownershipClaims(w, l) ==
  {<<n, <<"slot", netplanMapKey(w, l)>>>> : n \in matchNodes(w, l.nodes)}
  \cup (IF netplanClaimName(w, l) = None THEN {}
        ELSE {<<n, <<"dev", netplanClaimName(w, l)>>>> : n \in matchNodes(w, l.nodes)})

\* buildLayer2 and buildIRB refuse: a segment without VNI needs a parent
\* interface, one with VNI a VLAN and no parent, and an anycast gateway a
\* prefix that has a gateway address.
hbn(w, l) == w.nets[l.net].vni # 0
WantsIRB(w, l) == hbn(w, l) /\ FirstVRF(w, l.sel) # None /\ l.anycast
HasGateway(c) == c.len < maxLen(c)

Buildable(w, l) ==
  /\ IF hbn(w, l) THEN w.nets[l.net].vlan # 0 /\ l.iref = None ELSE l.iref # None
  /\ WantsIRB(w, l) => /\ Families(w.nets[l.net]) # {}
                       /\ \A c \in Families(w.nets[l.net]) : HasGateway(c)

\* Build and applyL2AToNodes, in list order: an attachment that cannot be
\* built, or that wants what an earlier one has, is skipped as a whole.
Applicable(w, l, applied) ==
  /\ Has(w.nets, l.net) /\ l.sel # Invalid /\ l.nodes # Invalid
  /\ Buildable(w, l)
  /\ FirstVRF(w, l.sel) # None => ~Ambiguous(w, l, FirstVRF(w, l.sel))
  /\ \A o \in applied : ownershipClaims(w, o) \cap ownershipClaims(w, l) = {}

Applied(w) ==
  FoldLeft(LAMBDA done, l : IF Applicable(w, l, done) THEN done \cup {l} ELSE done,
           {}, w.l2as)

On(w, n) == {l \in Applied(w) : n \in matchNodes(w, l.nodes)}

\* buildLayer2's result, keyed by the slot.
Layer2(w, l) ==
  [vlan |-> w.nets[l.net].vlan, vni |-> w.nets[l.net].vni, mtu |-> l.mtu,
   irb |-> IF WantsIRB(w, l) THEN FirstVRF(w, l.sel) ELSE None, acls |-> {}]

L2ALayer2s(w, n) ==
  LET ls == {l \in On(w, n) : hbn(w, l)}
  IN  [k \in {netplanMapKey(w, l) : l \in ls} |->
         Layer2(w, CHOOSE l \in ls : netplanMapKey(w, l) = k)]

\* applyVRFContrib.
L2AVRFs(w, n) ==
  LET ls == SelectSeq(w.l2as, LAMBDA l : l \in On(w, n))
  IN  Contribution(ls, LAMBDA l : {FirstVRF(w, l.sel)} \ {None},
        LAMBDA l, v : w.vrfs[MatchedVRF(w, l.sel)[1].vrf],
        LAMBDA f, l, v :
          LET ap == findMatchingAP(w, l, v)
          IN  addAggregateRoutes(addNetworkToFabricVRF(f, w.nets[l.net], ap),
                                 w.nets[l.net], ap))

-----------------------------------------------------------------------------
\* destinationRoutes: static routes via the valid next hop of the prefix's
\* family (hops: family -> next hop or None).
destinationRoutes(w, l) ==
  UNION {{<<p, d.hops[p.fam]>> : p \in {q \in d.prefixes : d.hops[q.fam] # None}} :
           d \in {e \in ToSet(Matched(w, l.sel)) : Resolved(w, e)}}

\* buildNetplanDevice, netplanDeviceEmpty: the device of an attachment on a
\* node, or nothing when it would configure nothing.
Device(w, l, n) ==
  LET vlan == w.nets[l.net].vlan
  IN  [vlan |-> vlan, iname |-> l.iname, iref |-> l.iref,
       mtu |-> IF l.mtuSet \/ vlan # 0 THEN l.mtu ELSE 0,
       addrs |-> IF l.nodeIPs THEN {a \in l.alloc[n] : \E c \in Families(w.nets[l.net]) :
                                      c.fam = a.fam /\ HasGateway(c)} ELSE {},
       routes |-> destinationRoutes(w, l)]

Payload(d) == d.addrs # {} \/ d.routes # {}

netplanDeviceEmpty(d, l) ==
  \/ d.vlan = 0 /\ ~Payload(d) /\ ~l.mtuSet
  \/ d.iname = None /\ d.iref = None /\ ~Payload(d)

NetplanNodeIPs(w, n) ==
  LET ls == {l \in On(w, n) : ~netplanDeviceEmpty(Device(w, l, n), l)}
  IN  [k \in {netplanMapKey(w, l) : l \in ls} |->
         Device(w, CHOOSE l \in ls : netplanMapKey(w, l) = k, n)]

-----------------------------------------------------------------------------
\* TrafficMirrors: an ACL per direction on the segment of an attachment, or
\* on the VRFs of an Inbound or Outbound, of every node.
Named(cs, name) == SelectSeq(cs, LAMBDA c : c.name = name)

mirrorDirections(m) == IF m.dir = None THEN {"ingress", "egress"} ELSE {m.dir}

ACLs(w, m) ==
  {[dest |-> mirrorGREName(Named(w.cols, m.col)[1]), dir |-> d, match |-> m.match] :
     d \in mirrorDirections(m)}

\* The segment an ACL goes to; only a Network with VNI and VLAN has one.
MirrorSlot(w, m) ==
  LET ls == Named(w.l2as, m.src)
  IN  IF \/ m.kind # "Layer2Attachment" \/ ls = <<>>
      THEN {}
      ELSE {<<"vlan", w.nets[x].vlan>> :
              x \in {y \in {ls[1].net} \cap DOMAIN w.nets : w.nets[y].vni # 0 /\ w.nets[y].vlan # 0}}

MirrorSel(w, m) ==
  LET cs == CASE m.kind = "Inbound" -> Named(w.inb, m.src)
              [] m.kind = "Outbound" -> Named(w.outb, m.src)
              [] OTHER -> <<>>
  IN  IF cs = <<>> THEN Unset ELSE cs[1].sel

Mirrors(w) == SelectSeq(w.mirrors, LAMBDA m : Named(w.cols, m.col) # <<>>)

MirrorLayer2s(w) ==
  LET ms == ToSet(Mirrors(w))
  IN  [k \in UNION {MirrorSlot(w, m) : m \in ms} |->
         [vlan |-> 0, vni |-> 0, mtu |-> 0, irb |-> None,
          acls |-> UNION {ACLs(w, m) : m \in {x \in ms : k \in MirrorSlot(w, x)}}]]

MirrorVRFs(w) ==
  Contribution(Mirrors(w), LAMBDA m : SelVRFs(w, MirrorSel(w, m)),
    LAMBDA m, v : w.vrfs[Last(SelectSeq(MatchedVRF(w, MirrorSel(w, m)),
                                        LAMBDA d : w.vrfs[d.vrf].name = v)).vrf],
    LAMBDA f, m, v : [f EXCEPT !.acls = @ \cup ACLs(w, m)])

-----------------------------------------------------------------------------
\* Assemble, FabricVRFs: what a later builder adds to a VRF; the Redistribute
\* and the GRE tunnels of a VRF are those of its first contributor.
MergeVRF(f, g) ==
  [f EXCEPT !.peers = @ \cup g.peers, !.statics = @ \cup g.statics, !.acls = @ \cup g.acls,
            !.imports = @ \cup g.imports, !.loops = @ \cup g.loops,
            !.exports = @ \cup g.exports, !.rts = @ \cup g.rts,
            !.redist = IF @ = NoFilter THEN g.redist ELSE @]

Contributions(w, n) ==
  <<L2AVRFs(w, n), InboundBuild(w), OutboundBuild(w), PodNetworkBuild(w), BGPPeeringBuild(w),
    CollectorBuild(w, n), MirrorVRFs(w), NodeAttachmentBuild(w, n)>>

FabricVRFs(w, n) ==
  LET cs == Contributions(w, n)
  IN  [v \in UNION {DOMAIN c : c \in ToSet(cs)} |->
         LET ps == SelectSeq(cs, LAMBDA c : v \in DOMAIN c)
         IN  FoldLeft(LAMBDA f, c : MergeVRF(f, c[v]), ps[1][v], Tail(ps))]

\* Assemble, Layer2s: mirror ACLs join the segment; a segment that only a
\* mirror names has no VLAN and is dropped.
Layer2s(w, n) ==
  LET a == L2ALayer2s(w, n)
      m == MirrorLayer2s(w)
  IN  [k \in {x \in DOMAIN a : a[x].vlan # 0} |->
         IF Has(m, k) THEN [a[k] EXCEPT !.acls = @ \cup m[k].acls] ELSE a[k]]

Assemble(w, n) ==
  [layer2s |-> Layer2s(w, n), fabric |-> FabricVRFs(w, n), local |-> SBRLocalVRFs(w),
   peers |-> buildLoopbackPeers(w), policies |-> SBRPolicyRoutes(w),
   imports |-> ClusterImports(w, n), devices |-> NetplanNodeIPs(w, n)]

-----------------------------------------------------------------------------
\* nncnames.Reduce: fails when a name stays too long or two VRFs get one name.
ReduceFails(spec) ==
  \/ \E v \in DOMAIN spec.fabric : reduce(v) = TooLong
  \/ \E u, v \in DOMAIN spec.fabric : u # v /\ reduce(u) = reduce(v)

Original(spec, r) == CHOOSE v \in DOMAIN spec.fabric : reduce(v) = r

Reduce(spec) ==
  [spec EXCEPT
     !.fabric = [r \in {reduce(v) : v \in DOMAIN @} |-> @[Original(spec, r)]],
     !.local = [k \in DOMAIN @ |-> {<<x[1], reduce(x[2])>> : x \in @[k]}],
     !.imports = {<<reduce(x[1]), x[2]>> : x \in @},
     !.layer2s = [k \in DOMAIN @ |->
                    [@[k] EXCEPT !.irb = IF @ = None THEN None ELSE reduce(@)]]]

-----------------------------------------------------------------------------
\* buildNetplanState: the VLAN and native devices of the node.
NetplanKeys(spec) == DOMAIN spec.layer2s \cup DOMAIN spec.devices

NoDevice == [vlan |-> 0, iname |-> None, iref |-> None, mtu |-> 0, addrs |-> {}, routes |-> {}]

NetplanDevice(spec, k) ==
  LET nip == IF Has(spec.devices, k) THEN spec.devices[k] ELSE NoDevice
      l2 == IF Has(spec.layer2s, k) THEN spec.layer2s[k] ELSE NoDevice
      vlan == IF l2.vlan # 0 THEN l2.vlan ELSE nip.vlan
      link == IF nip.iref # None THEN nip.iref ELSE "hbn"
  IN  [kind |-> IF vlan # 0 THEN "vlan" ELSE IF nip.iref # None THEN "ethernet" ELSE None,
       name |-> IF vlan = 0 THEN link ELSE IF nip.iname # None THEN nip.iname
                ELSE vlanName(vlan),
       link |-> link, vlan |-> vlan, mtu |-> IF l2.vlan # 0 THEN l2.mtu ELSE nip.mtu,
       addrs |-> nip.addrs, routes |-> nip.routes]

buildNetplanState(spec) ==
  {d \in {NetplanDevice(spec, k) : k \in NetplanKeys(spec)} : d.kind # None}
=============================================================================
