---------------------------- MODULE IntentStatus ----------------------------
(***************************************************************************)
(* What the status updater reports (pkg/reconciler/intent/status, with the *)
(* derivations of resolver/status_derive.go): the Ready condition of each  *)
(* intent object, from the references that resolve and the skips the       *)
(* builders reported.                                                      *)
(***************************************************************************)
EXTENDS IntentL2

\* reportSkip calls: the objects a builder skipped and said so.
SomeAmbiguous(w, c) == \E v \in SelVRFs(w, c.sel) : Ambiguous(w, c, v)

Skipped(w, kind) ==
  CASE kind = "Inbound" ->
         {c \in ToSet(w.inb) : ~Has(w.nets, c.net) \/ SomeAmbiguous(w, c)}
    [] kind = "Outbound" ->
         {c \in ToSet(w.outb) : Has(w.nets, c.net) /\ SomeAmbiguous(w, c)}
    [] kind = "PodNetwork" ->
         {c \in ToSet(w.pods) : \/ ~Has(w.nets, c.net) \/ c.sel = Invalid
                                \/ /\ FirstVRF(w, c.sel) # None
                                   /\ Ambiguous(w, c, FirstVRF(w, c.sel))}
    [] kind = "Layer2Attachment" ->
         {l \in ToSet(w.l2as) : Has(w.nets, l.net) /\ l \notin Applied(w)}
    [] kind = "Collector" -> {c \in ToSet(w.cols) : ~Has(w.vrfs, c.vrf)}
    [] kind = "TrafficMirror" ->
         {m \in ToSet(w.mirrors) : \/ Named(w.cols, m.col) = <<>>
                                   \/ MirrorSlot(w, m) \cup SelVRFs(w, MirrorSel(w, m)) = {}}
    [] kind = "NodeAttachment" ->
         {a \in ToSet(w.nas) : a.nodes = Invalid /\ SelVRFs(w, a.sel) # {}}
    [] kind = "BGPPeering" ->
         {p \in ToSet(w.peerings) : \/ p.mode = "listenRange" /\ ListenReach(w, p) = {}
                                    \/ p.mode \notin {"listenRange", "loopbackPeer"}}

\* checkBGPPeeringRefs.
checkBGPPeeringRefs(w, p) ==
  CASE p.mode = "listenRange" ->
         Attachment(w, p.att) # <<>> /\ p.refs # {} /\ p.refs \subseteq DOMAIN w.nets
    [] p.mode = "loopbackPeer" ->
         p.inbounds # {} /\ \A i \in p.inbounds : Named(w.inb, i) # <<>>
    [] OTHER -> FALSE

\* The Resolved condition.
ResolvedRefs(w, kind, c) ==
  CASE kind \in {"Inbound", "Outbound", "PodNetwork", "Layer2Attachment"} -> Has(w.nets, c.net)
    [] kind = "Collector" -> TRUE
    [] kind = "TrafficMirror" -> Named(w.cols, c.col) # <<>>
    [] kind = "NodeAttachment" -> Has(w.vrfs, c.vrf)
    [] kind = "BGPPeering" -> checkBGPPeeringRefs(w, c)
    [] kind = "Destination" -> Resolved(w, c)

\* applyBuildIssue: a reported skip overrides.
Ready(w, kind, c) ==
  ResolvedRefs(w, kind, c) /\ (kind # "Destination" => c \notin Skipped(w, kind))

\* SelectorVRFRefs and BGPPeeringVRFRefs: the VRF references shown in status.
SelectorVRFRefs(w, sel) == {d.vrf : d \in ToSet(Matched(w, sel))} \ {None}

BGPPeeringVRFRefs(w, p) ==
  UNION ({SelectorVRFRefs(w, l.sel) : l \in ToSet(Attachment(w, p.att))}
         \cup {SelectorVRFRefs(w, c.sel) : c \in {x \in ToSet(w.inb) : x.name \in p.inbounds}})

\* BGPPeeringNodes and bgpPeeringASNumber: the AS number the nodes agree on.
BGPPeeringNodes(w, p) ==
  IF p.mode # "listenRange" THEN DOMAIN w.nodes
  ELSE IF Attachment(w, p.att) = <<>> THEN {} ELSE matchNodes(w, Attachment(w, p.att)[1].nodes)

bgpPeeringASNumber(w, p, asns) ==
  LET seen == {asns[n] : n \in BGPPeeringNodes(w, p) \cap DOMAIN asns} \ {0}
  IN  IF Cardinality(seen) = 1 THEN CHOOSE a \in seen : TRUE ELSE 0

\* effectiveInterfaceName of a Layer2Attachment.
effectiveInterfaceName(w, l) ==
  IF Has(w.nets, l.net) THEN netplanClaimName(w, l) ELSE l.iname

-----------------------------------------------------------------------------
\* The properties speak of a Destination's VRF name directly.
Wants(w, c, v) ==
  \E d \in ToSet(w.dests) :
    /\ c.sel \notin {Unset, Invalid} /\ d.name \in c.sel
    /\ d.vrf \in DOMAIN w.vrfs /\ w.vrfs[d.vrf].name = v

Below(p, c) == p.net = c.net /\ p.len >= c.len

\* Isolation: whatever a node exports into the EVPN of a VRF is an address or
\* lies in a Network of an object that selects a Destination of that VRF, or
\* in a Network that a BGPPeering on such an attachment names; no builder and
\* no merge carries a route into another VRF.
ExportsJustified(w) ==
  \A n \in DOMAIN w.nodes : \A v \in DOMAIN FabricVRFs(w, n) :
    \A i \in FabricVRFs(w, n)[v].exports :
      \/ \E c \in ToSet(w.inb \o w.outb) : Wants(w, c, v) /\ i.prefix \in collectAddresses(c)
      \/ \E c \in ToSet(w.inb \o w.outb \o w.pods \o w.l2as) :
           /\ Wants(w, c, v) /\ Has(w.nets, c.net)
           /\ \E f \in Families(w.nets[c.net]) : Below(i.prefix, f)
      \/ \E a \in ToSet(w.nas) : Wants(w, a, v) /\ i.prefix \in w.nodes[n]
      \/ \E p \in ToSet(w.peerings), l \in ToSet(w.l2as) :
           /\ p.att = l.name /\ Wants(w, l, v)
           /\ \E r \in p.refs \cap DOMAIN w.nets : i.prefix \in Families(w.nets[r])

\* An Inbound or Outbound shown Ready has its addresses exported on every node
\* in each VRF its status lists: the status writer, which derives the VRFs by
\* itself, agrees with what builders and assembler produce.
ReadyIsAnnounced(w) ==
  \A kind \in {"Inbound", "Outbound"} :
    \A c \in ToSet(IF kind = "Inbound" THEN w.inb ELSE w.outb) : Ready(w, kind, c) =>
      \A r \in SelectorVRFRefs(w, c.sel) \cap DOMAIN w.vrfs, n \in DOMAIN w.nodes :
        /\ w.vrfs[r].name \in DOMAIN FabricVRFs(w, n)
        /\ \A a \in collectAddresses(c) : \E i \in FabricVRFs(w, n)[w.vrfs[r].name].exports :
             i.prefix = a /\ i.accept

\* Source-based routing: traffic from a Ready consumer's addresses is sent to
\* an intermediate VRF which has a route for every prefix of every Destination
\* it selects, through a VRF that exists on the node and that the prefix's
\* Destination names.
SourcesRouted(w) ==
  \A c \in ToSet(w.inb \o w.outb) : \A s \in collectAddressAllocation(c), v \in SelVRFs(w, c.sel) :
    LET hops == {r.vrf : r \in {x \in SBRPolicyRoutes(w) : x.src = s}}
    IN  /\ hops # {} /\ hops \subseteq DOMAIN SBRLocalVRFs(w)
        /\ c \notin Skipped(w, "Inbound") \cup Skipped(w, "Outbound") /\ Has(w.nets, c.net) =>
             \A n \in DOMAIN w.nodes : v \in DOMAIN FabricVRFs(w, n)
        /\ \E h \in hops : \A d \in ToSet(MatchedVRF(w, c.sel)) : \A p \in d.prefixes :
             <<p, w.vrfs[d.vrf].name>> \in SBRLocalVRFs(w)[h]

\* No two attachments configure one interface: the netplan devices of a node
\* have different names, and the name that the status of a Ready VLAN
\* attachment announces is one of them, with its VLAN.
DevicesDistinct(w) ==
  \A n \in DOMAIN w.nodes :
    LET spec == Assemble(w, n)
    IN  /\ \A k1, k2 \in NetplanKeys(spec) : k1 # k2 =>
             NetplanDevice(spec, k1).name # NetplanDevice(spec, k2).name
        /\ \A l \in ToSet(w.l2as) :
             /\ Ready(w, "Layer2Attachment", l) /\ n \in matchNodes(w, l.nodes)
             /\ w.nets[l.net].vlan # 0 /\ (hbn(w, l) \/ l.iref # None)
             => \E d \in buildNetplanState(spec) :
                  d.name = effectiveInterfaceName(w, l) /\ d.vlan = w.nets[l.net].vlan

\* A Ready mirror of an attachment has its ACLs, in every direction it asks
\* for, on the segment of each node the attachment is on, and only segments
\* an attachment configured carry ACLs.
MirrorsPlaced(w) ==
  \A n \in DOMAIN w.nodes :
    /\ \A m \in ToSet(w.mirrors), l \in On(w, n) :
         /\ Ready(w, "TrafficMirror", m) /\ m.kind = "Layer2Attachment" /\ m.src = l.name
         => ACLs(w, m) \subseteq Layer2s(w, n)[netplanMapKey(w, l)].acls
    /\ \A k \in DOMAIN Layer2s(w, n) : \E l \in On(w, n) : netplanMapKey(w, l) = k

\* Shortening VRF names keeps the configuration connected: when it succeeds,
\* every VRF that routes, imports and gateways name is still there, and no two
\* VRFs became one.
NamesStayConnected(w) ==
  \A n \in DOMAIN w.nodes :
    LET spec == Assemble(w, n)
        out == Reduce(spec)
        Names(s) == UNION {{x[2] : x \in s.local[k]} : k \in DOMAIN s.local}
                      \cup {x[1] : x \in s.imports}
                      \cup ({s.layer2s[k].irb : k \in DOMAIN s.layer2s} \ {None})
    IN  ~ReduceFails(spec) =>
          /\ Cardinality(DOMAIN out.fabric) = Cardinality(DOMAIN spec.fabric)
          /\ Names(spec) \subseteq DOMAIN spec.fabric => Names(out) \subseteq DOMAIN out.fabric

\* inbound.md: an Inbound whose Network is unknown, or none of whose selected
\* Destinations is bound to a VRF, is not Ready.
ReadyInboundReaches(w) ==
  \A c \in ToSet(w.inb) : Ready(w, "Inbound", c) => Reach(w, c) # {}
=============================================================================
