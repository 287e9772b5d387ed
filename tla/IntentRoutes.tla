---------------------------- MODULE IntentRoutes ----------------------------
(***************************************************************************)
(* The builders that turn intents into VRF configuration                   *)
(* (pkg/reconciler/intent/builder): Inbound, Outbound, PodNetwork,         *)
(* BGPPeering, Collector, NodeAttachment and source-based routing (SBR).   *)
(* Each gives, per node, a function from VRF names to what it contributes. *)
(***************************************************************************)
EXTENDS IntentData

\* collectAddresses: the allocated addresses, else the requested ones.
collectAddresses(c) == IF c.status # NoAddrs THEN c.status ELSE IF c.spec # NoAddrs THEN c.spec ELSE {}

\* Inbounds and Outbounds reach every VRF of their Destinations, or none when
\* the Network is unknown or the policy of one of the VRFs is ambiguous.
Reach(w, c) ==
  IF Has(w.nets, c.net) /\ \A v \in SelVRFs(w, c.sel) : ~Ambiguous(w, c, v)
  THEN SelVRFs(w, c.sel) ELSE {}

AddConsumer(w, f, c, v) ==
  LET ap == findMatchingAP(w, c, v)
  IN  addAggregateRoutes(AddAddresses(f, collectAddresses(c), ap), w.nets[c.net], ap)

\* buildRedistribute.
buildRedistribute(net) == {Item(p, 0, 0, TRUE, {}) : p \in Families(net)}

\* mergeRedistribute appends to the filter of the VRF's first contributor,
\* which that consumer's other VRFs (and the other nodes) share.
First(w, cs, v) == CHOOSE i \in 1..Len(cs) :
  v \in Reach(w, cs[i]) /\ \A j \in 1..(i - 1) : v \notin Reach(w, cs[j])

Redistributed(w, cs, v) ==
  LET owner == First(w, cs, v)
      merged == {j \in owner..Len(cs) :
                   j = owner \/ \E u \in Reach(w, cs[j]) : First(w, cs, u) = owner}
      items == UNION {buildRedistribute(w.nets[cs[j].net]) : j \in merged}
  IN  IF items = {} THEN NoFilter ELSE items

\* applyInboundToNodes: every node gets the same.
InboundBuild(w) ==
  LET base == Contribution(w.inb, LAMBDA c : Reach(w, c),
                LAMBDA c, v : VRFSpec(w, c.sel, v), LAMBDA f, c, v : AddConsumer(w, f, c, v))
  IN  [v \in DOMAIN base |-> [base[v] EXCEPT !.redist = Redistributed(w, w.inb, v)]]

\* applyOutbound.
OutboundBuild(w) ==
  Contribution(w.outb, LAMBDA c : Reach(w, c),
    LAMBDA c, v : VRFSpec(w, c.sel, v), LAMBDA f, c, v : AddConsumer(w, f, c, v))

\* A PodNetwork reaches one VRF: its first Destination's.
PodReach(w, c) ==
  LET v == FirstVRF(w, c.sel)
  IN  IF Has(w.nets, c.net) /\ v # None /\ ~Ambiguous(w, c, v) THEN {v} ELSE {}

PodNetworkBuild(w) ==
  Contribution(w.pods, LAMBDA c : PodReach(w, c), LAMBDA c, v : VRFSpec(w, c.sel, v),
    LAMBDA f, c, v :
      LET items == buildRedistribute(w.nets[c.net])
      IN  addAggregateRoutes(
            IF items = {} THEN f
            ELSE [f EXCEPT !.redist = IF @ = NoFilter THEN items ELSE @ \cup items],
            w.nets[c.net], findMatchingAP(w, c, v)))

-----------------------------------------------------------------------------
\* BGPPeering, listenRange mode: peers per family of the attachment's
\* Network in every VRF of the attachment; only the prefixes of networkRefs
\* are accepted from the workload and exported.
Attachment(w, name) == SelectSeq(w.l2as, LAMBDA l : l.name = name)

ListenReach(w, p) ==
  LET a == Attachment(w, p.att)
  IN  IF p.mode = "listenRange" /\ a # <<>> /\ Has(w.nets, a[1].net)
      THEN SelVRFs(w, a[1].sel) ELSE {}

resolveNetworkCIDRs(w, p) == UNION {Families(w.nets[r]) : r \in p.refs \cap DOMAIN w.nets}

buildListenRangePeers(w, p) ==
  {[peering |-> p.name, range |-> c, password |-> p.password,
    accepts |-> {Item(x, 0, maxLen(x), TRUE, {}) :
                   x \in {y \in resolveNetworkCIDRs(w, p) : y.fam = c.fam}}] :
     c \in Families(w.nets[Attachment(w, p.att)[1].net])}

evpnExportItems(w, p) ==
  {Item(x, 0, maxLen(x), TRUE, p.comm) : x \in resolveNetworkCIDRs(w, p)}

\* The VRF of a listen range is the last matching Destination's.
ListenSpec(w, p, v) ==
  w.vrfs[Last(SelectSeq(MatchedVRF(w, Attachment(w, p.att)[1].sel),
                        LAMBDA d : w.vrfs[d.vrf].name = v)).vrf]

BGPPeeringBuild(w) ==
  Contribution(w.peerings, LAMBDA p : ListenReach(w, p), LAMBDA p, v : ListenSpec(w, p, v),
    LAMBDA f, p, v : [f EXCEPT !.peers = @ \cup buildListenRangePeers(w, p),
                               !.exports = @ \cup evpnExportItems(w, p)])

\* buildLoopbackPeer: peers of the cluster VRF, which accept nothing.
buildLoopbackPeers(w) ==
  {[peering |-> p.name, families |-> IF p.families = {} THEN {4, 6} ELSE p.families,
    password |-> p.password] :
     p \in {q \in ToSet(w.peerings) : q.mode = "loopbackPeer"}}

-----------------------------------------------------------------------------
\* Collectors: a loopback with the node's address and a GRE tunnel, on the
\* nodes that have an address.
mirrorGREName(col) == <<IF col.l2gre THEN "gtap" ELSE "gre", col.name>>

CollectorBuild(w, n) ==
  LET cols == SelectSeq(w.cols, LAMBDA c : Has(w.vrfs, c.vrf) /\ n \in c.addressed)
  IN  Contribution(cols, LAMBDA c : {w.vrfs[c.vrf].name}, LAMBDA c, v : w.vrfs[c.vrf],
        LAMBDA f, c, v : [f EXCEPT !.loops = @ \cup {c.loopback},
                                   !.gres = @ \cup {mirrorGREName(c)}])

-----------------------------------------------------------------------------
\* NodeAttachments: the node's own addresses into the VRFs, and the prefixes
\* of the Destinations from each VRF into the cluster VRF.
Attached(w, n) ==
  SelectSeq(w.nas, LAMBDA a : n \in matchNodes(w, a.nodes) /\ w.nodes[n] # {})

NodeAttachmentBuild(w, n) ==
  Contribution(Attached(w, n), LAMBDA a : SelVRFs(w, a.sel),
    LAMBDA a, v : VRFSpec(w, a.sel, v), LAMBDA f, a, v : AddAddresses(f, w.nodes[n], NoAP))

DestPrefixes(dests) == UNION {d.prefixes : d \in dests}

ClusterImports(w, n) ==
  UNION {UNION {{<<v, Item(p, 0, maxLen(p), TRUE, {})>> :
                   p \in DestPrefixes(groupDestinationsByVRF(w, a.sel)[v])} :
           v \in SelVRFs(w, a.sel)} : a \in ToSet(Attached(w, n))}

-----------------------------------------------------------------------------
\* SBR: one intermediate VRF per group of consumers, keyed by the VRF name of
\* a consumer that reaches one VRF, else by the names of the Destinations it
\* selects.
collectAddressAllocation(c) == IF c.spec # NoAddrs THEN c.spec ELSE IF c.status # NoAddrs THEN c.status ELSE {}

Consumers(w) ==
  {[sel |-> c.sel, sources |-> collectAddressAllocation(c)] : c \in ToSet(w.inb \o w.outb)}
  \cup {[sel |-> c.sel, sources |-> IF Has(w.nets, c.net) THEN Families(w.nets[c.net]) ELSE {}] :
          c \in ToSet(w.pods)}

Grouped(w) == {c \in Consumers(w) : c.sources # {} /\ SelVRFs(w, c.sel) # {}}

GroupKey(w, c) ==
  IF Cardinality(SelVRFs(w, c.sel)) = 1 THEN SelVRFs(w, c.sel)
  ELSE {d.name : d \in ToSet(Matched(w, c.sel))} \cup {"+"}

GroupMembers(w, k) == {c \in Grouped(w) : GroupKey(w, c) = k}

\* Mutant: the first consumer of a group decides its routes.
buildComboVRFOnce(w, k) ==
  LET c == CHOOSE x \in GroupMembers(w, k) : TRUE
  IN  UNION {{<<p, v>> : p \in DestPrefixes(groupDestinationsByVRF(w, c.sel)[v])} :
               v \in SelVRFs(w, c.sel)}

\* buildComboVRF: prefix -> VRF routes, for all of the group's VRFs.
buildComboVRF(w, k) ==
  UNION {UNION {{<<p, v>> : p \in DestPrefixes(groupDestinationsByVRF(w, c.sel)[v])} :
           v \in SelVRFs(w, c.sel)} : c \in GroupMembers(w, k)}

SBRGroups(w) == {GroupKey(w, c) : c \in Grouped(w)}

SBRLocalVRFs(w) == [k \in SBRGroups(w) |-> buildComboVRF(w, k)]

SBRPolicyRoutes(w) ==
  UNION {{[src |-> s, vrf |-> GroupKey(w, c)] : s \in c.sources} : c \in Grouped(w)}
=============================================================================
