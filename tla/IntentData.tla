----------------------------- MODULE IntentData -----------------------------
(***************************************************************************)
(* The resolved intents every builder reads, and the helpers the builders  *)
(* share (pkg/reconciler/intent/resolver, builder/helpers.go).             *)
(*                                                                         *)
(* A world w holds the fetched objects:                                    *)
(*   w.nodes     node -> its internal addresses                            *)
(*   w.nets      Network -> [vni, vlan, v4, v6]  (0 and NoCIDR: not set)   *)
(*   w.vrfs      VRF -> [name, rt]: backbone name and route target         *)
(*   w.dests     Destinations in list order: [name, vrf, prefixes, hops]   *)
(*   w.aps       AnnouncementPolicies: [vrf, sel, host, enabled, agg...] *)
(*   w.inb, w.outb, w.pods, w.l2as, w.peerings, w.cols, w.mirrors, w.nas   *)
(* A label selector is the set of the names it matches, Unset or Invalid;  *)
(* filters, routes and ACL lists are the sets of their members.            *)
(***************************************************************************)
EXTENDS Integers, Sequences, FiniteSets, SequencesExt

Unset == {"<unset>"}
Invalid == {"<invalid>"}
None == ""
NoCIDR == [net |-> None, len |-> 0, fam |-> 4]
NoAddrs == {NoCIDR}      \* addresses that are not set, unlike an empty list

\* Go's map lookups.
Has(f, k) == k \in DOMAIN f

Families(net) == {net.v4, net.v6} \ {NoCIDR}

-----------------------------------------------------------------------------
\* resolver: a Destination whose VRF is unknown is not resolved at all.
Resolved(w, d) == d.vrf = None \/ Has(w.vrfs, d.vrf)

Matched(w, sel) ==
  IF sel \in {Unset, Invalid} THEN <<>>
  ELSE SelectSeq(w.dests, LAMBDA d : d.name \in sel)

MatchedVRF(w, sel) ==
  SelectSeq(Matched(w, sel), LAMBDA d : d.vrf # None /\ Resolved(w, d))

\* groupDestinationsByVRF and resolveSelectorVRFs: the VRFs a selector
\* reaches; nextHop Destinations and unknown VRFs drop out.
groupDestinationsByVRF(w, sel) ==
  [v \in {w.vrfs[d.vrf].name : d \in ToSet(MatchedVRF(w, sel))} |->
     {d \in ToSet(MatchedVRF(w, sel)) : w.vrfs[d.vrf].name = v}]

SelVRFs(w, sel) == DOMAIN groupDestinationsByVRF(w, sel)

\* resolveVRFSpec: of the Destinations of one VRF, the first one's VRF.
VRFSpec(w, sel, v) ==
  w.vrfs[SelectSeq(MatchedVRF(w, sel), LAMBDA d : w.vrfs[d.vrf].name = v)[1].vrf]

\* resolveDestinationVRF of Layer2Attachments and PodNetworks: the first
\* matching Destination with a VRF decides.
FirstVRF(w, sel) ==
  IF MatchedVRF(w, sel) = <<>> THEN None ELSE w.vrfs[MatchedVRF(w, sel)[1].vrf].name

\* matchNodes.
matchNodes(w, sel) == IF sel = Unset THEN DOMAIN w.nodes ELSE DOMAIN w.nodes \cap sel

-----------------------------------------------------------------------------
\* findMatchingAP: the policies of a VRF that select the consumer.
Policies(w, v) == {a \in w.aps : Has(w.vrfs, a.vrf) /\ w.vrfs[a.vrf].name = v}

MatchingAPs(w, c, v) == {a \in Policies(w, v) : a.sel = Unset \/ c.name \in a.sel}

Ambiguous(w, c, v) ==
  \/ \E a \in Policies(w, v) : a.sel = Invalid
  \/ Cardinality(MatchingAPs(w, c, v)) > 1

NoAP == [vrf |-> None, sel |-> Unset, host |-> {}, enabled |-> TRUE, agg |-> {}, len4 |-> 0, len6 |-> 0]

findMatchingAP(w, c, v) ==
  IF MatchingAPs(w, c, v) = {} THEN NoAP ELSE CHOOSE a \in MatchingAPs(w, c, v) : TRUE

-----------------------------------------------------------------------------
\* Filter items: prefix, length bounds (0: none), action, added communities.
Item(prefix, ge, le, accept, comm) ==
  [prefix |-> prefix, ge |-> ge, le |-> le, accept |-> accept, comm |-> comm]

maxLen(p) == IF p.fam = 4 THEN 32 ELSE 128

\* addressFilterItems, prefixFilterItems.
addressFilterItems(addrs, ap) == {Item(a, 0, maxLen(a), TRUE, ap.host) : a \in addrs}

\* cidrFilterItems: without a policy everything below the prefix; with one,
\* host routes and the rest apart.
cidrFilterItems(c, ap) ==
  IF ap = NoAP THEN {Item(c, 0, maxLen(c), TRUE, {})}
  ELSE {Item(c, maxLen(c), maxLen(c), TRUE, ap.host),
        Item(c, 0, maxLen(c) - 1, ap.enabled, IF ap.enabled THEN ap.agg ELSE {})}

networkCIDRFilterItems(net, ap) == UNION {cidrFilterItems(c, ap) : c \in Families(net)}

\* Mutant: an override may shorten the prefix.
computeShorterPrefix(c, len) == IF len = 0 THEN c ELSE [c EXCEPT !.len = len]

\* computeAggregatePrefix: an override only ever lengthens the prefix.
computeAggregatePrefix(c, len) == IF len <= c.len THEN c ELSE [c EXCEPT !.len = len]

-----------------------------------------------------------------------------
\* A VRF of the node configuration; buildFabricVRF starts one.
NoFilter == {Item(NoCIDR, 0, 0, FALSE, {})}
EmptyVRF == [rts |-> {}, exports |-> {}, imports |-> {}, statics |-> {}, redist |-> NoFilter,
             peers |-> {}, acls |-> {}, loops |-> {}, gres |-> {}]

buildFabricVRF(spec) == [EmptyVRF EXCEPT !.rts = {spec.rt} \ {None}]

\* addAggregateRoutes: a blackhole route per family, and an export item for
\* it unless one with the same prefix is already there.
addAggregateRoutes(f, net, ap) ==
  LET prefixes == {computeAggregatePrefix(c, IF c.fam = 4 THEN ap.len4 ELSE ap.len6) :
                     c \in Families(net)}
      fresh == {p \in prefixes : \A i \in f.exports : i.prefix # p}
  IN  IF ~ap.enabled THEN f
      ELSE [f EXCEPT !.statics = @ \cup prefixes,
                     !.exports = @ \cup {Item(p, 0, 0, TRUE, ap.agg) : p \in fresh}]

\* addNetworkToFabricVRF.
addNetworkToFabricVRF(f, net, ap) ==
  [f EXCEPT !.exports = @ \cup networkCIDRFilterItems(net, ap),
            !.imports = @ \cup networkCIDRFilterItems(net, NoAP)]

\* Adding routes to a VRF: exported with the policy, imported plainly.
AddAddresses(f, addrs, ap) ==
  [f EXCEPT !.exports = @ \cup addressFilterItems(addrs, ap),
            !.imports = @ \cup addressFilterItems(addrs, NoAP)]

\* A builder's contribution: for every VRF that a consumer reaches, the
\* consumers folded, in list order, into the VRF the first one starts.
Contribution(cs, Reach(_), Spec(_, _), Add(_, _, _)) ==
  [v \in UNION {Reach(c) : c \in ToSet(cs)} |->
     LET users == SelectSeq(cs, LAMBDA c : v \in Reach(c))
     IN  FoldLeft(LAMBDA f, c : Add(f, c, v), buildFabricVRF(Spec(users[1], v)), users)]
=============================================================================
