----------------------------- MODULE MirrorRules -----------------------------
(***************************************************************************)
(* From the mirror ACLs of a node configuration to tc flower filters: the  *)
(* conversion in the FRR agent and the expansion in pkg/nl/mirror.go, and  *)
(* what either of them says of a packet.  An ACL has                       *)
(*   direction, proto ("" for any), src (None, or the family of the prefix *)
(*   that it names), dport (whether it names a port), destination.         *)
(***************************************************************************)
EXTENDS Naturals, Sequences

CONSTANTS
    None,           \* no prefix, no VRF, no bridge, ...
    MirrorPriorities  \* filters that fit behind mirrorFilterPriorityBase, per hook

Families == {"v4", "v6"}
PortProtos == {"tcp", "udp", "sctp"}

-----------------------------------------------------------------------------
(* The agent.                                                              *)

convertMirrorACL(acl, workloadFacing) ==
    [direction |-> IF acl.direction = "" THEN "both" ELSE acl.direction,
     workloadFacing |-> workloadFacing, gre |-> acl.destination,
     proto |-> acl.proto, src |-> acl.src, dport |-> acl.dport]

-----------------------------------------------------------------------------
(* pkg/nl.                                                                 *)

\* The hooks at which traffic in this direction passes the interface.
mirrorParents(direction, workloadFacing) ==
    LET toWorkload == IF workloadFacing THEN "egress" ELSE "ingress"
        fromWorkload == IF workloadFacing THEN "ingress" ELSE "egress"
    IN  CASE direction = "ingress" -> <<toWorkload>>
          [] direction = "egress" -> <<fromWorkload>>
          [] direction = "both" -> <<"ingress", "egress">>
          [] OTHER -> <<>>

mirrorFamilies(rule) ==
    IF rule.proto = "icmp" THEN <<"v4">>
    ELSE IF rule.proto = "icmpv6" THEN <<"v6">>
    ELSE IF rule.src \in Families THEN <<rule.src>> ELSE <<"v4", "v6">>

ipProtoNumber(proto) == IF proto \in PortProtos \union {"icmp", "icmpv6"} THEN proto ELSE "any"

mirrorProtos(rule) ==
    IF rule.proto # "" THEN <<ipProtoNumber(rule.proto)>>
    ELSE IF rule.dport THEN <<"tcp", "udp", "sctp">> ELSE <<"any">>

\* Every element of s with every element of t, in the order of two loops.
Pairs(s, t) ==
    [i \in 1..Len(s) * Len(t) |-> <<s[((i - 1) \div Len(t)) + 1], t[((i - 1) % Len(t)) + 1]>>]

buildMirrorMatches(rule) == Pairs(mirrorFamilies(rule), mirrorProtos(rule))

addMirrorFilter(hook, rule, match) ==
    [hook |-> hook, prio |-> 0, fam |-> match[1], proto |-> match[2],
     src |-> IF rule.src = match[1] THEN rule.src ELSE None,
     dport |-> rule.dport /\ match[2] \in PortProtos,
     to |-> rule.gre]

\* The filters of the rules of one interface, in the order in which they are
\* added, with the priority that nextMirrorPriority gives them.
MirrorFilters(rules) ==
    LET ofRule(r) ==
            LET all == Pairs(mirrorParents(r.direction, r.workloadFacing), buildMirrorMatches(r))
            IN  [i \in DOMAIN all |-> addMirrorFilter(all[i][1], r, all[i][2])]
        upTo[n \in 0..Len(rules)] == IF n = 0 THEN <<>> ELSE upTo[n - 1] \o ofRule(rules[n])
        flat == upTo[Len(rules)]
        before(i) == Len(SelectSeq(SubSeq(flat, 1, i - 1), LAMBDA f : f.hook = flat[i].hook))
    IN  [i \in DOMAIN flat |-> [flat[i] EXCEPT !.prio = before(i)]]

\* How many of them are added before a hook has no priority left.
Fitting(fs) ==
    LET bad == {i \in DOMAIN fs : fs[i].prio >= MirrorPriorities}
    IN  IF bad = {} THEN Len(fs) ELSE (CHOOSE i \in bad : \A j \in bad : i <= j) - 1

-----------------------------------------------------------------------------
(* What a packet sees of it.  toWorkload is its direction, source whether  *)
(* it comes from the prefix that ACLs name, port whether it goes to their  *)
(* port.                                                                   *)

Packets ==
    {p \in [toWorkload : BOOLEAN, fam : Families, proto : {"tcp", "udp", "icmp", "icmpv6"},
            source : BOOLEAN, port : BOOLEAN] :
        /\ p.port => p.proto \in PortProtos
        /\ p.proto = "icmp" => p.fam = "v4"
        /\ p.proto = "icmpv6" => p.fam = "v6"}

\* The ACL asks for this packet.
Asks(acl, p) ==
    /\ acl.direction = (IF p.toWorkload THEN "ingress" ELSE "egress")
    /\ acl.proto \in {"", p.proto}
    /\ acl.src # None => p.fam = acl.src /\ p.source
    /\ acl.dport => p.port

\* The filter takes it.  What goes to the workload enters the node at a VXLAN
\* interface and leaves it at an access port.
Takes(f, p, workloadFacing) ==
    /\ f.hook = (IF p.toWorkload # workloadFacing THEN "ingress" ELSE "egress")
    /\ f.fam = p.fam
    /\ f.proto \in {"any", p.proto}
    /\ f.src # None => p.source
    /\ f.dport => p.port
=============================================================================
