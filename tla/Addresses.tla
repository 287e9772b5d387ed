------------------------------ MODULE Addresses ------------------------------
(***************************************************************************)
(* The address arithmetic of the intent reconciler: the pools of           *)
(* pkg/reconciler/intent/ipam, its per-node subnet allocator, and the      *)
(* gateway rule of pkg/reconciler/intent/ipmath.                           *)
(*                                                                         *)
(* An address is a number below 2^Width; Width stands for 32 and for 128,  *)
(* v4 says which of the two families a CIDR belongs to.  A CIDR keeps the  *)
(* address it was written with, [ip, bits, v4]: net.ParseCIDR returns that *)
(* address beside the masked network.                                      *)
(***************************************************************************)
EXTENDS Integers, FiniteSets

CONSTANT Width

NoAddr == -1
MaxOf(S) == CHOOSE x \in S : \A y \in S : y <= x

\* The number of members of S below x; the sequential loops of the code hand
\* out addresses in this order.
Rank(S, x) == Cardinality({y \in S : y < x})

Size(c) == 2 ^ (Width - c.bits)
NetworkAddr(c) == (c.ip \div Size(c)) * Size(c)
LastAddr(c) == NetworkAddr(c) + Size(c) - 1
Contains(c, a) == NetworkAddr(c) <= a /\ a <= LastAddr(c)

\* The increment wraps at the end of the address space.
nextAddr(a) == (a + 1) % 2 ^ Width

broadcastAddr(c) == IF c.v4 /\ c.bits # Width THEN LastAddr(c) ELSE NoAddr

\* A network the allocator can handle: it lies in the address space, is not
\* the whole space, and an IPv6 network does not end with the space.
FitWidth == 2 ^ Width \in Nat \ {0}
FitCIDR(c) ==
  /\ NetworkAddr(c) \in Nat /\ LastAddr(c) \in Nat /\ c.ip \in Int
  /\ NetworkAddr(c) <= LastAddr(c) /\ LastAddr(c) < 2 ^ Width
  /\ LastAddr(c) + 1 = 2 ^ Width => c.v4 /\ NetworkAddr(c) > 0

-----------------------------------------------------------------------------
(* Pools: the allocation cursor of one family of one Network.              *)

newPool(c, l3) ==
  [cidr      |-> c,
   reserved  |-> {},
   nextIP    |-> IF l3 THEN NetworkAddr(c) ELSE nextAddr(NetworkAddr(c)),
   broadcast |-> IF l3 THEN NoAddr ELSE broadcastAddr(c),
   gateway   |-> IF l3 THEN NoAddr ELSE c.ip]

\* The successor of a parsed address: net.ParseIP returns IPv4 addresses in
\* their 16-byte form, which does not wrap at the end of the IPv4 space.
nextParsed(c, a) == IF c.v4 THEN a + 1 ELSE nextAddr(a)

\* Mutant: the cursor of a new pool ignores what was given out.
seedPoolForgets(p, addrs) == p

\* The cursor moves past every address already given out.
seedPoolFromAddresses(p, addrs) ==
  [p EXCEPT !.nextIP = MaxOf({@} \cup {nextParsed(p.cidr, a) : a \in addrs})]

inReserved(ranges, a) == \E r \in ranges : Contains(r, a)

\* What the skipping loop of allocateFromCIDR can still reach: nothing once
\* the cursor has left the network, at its end or around the address space.
Usable(p) ==
  {a \in p.nextIP .. LastAddr(p.cidr) :
     /\ Contains(p.cidr, p.nextIP)
     /\ a \notin {p.broadcast, p.gateway}
     /\ ~inReserved(p.reserved, a)}

\* Where that loop stops when nothing usable is left: on the broadcast
\* address or just outside the network.
Stop(p) ==
  IF ~Contains(p.cidr, p.nextIP) THEN p.nextIP
  ELSE IF p.broadcast # NoAddr THEN p.broadcast
  ELSE nextAddr(LastAddr(p.cidr))

\* n addresses or none; a failed attempt leaves the cursor at the end.
allocateFromCIDR(pool, n, reserved) ==
  LET p == [pool EXCEPT !.reserved = @ \cup reserved]
      ips == {a \in Usable(p) : Rank(Usable(p), a) < n}
      ok == Cardinality(ips) = n
  IN  [ips  |-> IF ok THEN ips ELSE {},
       pool |-> [p EXCEPT !.nextIP =
                   IF ~ok THEN Stop(p)
                   ELSE IF ips = {} THEN @ ELSE nextAddr(MaxOf(ips))]]

-----------------------------------------------------------------------------
(* AllocateSubnet: one address per node of a Collector's loopback subnet.  *)
(* Nodes are numbers, in the lexical order of their names.                 *)

\* Mutant: addresses go by rank among all nodes, whatever a node has.
AllocateSubnetAfresh(c, nodes, existing) ==
  LET free  == {a \in nextAddr(NetworkAddr(c)) .. LastAddr(c) : a # broadcastAddr(c)}
      given == {n \in nodes : Rank(nodes, n) < Cardinality(free)}
  IN  [Updated |-> [n \in given |-> CHOOSE a \in free : Rank(free, a) = Rank(nodes, n)],
       Removed |-> DOMAIN existing \ nodes,
       Unallocated |-> nodes \ given]

AllocateSubnet(c, nodes, existing) ==
  LET kept  == nodes \cap DOMAIN existing
      used  == {existing[n] : n \in kept}
      new   == nodes \ kept
      free  == {a \in nextAddr(NetworkAddr(c)) .. LastAddr(c) :
                  a # broadcastAddr(c) /\ a \notin used}
      given == {n \in new : Rank(new, n) < Cardinality(free)}
  IN  [Updated |-> [n \in kept \cup given |->
                      IF n \in kept THEN existing[n]
                      ELSE CHOOSE a \in free : Rank(free, a) = Rank(new, n)],
       Removed |-> DOMAIN existing \ nodes,
       Unallocated |-> new \ given]

-----------------------------------------------------------------------------
(* ipmath: the anycast gateway the IRB and the default route use.          *)

GatewayAddr(c) ==
  LET gw == NetworkAddr(c) + 1
  IN  IF c.bits = Width - 1 THEN NetworkAddr(c)
      ELSE IF gw < 2 ^ Width /\ Contains(c, gw) /\ gw # broadcastAddr(c) THEN gw
      ELSE NoAddr
=============================================================================
