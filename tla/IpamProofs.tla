----------------------------- MODULE IpamProofs -----------------------------
(***************************************************************************)
(* Proofs about Addresses and Ipam: what the pools guarantee for address   *)
(* spaces and networks of any size, and what the allocation does with them *)
(* for any objects, Networks that meet WellFormed, any nodes, any number   *)
(* of passes and any churn.                                                *)
(***************************************************************************)
EXTENDS Ipam, WellFoundedInduction, TLAPS

(***************************************************************************)
(* The pools.                                                              *)
(***************************************************************************)
\* A pool in the states the allocator leaves it in.
IsPool(p) ==
  /\ p = [cidr |-> p.cidr, reserved |-> p.reserved, nextIP |-> p.nextIP,
          broadcast |-> p.broadcast, gateway |-> p.gateway]
  /\ p.nextIP \in Int /\ p.gateway \in Int
  /\ p.broadcast \in {NoAddr, LastAddr(p.cidr)}

InNet(c) == {a \in Int : Contains(c, a)}

-----------------------------------------------------------------------------
\* A bounded set of integers has the maximum that MaxOf chooses.
LEMMA MaxOfBounded ==
  ASSUME NEW S \in SUBSET Int, S # {}, NEW b \in Int, \A x \in S : x <= b
  PROVE  MaxOf(S) \in S /\ \A y \in S : y <= MaxOf(S)
<1> DEFINE T == {k \in Nat : b - k \in S}
           R == OpToRel(<, Nat)
<1>1. T \subseteq Nat
  OBVIOUS
<1>2. T # {}
  <2>1. PICK x \in S : TRUE
    OBVIOUS
  <2>2. b - x \in Nat /\ b - (b - x) = x
    BY <2>1
  <2> QED
    BY <2>1, <2>2
<1>3. \E k \in T : \A j \in T : ~(<<j, k>> \in R)
  BY <1>1, <1>2, NatLessThanWellFounded, WFMin, Zenon
<1>4. PICK k \in T : \A j \in T : ~(j < k)
  BY <1>3 DEF OpToRel
<1>5. \A y \in S : y <= b - k
  <2>1. SUFFICES ASSUME NEW y \in S PROVE y <= b - k
    OBVIOUS
  <2>2. b - y \in Nat /\ b - (b - y) = y
    BY <2>1
  <2>3. b - y \in T
    BY <2>1, <2>2
  <2>4. ~(b - y < k)
    BY <1>4, <2>3
  <2> QED
    BY <1>4, <2>2, <2>4
<1>6. \E x \in S : \A y \in S : y <= x
  BY <1>4, <1>5
<1> QED
  BY <1>6 DEF MaxOf

\* The successor of an address wraps at the end of the space only.
LEMMA NextAddr ==
  ASSUME FitWidth, NEW a \in Nat, a < 2 ^ Width
  PROVE  nextAddr(a) = IF a + 1 = 2 ^ Width THEN 0 ELSE a + 1
  BY DEF FitWidth, nextAddr

-----------------------------------------------------------------------------
\* newPool: the cursor and what an attachment's pool keeps back.
LEMMA NewPool ==
  ASSUME FitWidth, NEW c, FitCIDR(c), NEW l3 \in BOOLEAN
  PROVE  /\ IsPool(newPool(c, l3)) /\ newPool(c, l3).cidr = c
         /\ newPool(c, l3).nextIP < 2 ^ Width
         /\ ~l3 => /\ newPool(c, l3).broadcast = broadcastAddr(c)
                   /\ NetworkAddr(c) \notin Usable(newPool(c, l3))
<1> DEFINE p == newPool(c, l3)
<1>1. /\ p.cidr = c
      /\ p.nextIP = IF l3 THEN NetworkAddr(c) ELSE nextAddr(NetworkAddr(c))
      /\ p.broadcast = IF l3 THEN NoAddr ELSE broadcastAddr(c)
      /\ p.gateway = IF l3 THEN NoAddr ELSE c.ip
      /\ p = [cidr |-> p.cidr, reserved |-> p.reserved, nextIP |-> p.nextIP,
              broadcast |-> p.broadcast, gateway |-> p.gateway]
  BY DEF newPool
<1> HIDE DEF p
<1>2. /\ NetworkAddr(c) \in Nat /\ LastAddr(c) \in Nat /\ NetworkAddr(c) <= LastAddr(c)
      /\ LastAddr(c) < 2 ^ Width /\ c.ip \in Int /\ 2 ^ Width \in Nat
  BY DEF FitCIDR, FitWidth
<1>3. NetworkAddr(c) < 2 ^ Width
  BY <1>2
<1>4. nextAddr(NetworkAddr(c)) = IF NetworkAddr(c) + 1 = 2 ^ Width THEN 0 ELSE NetworkAddr(c) + 1
  BY <1>2, <1>3, NextAddr
<1>5. p.nextIP \in Nat /\ p.nextIP < 2 ^ Width
  BY <1>1, <1>2, <1>3, <1>4
<1>6. p.broadcast \in {NoAddr, LastAddr(c)} /\ p.gateway \in Int
  BY <1>1, <1>2 DEF broadcastAddr, NoAddr
<1>7. ASSUME ~l3 PROVE NetworkAddr(c) \notin Usable(p)
  <2>1. p.nextIP = nextAddr(NetworkAddr(c))
    BY <1>1, <1>7
  <2>2. CASE NetworkAddr(c) + 1 = 2 ^ Width
    <3>1. NetworkAddr(c) > 0 /\ p.nextIP = 0
      BY <1>2, <1>4, <2>1, <2>2 DEF FitCIDR
    <3>2. ~Contains(p.cidr, p.nextIP)
      BY <1>1, <1>2, <3>1 DEF Contains
    <3> QED
      BY <3>2 DEF Usable
  <2>3. CASE NetworkAddr(c) + 1 # 2 ^ Width
    <3>1. p.nextIP > NetworkAddr(c)
      BY <1>2, <1>4, <2>1, <2>3
    <3> QED
      BY <1>1, <1>2, <1>5, <3>1 DEF Usable
  <2> QED
    BY <2>2, <2>3
<1> QED
  BY <1>1, <1>5, <1>6, <1>7 DEF IsPool, p

\* seedPoolFromAddresses: a seeded pool reaches no address it was seeded with,
\* and not the network address if it did not before.
LEMMA SeedPool ==
  ASSUME FitWidth, NEW p, IsPool(p), FitCIDR(p.cidr), p.nextIP < 2 ^ Width,
         NEW addrs \in SUBSET InNet(p.cidr)
  PROVE  LET q == seedPoolFromAddresses(p, addrs)
         IN  /\ IsPool(q) /\ q.cidr = p.cidr /\ q.broadcast = p.broadcast
             /\ Usable(q) \cap addrs = {}
             /\ NetworkAddr(q.cidr) \in Usable(q) => NetworkAddr(p.cidr) \in Usable(p)
<1> DEFINE q == seedPoolFromAddresses(p, addrs)
           c == p.cidr
           N == {nextParsed(c, a) : a \in addrs}
           S == {p.nextIP} \cup N
<1>1. /\ NetworkAddr(c) \in Nat /\ LastAddr(c) \in Nat
      /\ LastAddr(c) < 2 ^ Width /\ 2 ^ Width \in Nat /\ p.nextIP \in Int
  BY DEF FitCIDR, FitWidth, IsPool
<1>2. \A a \in addrs : a \in Nat /\ a <= LastAddr(c) /\ NetworkAddr(c) <= a
  BY <1>1 DEF InNet, Contains
<1>3. \A a \in addrs : nextParsed(c, a) = a + 1
  <2>1. SUFFICES ASSUME NEW a \in addrs PROVE nextParsed(c, a) = a + 1
    OBVIOUS
  <2>2. CASE c.v4
    BY <2>2 DEF nextParsed
  <2>3. CASE ~c.v4
    <3>1. LastAddr(c) + 1 # 2 ^ Width
      BY <2>3 DEF FitCIDR
    <3>2. a \in Nat /\ a < 2 ^ Width /\ a + 1 # 2 ^ Width
      BY <1>1, <1>2, <3>1
    <3> QED
      BY <2>3, <3>2, NextAddr DEF nextParsed
  <2> QED
    BY <2>2, <2>3
<1>4. S \in SUBSET Int /\ S # {} /\ \A x \in S : x <= 2 ^ Width
  BY <1>1, <1>2, <1>3
<1>5. MaxOf(S) \in S /\ \A y \in S : y <= MaxOf(S)
  <2>1. 2 ^ Width \in Int
    BY <1>1
  <2> HIDE DEF S
  <2> QED
    BY <1>4, <2>1, MaxOfBounded
<1>6. /\ q.nextIP = MaxOf(S) /\ q.cidr = c /\ q.broadcast = p.broadcast
      /\ q.gateway = p.gateway /\ q.reserved = p.reserved
      /\ q = [cidr |-> q.cidr, reserved |-> q.reserved, nextIP |-> q.nextIP,
              broadcast |-> q.broadcast, gateway |-> q.gateway]
  <2>1. q = [p EXCEPT !.nextIP = MaxOf(S)]
    BY DEF seedPoolFromAddresses
  <2> HIDE DEF q, S
  <2> QED
    BY <2>1 DEF IsPool
<1>7. \A a \in addrs : a < q.nextIP
  <2>1. SUFFICES ASSUME NEW a \in addrs PROVE a < q.nextIP
    OBVIOUS
  <2>2. a + 1 \in S
    BY <1>3
  <2>3. a + 1 <= MaxOf(S) /\ MaxOf(S) \in Int
    BY <1>4, <1>5, <2>2
  <2> QED
    BY <1>2, <1>6, <2>3
<1>8. q.nextIP \in Int
  BY <1>4, <1>5, <1>6
<1>9. q.nextIP = p.nextIP \/ q.nextIP > NetworkAddr(c)
  <2>1. CASE q.nextIP = p.nextIP
    BY <2>1
  <2>2. CASE q.nextIP # p.nextIP
    <3>1. PICK a \in addrs : q.nextIP = a + 1
      BY <1>3, <1>5, <1>6, <2>2
    <3> QED
      BY <1>1, <1>2, <3>1
  <2> QED
    BY <2>1, <2>2
<1> HIDE DEF q, S
<1>10. ASSUME NetworkAddr(c) \in Usable(q) PROVE NetworkAddr(c) \in Usable(p)
  <2>1. q.nextIP <= NetworkAddr(c)
    BY <1>1, <1>6, <1>8, <1>10 DEF Usable
  <2>2. q.nextIP = p.nextIP
    BY <1>1, <1>8, <1>9, <2>1
  <2> QED
    BY <1>6, <1>10, <2>2 DEF Usable
<1>11. Usable(q) \cap addrs = {}
  BY <1>1, <1>2, <1>6, <1>7, <1>8 DEF Usable
<1>12. IsPool(q)
  BY <1>6, <1>8 DEF IsPool
<1> QED
  BY <1>6, <1>10, <1>11, <1>12 DEF q

\* What a pool reaches lies in its network.
LEMMA UsableInNet ==
  ASSUME NEW p, IsPool(p), FitCIDR(p.cidr)
  PROVE  Usable(p) \subseteq InNet(p.cidr)
  BY DEF Usable, InNet, Contains, IsPool, FitCIDR

\* Reserving ranges only takes addresses away.
LEMMA ReservedPool ==
  ASSUME NEW p, IsPool(p), NEW ranges
  PROVE  LET q == [p EXCEPT !.reserved = @ \cup ranges]
         IN  /\ IsPool(q) /\ q.cidr = p.cidr /\ q.broadcast = p.broadcast
             /\ q.nextIP = p.nextIP /\ Usable(q) \subseteq Usable(p)
             /\ \A a \in Usable(q) : ~inReserved(ranges, a)
<1> DEFINE q == [p EXCEPT !.reserved = @ \cup ranges]
<1>1. /\ q.cidr = p.cidr /\ q.broadcast = p.broadcast /\ q.nextIP = p.nextIP
      /\ q.gateway = p.gateway /\ q.reserved = p.reserved \cup ranges
      /\ q = [cidr |-> q.cidr, reserved |-> q.reserved, nextIP |-> q.nextIP,
              broadcast |-> q.broadcast, gateway |-> q.gateway]
  BY DEF IsPool
<1> HIDE DEF q
<1>2. IsPool(q)
  BY <1>1 DEF IsPool
<1>3. \A a \in Usable(q) : a \in Usable(p) /\ ~inReserved(ranges, a)
  BY <1>1 DEF Usable, inReserved
<1> QED
  BY <1>1, <1>2, <1>3 DEF q

\* Moving the cursor of a pool.
Moved(p, a) == [p EXCEPT !.nextIP = a]

\* A moved pool reaches nothing outside what is left from its cursor on.
LEMMA MovedPool ==
  ASSUME NEW p, IsPool(p), NEW a \in Int
  PROVE  /\ IsPool(Moved(p, a)) /\ Moved(p, a).cidr = p.cidr
         /\ Moved(p, a).broadcast = p.broadcast /\ Moved(p, a).nextIP = a
         /\ Moved(p, a).gateway = p.gateway /\ Moved(p, a).reserved = p.reserved
<1>1. /\ Moved(p, a).cidr = p.cidr /\ Moved(p, a).broadcast = p.broadcast
      /\ Moved(p, a).nextIP = a /\ Moved(p, a).gateway = p.gateway
      /\ Moved(p, a).reserved = p.reserved
      /\ Moved(p, a) = [cidr |-> Moved(p, a).cidr, reserved |-> Moved(p, a).reserved,
                        nextIP |-> Moved(p, a).nextIP, broadcast |-> Moved(p, a).broadcast,
                        gateway |-> Moved(p, a).gateway]
  BY DEF IsPool, Moved
<1> QED
  BY <1>1 DEF IsPool

\* Giving up leaves a pool that reaches nothing more than before.
LEMMA StoppedPool ==
  ASSUME FitWidth, NEW p, IsPool(p), FitCIDR(p.cidr)
  PROVE  Stop(p) \in Int /\ Usable(Moved(p, Stop(p))) \subseteq Usable(p)
<1> DEFINE c == p.cidr
           q == Moved(p, Stop(p))
<1>1. /\ NetworkAddr(c) \in Nat /\ LastAddr(c) \in Nat /\ LastAddr(c) < 2 ^ Width
      /\ 2 ^ Width \in Nat /\ p.nextIP \in Int
  BY DEF FitCIDR, FitWidth, IsPool
<1>2. nextAddr(LastAddr(c)) = IF LastAddr(c) + 1 = 2 ^ Width THEN 0 ELSE LastAddr(c) + 1
  BY <1>1, NextAddr
<1>3. Stop(p) \in Int
  BY <1>1, <1>2 DEF Stop, IsPool, NoAddr
<1>4. /\ q.cidr = c /\ q.broadcast = p.broadcast /\ q.nextIP = Stop(p)
      /\ q.gateway = p.gateway /\ q.reserved = p.reserved
  BY <1>3, MovedPool
<1> SUFFICES Usable(q) \subseteq Usable(p)
  BY <1>3
<1> HIDE DEF q
<1>5. CASE ~Contains(c, p.nextIP)
  BY <1>4, <1>5 DEF Usable, Stop
<1>6. CASE Contains(c, p.nextIP) /\ p.broadcast # NoAddr
  <2>1. q.nextIP = LastAddr(c) /\ q.broadcast = LastAddr(c)
    BY <1>4, <1>6 DEF Stop, IsPool
  <2> QED
    BY <1>1, <1>4, <2>1 DEF Usable
<1>7. CASE Contains(c, p.nextIP) /\ p.broadcast = NoAddr
  <2>1. q.nextIP = nextAddr(LastAddr(c))
    BY <1>4, <1>7 DEF Stop
  <2>2. ~Contains(c, q.nextIP)
    BY <1>1, <1>2, <2>1 DEF Contains, FitCIDR
  <2> QED
    BY <1>4, <2>2 DEF Usable
<1> QED
  BY <1>5, <1>6, <1>7

\* Giving out addresses leaves a pool that reaches none of them again, nor
\* anything it did not reach before.
LEMMA AdvancedPool ==
  ASSUME FitWidth, NEW p, IsPool(p), FitCIDR(p.cidr),
         NEW ips \in SUBSET Usable(p), ips # {}
  PROVE  LET a == nextAddr(MaxOf(ips))
         IN  a \in Int /\ Usable(Moved(p, a)) \subseteq Usable(p) \ ips
<1> DEFINE c == p.cidr
           m == MaxOf(ips)
           q == Moved(p, nextAddr(m))
<1>1. /\ NetworkAddr(c) \in Nat /\ LastAddr(c) \in Nat /\ LastAddr(c) < 2 ^ Width
      /\ 2 ^ Width \in Nat /\ p.nextIP \in Int
  BY DEF FitCIDR, FitWidth, IsPool
<1>2. Contains(c, p.nextIP) /\ ips \subseteq p.nextIP .. LastAddr(c)
  BY DEF Usable
<1>3. ips \in SUBSET Int /\ \A x \in ips : x <= LastAddr(c)
  BY <1>1, <1>2
<1>4. m \in ips /\ \A y \in ips : y <= m
  <2>1. LastAddr(c) \in Int
    BY <1>1
  <2> QED
    BY <1>3, <2>1, MaxOfBounded
<1> HIDE DEF m
<1>5. m \in Nat /\ m < 2 ^ Width /\ p.nextIP <= m /\ m <= LastAddr(c)
  BY <1>1, <1>2, <1>4 DEF Contains
<1>6. nextAddr(m) = IF m + 1 = 2 ^ Width THEN 0 ELSE m + 1
  BY <1>5, NextAddr
<1>7. nextAddr(m) \in Int
  BY <1>5, <1>6
<1>8. /\ q.cidr = c /\ q.broadcast = p.broadcast /\ q.nextIP = nextAddr(m)
      /\ q.gateway = p.gateway /\ q.reserved = p.reserved
  BY <1>7, MovedPool
<1> HIDE DEF q
<1>9. CASE m + 1 = 2 ^ Width
  <2>1. LastAddr(c) + 1 = 2 ^ Width
    BY <1>1, <1>5, <1>9
  <2>2. NetworkAddr(c) > 0 /\ q.nextIP = 0
    BY <1>6, <1>8, <1>9, <2>1 DEF FitCIDR
  <2>3. ~Contains(c, q.nextIP)
    BY <1>1, <2>2 DEF Contains
  <2> QED
    BY <1>7, <1>8, <2>3 DEF Usable, q, m
<1>10. CASE m + 1 # 2 ^ Width
  <2>1. q.nextIP = m + 1
    BY <1>6, <1>8, <1>10
  <2>2. \A a \in Usable(q) : a \in Int /\ a > m /\ a \in p.nextIP .. LastAddr(c)
    BY <1>1, <1>5, <1>8, <2>1 DEF Usable
  <2>3. \A a \in Usable(q) : a \in Usable(p)
    BY <1>2, <1>8, <2>2 DEF Usable
  <2>4. \A a \in Usable(q) : a \notin ips
    BY <1>3, <1>4, <1>5, <2>2
  <2> QED
    BY <1>7, <2>3, <2>4 DEF q, m
<1> QED
  BY <1>9, <1>10

\* allocateFromCIDR: what it gives out was within reach, is not reserved and is
\* out of reach afterwards; it brings nothing back within reach.
LEMMA AllocateFromCIDR ==
  ASSUME FitWidth, NEW p, IsPool(p), FitCIDR(p.cidr), NEW n, NEW ranges
  PROVE  LET r == allocateFromCIDR(p, n, ranges)
         IN  /\ IsPool(r.pool) /\ r.pool.cidr = p.cidr
             /\ r.pool.broadcast = p.broadcast
             /\ r.ips \subseteq Usable(p)
             /\ Usable(r.pool) \subseteq Usable(p) \ r.ips
             /\ \A a \in r.ips : ~inReserved(ranges, a)
<1> DEFINE pp == [p EXCEPT !.reserved = @ \cup ranges]
           ips == {a \in Usable(pp) : Rank(Usable(pp), a) < n}
           ok == Cardinality(ips) = n
           r == allocateFromCIDR(p, n, ranges)
<1>1. /\ IsPool(pp) /\ pp.cidr = p.cidr /\ pp.broadcast = p.broadcast
      /\ Usable(pp) \subseteq Usable(p)
      /\ \A a \in Usable(pp) : ~inReserved(ranges, a)
  BY ReservedPool
<1>2. ips \subseteq Usable(pp)
  OBVIOUS
<1>3. r.ips = IF ok THEN ips ELSE {}
  BY DEF allocateFromCIDR
<1>4. r.pool = [pp EXCEPT !.nextIP = IF ~ok THEN Stop(pp)
                                     ELSE IF ips = {} THEN @ ELSE nextAddr(MaxOf(ips))]
  BY DEF allocateFromCIDR
<1> HIDE DEF pp, ips, ok, r
<1>5. pp.nextIP \in Int /\ Moved(pp, pp.nextIP) = pp
  BY <1>1 DEF IsPool, Moved
<1>6. \E a \in Int : r.pool = Moved(pp, a) /\ Usable(r.pool) \subseteq Usable(pp) \ r.ips
  <2>1. CASE ~ok
    <3>1. r.pool = Moved(pp, Stop(pp)) /\ r.ips = {}
      BY <1>3, <1>4, <2>1 DEF Moved
    <3> QED
      BY <1>1, <3>1, StoppedPool
  <2>2. CASE ok /\ ips = {}
    <3>1. r.pool = Moved(pp, pp.nextIP) /\ r.ips = {}
      BY <1>3, <1>4, <2>2 DEF Moved
    <3> QED
      BY <1>5, <3>1
  <2>3. CASE ok /\ ips # {}
    <3>1. r.pool = Moved(pp, nextAddr(MaxOf(ips))) /\ r.ips = ips
      BY <1>3, <1>4, <2>3 DEF Moved
    <3>2. /\ nextAddr(MaxOf(ips)) \in Int
          /\ Usable(Moved(pp, nextAddr(MaxOf(ips)))) \subseteq Usable(pp) \ ips
      BY <1>1, <1>2, <2>3, AdvancedPool
    <3> QED
      BY <3>1, <3>2
  <2> QED
    BY <2>1, <2>2, <2>3
<1>7. IsPool(r.pool) /\ r.pool.cidr = p.cidr /\ r.pool.broadcast = p.broadcast
  BY <1>1, <1>6, MovedPool
<1>8. r.ips \subseteq Usable(pp)
  BY <1>2, <1>3
<1>9. /\ r.ips \subseteq Usable(p) /\ Usable(r.pool) \subseteq Usable(p) \ r.ips
      /\ \A a \in r.ips : ~inReserved(ranges, a)
  BY <1>1, <1>6, <1>8
<1> QED
  BY <1>7, <1>9 DEF r

(***************************************************************************)
(* The allocation.                                                         *)
(***************************************************************************)
Addrs == [Families -> SUBSET Int]
Allocs == UNION {[S -> Addrs] : S \in SUBSET (Nodes \cup {0})}
Objects == [uid : Nat, rv : Nat, alloc : Allocs]
Views == [Consumers -> Objects]

\* Everything that al holds is in bl, at the same slot.
Covers(al, bl) == \A s \in DOMAIN al : s \in DOMAIN bl /\ bl[s] = al[s]

\* A copy v of the stored object o: of an earlier object, or of an earlier
\* version, or of this version with what has been allocated since.
Behind(v, o) ==
  v.uid = o.uid => v.rv <= o.rv /\ (v.rv = o.rv => Covers(o.alloc, v.alloc))
Copies(view, st, ch) ==
  \A c \in Consumers : /\ Behind(view[c], st[c]) /\ view[c].uid <= ch
                       /\ view[c].uid = 0 => view[c].rv = 0

\* A Network that only attachments use.
Switched(n) == \A d \in L3 : NetOf[d] # n

\* An address of family f that c may have.
Good(c, f, a) ==
  /\ Fam(c, f) # NoNet /\ Contains(Fam(c, f), a)
  /\ c \in L2As /\ Switched(NetOf[c]) =>
       /\ a \notin {NetworkAddr(Fam(c, f)), broadcastAddr(Fam(c, f))}
       /\ ~inReserved(ReservedRanges[c], a)
AllGood(view) ==
  \A c \in Consumers : \A s \in DOMAIN view[c].alloc : \A f \in Families :
    \A a \in view[c].alloc[s][f] : Good(c, f, a)

\* The pools of a pass; a pool of a switched Network has an attachment's limits.
GoodPool(k, p) ==
  /\ IsPool(p) /\ p.cidr = Networks[k[1]][k[2]]
  /\ Switched(k[1]) => /\ p.broadcast = broadcastAddr(p.cidr)
                       /\ NetworkAddr(p.cidr) \notin Usable(p)
GoodPools(pools) == \A k \in PoolKeys : pools[k] # NoPool => GoodPool(k, pools[k])

\* No pool reaches an address that some object holds.
OutOfReach(view, pools) ==
  \A c \in Consumers : \A s \in DOMAIN view[c].alloc : \A f \in Families :
    \A a \in view[c].alloc[s][f] :
      /\ pools[<<NetOf[c], f>>] # NoPool
      /\ a \notin Usable(pools[<<NetOf[c], f>>])

\* The copies of a pass that started on an up-to-date cache.
Fresh(view, pools, st) ==
  /\ \A c \in Consumers : Covers(st[c].alloc, view[c].alloc)
  /\ Unique(view) /\ OutOfReach(view, pools)

IsPass(p) ==
  p = [at |-> p.at, todo |-> p.todo, view |-> p.view, pools |-> p.pools,
       nodes |-> p.nodes, cur |-> p.cur, left |-> p.left, fresh |-> p.fresh,
       colview |-> p.colview]

\* Nodes that still wait for an address of the current attachment have none.
Waiting(p) ==
  p.cur # "" => p.at = 3 /\ p.left \cap DOMAIN p.view[p.cur].alloc = {}

PassOK(p, st, ch) ==
  /\ IsPass(p) /\ p.at \in 1 .. 4 /\ p.view \in Views
  /\ p.cur \in Consumers \cup {""} /\ Waiting(p)
  /\ Copies(p.view, st, ch) /\ AllGood(p.view) /\ GoodPools(p.pools)

\* The invariant, of a store, a cache, a pass, the flag and the churn.
InvOf(st, ca, p, sl, ch) ==
  /\ st \in Views /\ ca \in Views /\ ch \in Nat /\ sl \in BOOLEAN
  /\ \A c \in Consumers : st[c].uid <= ch /\ (st[c].uid = 0 => st[c] = Absent)
  /\ Copies(ca, st, ch) /\ AllGood(st) /\ AllGood(ca)
  /\ p = Idle \/ PassOK(p, st, ch)
  /\ ~sl => Unique(st) /\ (p # Idle => Fresh(p.view, p.pools, st))

IpamInv == InvOf(store, cache, pass, stale, churn)

-----------------------------------------------------------------------------
\* Allocations have slots and each slot has addresses.
LEMMA AllocSlots ==
  ASSUME NEW al \in Allocs
  PROVE  /\ DOMAIN al \subseteq Nodes \cup {0}
         /\ \A s \in DOMAIN al : al[s] \in Addrs
<1>1. PICK S \in SUBSET (Nodes \cup {0}) : al \in [S -> Addrs]
  BY DEF Allocs
<1> QED
  BY <1>1

\* A function from slots to addresses is an allocation.
LEMMA AllocIntro ==
  ASSUME NEW S \in SUBSET (Nodes \cup {0}), NEW al \in [S -> Addrs]
  PROVE  al \in Allocs
  BY DEF Allocs

\* A new object has no addresses.
LEMMA NoAllocType == NoAlloc \in Allocs /\ DOMAIN NoAlloc = {} /\ Absent \in Objects
<1>1. NoAlloc \in [{} -> Addrs] /\ DOMAIN NoAlloc = {}
  BY DEF NoAlloc
<1>2. NoAlloc \in Allocs
  BY <1>1 DEF Allocs
<1> QED
  BY <1>1, <1>2 DEF Absent, Objects

\* seedExistingAllocations' and allocate's keys are keys of their Network.
LEMMA KeyOf ==
  ASSUME NEW c \in Consumers, NEW f \in Families, Fam(c, f) # NoNet
  PROVE  /\ <<NetOf[c], f>> \in PoolKeys
         /\ Networks[<<NetOf[c], f>>[1]][<<NetOf[c], f>>[2]] = Fam(c, f)
  BY DEF Fam, PoolKeys

\* The other way round.
LEMMA KeyParts ==
  ASSUME NEW k \in PoolKeys
  PROVE  /\ k = <<k[1], k[2]>> /\ k[1] \in DOMAIN Networks /\ k[2] \in Families
         /\ Networks[k[1]][k[2]] # NoNet
         /\ \A c \in Consumers : NetOf[c] = k[1] => Fam(c, k[2]) = Networks[k[1]][k[2]]
  BY DEF Fam, PoolKeys

\* Whatever is stored was in a view, so it is as unique as the view.
LEMMA CoveredUnique ==
  ASSUME NEW v, NEW w, Unique(w), \A c \in Consumers : Covers(v[c].alloc, w[c].alloc)
  PROVE  Unique(v)
  BY DEF Unique, Covers

-----------------------------------------------------------------------------
\* One family of allocate: what it gives is good for c, was within the pool's
\* reach and no longer is.
Served(pools, c, f, ips, q) ==
  LET k == <<NetOf[c], f>>
  IN  /\ q # NoPool /\ GoodPool(k, q)
      /\ ips \subseteq Int
      /\ \A a \in ips : /\ Good(c, f, a) /\ a \notin Usable(q)
                        /\ pools[k] # NoPool => a \in Usable(pools[k])
      /\ pools[k] # NoPool => Usable(q) \subseteq Usable(pools[k])

\* An attempt on a pool that exists or on the pool it makes.
LEMMA AttemptServes ==
  ASSUME WellFormed, NEW c \in Consumers, NEW f \in Families, Fam(c, f) # NoNet,
         NEW pools, GoodPools(pools)
  PROVE  Served(pools, c, f, Attempt(pools, c, f).ips, Attempt(pools, c, f).pool)
<1> DEFINE k == <<NetOf[c], f>>
           p == IF pools[k] = NoPool THEN newPool(Fam(c, f), c \in L3) ELSE pools[k]
           n == IF c \in L3 THEN Count[c] ELSE 1
           ranges == IF c \in L3 THEN {} ELSE ReservedRanges[c]
           r == allocateFromCIDR(p, n, ranges)
<1>1. Attempt(pools, c, f) = r
  BY DEF Attempt
<1>2. k \in PoolKeys /\ Networks[k[1]][k[2]] = Fam(c, f) /\ k[1] = NetOf[c]
  BY KeyOf
<1>3. FitWidth /\ FitCIDR(Fam(c, f))
  BY <1>2 DEF WellFormed
<1>4. GoodPool(k, p)
  <2>1. CASE pools[k] # NoPool
    BY <1>2, <2>1 DEF GoodPools
  <2>2. CASE pools[k] = NoPool
    <3> DEFINE l3 == c \in L3
    <3>1. p = newPool(Fam(c, f), l3) /\ l3 \in BOOLEAN
      BY <2>2
    <3>2. /\ IsPool(p) /\ p.cidr = Fam(c, f)
          /\ c \notin L3 => /\ p.broadcast = broadcastAddr(Fam(c, f))
                            /\ NetworkAddr(Fam(c, f)) \notin Usable(p)
      <4> HIDE DEF l3, p
      <4>1. /\ IsPool(p) /\ p.cidr = Fam(c, f)
            /\ ~l3 => /\ p.broadcast = broadcastAddr(Fam(c, f))
                      /\ NetworkAddr(Fam(c, f)) \notin Usable(p)
        BY <1>3, <3>1, NewPool
      <4> QED
        BY <4>1 DEF l3
    <3>3. Switched(k[1]) => c \notin L3
      BY <1>2 DEF Switched
    <3> QED
      BY <1>2, <3>2, <3>3 DEF GoodPool
  <2> QED
    BY <2>1, <2>2
<1>5. pools[k] # NoPool => p = pools[k]
  OBVIOUS
<1> HIDE DEF p, n, r
<1>6. IsPool(p) /\ p.cidr = Fam(c, f)
  BY <1>2, <1>4 DEF GoodPool
<1>7. /\ IsPool(r.pool) /\ r.pool.cidr = Fam(c, f) /\ r.pool.broadcast = p.broadcast
      /\ r.ips \subseteq Usable(p) /\ Usable(r.pool) \subseteq Usable(p) \ r.ips
      /\ \A a \in r.ips : ~inReserved(ranges, a)
  BY <1>3, <1>6, AllocateFromCIDR DEF r
<1>8. Usable(p) \subseteq InNet(Fam(c, f))
  BY <1>3, <1>6, UsableInNet
<1>9. GoodPool(k, r.pool)
  BY <1>2, <1>4, <1>6, <1>7 DEF GoodPool
<1>10. r.pool # NoPool
  <2>1. NoPool.cidr = NoNet
    BY DEF NoPool
  <2> QED
    BY <1>7, <2>1
<1>11. \A a \in r.ips : a \in Int /\ Good(c, f, a) /\ a \notin Usable(r.pool)
  <2>1. SUFFICES ASSUME NEW a \in r.ips PROVE a \in Int /\ Good(c, f, a) /\ a \notin Usable(r.pool)
    OBVIOUS
  <2>2. a \in Int /\ Contains(Fam(c, f), a) /\ a \in Usable(p) /\ a \notin Usable(r.pool)
    BY <1>7, <1>8 DEF InNet
  <2>3. ASSUME Switched(NetOf[c]), c \in L2As
        PROVE  /\ a \notin {NetworkAddr(Fam(c, f)), broadcastAddr(Fam(c, f))}
               /\ ~inReserved(ReservedRanges[c], a)
    <3>1. c \notin L3
      BY <2>3 DEF Switched
    <3>2. ~inReserved(ReservedRanges[c], a)
      BY <1>7, <3>1
    <3>3. p.broadcast = broadcastAddr(Fam(c, f)) /\ NetworkAddr(Fam(c, f)) \notin Usable(p)
      BY <1>2, <1>4, <1>6, <2>3 DEF GoodPool
    <3>4. a # p.broadcast
      BY <2>2 DEF Usable
    <3> QED
      BY <2>2, <3>2, <3>3, <3>4
  <2> QED
    BY <2>2, <2>3 DEF Good
<1>12. pools[k] # NoPool => r.ips \subseteq Usable(pools[k]) /\ Usable(r.pool) \subseteq Usable(pools[k])
  BY <1>5, <1>7
<1> HIDE DEF k
<1>13. Served(pools, c, f, r.ips, r.pool)
  BY <1>9, <1>10, <1>11, <1>12 DEF Served, k
<1> QED
  BY <1>1, <1>13

\* allocate: both families, and the pools of other Networks stay as they are.
LEMMA AllocateServes ==
  ASSUME WellFormed, NEW c \in Consumers, NEW pools, GoodPools(pools)
  PROVE  LET got == allocate(pools, c)
         IN  /\ got.addrs \in Addrs /\ GoodPools(got.pools)
             /\ \A f \in Families : \A a \in got.addrs[f] :
                  /\ Good(c, f, a)
                  /\ got.pools[<<NetOf[c], f>>] # NoPool
                  /\ a \notin Usable(got.pools[<<NetOf[c], f>>])
                  /\ pools[<<NetOf[c], f>>] # NoPool => a \in Usable(pools[<<NetOf[c], f>>])
             /\ \A k \in PoolKeys : pools[k] # NoPool =>
                  got.pools[k] # NoPool /\ Usable(got.pools[k]) \subseteq Usable(pools[k])
<1> DEFINE got == allocate(pools, c)
           A(f) == Attempt(pools, c, f)
<1>1. /\ got.addrs = [f \in Families |-> IF Fam(c, f) = NoNet THEN {} ELSE A(f).ips]
      /\ got.pools = [k \in PoolKeys |-> IF k[1] = NetOf[c] THEN A(k[2]).pool ELSE pools[k]]
  BY DEF allocate
<1>2. \A f \in Families : Fam(c, f) # NoNet => Served(pools, c, f, A(f).ips, A(f).pool)
  BY AttemptServes
<1> HIDE DEF got, A
<1>3. got.addrs \in Addrs
  BY <1>1, <1>2 DEF Served, Addrs
<1>4. \A k \in PoolKeys : k[1] = NetOf[c] =>
        /\ Fam(c, k[2]) # NoNet /\ k = <<NetOf[c], k[2]>> /\ k[2] \in Families
        /\ got.pools[k] = A(k[2]).pool
  BY <1>1, KeyParts
<1>5. \A k \in PoolKeys : k[1] # NetOf[c] => got.pools[k] = pools[k]
  BY <1>1
<1>6. GoodPools(got.pools)
  <2>1. SUFFICES ASSUME NEW k \in PoolKeys, got.pools[k] # NoPool PROVE GoodPool(k, got.pools[k])
    BY DEF GoodPools
  <2>2. CASE k[1] = NetOf[c]
    <3>1. Served(pools, c, k[2], A(k[2]).ips, A(k[2]).pool) /\ k = <<NetOf[c], k[2]>>
      BY <1>2, <1>4, <2>2
    <3>2. GoodPool(<<NetOf[c], k[2]>>, A(k[2]).pool)
      BY <3>1 DEF Served
    <3> QED
      BY <1>4, <2>2, <3>1, <3>2
  <2>3. CASE k[1] # NetOf[c]
    BY <1>5, <2>1, <2>3 DEF GoodPools
  <2> QED
    BY <2>2, <2>3
<1>7. ASSUME NEW f \in Families, NEW a \in got.addrs[f]
      PROVE  /\ Good(c, f, a)
             /\ got.pools[<<NetOf[c], f>>] # NoPool
             /\ a \notin Usable(got.pools[<<NetOf[c], f>>])
             /\ pools[<<NetOf[c], f>>] # NoPool => a \in Usable(pools[<<NetOf[c], f>>])
  <2>1. Fam(c, f) # NoNet /\ a \in A(f).ips
    BY <1>1, <1>7
  <2>2. Served(pools, c, f, A(f).ips, A(f).pool)
    BY <1>2, <2>1
  <2>3. <<NetOf[c], f>> \in PoolKeys
    BY <2>1, KeyOf
  <2>4. got.pools[<<NetOf[c], f>>] = A(f).pool
    BY <1>1, <2>3
  <2> QED
    BY <2>1, <2>2, <2>4 DEF Served
<1>8. ASSUME NEW k \in PoolKeys, pools[k] # NoPool
      PROVE  got.pools[k] # NoPool /\ Usable(got.pools[k]) \subseteq Usable(pools[k])
  <2>1. CASE k[1] = NetOf[c]
    <3>1. Served(pools, c, k[2], A(k[2]).ips, A(k[2]).pool) /\ k = <<NetOf[c], k[2]>>
      BY <1>2, <1>4, <2>1
    <3>2. /\ A(k[2]).pool # NoPool
          /\ pools[<<NetOf[c], k[2]>>] # NoPool =>
               Usable(A(k[2]).pool) \subseteq Usable(pools[<<NetOf[c], k[2]>>])
      BY <3>1 DEF Served
    <3> QED
      BY <1>4, <1>8, <2>1, <3>1, <3>2
  <2>2. CASE k[1] # NetOf[c]
    BY <1>5, <1>8, <2>2
  <2> QED
    BY <2>1, <2>2
<1> QED
  BY <1>3, <1>6, <1>7, <1>8 DEF got

\* seedExistingAllocations: no pool reaches what the fetched objects hold.
LEMMA SeedServes ==
  ASSUME WellFormed, NEW view \in Views, AllGood(view)
  PROVE  LET pools == seedExistingAllocations(view)
         IN  GoodPools(pools) /\ OutOfReach(view, pools)
<1> DEFINE pools == seedExistingAllocations(view)
           held(S, k) == UNION {Allocated(view, c, k[2]) : c \in {d \in S : NetOf[d] = k[1]}}
           new(k) == newPool(Networks[k[1]][k[2]], held(L3, k) # {})
<1>1. \A k \in PoolKeys :
        pools[k] = IF held(Consumers, k) = {} THEN NoPool
                   ELSE seedPoolFromAddresses(new(k), held(Consumers, k))
  BY DEF seedExistingAllocations
<1>2. \A c \in Consumers : \A s \in DOMAIN view[c].alloc : \A f \in Families :
        \A a \in view[c].alloc[s][f] :
          /\ <<NetOf[c], f>> \in PoolKeys
          /\ a \in held(Consumers, <<NetOf[c], f>>)
  <2>1. SUFFICES ASSUME NEW c \in Consumers, NEW s \in DOMAIN view[c].alloc, NEW f \in Families,
                        NEW a \in view[c].alloc[s][f]
                 PROVE  /\ <<NetOf[c], f>> \in PoolKeys
                        /\ a \in held(Consumers, <<NetOf[c], f>>)
    OBVIOUS
  <2>2. Good(c, f, a)
    BY DEF AllGood
  <2>3. <<NetOf[c], f>> \in PoolKeys
    BY <2>2, KeyOf DEF Good
  <2>4. a \in Allocated(view, c, f)
    BY DEF Allocated
  <2> QED
    BY <2>3, <2>4
<1>3. ASSUME NEW k \in PoolKeys
      PROVE  held(Consumers, k) \subseteq InNet(Networks[k[1]][k[2]])
  <2>1. SUFFICES ASSUME NEW a \in held(Consumers, k) PROVE a \in InNet(Networks[k[1]][k[2]])
    OBVIOUS
  <2>2. PICK c \in Consumers : NetOf[c] = k[1] /\ a \in Allocated(view, c, k[2])
    OBVIOUS
  <2>3. k[2] \in Families /\ Fam(c, k[2]) = Networks[k[1]][k[2]]
    BY <2>2, KeyParts
  <2>4. PICK s \in DOMAIN view[c].alloc : a \in view[c].alloc[s][k[2]]
    BY <2>2 DEF Allocated
  <2>5. Contains(Networks[k[1]][k[2]], a)
    BY <2>3, <2>4 DEF AllGood, Good
  <2>6. view[c].alloc \in Allocs
    BY DEF Views, Objects
  <2>7. view[c].alloc[s] \in Addrs
    BY <2>4, <2>6, AllocSlots
  <2>8. a \in Int
    BY <2>3, <2>4, <2>7 DEF Addrs
  <2> QED
    BY <2>5, <2>8 DEF InNet
<1>4. ASSUME NEW k \in PoolKeys, held(Consumers, k) # {}
      PROVE  /\ pools[k] # NoPool /\ GoodPool(k, pools[k])
             /\ Usable(pools[k]) \cap held(Consumers, k) = {}
  <2> DEFINE n == Networks[k[1]][k[2]]
             l3 == held(L3, k) # {}
             h == held(Consumers, k)
             p == newPool(n, l3)
  <2>1. FitWidth /\ FitCIDR(n) /\ l3 \in BOOLEAN /\ n # NoNet
    BY <1>4, KeyParts DEF WellFormed
  <2>2. pools[k] = seedPoolFromAddresses(p, h)
    BY <1>1, <1>4
  <2>3. h \in SUBSET InNet(n)
    BY <1>3, <1>4
  <2>4. Switched(k[1]) => ~l3
    BY DEF Switched
  <2> HIDE DEF n, l3, h, pools
  <2>5. /\ IsPool(p) /\ p.cidr = n /\ p.nextIP < 2 ^ Width
        /\ ~l3 => p.broadcast = broadcastAddr(n) /\ NetworkAddr(n) \notin Usable(p)
    BY <2>1, NewPool
  <2> HIDE DEF p
  <2>6. /\ IsPool(pools[k]) /\ pools[k].cidr = n /\ pools[k].broadcast = p.broadcast
        /\ Usable(pools[k]) \cap h = {}
        /\ NetworkAddr(n) \in Usable(pools[k]) => NetworkAddr(n) \in Usable(p)
    BY <2>1, <2>2, <2>3, <2>5, SeedPool
  <2>7. GoodPool(k, pools[k])
    BY <2>4, <2>5, <2>6 DEF GoodPool, n
  <2>8. NoPool.cidr = NoNet
    BY DEF NoPool
  <2> QED
    BY <2>1, <2>6, <2>7, <2>8 DEF h
<1> HIDE DEF pools, held
<1>5. GoodPools(pools)
  BY <1>1, <1>4 DEF GoodPools
<1>6. OutOfReach(view, pools)
  BY <1>2, <1>4 DEF OutOfReach
<1> QED
  BY <1>5, <1>6 DEF pools

-----------------------------------------------------------------------------
\* What allocate gave, entered in the copy of c at slot s0.
Entered(view, c, s0, addrs) ==
  [s \in DOMAIN view[c].alloc \cup {s0} |-> IF s = s0 THEN addrs ELSE view[c].alloc[s]]

\* Held changes the allocation of one object.
LEMMA HeldView ==
  ASSUME NEW view \in Views, NEW c \in Consumers, NEW al \in Allocs
  PROVE  /\ Held(view, c, al) \in Views
         /\ \A d \in Consumers : /\ Held(view, c, al)[d].uid = view[d].uid
                                 /\ Held(view, c, al)[d].rv = view[d].rv
                                 /\ d # c => Held(view, c, al)[d] = view[d]
         /\ Held(view, c, al)[c].alloc = al
<1> DEFINE o == [uid |-> view[c].uid, rv |-> view[c].rv, alloc |-> al]
<1>1. Held(view, c, al) = [view EXCEPT ![c] = o]
  BY DEF Held
<1>2. o \in Objects /\ o.uid = view[c].uid /\ o.rv = view[c].rv /\ o.alloc = al
  BY DEF Views, Objects
<1> HIDE DEF o
<1>3. [view EXCEPT ![c] = o] \in Views
  BY <1>2 DEF Views
<1>4. \A d \in Consumers : [view EXCEPT ![c] = o][d] = IF d = c THEN o ELSE view[d]
  BY DEF Views
<1> QED
  BY <1>1, <1>2, <1>3, <1>4

\* A pool that reaches less still reaches nothing that is held.
LEMMA StillOutOfReach ==
  ASSUME WellFormed, NEW c \in Consumers, NEW pools, GoodPools(pools),
         NEW view \in Views, AllGood(view), OutOfReach(view, pools)
  PROVE  OutOfReach(view, allocate(pools, c).pools)
<1> SUFFICES ASSUME NEW d \in Consumers, NEW s \in DOMAIN view[d].alloc, NEW f \in Families,
                    NEW a \in view[d].alloc[s][f]
             PROVE  /\ allocate(pools, c).pools[<<NetOf[d], f>>] # NoPool
                    /\ a \notin Usable(allocate(pools, c).pools[<<NetOf[d], f>>])
  BY DEF OutOfReach
<1> DEFINE k == <<NetOf[d], f>>
<1>1. Fam(d, f) # NoNet
  BY DEF AllGood, Good
<1>2. k \in PoolKeys
  BY <1>1, KeyOf
<1>3. pools[k] # NoPool /\ a \notin Usable(pools[k])
  BY DEF OutOfReach
<1> HIDE DEF k
<1>4. /\ allocate(pools, c).pools[k] # NoPool
      /\ Usable(allocate(pools, c).pools[k]) \subseteq Usable(pools[k])
  BY <1>2, <1>3, AllocateServes
<1> QED
  BY <1>3, <1>4 DEF k

\* Entering what allocate gave keeps the copies good, unique and out of reach.
LEMMA EnteredView ==
  ASSUME WellFormed, NEW c \in Consumers, NEW pools, GoodPools(pools),
         NEW view \in Views, AllGood(view),
         NEW s0 \in Nodes \cup {0}, s0 \notin DOMAIN view[c].alloc
  PROVE  LET got == allocate(pools, c)
             al == Entered(view, c, s0, got.addrs)
             w == Held(view, c, al)
         IN  /\ al \in Allocs /\ AllGood(w)
             /\ \A d \in Consumers : Covers(view[d].alloc, w[d].alloc)
             /\ DOMAIN w[c].alloc = DOMAIN view[c].alloc \cup {s0}
             /\ Unique(view) /\ OutOfReach(view, pools)
                  => Unique(w) /\ OutOfReach(w, got.pools)
<1> DEFINE got == allocate(pools, c)
           al == Entered(view, c, s0, got.addrs)
           w == Held(view, c, al)
           S == DOMAIN view[c].alloc \cup {s0}
<1>1. /\ got.addrs \in Addrs
      /\ \A f \in Families : \A a \in got.addrs[f] :
           /\ Good(c, f, a)
           /\ got.pools[<<NetOf[c], f>>] # NoPool
           /\ a \notin Usable(got.pools[<<NetOf[c], f>>])
           /\ pools[<<NetOf[c], f>>] # NoPool => a \in Usable(pools[<<NetOf[c], f>>])
  BY AllocateServes
<1>2. view[c].alloc \in Allocs
  BY DEF Views, Objects
<1>3. /\ DOMAIN view[c].alloc \subseteq Nodes \cup {0}
      /\ \A s \in DOMAIN view[c].alloc : view[c].alloc[s] \in Addrs
  BY <1>2, AllocSlots
<1> HIDE DEF got
<1>4. /\ DOMAIN al = S /\ al[s0] = got.addrs /\ al \in [S -> Addrs]
      /\ \A s \in DOMAIN view[c].alloc : al[s] = view[c].alloc[s]
  BY <1>1, <1>3 DEF Entered
<1>5. al \in Allocs
  <2>1. S \in SUBSET (Nodes \cup {0})
    BY <1>3
  <2> HIDE DEF S, al
  <2> QED
    BY <1>4, <2>1, AllocIntro
<1> HIDE DEF al
<1>6. w[c].alloc = al /\ \A d \in Consumers : d # c => w[d] = view[d]
  BY <1>5, HeldView
<1> HIDE DEF w
<1>7. \A d \in Consumers : Covers(view[d].alloc, w[d].alloc)
  BY <1>4, <1>6 DEF Covers
<1>8. \A d \in Consumers : \A s \in DOMAIN w[d].alloc :
        \/ s \in DOMAIN view[d].alloc /\ w[d].alloc[s] = view[d].alloc[s]
        \/ d = c /\ s = s0 /\ w[d].alloc[s] = got.addrs
  BY <1>4, <1>6
<1>9. AllGood(w)
  <2>1. SUFFICES ASSUME NEW d \in Consumers, NEW s \in DOMAIN w[d].alloc, NEW f \in Families,
                        NEW a \in w[d].alloc[s][f]
                 PROVE  Good(d, f, a)
    BY DEF AllGood
  <2>2. CASE s \in DOMAIN view[d].alloc /\ w[d].alloc[s] = view[d].alloc[s]
    BY <2>2 DEF AllGood
  <2>3. CASE d = c /\ s = s0 /\ w[d].alloc[s] = got.addrs
    BY <1>1, <2>3
  <2> QED
    BY <1>8, <2>2, <2>3
<1>10. ASSUME Unique(view), OutOfReach(view, pools) PROVE OutOfReach(w, got.pools)
  <2>1. OutOfReach(view, got.pools)
    BY <1>10, StillOutOfReach DEF got
  <2> QED
    BY <1>1, <1>8, <2>1 DEF OutOfReach
<1>11. ASSUME Unique(view), OutOfReach(view, pools) PROVE Unique(w)
  <2>1. ASSUME NEW d \in Consumers, NEW t \in DOMAIN view[d].alloc, NEW f \in Families,
               NetOf[d] = NetOf[c]
        PROVE  view[d].alloc[t][f] \cap got.addrs[f] = {}
    BY <1>1, <1>11, <2>1 DEF OutOfReach
  <2>2. SUFFICES ASSUME NEW d \in Consumers, NEW e \in Consumers,
                        NEW s \in DOMAIN w[d].alloc, NEW t \in DOMAIN w[e].alloc,
                        <<d, s>> # <<e, t>>, NetOf[d] = NetOf[e], NEW f \in Families
                 PROVE  w[d].alloc[s][f] \cap w[e].alloc[t][f] = {}
    BY DEF Unique
  <2>3. CASE /\ s \in DOMAIN view[d].alloc /\ w[d].alloc[s] = view[d].alloc[s]
             /\ t \in DOMAIN view[e].alloc /\ w[e].alloc[t] = view[e].alloc[t]
    BY <1>11, <2>2, <2>3 DEF Unique
  <2>4. CASE /\ s \in DOMAIN view[d].alloc /\ w[d].alloc[s] = view[d].alloc[s]
             /\ e = c /\ t = s0 /\ w[e].alloc[t] = got.addrs
    BY <2>1, <2>2, <2>4
  <2>5. CASE /\ t \in DOMAIN view[e].alloc /\ w[e].alloc[t] = view[e].alloc[t]
             /\ d = c /\ s = s0 /\ w[d].alloc[s] = got.addrs
    BY <2>1, <2>2, <2>5
  <2>6. CASE d = c /\ s = s0 /\ e = c /\ t = s0
    BY <2>2, <2>6
  <2> QED
    BY <1>8, <2>3, <2>4, <2>5, <2>6
<1> QED
  BY <1>4, <1>5, <1>6, <1>7, <1>9, <1>10, <1>11 DEF got, al, w

-----------------------------------------------------------------------------
\* What a step of a pass may do to its copies and pools.
Advance(p, q) ==
  /\ IsPass(q) /\ q.at \in 1 .. 4 /\ q.view \in Views
  /\ q.cur \in Consumers \cup {""} /\ Waiting(q)
  /\ \A c \in Consumers : /\ q.view[c].uid = p.view[c].uid /\ q.view[c].rv = p.view[c].rv
                          /\ Covers(p.view[c].alloc, q.view[c].alloc)
  /\ AllGood(q.view) /\ GoodPools(q.pools)
  /\ Unique(p.view) /\ OutOfReach(p.view, p.pools)
       => Unique(q.view) /\ OutOfReach(q.view, q.pools)

\* Such a step keeps the invariant.
LEMMA PassAdvances ==
  ASSUME NEW st, NEW ca, NEW p, NEW sl, NEW ch, InvOf(st, ca, p, sl, ch), p # Idle,
         NEW q, Advance(p, q)
  PROVE  InvOf(st, ca, q, sl, ch) /\ q # Idle
<1>1. PassOK(p, st, ch)
  BY DEF InvOf
<1>2. Copies(q.view, st, ch)
  <2>1. SUFFICES ASSUME NEW c \in Consumers
                 PROVE  /\ Behind(q.view[c], st[c]) /\ q.view[c].uid <= ch
                        /\ q.view[c].uid = 0 => q.view[c].rv = 0
    BY DEF Copies
  <2>2. /\ Behind(p.view[c], st[c]) /\ p.view[c].uid <= ch
        /\ p.view[c].uid = 0 => p.view[c].rv = 0
    BY <1>1 DEF PassOK, Copies
  <2>3. /\ q.view[c].uid = p.view[c].uid /\ q.view[c].rv = p.view[c].rv
        /\ Covers(p.view[c].alloc, q.view[c].alloc)
    BY DEF Advance
  <2>4. Covers(st[c].alloc, p.view[c].alloc) => Covers(st[c].alloc, q.view[c].alloc)
    BY <2>3 DEF Covers
  <2> QED
    BY <2>2, <2>3, <2>4 DEF Behind
<1>3. PassOK(q, st, ch)
  BY <1>2 DEF PassOK, Advance
<1>4. Fresh(p.view, p.pools, st) => Fresh(q.view, q.pools, st)
  BY DEF Fresh, Advance, Covers
<1>5. q # Idle
  <2>1. Idle.at = 0
    BY DEF Idle
  <2>2. q.at \in 1 .. 4
    BY DEF Advance
  <2> QED
    BY <2>1, <2>2
<1> QED
  BY <1>3, <1>4, <1>5 DEF InvOf

\* A status update that the API server accepts stores the copy of the pass,
\* which has everything that was stored.
LEMMA WriteStores ==
  ASSUME NEW st, NEW ca, NEW p, NEW sl, NEW ch, InvOf(st, ca, p, sl, ch), p # Idle,
         NEW c \in Consumers, st[c] # Absent, NEW r, r \in Views,
         st[c].uid = r[c].uid, st[c].rv = r[c].rv, Behind(r[c], st[c]),
         Covers(r[c].alloc, p.view[c].alloc), p.view[c].uid = r[c].uid, p.view[c].rv = r[c].rv,
         NEW st2, st2 = [st EXCEPT ![c] = Stored(st[c], p.view[c].alloc)]
  PROVE  /\ InvOf(st2, ca, p, sl, ch)
         /\ \A d \in Consumers : Covers(st[d].alloc, st2[d].alloc)
<1> DEFINE o == Stored(st[c], p.view[c].alloc)
<1>1. PassOK(p, st, ch) /\ st \in Views /\ ca \in Views /\ ch \in Nat
  BY DEF InvOf
<1>2. st[c] \in Objects /\ p.view[c] \in Objects /\ ca[c] \in Objects
  BY <1>1 DEF PassOK, Views
<1>3. /\ o \in Objects /\ o.uid = st[c].uid /\ o.rv = st[c].rv + 1
      /\ o.alloc = p.view[c].alloc
  BY <1>2 DEF Stored, Objects
<1> HIDE DEF o
<1>4. st2 \in Views /\ \A d \in Consumers : st2[d] = IF d = c THEN o ELSE st[d]
  BY <1>1, <1>3 DEF Views, o
<1>5. st[c].uid # 0 /\ st[c].uid <= ch
  BY DEF InvOf
<1>6. \A d \in Consumers : st2[d].uid <= ch /\ (st2[d].uid = 0 => st2[d] = Absent)
  BY <1>3, <1>4, <1>5 DEF InvOf
<1>7. \A v \in Views : Copies(v, st, ch) => Copies(v, st2, ch)
  <2>1. SUFFICES ASSUME NEW v \in Views, Copies(v, st, ch), NEW d \in Consumers
                 PROVE  Behind(v[d], st2[d])
    BY DEF Copies
  <2>2. Behind(v[d], st[d])
    BY <2>1 DEF Copies
  <2>3. CASE d # c
    BY <1>4, <2>2, <2>3
  <2>4. CASE d = c
    <3>1. st2[d].uid = st[d].uid /\ st2[d].rv = st[d].rv + 1
      BY <1>3, <1>4, <2>4
    <3>2. v[d].rv \in Nat /\ st[d].rv \in Nat
      BY <1>2, <2>4 DEF Views, Objects
    <3> QED
      BY <2>2, <3>1, <3>2 DEF Behind
  <2> QED
    BY <2>3, <2>4
<1>8. Copies(ca, st2, ch) /\ Copies(p.view, st2, ch)
  BY <1>1, <1>7 DEF InvOf, PassOK
<1>9. AllGood(st2)
  BY <1>1, <1>3, <1>4 DEF AllGood, InvOf, PassOK
<1>10. PassOK(p, st2, ch)
  BY <1>1, <1>8 DEF PassOK
<1>11. Fresh(p.view, p.pools, st) => Fresh(p.view, p.pools, st2) /\ Unique(st2)
  <2>1. SUFFICES ASSUME Fresh(p.view, p.pools, st)
                 PROVE  Fresh(p.view, p.pools, st2) /\ Unique(st2)
    OBVIOUS
  <2>2. \A d \in Consumers : Covers(st2[d].alloc, p.view[d].alloc)
    BY <1>3, <1>4, <2>1 DEF Fresh, Covers
  <2>3. Unique(p.view)
    BY <2>1 DEF Fresh
  <2> QED
    BY <2>1, <2>2, <2>3, CoveredUnique DEF Fresh
<1>12. Covers(st[c].alloc, p.view[c].alloc)
  <2>1. Covers(st[c].alloc, r[c].alloc)
    BY DEF Behind
  <2> QED
    BY <2>1 DEF Covers
<1>13. \A d \in Consumers : Covers(st[d].alloc, st2[d].alloc)
  BY <1>3, <1>4, <1>12 DEF Covers
<1>14. InvOf(st2, ca, p, sl, ch)
  BY <1>1, <1>4, <1>6, <1>8, <1>9, <1>10, <1>11 DEF InvOf
<1> QED
  BY <1>13, <1>14

\* The phases of a pass.
LEMMA PhaseNumbers ==
  /\ 1 \in 1 .. 4 /\ 2 \in 1 .. 4 /\ 3 \in 1 .. 4 /\ 4 \in 1 .. 4
  /\ \A x \in 1 .. 4 : x # 4 => x + 1 \in 1 .. 4
  OBVIOUS

\* A pass that starts takes the cache as its copies.
LEMMA PassStarts ==
  ASSUME WellFormed, NEW st, NEW ca, NEW sl, NEW ch, InvOf(st, ca, Idle, sl, ch),
         NEW q, IsPass(q), q.at = 1, q.view = ca, q.cur = "",
         q.pools = seedExistingAllocations(ca)
  PROVE  InvOf(st, ca, q, sl \/ ca # st, ch)
<1>1. ca \in Views /\ AllGood(ca) /\ Copies(ca, st, ch)
  BY DEF InvOf
<1>2. GoodPools(q.pools) /\ OutOfReach(ca, q.pools)
  BY <1>1, SeedServes
<1>3. Waiting(q)
  BY DEF Waiting
<1>4. PassOK(q, st, ch)
  <2>1. q.at \in 1 .. 4
    BY PhaseNumbers
  <2>2. q.cur \in Consumers \cup {""}
    OBVIOUS
  <2> QED
    BY <1>1, <1>2, <1>3, <2>1, <2>2 DEF PassOK
<1>5. ASSUME ~(sl \/ ca # st) PROVE Unique(st) /\ Fresh(q.view, q.pools, st)
  <2>1. ca = st /\ Unique(st)
    BY <1>5 DEF InvOf
  <2>2. \A c \in Consumers : Covers(st[c].alloc, st[c].alloc)
    BY DEF Covers
  <2> QED
    BY <1>2, <2>1, <2>2 DEF Fresh
<1>6. (sl \/ ca # st) \in BOOLEAN
  OBVIOUS
<1> QED
  BY <1>4, <1>5, <1>6 DEF InvOf

\* A pass that ends.
LEMMA PassEnds ==
  ASSUME NEW st, NEW ca, NEW p, NEW sl, NEW ch, InvOf(st, ca, p, sl, ch)
  PROVE  InvOf(st, ca, Idle, sl, ch)
  BY DEF InvOf

\* Users and nodes: any number of actions later, the copies are still copies.
LEMMA MoreChurn ==
  ASSUME NEW st, NEW ca, NEW p, NEW sl, NEW ch, InvOf(st, ca, p, sl, ch)
  PROVE  InvOf(st, ca, p, sl, ch + 1)
<1>1. ch \in Nat /\ ch + 1 \in Nat
  BY DEF InvOf
<1>2. \A v \in Views : \A c \in Consumers : v[c].uid \in Nat
  BY DEF Views, Objects
<1>3. \A v \in Views : Copies(v, st, ch) => Copies(v, st, ch + 1)
  <2>1. SUFFICES ASSUME NEW v \in Views, Copies(v, st, ch), NEW c \in Consumers
                 PROVE  v[c].uid <= ch + 1
    BY DEF Copies
  <2>2. v[c].uid \in Nat /\ v[c].uid <= ch
    BY <1>2, <2>1 DEF Copies
  <2> QED
    BY <1>1, <2>2
<1>4. \A c \in Consumers : st[c].uid <= ch + 1
  <2>1. SUFFICES ASSUME NEW c \in Consumers PROVE st[c].uid <= ch + 1
    OBVIOUS
  <2>2. st[c].uid \in Nat /\ st[c].uid <= ch
    BY <1>2 DEF InvOf
  <2> QED
    BY <1>1, <2>2
<1>5. Copies(ca, st, ch + 1)
  BY <1>3 DEF InvOf
<1>6. PassOK(p, st, ch) => PassOK(p, st, ch + 1)
  BY <1>3 DEF PassOK
<1> QED
  BY <1>1, <1>4, <1>5, <1>6 DEF InvOf

\* An object that appears, with a uid of its own, or goes away has no addresses.
LEMMA ObjectChanges ==
  ASSUME NEW st, NEW ca, NEW p, NEW sl, NEW ch, InvOf(st, ca, p, sl, ch),
         NEW c \in Consumers, NEW o \in Objects, o.alloc = NoAlloc,
         o = Absent \/ o.uid = ch + 1,
         NEW st2, st2 = [st EXCEPT ![c] = o]
  PROVE  InvOf(st2, ca, p, sl, ch + 1)
<1>1. InvOf(st, ca, p, sl, ch + 1) /\ ch \in Nat
  BY MoreChurn DEF InvOf
<1>2. st2 \in Views /\ \A d \in Consumers : st2[d] = IF d = c THEN o ELSE st[d]
  BY DEF InvOf, Views
<1>3. \A d \in Consumers : Covers(st2[d].alloc, st[d].alloc)
  BY <1>2, NoAllocType DEF Covers
<1>4. Absent.uid = 0 /\ Absent.rv = 0
  BY DEF Absent
<1>5. \A d \in Consumers : st2[d].uid <= ch + 1 /\ (st2[d].uid = 0 => st2[d] = Absent)
  BY <1>1, <1>2, <1>4 DEF InvOf
<1>6. AllGood(st2)
  BY <1>2, NoAllocType DEF AllGood, InvOf
<1>7. \A v \in Views : Copies(v, st, ch) => Copies(v, st2, ch + 1)
  <2>1. SUFFICES ASSUME NEW v \in Views, Copies(v, st, ch), NEW d \in Consumers
                 PROVE  /\ Behind(v[d], st2[d]) /\ v[d].uid <= ch + 1
                        /\ v[d].uid = 0 => v[d].rv = 0
    BY DEF Copies
  <2>2. /\ Behind(v[d], st[d]) /\ v[d].uid <= ch /\ v[d].uid \in Nat
        /\ v[d].uid = 0 => v[d].rv = 0
    BY <2>1 DEF Copies, Views, Objects
  <2>3. v[d].uid <= ch + 1
    BY <1>1, <2>2
  <2>4. CASE d # c
    BY <1>2, <2>2, <2>3, <2>4
  <2>5. CASE d = c /\ o = Absent
    <3>1. st2[d].uid = 0 /\ st2[d].rv = 0 /\ st2[d].alloc = NoAlloc
      BY <1>2, <1>4, <2>5
    <3>2. Covers(st2[d].alloc, v[d].alloc)
      BY <3>1, NoAllocType DEF Covers
    <3> QED
      BY <2>2, <2>3, <3>1, <3>2 DEF Behind
  <2>6. CASE d = c /\ o.uid = ch + 1
    <3>1. v[d].uid # st2[d].uid
      BY <1>1, <1>2, <2>2, <2>6
    <3> QED
      BY <2>2, <2>3, <3>1 DEF Behind
  <2> QED
    BY <2>4, <2>5, <2>6
<1>8. Copies(ca, st2, ch + 1) /\ (PassOK(p, st, ch) => PassOK(p, st2, ch + 1))
  BY <1>7 DEF InvOf, PassOK
<1>9. Unique(st) => Unique(st2)
  BY <1>3, CoveredUnique
<1>10. Fresh(p.view, p.pools, st) => Fresh(p.view, p.pools, st2)
  BY <1>3 DEF Fresh, Covers
<1> QED
  BY <1>1, <1>2, <1>5, <1>6, <1>8, <1>9, <1>10 DEF InvOf

\* The informer catches up with one object.
LEMMA CacheCatchesUp ==
  ASSUME NEW st, NEW ca, NEW p, NEW sl, NEW ch, InvOf(st, ca, p, sl, ch),
         NEW c \in Consumers, NEW ca2, ca2 = [ca EXCEPT ![c] = st[c]]
  PROVE  InvOf(st, ca2, p, sl, ch)
<1>1. ca2 \in Views /\ \A d \in Consumers : ca2[d] = IF d = c THEN st[c] ELSE ca[d]
  BY DEF InvOf, Views
<1>2. Behind(st[c], st[c])
  <2>1. st[c].rv \in Nat
    BY DEF InvOf, Views, Objects
  <2> QED
    BY <2>1 DEF Behind, Covers
<1>3. Absent.rv = 0
  BY DEF Absent
<1>4. Copies(ca2, st, ch)
  BY <1>1, <1>2, <1>3 DEF Copies, InvOf
<1>5. AllGood(ca2)
  BY <1>1 DEF AllGood, InvOf
<1> QED
  BY <1>1, <1>4, <1>5 DEF InvOf

-----------------------------------------------------------------------------
\* What the theorems need of a step.
Stays(c) ==
  store[c] # Absent /\ store'[c] # Absent => Covers(store[c].alloc, store'[c].alloc)
Step == IpamInv' /\ \A c \in Consumers : Stays(c)

\* Nothing is taken from the store by a step that leaves it alone.
LEMMA StoreUntouched == ASSUME UNCHANGED store PROVE \A c \in Consumers : Stays(c)
  BY DEF Stays, Covers

\* ReconcileAllocations begins.
LEMMA StartPassStep ==
  ASSUME WellFormed, IpamInv, StartPass
  PROVE  Step
<1>1. InvOf(store, cache, Idle, stale, churn)
  BY DEF StartPass, IpamInv
<1>2. /\ IsPass(pass') /\ pass'.at = 1 /\ pass'.view = cache /\ pass'.cur = ""
      /\ pass'.pools = seedExistingAllocations(cache)
  BY DEF StartPass, IsPass
<1>3. InvOf(store, cache, pass', stale \/ cache # store, churn)
  BY <1>1, <1>2, PassStarts
<1>4. UNCHANGED <<store, cache, churn>> /\ stale' = (stale \/ cache # store)
  BY DEF StartPass
<1>5. IpamInv'
  BY <1>3, <1>4 DEF IpamInv
<1> QED
  BY <1>4, <1>5, StoreUntouched DEF Step

\* A pass that is running.
LEMMA Running ==
  ASSUME IpamInv, pass.at \in 1 .. 4
  PROVE  pass # Idle /\ PassOK(pass, store, churn)
<1>1. Idle.at = 0
  BY DEF Idle
<1>2. pass # Idle
  BY <1>1
<1> QED
  BY <1>2 DEF IpamInv, InvOf

\* A step of the pass that stores nothing.
LEMMA AdvanceStep ==
  ASSUME IpamInv, pass # Idle, Advance(pass, pass'),
         UNCHANGED <<store, cache, churn, stale>>
  PROVE  Step
<1>1. InvOf(store, cache, pass', stale, churn)
  BY PassAdvances DEF IpamInv
<1> QED
  BY <1>1, StoreUntouched DEF Step, IpamInv

\* A step that leaves copies and pools alone.
LEMMA SameViewAdvance ==
  ASSUME IpamInv, PassOK(pass, store, churn), NEW q, IsPass(q), q.at \in 1 .. 4,
         q.view = pass.view, q.pools = pass.pools,
         q.cur \in Consumers \cup {""}, Waiting(q)
  PROVE  Advance(pass, q)
<1>1. \A c \in Consumers : Covers(pass.view[c].alloc, pass.view[c].alloc)
  BY DEF Covers
<1> QED
  BY <1>1 DEF Advance, PassOK

\* The next kind of objects, or the end of the pass.
LEMMA NextPhaseStep ==
  ASSUME WellFormed, IpamInv, NextPhase
  PROVE  Step
<1>1. pass # Idle /\ PassOK(pass, store, churn) /\ pass.at \in 1 .. 4 /\ pass.cur = ""
  BY Running DEF NextPhase
<1>2. UNCHANGED <<store, cache, churn, stale>>
  BY DEF NextPhase
<1>3. CASE pass.at = 4
  <2>1. pass' = Idle
    BY <1>3 DEF NextPhase
  <2>2. InvOf(store, cache, Idle, stale, churn)
    BY PassEnds DEF IpamInv
  <2> QED
    BY <1>2, <2>1, <2>2, StoreUntouched DEF Step, IpamInv
<1>4. CASE pass.at # 4
  <2> DEFINE t == IF pass.at = 3 THEN Collectors
                  ELSE {c \in Phases[pass.at + 1] : pass.view[c] # Absent}
  <2>1. pass' = [pass EXCEPT !.at = pass.at + 1, !.todo = t]
    BY <1>4 DEF NextPhase
  <2> HIDE DEF t
  <2>2. /\ IsPass(pass') /\ pass'.view = pass.view /\ pass'.pools = pass.pools
        /\ pass'.cur = pass.cur /\ pass'.at = pass.at + 1
    BY <1>1, <2>1 DEF PassOK, IsPass
  <2>3. pass'.at \in 1 .. 4
    BY <1>1, <1>4, <2>2, PhaseNumbers
  <2>4. Waiting(pass')
    BY <1>1, <2>2 DEF Waiting
  <2>5. pass'.cur \in Consumers \cup {""}
    BY <1>1, <2>2
  <2>6. Advance(pass, pass')
    BY <1>1, <2>2, <2>3, <2>4, <2>5, SameViewAdvance
  <2> QED
    BY <1>1, <1>2, <2>6, AdvanceStep
<1> QED
  BY <1>3, <1>4

\* reconcileNodeIPs begins with an attachment.
LEMMA StartNodeIPsStep ==
  ASSUME WellFormed, IpamInv, NEW c \in L2As, StartNodeIPs(c)
  PROVE  Step
<1>1. pass # Idle /\ PassOK(pass, store, churn) /\ pass.at = 3
  BY Running, PhaseNumbers DEF StartNodeIPs
<1>2. c \in Consumers
  BY DEF Consumers
<1> DEFINE l == IF c \in Malformed THEN {} ELSE pass.nodes \ DOMAIN pass.view[c].alloc
<1>3. pass' = [pass EXCEPT !.todo = @ \ {c}, !.cur = c, !.fresh = FALSE, !.left = l]
  BY DEF StartNodeIPs
<1>4. l \cap DOMAIN pass.view[c].alloc = {}
  OBVIOUS
<1> HIDE DEF l
<1>5. /\ IsPass(pass') /\ pass'.view = pass.view /\ pass'.pools = pass.pools
      /\ pass'.cur = c /\ pass'.at = 3 /\ pass'.left = l
  BY <1>1, <1>3 DEF PassOK, IsPass
<1>6. Waiting(pass')
  BY <1>4, <1>5 DEF Waiting
<1>7. pass'.at \in 1 .. 4
  BY <1>5, PhaseNumbers
<1>8. Advance(pass, pass')
  BY <1>1, <1>2, <1>5, <1>6, <1>7, SameViewAdvance
<1>9. UNCHANGED <<store, cache, churn, stale>>
  BY DEF StartNodeIPs
<1> QED
  BY <1>1, <1>8, <1>9, AdvanceStep

\* reconcileCollectorAddresses touches no consumer of a Network.
LEMMA ReconcileCollectorStep ==
  ASSUME WellFormed, IpamInv, NEW l \in Collectors, ReconcileCollector(l)
  PROVE  Step
<1>1. pass # Idle /\ PassOK(pass, store, churn) /\ pass.at = 4
  BY Running, PhaseNumbers DEF ReconcileCollector
<1>2. pass' = [pass EXCEPT !.todo = @ \ {l}]
  BY DEF ReconcileCollector
<1>3. /\ IsPass(pass') /\ pass'.view = pass.view /\ pass'.pools = pass.pools
      /\ pass'.cur = pass.cur /\ pass'.at = 4 /\ pass'.left = pass.left
  BY <1>1, <1>2 DEF PassOK, IsPass
<1>4. Waiting(pass') /\ pass'.cur \in Consumers \cup {""} /\ pass'.at \in 1 .. 4
  BY <1>1, <1>3 DEF Waiting, PassOK
<1>5. Advance(pass, pass')
  BY <1>1, <1>3, <1>4, SameViewAdvance
<1>6. UNCHANGED <<store, cache, churn, stale>>
  BY DEF ReconcileCollector
<1> QED
  BY <1>1, <1>5, <1>6, AdvanceStep

\* A copy with new addresses has the version of the copy.
SameVersion(v, o) == v.uid = o.uid /\ v.rv = o.rv
\* Held replaces the addresses of a copy and leaves its version alone.
LEMMA HeldVersion ==
  ASSUME NEW view \in Views, NEW c \in Consumers, NEW x, NEW d \in Consumers
  PROVE  SameVersion(Held(view, c, x)[d], view[d])
<1> DEFINE o == [uid |-> view[c].uid, rv |-> view[c].rv, alloc |-> x]
<1>1. o.uid = view[c].uid /\ o.rv = view[c].rv /\ Held(view, c, x) = [view EXCEPT ![c] = o]
  BY DEF Held
<1> HIDE DEF o
<1>2. Held(view, c, x)[d] = IF d = c THEN o ELSE view[d]
  BY <1>1 DEF Views
<1> QED
  BY <1>1, <1>2 DEF SameVersion

\* A pass with new copies and pools.
LEMMA EnteredAdvance ==
  ASSUME WellFormed, IpamInv, PassOK(pass, store, churn), NEW c \in Consumers,
         NEW s0 \in Nodes \cup {0}, s0 \notin DOMAIN pass.view[c].alloc,
         NEW q, IsPass(q), q.at \in 1 .. 4,
         q.view = Held(pass.view, c, Entered(pass.view, c, s0, allocate(pass.pools, c).addrs)),
         q.pools = allocate(pass.pools, c).pools,
         q.cur \in Consumers \cup {""}, Waiting(q)
  PROVE  Advance(pass, q)
<1> DEFINE got == allocate(pass.pools, c)
           al == Entered(pass.view, c, s0, got.addrs)
           w == Held(pass.view, c, al)
<1>1. pass.view \in Views /\ AllGood(pass.view) /\ GoodPools(pass.pools)
  BY DEF PassOK
<1>2. /\ al \in Allocs /\ AllGood(w)
      /\ \A d \in Consumers : Covers(pass.view[d].alloc, w[d].alloc)
      /\ Unique(pass.view) /\ OutOfReach(pass.view, pass.pools)
           => Unique(w) /\ OutOfReach(w, got.pools)
  BY <1>1, EnteredView, Zenon
<1>3. GoodPools(got.pools)
  BY <1>1, AllocateServes
<1> HIDE DEF al, got
<1>4. /\ w \in Views
      /\ \A d \in Consumers : SameVersion(w[d], pass.view[d])
  <2>1. pass.view \in Views /\ al \in Allocs
    BY <1>1, <1>2
  <2>2. w \in Views
    BY <2>1, HeldView
  <2>3. ASSUME NEW d \in Consumers
        PROVE  SameVersion(w[d], pass.view[d])
    BY <2>1, <2>3, HeldVersion
  <2> QED
    BY <2>2, <2>3
<1>5. q.view = w /\ q.pools = got.pools
  BY DEF al, got
<1> HIDE DEF w
<1> QED
  BY <1>2, <1>3, <1>4, <1>5 DEF Advance, SameVersion

\* Pools that have moved on, with the copies as they were.
LEMMA MovedOnAdvance ==
  ASSUME WellFormed, IpamInv, PassOK(pass, store, churn), NEW c \in Consumers,
         NEW q, IsPass(q), q.at \in 1 .. 4, q.view = pass.view,
         q.pools = allocate(pass.pools, c).pools,
         q.cur \in Consumers \cup {""}, Waiting(q)
  PROVE  Advance(pass, q)
<1>1. pass.view \in Views /\ AllGood(pass.view) /\ GoodPools(pass.pools)
  BY DEF PassOK
<1>2. GoodPools(q.pools)
  BY <1>1, AllocateServes
<1>3. OutOfReach(pass.view, pass.pools) => OutOfReach(q.view, q.pools)
  BY <1>1, StillOutOfReach
<1>4. \A d \in Consumers : Covers(pass.view[d].alloc, pass.view[d].alloc)
  BY DEF Covers
<1> QED
  BY <1>1, <1>2, <1>3, <1>4 DEF Advance

\* reconcileInboundAllocations and reconcileOutboundAllocations, one object.
LEMMA AllocateL3Step ==
  ASSUME WellFormed, IpamInv, NEW c \in L3, AllocateL3(c)
  PROVE  Step
<1>1. pass.at \in 1 .. 4
  BY PhaseNumbers DEF AllocateL3
<1>2. pass # Idle /\ PassOK(pass, store, churn)
  BY <1>1, Running
<1>3. c \in Consumers /\ pass.cur = ""
  <2>1. pass.at # 3
    BY DEF AllocateL3
  <2> QED
    BY <1>2, <2>1 DEF PassOK, Waiting, Consumers
<1>4. UNCHANGED <<cache, churn, stale>>
  BY DEF AllocateL3
<1> DEFINE got == allocate(pass.pools, c)
           mine == [s \in {0} |-> got.addrs]
           next == [pass EXCEPT !.todo = @ \ {c}, !.pools = got.pools]
           mem == [next EXCEPT !.view = Held(@, c, mine)]
           cut == [mem EXCEPT !.at = 3, !.todo = {}]
<1>5. \/ pass' = [pass EXCEPT !.todo = @ \ {c}] /\ UNCHANGED store
      \/ pass' = next /\ UNCHANGED store
      \/ pass.view[c].alloc = NoAlloc /\ pass' = cut /\ UNCHANGED store
      \/ pass.view[c].alloc = NoAlloc /\ pass' = mem /\ Accepted(c) /\ Written(c, mine)
  BY DEF AllocateL3
<1>6. CASE pass' = [pass EXCEPT !.todo = @ \ {c}] /\ UNCHANGED store
  <2>1. /\ IsPass(pass') /\ pass'.view = pass.view /\ pass'.pools = pass.pools
        /\ pass'.cur = "" /\ pass'.at = pass.at
    BY <1>2, <1>3, <1>6 DEF PassOK, IsPass
  <2>2. Waiting(pass')
    BY <2>1 DEF Waiting
  <2>3. pass'.cur \in Consumers \cup {""} /\ pass'.at \in 1 .. 4
    BY <1>1, <2>1
  <2>4. Advance(pass, pass')
    BY <1>2, <2>1, <2>2, <2>3, SameViewAdvance
  <2> QED
    BY <1>2, <1>4, <1>6, <2>4, AdvanceStep
<1>7. CASE pass' = next /\ UNCHANGED store
  <2> HIDE DEF got
  <2>1. /\ IsPass(pass') /\ pass'.view = pass.view /\ pass'.pools = got.pools
        /\ pass'.cur = "" /\ pass'.at = pass.at
    BY <1>2, <1>3, <1>7 DEF PassOK, IsPass
  <2>2. Waiting(pass')
    BY <2>1 DEF Waiting
  <2>3. pass'.cur \in Consumers \cup {""} /\ pass'.at \in 1 .. 4
    BY <1>1, <2>1
  <2>4. Advance(pass, pass')
    BY <1>2, <1>3, <2>1, <2>2, <2>3, MovedOnAdvance DEF got
  <2> QED
    BY <1>2, <1>4, <1>7, <2>4, AdvanceStep
<1>8. ASSUME pass.view[c].alloc = NoAlloc
      PROVE  /\ 0 \in Nodes \cup {0} /\ 0 \notin DOMAIN pass.view[c].alloc
             /\ mine = Entered(pass.view, c, 0, got.addrs)
  <2>1. DOMAIN pass.view[c].alloc = {}
    BY <1>8, NoAllocType
  <2> HIDE DEF got
  <2>2. mine = Entered(pass.view, c, 0, got.addrs)
    BY <2>1 DEF Entered
  <2> QED
    BY <2>1, <2>2
<1>9. ASSUME pass.view[c].alloc = NoAlloc, NEW q, q = mem \/ q = cut
      PROVE  Advance(pass, q) /\ q.view = Held(pass.view, c, mine)
  <2> DEFINE w == Held(pass.view, c, mine)
  <2> HIDE DEF got, mine
  <2>1. /\ IsPass(mem) /\ mem.view = w /\ mem.pools = got.pools
        /\ mem.cur = "" /\ mem.at = pass.at
    <3> HIDE DEF w
    <3>0. /\ next = [pass EXCEPT !.todo = pass.todo \ {c}, !.pools = got.pools]
          /\ IsPass(pass)
      BY <1>2 DEF PassOK
    <3> HIDE DEF next, mem, cut
    <3>1. /\ IsPass(next) /\ next.view = pass.view /\ next.pools = got.pools
          /\ next.cur = "" /\ next.at = pass.at
      BY <1>3, <3>0 DEF IsPass
    <3>2. mem = [next EXCEPT !.view = w]
      BY <3>1 DEF mem, w
    <3> QED
      BY <3>1, <3>2 DEF IsPass
  <2> HIDE DEF w, mem
  <2>2. /\ IsPass(cut) /\ cut.view = w /\ cut.pools = got.pools
        /\ cut.cur = "" /\ cut.at = 3
    <3>1. cut = [mem EXCEPT !.at = 3, !.todo = {}]
      OBVIOUS
    <3> HIDE DEF cut
    <3> QED
      BY <2>1, <3>1 DEF IsPass
  <2> HIDE DEF cut
  <2>3. /\ IsPass(q) /\ q.view = w /\ q.pools = got.pools /\ q.cur = ""
        /\ q.at \in 1 .. 4
    BY <1>1, <1>9, <2>1, <2>2, PhaseNumbers
  <2>4. Waiting(q) /\ q.cur \in Consumers \cup {""}
    BY <2>3 DEF Waiting
  <2>5. /\ 0 \in Nodes \cup {0} /\ 0 \notin DOMAIN pass.view[c].alloc
        /\ w = Held(pass.view, c, Entered(pass.view, c, 0, got.addrs))
    BY <1>8, <1>9 DEF w
  <2>6. Advance(pass, q)
    BY <1>2, <1>3, <2>3, <2>4, <2>5, EnteredAdvance DEF got
  <2> QED
    BY <2>3, <2>6 DEF w
<1>10. CASE pass.view[c].alloc = NoAlloc /\ pass' = cut /\ UNCHANGED store
  <2>1. Advance(pass, pass')
    BY <1>9, <1>10
  <2> QED
    BY <1>2, <1>4, <1>10, <2>1, AdvanceStep
<1>11. CASE pass.view[c].alloc = NoAlloc /\ pass' = mem /\ Accepted(c) /\ Written(c, mine)
  <2>1. Advance(pass, pass') /\ pass'.view = Held(pass.view, c, mine)
    BY <1>9, <1>11
  <2> HIDE DEF mine, mem
  <2>2. InvOf(store, cache, pass', stale, churn) /\ pass' # Idle
    BY <1>2, <2>1, PassAdvances DEF IpamInv
  <2>3. pass'.view[c].alloc = mine
    <3>1. \A v \in Views : Held(v, c, mine)[c].alloc = mine
      BY <1>3 DEF Held, Views
    <3> QED
      BY <1>2, <2>1, <3>1 DEF PassOK
  <2>4. /\ pass.view \in Views /\ Behind(pass.view[c], store[c])
        /\ Covers(pass.view[c].alloc, pass'.view[c].alloc)
        /\ pass'.view[c].uid = pass.view[c].uid /\ pass'.view[c].rv = pass.view[c].rv
    BY <1>2, <1>3, <2>1 DEF PassOK, Copies, Advance
  <2>5. /\ store[c] # Absent /\ store[c].uid = pass.view[c].uid
        /\ store[c].rv = pass.view[c].rv
        /\ store' = [store EXCEPT ![c] = Stored(store[c], pass'.view[c].alloc)]
    BY <1>11, <2>3 DEF Accepted, Written
  <2>6. /\ InvOf(store', cache, pass', stale, churn)
        /\ \A d \in Consumers : Covers(store[d].alloc, store'[d].alloc)
    BY <1>3, <2>2, <2>4, <2>5, WriteStores, ZenonT(60)
  <2> QED
    BY <1>4, <2>6 DEF Step, IpamInv, Stays
<1> QED
  BY <1>5, <1>6, <1>7, <1>10, <1>11

\* reconcileNodeIPs, one node.
LEMMA AllocateNodeStep ==
  ASSUME WellFormed, IpamInv, NEW n \in Nodes, AllocateNode(n)
  PROVE  Step
<1>1. pass.at \in 1 .. 4 /\ pass.at = 3 /\ pass.cur # ""
  BY PhaseNumbers DEF AllocateNode
<1>2. pass # Idle /\ PassOK(pass, store, churn)
  BY <1>1, Running
<1> DEFINE c == pass.cur
           got == allocate(pass.pools, c)
           next == [pass EXCEPT !.left = @ \ {n}, !.pools = got.pools]
           al == Entered(pass.view, c, n, got.addrs)
           w == Held(pass.view, c, al)
           more == [next EXCEPT !.fresh = TRUE, !.view = w]
<1>3. /\ n \in Nodes \cup {0}
      /\ c \in Consumers /\ IsPass(pass) /\ n \in pass.left /\ n \notin DOMAIN pass.view[c].alloc
      /\ pass.view \in Views /\ AllGood(pass.view) /\ GoodPools(pass.pools)
      /\ pass.left \cap DOMAIN pass.view[c].alloc = {}
  BY <1>1, <1>2 DEF PassOK, Waiting, AllocateNode
<1>4. UNCHANGED <<store, cache, churn, stale>>
  BY DEF AllocateNode
<1>5. next = [pass EXCEPT !.left = pass.left \ {n}, !.pools = got.pools]
  OBVIOUS
<1>6. pass' = next \/ pass' = more
  <2>1. /\ IsPass(next) /\ next.view = pass.view
    <3> HIDE DEF next, got
    <3> QED
      BY <1>3, <1>5 DEF IsPass
  <2>2. pass' = next \/ pass' = [next EXCEPT !.fresh = TRUE,
                         !.view = Held(@, c, [s \in DOMAIN @[c].alloc \cup {n} |->
                                                IF s = n THEN got.addrs ELSE @[c].alloc[s]])]
    BY DEF AllocateNode
  <2>3. w = Held(next.view, c, [s \in DOMAIN next.view[c].alloc \cup {n} |->
                                  IF s = n THEN got.addrs ELSE next.view[c].alloc[s]])
    BY <2>1 DEF Entered
  <2> QED
    BY <2>2, <2>3
<1> HIDE DEF next, got
<1>7. /\ IsPass(next) /\ next.view = pass.view /\ next.pools = got.pools
      /\ next.cur = c /\ next.at = 3 /\ next.left = pass.left \ {n}
  BY <1>1, <1>3, <1>5 DEF IsPass
<1>8. CASE pass' = next
  <2>1. Waiting(pass') /\ pass'.cur \in Consumers \cup {""} /\ pass'.at \in 1 .. 4
    BY <1>3, <1>7, <1>8, PhaseNumbers DEF Waiting
  <2>2. Advance(pass, pass')
    BY <1>2, <1>3, <1>7, <1>8, <2>1, MovedOnAdvance DEF got
  <2> QED
    BY <1>2, <1>4, <2>2, AdvanceStep
<1>9. CASE pass' = more
  <2>1. DOMAIN w[c].alloc = DOMAIN pass.view[c].alloc \cup {n}
    <3>1. \A v \in Views : Held(v, c, al)[c].alloc = al
      <4> HIDE DEF al, c
      <4> QED
        BY <1>3 DEF Held, Views
    <3>2. w[c].alloc = al
      BY <1>3, <3>1, Zenon
    <3>3. DOMAIN al = DOMAIN pass.view[c].alloc \cup {n}
      BY DEF Entered
    <3> QED
      BY <3>2, <3>3
  <2> HIDE DEF w
  <2>2. more = [next EXCEPT !.fresh = TRUE, !.view = w]
    OBVIOUS
  <2> HIDE DEF more
  <2>3. /\ IsPass(more) /\ more.view = w /\ more.pools = got.pools
        /\ more.cur = c /\ more.at = 3 /\ more.left = pass.left \ {n}
    BY <1>7, <2>2 DEF IsPass
  <2>4. Waiting(more) /\ more.cur \in Consumers \cup {""} /\ more.at \in 1 .. 4
    BY <1>3, <2>1, <2>3, PhaseNumbers DEF Waiting
  <2>5. Advance(pass, pass')
    BY <1>2, <1>3, <1>9, <2>3, <2>4, EnteredAdvance DEF got, w
  <2> QED
    BY <1>2, <1>4, <2>5, AdvanceStep
<1> QED
  BY <1>6, <1>8, <1>9

\* reconcileNodeIPs, the write.
LEMMA EndNodeIPsStep ==
  ASSUME WellFormed, IpamInv, EndNodeIPs
  PROVE  Step
<1>1. pass.at \in 1 .. 4 /\ pass.cur # ""
  BY PhaseNumbers DEF EndNodeIPs
<1>2. pass # Idle /\ PassOK(pass, store, churn)
  BY <1>1, Running
<1>3. pass.cur \in Consumers /\ IsPass(pass) /\ pass.view \in Views
  BY <1>1, <1>2 DEF PassOK
<1>4. UNCHANGED <<cache, churn, stale>> /\ pass' = [pass EXCEPT !.cur = ""]
  BY DEF EndNodeIPs
<1>5. /\ IsPass(pass') /\ pass'.view = pass.view /\ pass'.pools = pass.pools
      /\ pass'.cur = "" /\ pass'.at = pass.at
  BY <1>3, <1>4 DEF IsPass
<1>6. Waiting(pass') /\ pass'.cur \in Consumers \cup {""} /\ pass'.at \in 1 .. 4
  BY <1>1, <1>5 DEF Waiting
<1>7. Advance(pass, pass')
  BY <1>2, <1>5, <1>6, SameViewAdvance
<1>8. CASE UNCHANGED store
  BY <1>2, <1>4, <1>7, <1>8, AdvanceStep
<1>9. CASE Accepted(pass.cur) /\ Written(pass.cur, pass.view[pass.cur].alloc)
  <2> DEFINE c == pass.cur
  <2>1. InvOf(store, cache, pass', stale, churn) /\ pass' # Idle
    BY <1>2, <1>7, PassAdvances DEF IpamInv
  <2>2. /\ Behind(pass.view[c], store[c]) /\ Covers(pass.view[c].alloc, pass'.view[c].alloc)
        /\ pass'.view[c].uid = pass.view[c].uid /\ pass'.view[c].rv = pass.view[c].rv
    BY <1>2, <1>3, <1>7 DEF PassOK, Copies, Advance
  <2>3. /\ store[c] # Absent /\ store[c].uid = pass.view[c].uid
        /\ store[c].rv = pass.view[c].rv
        /\ store' = [store EXCEPT ![c] = Stored(store[c], pass'.view[c].alloc)]
    BY <1>5, <1>9 DEF Accepted, Written
  <2>4. /\ InvOf(store', cache, pass', stale, churn)
        /\ \A d \in Consumers : Covers(store[d].alloc, store'[d].alloc)
    BY <1>3, <2>1, <2>2, <2>3, WriteStores, ZenonT(60)
  <2> QED
    BY <1>4, <2>4 DEF Step, IpamInv, Stays
<1> QED
  BY <1>8, <1>9 DEF EndNodeIPs

\* Users, nodes and the informer.
LEMMA CreateStep ==
  ASSUME IpamInv, NEW c \in Consumers, Create(c)
  PROVE  Step
<1> DEFINE o == [uid |-> churn + 1, rv |-> 1, alloc |-> NoAlloc]
<1>1. churn + 1 \in Nat /\ 1 \in Nat /\ NoAlloc \in Allocs
  BY NoAllocType DEF IpamInv, InvOf
<1>2. o \in Objects /\ o.alloc = NoAlloc /\ o.uid = churn + 1
  BY <1>1 DEF Objects
<1>3. /\ store[c] = Absent /\ store' = [store EXCEPT ![c] = o]
      /\ churn' = churn + 1 /\ UNCHANGED <<cache, pass, stale>>
  BY DEF Create
<1> HIDE DEF o
<1>4. InvOf(store', cache, pass, stale, churn + 1)
  BY <1>2, <1>3, ObjectChanges, ZenonT(60) DEF IpamInv
<1>5. ASSUME NEW d \in Consumers PROVE Stays(d)
  <2>1. d # c => store'[d] = store[d]
    BY <1>3 DEF IpamInv, InvOf, Views
  <2> QED
    BY <1>3, <2>1 DEF Stays, Covers
<1> QED
  BY <1>3, <1>4, <1>5 DEF Step, IpamInv

\* A deleted consumer gives its addresses back and takes none.
LEMMA DeleteStep ==
  ASSUME IpamInv, NEW c \in Consumers, Delete(c)
  PROVE  Step
<1>1. Absent \in Objects /\ Absent.alloc = NoAlloc
  BY NoAllocType DEF Absent
<1>2. /\ store' = [store EXCEPT ![c] = Absent]
      /\ churn' = churn + 1 /\ UNCHANGED <<cache, pass, stale>>
  BY DEF Delete
<1>3. InvOf(store', cache, pass, stale, churn + 1)
  BY <1>1, <1>2, ObjectChanges, ZenonT(60) DEF IpamInv
<1>4. ASSUME NEW d \in Consumers PROVE Stays(d)
  <2>1. store'[d] = IF d = c THEN Absent ELSE store[d]
    BY <1>2 DEF IpamInv, InvOf, Views
  <2> QED
    BY <2>1 DEF Stays, Covers
<1> QED
  BY <1>2, <1>3, <1>4 DEF Step, IpamInv

\* A node that joins or leaves changes what is wanted and nothing that is held.
LEMMA NodeStep ==
  ASSUME IpamInv, NEW n \in Nodes, NodeJoins(n) \/ NodeLeaves(n)
  PROVE  Step
<1>1. UNCHANGED <<store, cache, pass, stale>> /\ churn' = churn + 1
  BY DEF NodeJoins, NodeLeaves
<1>2. InvOf(store, cache, pass, stale, churn + 1)
  BY MoreChurn DEF IpamInv
<1> QED
  BY <1>1, <1>2, StoreUntouched DEF Step, IpamInv

\* The informer copies what is stored, which is sound.
LEMMA CacheSyncStep ==
  ASSUME IpamInv, NEW c \in Consumers, CacheSync(c)
  PROVE  Step
<1>1. UNCHANGED <<store, pass, stale, churn>> /\ cache' = [cache EXCEPT ![c] = store[c]]
  BY DEF CacheSync
<1>2. InvOf(store, cache', pass, stale, churn)
  BY <1>1, CacheCatchesUp DEF IpamInv
<1> QED
  BY <1>1, <1>2, StoreUntouched DEF Step, IpamInv

\* Nothing is stored, cached or allocated at the start.
LEMMA InitInv == ASSUME Init PROVE IpamInv
<1>1. Absent.uid = 0 /\ Absent.rv = 0 /\ DOMAIN Absent.alloc = {} /\ Absent \in Objects
  BY NoAllocType DEF Absent
<1>2. store \in Views /\ cache \in Views /\ cache = store
  BY <1>1 DEF Init, Views
<1>3. \A c \in Consumers : store[c] = Absent
  BY DEF Init
<1>4. churn = 0 /\ churn \in Nat /\ stale \in BOOLEAN /\ pass = Idle
  BY DEF Init
<1>5. \A c \in Consumers : store[c].uid <= churn /\ store[c].uid = 0
  BY <1>1, <1>3, <1>4
<1>6. Copies(store, store, churn)
  <2>1. \A c \in Consumers : Behind(store[c], store[c])
    BY <1>1, <1>3 DEF Behind, Covers
  <2> QED
    BY <1>1, <1>3, <1>5, <2>1 DEF Copies
<1>7. AllGood(store) /\ Unique(store)
  BY <1>1, <1>3 DEF AllGood, Unique
<1> QED
  BY <1>2, <1>3, <1>4, <1>5, <1>6, <1>7 DEF IpamInv, InvOf

\* Every step keeps the invariant, and leaves stored addresses in place.
LEMMA NextStep == ASSUME WellFormed, IpamInv, [Next]_vars PROVE Step
<1>1. CASE UNCHANGED vars
  BY <1>1, StoreUntouched DEF Step, IpamInv, vars
<1>2. CASE StartPass
  BY <1>2, StartPassStep
<1>3. CASE NextPhase
  BY <1>3, NextPhaseStep
<1>4. CASE EndNodeIPs
  BY <1>4, EndNodeIPsStep
<1>5. ASSUME NEW c \in L3, AllocateL3(c) PROVE Step
  BY <1>5, AllocateL3Step
<1>6. ASSUME NEW c \in L2As, StartNodeIPs(c) PROVE Step
  BY <1>6, StartNodeIPsStep
<1>7. ASSUME NEW n \in Nodes, AllocateNode(n) \/ NodeJoins(n) \/ NodeLeaves(n) PROVE Step
  BY <1>7, AllocateNodeStep, NodeStep
<1>8. ASSUME NEW l \in Collectors, ReconcileCollector(l) PROVE Step
  BY <1>8, ReconcileCollectorStep
<1>9. ASSUME NEW c \in Consumers, Create(c) \/ Delete(c) \/ CacheSync(c) PROVE Step
  BY <1>9, CreateStep, DeleteStep, CacheSyncStep
<1> QED
  BY <1>1, <1>2, <1>3, <1>4, <1>5, <1>6, <1>7, <1>8, <1>9 DEF Next

\* The invariant is what AddressesSound asks for, and more.
LEMMA InvSound == ASSUME IpamInv PROVE AddressesSound
<1>1. NoSharedAddress
  BY DEF IpamInv, InvOf, NoSharedAddress, Fresh
<1>2. NodeAddressUsable
  <2>1. SUFFICES ASSUME NEW c \in L2As, \A d \in L3 : NetOf[d] # NetOf[c],
                        NEW f \in Families, NEW a \in Allocated(store, c, f)
                 PROVE  /\ Contains(Fam(c, f), a)
                        /\ a \notin {NetworkAddr(Fam(c, f)), broadcastAddr(Fam(c, f))}
                        /\ ~inReserved(ReservedRanges[c], a)
    BY DEF NodeAddressUsable
  <2>2. PICK s \in DOMAIN store[c].alloc : a \in store[c].alloc[s][f]
    BY DEF Allocated
  <2>3. c \in Consumers /\ AllGood(store)
    BY DEF Consumers, IpamInv, InvOf
  <2>4. Good(c, f, a)
    BY <2>2, <2>3 DEF AllGood
  <2> QED
    BY <2>1, <2>4 DEF Good, Switched
<1> QED
  BY <1>1, <1>2 DEF AddressesSound

-----------------------------------------------------------------------------
\* reconcileInboundAllocations, reconcileOutboundAllocations and
\* reconcileNodeIPs never give an address of a Network to two objects or two
\* nodes as long as passes start on an up-to-date cache, and never give a node
\* the network address, the broadcast address or a reserved one.
THEOREM AllocationIsSound ==
  ASSUME WellFormed
  PROVE  Spec => []AddressesSound
<1>1. Init => IpamInv
  BY InitInv
<1>2. IpamInv /\ [Next]_vars => IpamInv'
  BY NextStep DEF Step
<1>3. IpamInv => AddressesSound
  BY InvSound
<1> QED
  BY <1>1, <1>2, <1>3, PTL DEF Spec

\* No Status().Update of a pass, however old the copies it works on, takes an
\* address from an object that exists, or moves it to another node.
THEOREM AllocationIsKept ==
  ASSUME WellFormed
  PROVE  Spec => AllocationsStable
<1>1. Init => IpamInv
  BY InitInv
<1>2. IpamInv /\ [Next]_vars => IpamInv'
  BY NextStep DEF Step
<1>3. IpamInv /\ [Next]_vars =>
        [\A c \in Consumers : store[c] # Absent /\ store'[c] # Absent =>
           \A s \in DOMAIN store[c].alloc :
             s \in DOMAIN store'[c].alloc /\ store'[c].alloc[s] = store[c].alloc[s]]_vars
  BY NextStep DEF Step, Stays, Covers
<1> QED
  BY <1>1, <1>2, <1>3, PTL DEF Spec, AllocationsStable
=============================================================================
