-------------------------------- MODULE Ipam --------------------------------
(***************************************************************************)
(* Address allocation of the intent reconciler: Inbounds and Outbounds     *)
(* with a count get addresses from their Network, Layer2Attachments with   *)
(* nodeIPs get one per node, Collectors get one per node from their        *)
(* loopback subnet.  A pass works on copies fetched at its start and       *)
(* writes each object's status back with optimistic concurrency; users     *)
(* and nodes come and go in between.                                       *)
(***************************************************************************)
EXTENDS Addresses

CONSTANTS
  Inbounds, Outbounds, L2As,  \* consumers of Network pools
  NetOf,                      \* consumer -> the Network it references
  Count,                      \* Inbound or Outbound -> spec.count
  ReservedRanges,             \* Layer2Attachment -> set of CIDRs
  Malformed,                  \* Layer2Attachments whose ranges do not parse
  Networks,                   \* Network -> [v4 : CIDR, v6 : CIDR or NoNet]
  NoNet,
  Nodes,                      \* numbers: the lexical order of the names
  Collectors,
  Subnet,                     \* Collector -> CIDR
  MaxChurn                    \* bound on what users and nodes do

VARIABLES
  store,    \* consumer -> what the API server holds: [uid, rv, alloc] or Absent
  cache,    \* consumer -> what the informer cache shows
  live,     \* the nodes
  cols,     \* Collector -> [rv, addrs, cond]
  pass,     \* the running pass
  stale,    \* has a pass started on a cache that lagged behind?
  churn     \* users' and nodes' actions so far

vars == <<store, cache, live, cols, pass, stale, churn>>

L3 == Inbounds \cup Outbounds
Consumers == L3 \cup L2As
Families == {"v4", "v6"}
NoAlloc == [s \in {} |-> {}]
Absent == [uid |-> 0, rv |-> 0, alloc |-> NoAlloc]

\* A Layer2Attachment has a slot per node, the others a single one: slot 0.
Slots(c) == IF c \in L2As THEN Nodes ELSE {0}
Fam(c, f) == IF NetOf[c] \in DOMAIN Networks THEN Networks[NetOf[c]][f] ELSE NoNet
Allocated(view, c, f) ==
  UNION {view[c].alloc[s][f] : s \in DOMAIN view[c].alloc}

-----------------------------------------------------------------------------
(* The pools of a pass.                                                    *)

PoolKeys == {k \in (DOMAIN Networks) \X Families : Networks[k[1]][k[2]] # NoNet}
NoPool == [cidr |-> NoNet]

\* seedExistingAllocations: a pool exists from the start when an object
\* holds addresses of it, with routed semantics when such an object is an
\* Inbound or Outbound, which are seeded first.
seedExistingAllocations(view) ==
  [k \in PoolKeys |->
     LET held(S) == UNION {Allocated(view, c, k[2]) :
                             c \in {d \in S : NetOf[d] = k[1]}}
     IN  IF held(Consumers) = {} THEN NoPool
         ELSE seedPoolFromAddresses(
                newPool(Networks[k[1]][k[2]], held(L3) # {}), held(Consumers))]

\* allocate: each family on its own; the failure of one leaves the other.
Attempt(pools, c, f) ==
  LET k == <<NetOf[c], f>>
      p == IF pools[k] = NoPool THEN newPool(Fam(c, f), c \in L3) ELSE pools[k]
  IN  allocateFromCIDR(p, IF c \in L3 THEN Count[c] ELSE 1,
                       IF c \in L3 THEN {} ELSE ReservedRanges[c])

allocate(pools, c) ==
  [addrs |-> [f \in Families |->
                IF Fam(c, f) = NoNet THEN {} ELSE Attempt(pools, c, f).ips],
   pools |-> [k \in PoolKeys |->
                IF k[1] = NetOf[c] THEN Attempt(pools, c, k[2]).pool ELSE pools[k]]]

Empty(addrs) == \A f \in Families : addrs[f] = {}

-----------------------------------------------------------------------------
(* A pass: inbounds, outbounds, attachments, collectors.                   *)

Phases == <<Inbounds, Outbounds, L2As, Collectors>>
Idle == [at |-> 0]

Init ==
  /\ store = [c \in Consumers |-> Absent]
  /\ cache = store
  /\ live = {}
  /\ cols = [l \in Collectors |-> [rv |-> 1, addrs |-> << >>, cond |-> "none"]]
  /\ pass = Idle
  /\ stale = FALSE
  /\ churn = 0

\* Fetch, from the informer cache, and seed the pools.
StartPass ==
  /\ pass = Idle
  /\ pass' = [at |-> 1, todo |-> {c \in Inbounds : cache[c] # Absent},
              view |-> cache, pools |-> seedExistingAllocations(cache),
              nodes |-> live, cur |-> "", left |-> {}, fresh |-> FALSE,
              colview |-> cols]
  /\ stale' = (stale \/ cache # store)
  /\ UNCHANGED <<store, cache, live, cols, churn>>

\* The next kind of object; after the collectors the pass is over.
NextPhase ==
  /\ pass.at \in 1 .. 4 /\ pass.todo = {} /\ pass.cur = ""
  /\ pass' = IF pass.at = 4 THEN Idle
             ELSE [pass EXCEPT !.at = @ + 1,
                     !.todo = IF pass.at = 3 THEN Collectors
                              ELSE {c \in Phases[pass.at + 1] : pass.view[c] # Absent}]
  /\ UNCHANGED <<store, cache, live, cols, churn, stale>>

\* Status().Update: refused when the object changed or went away.
Accepted(c) ==
  store[c] # Absent /\ store[c].uid = pass.view[c].uid /\ store[c].rv = pass.view[c].rv
Stored(o, alloc) == [uid |-> o.uid, rv |-> o.rv + 1, alloc |-> alloc]
Written(c, alloc) == store' = [store EXCEPT ![c] = Stored(@, alloc)]
Held(view, c, alloc) == [view EXCEPT ![c] = [uid |-> @.uid, rv |-> @.rv, alloc |-> alloc]]

\* An Inbound or Outbound: nothing to do when it has addresses; a refused
\* write ends the allocation of the pass, collectors still follow.
AllocateL3(c) ==
  /\ pass.at \in {1, 2} /\ c \in pass.todo
  /\ LET got == allocate(pass.pools, c)
         next == [pass EXCEPT !.todo = @ \ {c}, !.pools = got.pools]
     IN  IF pass.view[c].alloc # NoAlloc
         THEN pass' = [pass EXCEPT !.todo = @ \ {c}] /\ UNCHANGED store
         ELSE IF Empty(got.addrs)
         THEN pass' = next /\ UNCHANGED store
         ELSE LET mine == [s \in {0} |-> got.addrs]
                  mem == [next EXCEPT !.view = Held(@, c, mine)]
              IN  \/ Accepted(c) /\ Written(c, mine) /\ pass' = mem
                  \/ /\ pass' = [mem EXCEPT !.at = 3, !.todo = {}]
                     /\ UNCHANGED store
  /\ UNCHANGED <<cache, live, cols, churn, stale>>

\* Mutant: nodes that have an address get another.
StartNodeIPsAgain(c) ==
  /\ pass.at = 3 /\ c \in pass.todo /\ pass.cur = ""
  /\ pass' = [pass EXCEPT !.todo = @ \ {c}, !.cur = c, !.fresh = FALSE, !.left = pass.nodes]
  /\ UNCHANGED <<store, cache, live, cols, churn, stale>>

\* An attachment: one node after the other, then one write.
StartNodeIPs(c) ==
  /\ pass.at = 3 /\ c \in pass.todo /\ pass.cur = ""
  /\ pass' = [pass EXCEPT !.todo = @ \ {c}, !.cur = c, !.fresh = FALSE,
                !.left = IF c \in Malformed THEN {}
                         ELSE pass.nodes \ DOMAIN pass.view[c].alloc]
  /\ UNCHANGED <<store, cache, live, cols, churn, stale>>

AllocateNode(n) ==
  /\ pass.at = 3 /\ pass.cur # "" /\ n \in pass.left
  /\ LET c == pass.cur
         got == allocate(pass.pools, c)
         next == [pass EXCEPT !.left = @ \ {n}, !.pools = got.pools]
     IN  pass' = IF Empty(got.addrs) THEN next
                 ELSE [next EXCEPT !.fresh = TRUE,
                         !.view = Held(@, c, [s \in DOMAIN @[c].alloc \cup {n} |->
                                                IF s = n THEN got.addrs ELSE @[c].alloc[s]])]
  /\ UNCHANGED <<store, cache, live, cols, churn, stale>>

\* A refused write is logged; the next attachment follows.
EndNodeIPs ==
  /\ pass.at = 3 /\ pass.cur # "" /\ pass.left = {}
  /\ \/ pass.fresh /\ Accepted(pass.cur) /\ Written(pass.cur, pass.view[pass.cur].alloc)
     \/ UNCHANGED store
  /\ pass' = [pass EXCEPT !.cur = ""]
  /\ UNCHANGED <<cache, live, cols, churn, stale>>

\* reconcileCollectorAddresses: the map and the condition are written only
\* when the map changes.
ReconcileCollector(l) ==
  /\ pass.at = 4 /\ l \in pass.todo
  /\ LET res == AllocateSubnet(Subnet[l], pass.nodes, pass.colview[l].addrs)
     IN  \/ /\ res.Updated # pass.colview[l].addrs
            /\ pass.colview[l].rv = cols[l].rv
            /\ cols' = [cols EXCEPT ![l] =
                  [rv |-> @.rv + 1, addrs |-> res.Updated,
                   cond |-> IF res.Unallocated = {} THEN "AllAllocated"
                            ELSE "SubnetExhausted"]]
         \/ UNCHANGED cols
  /\ pass' = [pass EXCEPT !.todo = @ \ {l}]
  /\ UNCHANGED <<store, cache, live, churn, stale>>

-----------------------------------------------------------------------------
(* Users, nodes and the informer.                                          *)

Create(c) ==
  /\ store[c] = Absent /\ churn < MaxChurn
  /\ store' = [store EXCEPT ![c] = [uid |-> churn + 1, rv |-> 1, alloc |-> NoAlloc]]
  /\ churn' = churn + 1
  /\ UNCHANGED <<cache, live, cols, pass, stale>>

Delete(c) ==
  /\ store[c] # Absent /\ churn < MaxChurn
  /\ store' = [store EXCEPT ![c] = Absent]
  /\ churn' = churn + 1
  /\ UNCHANGED <<cache, live, cols, pass, stale>>

NodeJoins(n) ==
  /\ n \notin live /\ churn < MaxChurn
  /\ live' = live \cup {n} /\ churn' = churn + 1
  /\ UNCHANGED <<store, cache, cols, pass, stale>>

NodeLeaves(n) ==
  /\ n \in live /\ churn < MaxChurn
  /\ live' = live \ {n} /\ churn' = churn + 1
  /\ UNCHANGED <<store, cache, cols, pass, stale>>

CacheSync(c) ==
  /\ cache[c] # store[c]
  /\ cache' = [cache EXCEPT ![c] = store[c]]
  /\ UNCHANGED <<store, live, cols, pass, churn, stale>>

Next ==
  \/ StartPass \/ NextPhase \/ EndNodeIPs
  \/ \E c \in L3 : AllocateL3(c)
  \/ \E c \in L2As : StartNodeIPs(c)
  \/ \E n \in Nodes : AllocateNode(n) \/ NodeJoins(n) \/ NodeLeaves(n)
  \/ \E l \in Collectors : ReconcileCollector(l)
  \/ \E c \in Consumers : Create(c) \/ Delete(c) \/ CacheSync(c)

Spec == Init /\ [][Next]_vars

\* What is assumed of the Networks.
WellFormed ==
  /\ FitWidth /\ "" \notin Consumers
  /\ \A k \in PoolKeys : FitCIDR(Networks[k[1]][k[2]])

-----------------------------------------------------------------------------
(* What the allocation is for.                                             *)

Unique(view) ==
  \A c, d \in Consumers : \A s \in DOMAIN view[c].alloc, t \in DOMAIN view[d].alloc :
    \/ <<c, s>> = <<d, t>> \/ NetOf[c] # NetOf[d]
    \/ \A f \in Families : view[c].alloc[s][f] \cap view[d].alloc[t][f] = {}

\* No address of a Network belongs to two objects or two nodes, neither in
\* the stored statuses nor in the copies the builders read, as long as every
\* pass saw what the passes before it wrote.
NoSharedAddress == ~stale => Unique(store) /\ (pass # Idle => Unique(pass.view))

\* A node address lies in its Network and is neither the network address, the
\* IPv4 broadcast address nor in a range reserved for pods, as long as no
\* Inbound or Outbound uses the Network.
NodeAddressUsable ==
  \A c \in L2As : (\A d \in L3 : NetOf[d] # NetOf[c]) =>
    \A f \in Families : \A a \in Allocated(store, c, f) :
      /\ Contains(Fam(c, f), a)
      /\ a \notin {NetworkAddr(Fam(c, f)), broadcastAddr(Fam(c, f))}
      /\ ~inReserved(ReservedRanges[c], a)

\* No address is given out twice, or to a node that cannot use it.
AddressesSound == NoSharedAddress /\ NodeAddressUsable

\* An address once stored stays with its object, and its node, for as long
\* as the object exists.
AllocationsStable ==
  [][\A c \in Consumers : store[c] # Absent /\ store'[c] # Absent =>
       \A s \in DOMAIN store[c].alloc :
         s \in DOMAIN store'[c].alloc /\ store'[c].alloc[s] = store[c].alloc[s]]_vars

\* The loopback addresses of a Collector's nodes are distinct addresses of its
\* subnet, and a node in two successive versions of the map keeps its own.
LoopbacksStable ==
  [][\A l \in Collectors :
       LET old == cols[l].addrs
           new == cols'[l].addrs
       IN  /\ \A n, m \in DOMAIN new : n # m => new[n] # new[m]
           /\ \A n \in DOMAIN new : Contains(Subnet[l], new[n])
           /\ \A n \in DOMAIN old \cap DOMAIN new : new[n] = old[n]]_vars

\* The gateway of the IRB on the segment is not given to a node.
NoNodeHasGateway ==
  \A c \in L2As : \A f \in Families : Fam(c, f) # NoNet =>
    GatewayAddr(Fam(c, f)) \notin Allocated(store, c, f)
=============================================================================
