--------------------------- MODULE CraApplyProofs ---------------------------
(***************************************************************************)
(* Proofs about CraApply for every set of VRFs, VNIs and requests, any     *)
(* number of tables and any number of failed calls.                        *)
(***************************************************************************)
EXTENDS CraApply, TLAPS

\* How the devices hang together, whatever failed: a bridge is on a VRF that
\* exists, a VRF has at most one, and a VXLAN port is on a bridge that exists.
LinksInv ==
    /\ \A n, m \in VNIs :
          /\ bridge[n].exists /\ bridge[m].exists
          /\ bridge[n].master = bridge[m].master /\ bridge[n].master # None
          => n = m
    /\ \A n \in VNIs : bridge[n].exists /\ bridge[n].master # None
          => vrf[bridge[n].master] # 0
    /\ \A n \in VNIs : vxlan[n].port => bridge[n].exists

\* VRF v is as the request wants it, or gone as it wants it.
Settled(v) == IF cfg[v] = None THEN vrf[v] = 0 ELSE AsWanted(v)

\* What applyConfig has achieved at each step.
StepInv ==
    /\ \A v, w \in VRFs : cfg[v] = cfg[w] /\ cfg[v] \in VNIs => v = w
    /\ pc # "idle" => answer = "none" /\ file = VNIsOf(cfg)
    /\ pc = "delete" => created = {}
    /\ pc = "create" => \A v \in VRFs : vrf[v] # 0 => AsWanted(v)
    /\ pc \in {"reload", "wait", "up", "finish"} => \A v \in VRFs : Settled(v)
    /\ pc \in {"wait", "up", "finish"} => loaded = file
    /\ pc # "idle" => \A v \in created : cfg[v] # None /\ AsWanted(v)

\* The inductive invariant.
CraInv == TypeOK /\ TablesDistinct /\ LinksInv /\ StepInv /\ AnswerMeansConfigured

USE DEF devices, frr

\* What the changes make of a bridge and of a VXLAN.
LEMMA LinkTypes ==
    /\ NoBridge \in BridgeLink /\ ~NoBridge.exists /\ ~NoBridge.up
    /\ NoVxlan \in VxlanLink /\ ~NoVxlan.port
    /\ NewVxlan \in VxlanLink /\ NewVxlan.exists /\ NewVxlan.port
    /\ \A v \in VRFs : /\ NewBridge(v) \in BridgeLink
                        /\ NewBridge(v).exists /\ NewBridge(v).master = v
                        /\ ~NewBridge(v).up
    /\ \A b \in BridgeLink : /\ b.master \in VRFs \union {None}
                              /\ Freed(b) \in BridgeLink
                              /\ Freed(b).exists = b.exists
                              /\ Freed(b).master = None
                              /\ Freed(b).up = b.up
                              /\ Raised(b) \in BridgeLink
                              /\ Raised(b).exists = b.exists
                              /\ Raised(b).master = b.master
    /\ \A x \in VxlanLink : /\ Unplugged(x) \in VxlanLink /\ ~Unplugged(x).port
                             /\ Raised(x) \in VxlanLink
                             /\ Raised(x).exists = x.exists
                             /\ Raised(x).port = x.port
  BY DEF NoBridge, NoVxlan, NewBridge, NewVxlan, Freed, Unplugged, Raised,
         BridgeLink, VxlanLink

\* A node without devices satisfies it.
LEMMA InitCraInv == Init => CraInv
<1> SUFFICES ASSUME Init PROVE CraInv
    OBVIOUS
<1>1. TypeOK
      BY CraAssumption, LinkTypes DEF Init, TypeOK, Mapping, NoMapping
<1>2. TablesDistinct /\ AnswerMeansConfigured
      BY DEF Init, TablesDistinct, AnswerMeansConfigured
<1>3. LinksInv
      BY DEF Init, LinksInv, NoBridge, NoVxlan
<1>4. StepInv
      BY CraAssumption DEF Init, StepInv
<1> QED BY <1>1, <1>2, <1>3, <1>4 DEF CraInv

\* The FRR configuration of a request is well typed.
LEMMA VNIsOfType ==
    ASSUME NEW c \in [VRFs -> VNIs \union {Local, None}]
    PROVE  VNIsOf(c) \in Mapping
  BY DEF VNIsOf, Mapping

\* A failed call is counted within its bound.
LEMMA FaultType == faults \in 0..MaxFaults /\ Fault => faults' \in 0..MaxFaults
  BY CraAssumption DEF Fault

\* A request that ends with an error promises nothing.
LEMMA ErrorStep ==
    ASSUME CraInv, TypeOK', TablesDistinct', LinksInv', Reply("error"),
           UNCHANGED cfg
    PROVE  CraInv'
<1>1. pc' = "idle" /\ answer' = "error"
      BY DEF Reply
<1>2. StepInv'
      BY <1>1 DEF CraInv, StepInv
<1>3. AnswerMeansConfigured'
      BY <1>1 DEF AnswerMeansConfigured
<1> QED BY <1>2, <1>3 DEF CraInv

\* A step that leaves the devices alone keeps what is said of them alone.
LEMMA SameDevices ==
    ASSUME CraInv, UNCHANGED devices
    PROVE  TablesDistinct' /\ LinksInv'
  BY DEF CraInv, TablesDistinct, LinksInv

\* A new request starts.
LEMMA ReceiveInv ==
    ASSUME CraInv, NEW c \in Requests, Receive(c)
    PROVE  CraInv'
<1>1. c \in [VRFs -> VNIs \union {Local, None}]
      BY CraAssumption
<1>2. VNIsOf(c) \in Mapping /\ NoMapping \in Mapping
      BY <1>1, VNIsOfType DEF NoMapping, Mapping
<1>3. TypeOK'
  <2>1. faults' \in 0..MaxFaults
        BY FaultType DEF CraInv, TypeOK, Receive
  <2> QED BY <1>1, <1>2, <2>1 DEF CraInv, TypeOK, Receive, Reply
<1>4. TablesDistinct' /\ LinksInv'
      BY SameDevices DEF Receive
<1>5. StepInv'
      BY <1>1, CraAssumption DEF Receive, Reply, StepInv
<1>6. AnswerMeansConfigured'
      BY DEF Receive, Reply, AnswerMeansConfigured
<1> QED BY <1>3, <1>4, <1>5, <1>6 DEF CraInv

\* Deleting devices of one VRF keeps types and structure, whichever of the
\* deletions work.
LEMMA UnlinkInv ==
    ASSUME CraInv, NEW v \in VRFs, NEW gone \in BOOLEAN,
           NEW bs \in SUBSET Bridges(v), NEW xs \in SUBSET Ports(v),
           Unlink(v, gone, bs, xs)
    PROVE  /\ vrf' \in [VRFs -> 0..Tables]
           /\ bridge' \in [VNIs -> BridgeLink]
           /\ vxlan' \in [VNIs -> VxlanLink]
           /\ TablesDistinct' /\ LinksInv'
<1> USE DEF CraInv
<1>1. vrf' \in [VRFs -> 0..Tables] /\ \A w \in VRFs : vrf'[w] \in {vrf[w], 0}
      BY CraAssumption DEF TypeOK, Unlink
<1>2. \A w \in VRFs : w # v \/ ~gone => vrf'[w] = vrf[w]
      BY DEF TypeOK, Unlink
<1>3. \A n \in VNIs :
         \/ bridge'[n] = NoBridge
         \/ /\ n \notin bs
            /\ ~(gone /\ bridge[n].master = v)
            /\ bridge'[n] = bridge[n]
         \/ n \notin bs /\ bridge'[n] = Freed(bridge[n])
      BY DEF Unlink
<1>4. \A n \in VNIs :
         \/ vxlan'[n] = NoVxlan
         \/ n \notin bs /\ vxlan'[n] = vxlan[n]
         \/ vxlan'[n] = Unplugged(vxlan[n])
      BY DEF Unlink
<1>5. \A n \in VNIs : n \notin bs => bridge'[n].exists = bridge[n].exists
      BY LinkTypes DEF Unlink, TypeOK
<1>6. bridge' \in [VNIs -> BridgeLink]
  <2>1. \A n \in VNIs : bridge'[n] \in BridgeLink
        BY <1>3, LinkTypes DEF TypeOK
  <2> QED BY <2>1 DEF Unlink
<1>7. vxlan' \in [VNIs -> VxlanLink]
  <2>1. \A n \in VNIs : vxlan'[n] \in VxlanLink
        BY <1>4, LinkTypes DEF TypeOK
  <2> QED BY <2>1 DEF Unlink
<1>8. TablesDistinct'
      BY <1>1 DEF TablesDistinct, TypeOK
<1>9. LinksInv'
  <2>1. \A n \in VNIs : bridge'[n].exists /\ bridge'[n].master # None
           => bridge'[n] = bridge[n] /\ ~(gone /\ bridge[n].master = v)
        BY <1>3, LinkTypes DEF TypeOK
  <2>2. \A n \in VNIs : vxlan'[n].port => n \notin bs /\ vxlan[n].port
        BY <1>4, LinkTypes DEF TypeOK
  <2>3. \A n \in VNIs : bridge'[n].exists /\ bridge'[n].master # None
           => vrf'[bridge'[n].master] # 0
        BY <2>1, <1>2, LinkTypes DEF LinksInv, TypeOK
  <2>4. \A n \in VNIs : vxlan'[n].port => bridge'[n].exists
        BY <2>2, <1>5 DEF LinksInv
  <2>5. \A n, m \in VNIs :
           /\ bridge'[n].exists /\ bridge'[m].exists
           /\ bridge'[n].master = bridge'[m].master /\ bridge'[n].master # None
           => n = m
        BY <2>1 DEF LinksInv
  <2> QED BY <2>3, <2>4, <2>5 DEF LinksInv
<1> QED BY <1>1, <1>6, <1>7, <1>8, <1>9

\* The deletion of a VRF keeps the invariant, complete or not.
LEMMA CleanupInv ==
    ASSUME CraInv, NEW v \in VRFs, CleanupL3(v)
    PROVE  CraInv'
<1>1. PICK gone \in BOOLEAN, bs \in SUBSET Bridges(v), xs \in SUBSET Ports(v) :
          Unlink(v, gone, bs, xs)
      BY DEF CleanupL3
<1>2. faults' \in 0..MaxFaults
      BY FaultType DEF CraInv, TypeOK, CleanupL3
<1>3. TypeOK'
      BY <1>1, <1>2, UnlinkInv DEF CraInv, TypeOK, CleanupL3, Reply
<1>4. TablesDistinct' /\ LinksInv'
      BY <1>1, UnlinkInv
<1>5. CASE Reply("error")
      BY <1>3, <1>4, <1>5, ErrorStep DEF CleanupL3
<1>6. CASE UNCHANGED <<pc, answer>>
  <2>1. pc = "delete" /\ answer = "none" /\ created = {}
        BY DEF CleanupL3, CraInv, StepInv
  <2>2. StepInv'
        BY <1>6, <2>1 DEF CraInv, StepInv, CleanupL3
  <2>3. AnswerMeansConfigured'
        BY <1>6, <2>1 DEF AnswerMeansConfigured
  <2> QED BY <1>3, <1>4, <2>2, <2>3 DEF CraInv
<1> QED BY <1>5, <1>6 DEF CleanupL3

\* createVRF, createBridge and createVXLAN: the table is one that no VRF uses,
\* the names are free, and no other VRF is touched.
LEMMA CreateInv ==
    ASSUME CraInv, NEW v \in VRFs, vrf[v] = 0, cfg[v] \in VNIs \union {Local},
           NEW k \in 1..Possible(v), Create(v, k), cfg' = cfg
    PROVE  /\ vrf' \in [VRFs -> 0..Tables] /\ vrf'[v] # 0
           /\ \A w \in VRFs \ {v} : vrf'[w] = vrf[w]
           /\ bridge' \in [VNIs -> BridgeLink]
           /\ vxlan' \in [VNIs -> VxlanLink]
           /\ TablesDistinct' /\ LinksInv'
           /\ \A w \in VRFs \ {v}, n \in VNIs : HasVNI(w, n) => HasVNI(w, n)'
           /\ cfg[v] \in VNIs /\ k = 3 => HasVNI(v, cfg[v])'
<1> USE DEF CraInv
<1>1. PICK t \in 1..Tables : FreeTable(t) /\ vrf' = [vrf EXCEPT ![v] = t]
      BY DEF Create
<1>2. /\ vrf' \in [VRFs -> 0..Tables] /\ vrf'[v] # 0
      /\ \A w \in VRFs \ {v} : vrf'[w] = vrf[w]
      BY <1>1, CraAssumption DEF TypeOK
<1>3. TablesDistinct'
  <2>1. \A w \in VRFs : vrf[w] # t
        BY <1>1 DEF FreeTable, UsedTables
  <2> QED BY <1>1, <2>1 DEF TablesDistinct, TypeOK
<1>4. \/ k = 1 /\ bridge' = bridge /\ vxlan' = vxlan
      \/ /\ cfg[v] \in VNIs /\ ~bridge[cfg[v]].exists
         /\ bridge' = [bridge EXCEPT ![cfg[v]] = NewBridge(v)]
         /\ \/ k = 2 /\ vxlan' = vxlan
            \/ /\ k = 3
               /\ vxlan' = [vxlan EXCEPT ![cfg[v]] = NewVxlan]
      BY CraAssumption DEF Create, Possible
<1>5. \A n \in VNIs : bridge[n].exists => bridge[n].master # v
      BY CraAssumption DEF LinksInv
<1>6. bridge' \in [VNIs -> BridgeLink] /\ vxlan' \in [VNIs -> VxlanLink]
      BY <1>4, LinkTypes DEF TypeOK
<1>7. LinksInv'
  <2>1. CASE bridge' = bridge /\ vxlan' = vxlan
        BY <2>1, <1>2, <1>5, LinkTypes DEF LinksInv, TypeOK
  <2>2. CASE /\ cfg[v] \in VNIs /\ ~bridge[cfg[v]].exists
             /\ bridge' = [bridge EXCEPT ![cfg[v]] = NewBridge(v)]
    <3>1. /\ bridge'[cfg[v]].exists /\ bridge'[cfg[v]].master = v
          /\ \A n \in VNIs \ {cfg[v]} : bridge'[n] = bridge[n]
          BY <2>2, LinkTypes DEF TypeOK
    <3>2. \A n \in VNIs \ {cfg[v]} : vxlan'[n] = vxlan[n]
          BY <1>4 DEF TypeOK
    <3>3. \A n \in VNIs : vxlan'[n].port => bridge'[n].exists
          BY <3>1, <3>2, <2>2 DEF LinksInv
    <3>4. \A n \in VNIs : bridge'[n].exists /\ bridge'[n].master # None
             => vrf'[bridge'[n].master] # 0
          BY <3>1, <1>2, <1>5, LinkTypes DEF LinksInv, TypeOK
    <3>5. \A n, m \in VNIs :
             /\ bridge'[n].exists /\ bridge'[m].exists
             /\ bridge'[n].master = bridge'[m].master /\ bridge'[n].master # None
             => n = m
          BY <3>1, <1>5, <2>2 DEF LinksInv
    <3> QED BY <3>3, <3>4, <3>5 DEF LinksInv
  <2> QED BY <2>1, <2>2, <1>4
<1>8. \A w \in VRFs \ {v}, n \in VNIs : HasVNI(w, n) => HasVNI(w, n)'
      BY <1>4 DEF HasVNI, Bridges, TypeOK
<1>9. cfg[v] \in VNIs /\ k = 3 => HasVNI(v, cfg[v])'
  <2> SUFFICES ASSUME cfg[v] \in VNIs, k = 3 PROVE HasVNI(v, cfg[v])'
      OBVIOUS
  <2>1. bridge'[cfg[v]] = NewBridge(v) /\ vxlan'[cfg[v]] = NewVxlan
        BY <1>4 DEF TypeOK
  <2> QED BY <2>1, LinkTypes DEF HasVNI, Bridges
<1> QED BY <1>2, <1>3, <1>6, <1>7, <1>8, <1>9

\* What other VRFs have, and what is wanted of them, stays.
LEMMA CreateKeepsOthers ==
    ASSUME CraInv, NEW v \in VRFs, CreateL3(v), NEW w \in VRFs \ {v},
           vrf'[w] = vrf[w],
           \A n \in VNIs : HasVNI(w, n) => HasVNI(w, n)',
           AsWanted(w)
    PROVE  AsWanted(w)'
  BY DEF CreateL3, AsWanted

\* Creating a VRF keeps the invariant, complete or not.
LEMMA CreateL3Inv ==
    ASSUME CraInv, NEW v \in VRFs, CreateL3(v)
    PROVE  CraInv'
<1> USE DEF CraInv
<1>1. cfg[v] \in VNIs \union {Local} /\ cfg' = cfg /\ pc = "create"
      BY DEF CreateL3, TypeOK
<1>2. faults' \in 0..MaxFaults
      BY FaultType DEF TypeOK, CreateL3
<1>3. CASE UNCHANGED devices /\ Reply("error")
  <2>1. TypeOK'
        BY <1>2, <1>3 DEF TypeOK, CreateL3, Reply
  <2>2. TablesDistinct' /\ LinksInv'
        BY <1>3, SameDevices
  <2> QED BY <1>3, <2>1, <2>2, ErrorStep DEF CreateL3
<1>4. ASSUME NEW k \in 1..Possible(v), Create(v, k), vrf[v] = 0, Reply("error"),
             created' = created
      PROVE  CraInv'
  <2>1. /\ vrf' \in [VRFs -> 0..Tables]
        /\ bridge' \in [VNIs -> BridgeLink] /\ vxlan' \in [VNIs -> VxlanLink]
        /\ TablesDistinct' /\ LinksInv'
        BY <1>1, <1>4, CreateInv
  <2>2. TypeOK'
        BY <1>1, <1>2, <1>4, <2>1 DEF TypeOK, CreateL3, Reply
  <2> QED BY <1>4, <2>1, <2>2, ErrorStep DEF CreateL3
<1>5. CASE /\ vrf[v] = 0
           /\ Possible(v) = Wanted(v) /\ Create(v, Wanted(v))
           /\ created' = created \union {v}
           /\ UNCHANGED <<pc, answer, faults>>
  <2>1. Wanted(v) \in 1..Possible(v)
        BY <1>5 DEF Wanted
  <2>2. cfg[v] \in VNIs => Wanted(v) = 3
        BY CraAssumption DEF Wanted
  <2>3. /\ vrf' \in [VRFs -> 0..Tables] /\ vrf'[v] # 0
        /\ \A w \in VRFs \ {v} : vrf'[w] = vrf[w]
        /\ bridge' \in [VNIs -> BridgeLink] /\ vxlan' \in [VNIs -> VxlanLink]
        /\ TablesDistinct' /\ LinksInv'
        /\ \A w \in VRFs \ {v}, n \in VNIs : HasVNI(w, n) => HasVNI(w, n)'
        /\ cfg[v] \in VNIs => HasVNI(v, cfg[v])'
        BY <1>1, <1>5, <2>1, <2>2, CreateInv
  <2>4. TypeOK'
        BY <1>1, <1>2, <1>5, <2>3 DEF TypeOK, CreateL3
  <2>5. AsWanted(v)'
        BY <1>1, <2>3 DEF AsWanted
  <2>6. \A w \in VRFs \ {v} : AsWanted(w) => AsWanted(w)'
        BY <2>3, CreateKeepsOthers
  <2>7. StepInv'
    <3>1. \A w \in VRFs : vrf'[w] # 0 => AsWanted(w)'
          BY <1>1, <2>3, <2>5, <2>6 DEF StepInv
    <3>2. \A w \in created' : cfg'[w] # None /\ AsWanted(w)'
          BY <1>1, <1>5, <2>5, <2>6 DEF StepInv, TypeOK, CreateL3
    <3> QED BY <1>1, <1>5, <3>1, <3>2 DEF StepInv, CreateL3
  <2>8. AnswerMeansConfigured'
        BY <1>1, <1>5 DEF StepInv, AnswerMeansConfigured
  <2> QED BY <2>3, <2>4, <2>7, <2>8
<1>6. CASE /\ vrf[v] = 0
           /\ Possible(v) < Wanted(v) /\ Create(v, Possible(v))
           /\ Reply("error")
           /\ UNCHANGED <<created, faults>>
  <2>1. Possible(v) \in 1..Possible(v)
        BY <1>1, CraAssumption DEF Possible
  <2> QED BY <1>4, <1>6, <2>1
<1> QED BY <1>3, <1>4, <1>5, <1>6 DEF CreateL3

\* The steps that leave the devices alone: reload, wait and the transitions.
LEMMA QuietInv ==
    ASSUME CraInv,
           DeleteDone \/ CreateDone \/ ReloadFRR \/ ZebraLearns \/ WaitForL3VNIs
              \/ UpDone \/ Finish
    PROVE  CraInv'
<1> USE DEF CraInv
<1>1. UNCHANGED <<vrf, bridge, vxlan, cfg, file>>
      BY DEF DeleteDone, CreateDone, ReloadFRR, ZebraLearns, WaitForL3VNIs, UpDone,
             Finish
<1>2. faults' \in 0..MaxFaults
      BY FaultType DEF TypeOK, DeleteDone, CreateDone, ReloadFRR, ZebraLearns,
             WaitForL3VNIs, UpDone, Finish
<1>3. NoMapping \in Mapping
      BY DEF NoMapping, Mapping
<1>4. TypeOK'
      BY <1>1, <1>2, <1>3 DEF TypeOK, DeleteDone, CreateDone, ReloadFRR,
             ZebraLearns, WaitForL3VNIs, UpDone, Finish, Reply
<1>5. TablesDistinct' /\ LinksInv'
      BY <1>1, SameDevices
<1>6. \A v \in VRFs : AsWanted(v)' = AsWanted(v) /\ Settled(v)' = Settled(v)
      BY <1>1 DEF AsWanted, Settled, HasVNI, Bridges
<1>7. StepInv' /\ AnswerMeansConfigured'
  <2> USE <1>1, <1>6
  <2>1. CASE DeleteDone
        BY <2>1 DEF DeleteDone, StepInv, TypeOK, AnswerMeansConfigured
  <2>2. CASE CreateDone
    <3>1. \A v \in VRFs : Settled(v)
          BY <2>2, CraAssumption DEF CreateDone, StepInv, Settled, AsWanted
    <3> QED BY <2>2, <3>1 DEF CreateDone, StepInv, TypeOK, AnswerMeansConfigured
  <2>3. CASE ReloadFRR
        BY <2>3 DEF ReloadFRR, Reply, StepInv, TypeOK, AnswerMeansConfigured
  <2>4. CASE ZebraLearns
    <3>1. UNCHANGED <<pc, loaded, created, answer>>
          BY <2>4 DEF ZebraLearns
    <3>2. StepInv'
          BY <3>1 DEF StepInv, TypeOK
    <3>3. AnswerMeansConfigured'
          BY <3>1 DEF AnswerMeansConfigured, HasVNI, Bridges
    <3> QED BY <3>2, <3>3
  <2>5. CASE WaitForL3VNIs
        BY <2>5 DEF WaitForL3VNIs, StepInv, TypeOK, AnswerMeansConfigured
  <2>6. CASE UpDone
        BY <2>6 DEF UpDone, StepInv, TypeOK, AnswerMeansConfigured
  <2>7. CASE Finish
    <3>1. StepInv'
          BY <2>7 DEF Finish, Reply, StepInv
    <3>2. loaded' = VNIsOf(cfg)' /\ \A v \in VRFs : Settled(v)'
          BY <2>7 DEF Finish, StepInv, VNIsOf
    <3>3. AnswerMeansConfigured'
          BY <2>7, <3>2, CraAssumption DEF AnswerMeansConfigured, Settled, AsWanted
    <3> QED BY <3>1, <3>3
  <2> QED BY <2>1, <2>2, <2>3, <2>4, <2>5, <2>6, <2>7
<1> QED BY <1>4, <1>5, <1>7

\* Bringing a bridge and its VXLAN up changes nothing else about them.
LEMMA UpL3Inv ==
    ASSUME CraInv, NEW v \in VRFs, UpL3(v)
    PROVE  CraInv'
<1> USE DEF CraInv
<1>1. cfg[v] \in VNIs \union {Local} /\ pc = "up" /\ answer = "none"
      BY DEF UpL3, StepInv, TypeOK
<1>2. /\ \/ bridge' = bridge
         \/ cfg[v] \in VNIs /\ bridge' = [bridge EXCEPT ![cfg[v]] = Raised(bridge[cfg[v]])]
      /\ \/ vxlan' = vxlan
         \/ cfg[v] \in VNIs /\ vxlan' = [vxlan EXCEPT ![cfg[v]] = Raised(vxlan[cfg[v]])]
      /\ UNCHANGED <<vrf, file, loaded, zebra, cfg>>
      BY <1>1 DEF UpL3
<1>3. bridge' \in [VNIs -> BridgeLink] /\ vxlan' \in [VNIs -> VxlanLink]
      BY <1>2, LinkTypes DEF TypeOK
<1>4. \A n \in VNIs : /\ bridge'[n].exists = bridge[n].exists
                      /\ bridge'[n].master = bridge[n].master
                      /\ vxlan'[n].exists = vxlan[n].exists
                      /\ vxlan'[n].port = vxlan[n].port
      BY <1>2, LinkTypes DEF TypeOK
<1>5. faults' \in 0..MaxFaults
      BY FaultType DEF TypeOK, UpL3
<1>6. TypeOK'
      BY <1>1, <1>2, <1>3, <1>5 DEF TypeOK, UpL3, Reply
<1>7. TablesDistinct' /\ LinksInv'
      BY <1>2, <1>4 DEF TablesDistinct, LinksInv
<1>8. \A w \in VRFs : AsWanted(w)' = AsWanted(w) /\ Settled(w)' = Settled(w)
      BY <1>2, <1>4 DEF AsWanted, Settled, HasVNI, Bridges
<1>9. CASE Reply("error")
      BY <1>2, <1>6, <1>7, <1>9, ErrorStep
<1>10. CASE UNCHANGED <<pc, answer>> /\ created' = created \ {v}
  <2>1. StepInv'
        BY <1>1, <1>2, <1>8, <1>10 DEF StepInv, TypeOK
  <2>2. AnswerMeansConfigured'
        BY <1>1, <1>10 DEF AnswerMeansConfigured
  <2> QED BY <1>6, <1>7, <2>1, <2>2
<1> QED BY <1>9, <1>10 DEF UpL3

\* Every step keeps the invariant.
LEMMA NextCraInv == CraInv /\ [Next]_vars => CraInv'
<1> SUFFICES ASSUME CraInv, [Next]_vars PROVE CraInv'
    OBVIOUS
<1>1. CASE Next
      BY <1>1, ReceiveInv, CleanupInv, CreateL3Inv, UpL3Inv, QuietInv DEF Next
<1>2. CASE UNCHANGED vars
  <2>1. UNCHANGED <<vrf, bridge, vxlan, file, loaded, zebra, pc, cfg, created,
                    answer, faults>>
        BY <1>2 DEF vars
  <2>2. TablesDistinct' /\ LinksInv'
        BY <2>1, SameDevices
  <2>3. TypeOK'
        BY <2>1 DEF CraInv, TypeOK
  <2>4. \A v \in VRFs : AsWanted(v)' = AsWanted(v) /\ Settled(v)' = Settled(v)
        BY <2>1 DEF AsWanted, Settled, HasVNI, Bridges
  <2>5. StepInv'
        BY <2>1, <2>4 DEF CraInv, StepInv, TypeOK
  <2>6. AnswerMeansConfigured'
        BY <2>1 DEF CraInv, AnswerMeansConfigured, HasVNI, Bridges
  <2> QED BY <2>2, <2>3, <2>5, <2>6 DEF CraInv
<1> QED BY <1>1, <1>2

\* Type correctness of the CRA-FRR server.
THEOREM CraTypeCorrect == Spec => []TypeOK
<1>1. CraInv => TypeOK
      BY DEF CraInv
<1> QED BY <1>1, InitCraInv, NextCraInv, PTL DEF Spec

\* findFreeTableID never gives a table to two VRFs, for any number of VRFs and
\* whatever failed requests leave behind.
THEOREM CraTables == Spec => []TablesDistinct
<1>1. CraInv => TablesDistinct
      BY DEF CraInv
<1> QED BY <1>1, InitCraInv, NextCraInv, PTL DEF Spec

\* applyConfig answers 200 only when the devices and FRR are as requested.
THEOREM CraAnswer == Spec => []AnswerMeansConfigured
<1>1. CraInv => AnswerMeansConfigured
      BY DEF CraInv
<1> QED BY <1>1, InitCraInv, NextCraInv, PTL DEF Spec

\* Only upNewVRFs brings a bridge up, and by then FRR was told about its VNI.
LEMMA UpStep ==
    ASSUME CraInv, [Next]_vars, NEW n \in VNIs, bridge'[n].up, ~bridge[n].up
    PROVE  bridge[n].master \in VRFs /\ loaded[bridge[n].master] = n
<1> USE DEF CraInv
<1>1. CASE bridge' = bridge
      BY <1>1
<1>2. ASSUME NEW v \in VRFs, CleanupL3(v) PROVE FALSE
  <2>1. PICK gone \in BOOLEAN, bs \in SUBSET Bridges(v), xs \in SUBSET Ports(v) :
            Unlink(v, gone, bs, xs)
        BY <1>2 DEF CleanupL3
  <2>2. bridge'[n] \in {NoBridge, Freed(bridge[n]), bridge[n]}
        BY <2>1 DEF Unlink
  <2> QED BY <2>2, LinkTypes DEF TypeOK
<1>3. ASSUME NEW v \in VRFs, CreateL3(v) PROVE FALSE
  <2>1. bridge' = bridge \/ bridge' = [bridge EXCEPT ![cfg[v]] = NewBridge(v)]
        BY <1>3 DEF CreateL3, Create
  <2>2. bridge'[n] \in {bridge[n], NewBridge(v)}
        BY <2>1 DEF TypeOK
  <2> QED BY <2>2, LinkTypes
<1>4. ASSUME NEW v \in VRFs, UpL3(v)
      PROVE  bridge[n].master \in VRFs /\ loaded[bridge[n].master] = n
  <2>1. bridge' = bridge \/ bridge' = [bridge EXCEPT ![cfg[v]] = Raised(bridge[cfg[v]])]
        BY <1>4 DEF UpL3
  <2>2. n = cfg[v]
        BY <2>1 DEF TypeOK
  <2>3. AsWanted(v) /\ loaded = VNIsOf(cfg)
        BY <1>4 DEF UpL3, StepInv
  <2>4. bridge[n].master = v
        BY <2>2, <2>3, CraAssumption DEF AsWanted, HasVNI, Bridges
  <2> QED BY <2>2, <2>3, <2>4 DEF VNIsOf
<1> QED BY <1>1, <1>2, <1>3, <1>4 DEF Next, Receive, DeleteDone, CreateDone,
           ReloadFRR, ZebraLearns, WaitForL3VNIs, UpDone, Finish, vars

\* The order that UpL3 demands: FRR knows the VNI before its bridge comes up.
THEOREM CraUpAfterReload == Spec => UpAfterReload
<1>1. CraInv /\ [Next]_vars
        => [\A n \in VNIs : bridge'[n].up /\ ~bridge[n].up
              => bridge[n].master \in VRFs /\ loaded[bridge[n].master] = n]_vars
      BY UpStep
<1> QED BY <1>1, InitCraInv, NextCraInv, PTL DEF Spec, UpAfterReload

\* A name that is taken, when everything stale was deleted, is in the way.
LEMMA TakenIsInTheWay ==
    ASSUME CraInv, NEW v \in VRFs, CreateL3(v), vrf[v] = 0, Possible(v) < Wanted(v)
    PROVE  cfg[v] \in VNIs /\ InTheWay(cfg[v])
<1> USE DEF CraInv
<1>1. /\ cfg[v] \in VNIs
      /\ bridge[cfg[v]].exists \/ (~bridge[cfg[v]].exists /\ vxlan[cfg[v]].exists)
      BY CraAssumption DEF CreateL3, Possible, Wanted, TypeOK
<1>2. CASE ~bridge[cfg[v]].exists /\ vxlan[cfg[v]].exists
      BY <1>1, <1>2 DEF InTheWay, LinksInv
<1>3. CASE bridge[cfg[v]].exists /\ bridge[cfg[v]].master # None
  <2>1. PICK w \in VRFs : w = bridge[cfg[v]].master
        BY <1>1, <1>3, LinkTypes DEF TypeOK
  <2>2. vrf[w] # 0
        BY <1>1, <1>3, <2>1 DEF LinksInv
  <2>3. AsWanted(w)
        BY <2>2 DEF CreateL3, StepInv
  <2>4. ~(cfg[w] \in VNIs /\ HasVNI(w, cfg[w]))
    <3> SUFFICES ASSUME cfg[w] \in VNIs, HasVNI(w, cfg[w]) PROVE FALSE
        OBVIOUS
    <3>1. cfg[w] = cfg[v]
          BY <1>1, <1>3, <2>1 DEF LinksInv, HasVNI, Bridges
    <3>2. w = v
          BY <1>1, <3>1 DEF StepInv
    <3> QED BY <2>2, <3>2
  <2> QED BY <1>1, <1>3, <2>1, <2>3, <2>4 DEF AsWanted, InTheWay
<1> QED BY <1>1, <1>2, <1>3 DEF InTheWay

\* No request fails because of what an earlier one left, except for a link that
\* is in the way.
THEOREM CraFailureHasCause == Spec => FailureHasCause
<1>1. ASSUME CraInv, Next, answer' = "error", answer # "error", faults' = faults,
             ~(1..Tables \subseteq UsedTables)
      PROVE  \E v \in VRFs : cfg[v] \in VNIs /\ InTheWay(cfg[v])
  <2>1. ~Fault
        BY <1>1 DEF Fault, CraInv, TypeOK
  <2>2. PICK v \in VRFs : CreateL3(v)
        BY <1>1, <2>1 DEF Next, Receive, CleanupL3, UpL3, DeleteDone, CreateDone,
           ReloadFRR, ZebraLearns, WaitForL3VNIs, UpDone, Finish, Reply
  <2>3. vrf[v] = 0
        BY <1>1, <2>2 DEF CreateL3, CraInv, StepInv
  <2>4. Possible(v) < Wanted(v)
        BY <1>1, <2>1, <2>2, <2>3 DEF CreateL3
  <2> QED BY <1>1, <2>2, <2>3, <2>4, TakenIsInTheWay
<1>2. CraInv /\ [Next]_vars
        => [answer' = "error" /\ answer # "error"
            => \/ faults' # faults
               \/ 1..Tables \subseteq UsedTables
               \/ \E v \in VRFs : cfg[v] \in VNIs /\ InTheWay(cfg[v])]_vars
      BY <1>1
<1> QED BY <1>2, InitCraInv, NextCraInv, PTL DEF Spec, FailureHasCause
=============================================================================
