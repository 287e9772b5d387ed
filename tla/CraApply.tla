------------------------------ MODULE CraApply ------------------------------
(***************************************************************************)
(* The routing side of a node: applyConfig of cmd/frr-cra/main.go, with    *)
(* the VRFs, L3VNI bridges and VXLANs of pkg/nl.  A request is written to  *)
(* the FRR file, stale VRFs are deleted, new ones are created DOWN, FRR    *)
(* reloads, and then the new bridges are brought UP.  A call to the kernel *)
(* or to FRR may fail between any two of these; the request then ends with *)
(* an error and leaves everything as it is.                                *)
(*                                                                         *)
(* applyMu serializes requests, so one program counter is enough; zebra    *)
(* runs beside it.  Layer 2, policy rules and mirrors come last, and are   *)
(* here only a step that works or fails.                                   *)
(***************************************************************************)
EXTENDS Naturals, FiniteSets

CONSTANTS
    VRFs,        \* names of VRFs
    VNIs,        \* their L3 VNIs; bridge and VXLAN are named after the VNI
    Local,       \* in place of a VNI: LocalOnly
    None,        \* in place of a VNI: the VRF is not wanted; also: no master
    Requests,    \* the configurations that the agent may send
    Tables,      \* number of routing tables, vrfTableEnd - vrfTableStart
    MaxFaults    \* bound: failed calls and timeouts

ASSUME CraAssumption ==
    /\ Tables \in Nat /\ MaxFaults \in Nat
    /\ Local \notin VNIs /\ None \notin VNIs \union VRFs /\ Local # None
    /\ Requests \subseteq [VRFs -> VNIs \union {Local, None}]
    /\ \A c \in Requests : \A v, w \in VRFs : c[v] = c[w] /\ c[v] \in VNIs => v = w

VARIABLES
    vrf,        \* vrf[v]: the routing table of VRF device v, 0 without a device
    bridge,     \* bridge[n]: the device br.<n>
    vxlan,      \* vxlan[n]: the device vx.<n>
    file,       \* the VNIs in the FRR configuration file
    loaded,     \* the VNIs that FRR was last told to load
    zebra,      \* the VNIs that zebra has taken over ("show vrf vni")
    pc,         \* where applyConfig is
    cfg,        \* the request that it works on
    created,    \* the VRFs that createVRFs created for it
    answer,     \* the status of the last response
    faults      \* counter behind MaxFaults

devices == <<vrf, bridge, vxlan>>
frr == <<file, loaded, zebra>>
vars == <<devices, frr, pc, cfg, created, answer, faults>>

BridgeLink == [exists : BOOLEAN, master : VRFs \union {None}, up : BOOLEAN]
VxlanLink == [exists : BOOLEAN, port : BOOLEAN, up : BOOLEAN]
NoBridge == [exists |-> FALSE, master |-> None, up |-> FALSE]
NoVxlan == [exists |-> FALSE, port |-> FALSE, up |-> FALSE]
NewBridge(v) == [exists |-> TRUE, master |-> v, up |-> FALSE]
NewVxlan == [exists |-> TRUE, port |-> TRUE, up |-> FALSE]
Freed(b) == [b EXCEPT !.master = None]
Unplugged(x) == [x EXCEPT !.port = FALSE]
Raised(link) == [link EXCEPT !.up = TRUE]
Mapping == [VRFs -> VNIs \union {None}]
NoMapping == [v \in VRFs |-> None]

TypeOK ==
    /\ vrf \in [VRFs -> 0..Tables]
    /\ bridge \in [VNIs -> BridgeLink]
    /\ vxlan \in [VNIs -> VxlanLink]
    /\ file \in Mapping /\ loaded \in Mapping /\ zebra \in Mapping
    /\ pc \in {"idle", "delete", "create", "reload", "wait", "up", "finish"}
    /\ cfg \in [VRFs -> VNIs \union {Local, None}]
    /\ created \subseteq VRFs
    /\ answer \in {"none", "ok", "error"}
    /\ faults \in 0..MaxFaults

Init ==
    /\ vrf = [v \in VRFs |-> 0]
    /\ bridge = [n \in VNIs |-> NoBridge]
    /\ vxlan = [n \in VNIs |-> NoVxlan]
    /\ file = NoMapping /\ loaded = NoMapping /\ zebra = NoMapping
    /\ pc = "idle"
    /\ cfg = [v \in VRFs |-> None]
    /\ created = {}
    /\ answer = "none"
    /\ faults = 0

Fault == faults < MaxFaults /\ faults' = faults + 1

Reply(a) == pc' = "idle" /\ answer' = a

-----------------------------------------------------------------------------
\* What ListL3 recovers: the VNI of the VXLAN on the bridge of the VRF.
\* Without both of them the VRF is marked for deletion.
Bridges(v) == {n \in VNIs : bridge[n].exists /\ bridge[n].master = v}
HasVNI(v, n) == n \in Bridges(v) /\ vxlan[n].exists /\ vxlan[n].port

\* VRF v is there as the request wants it: getVRFsToDelete keeps it and
\* createVRFs takes it for existing.
AsWanted(v) ==
    /\ vrf[v] # 0
    /\ cfg[v] = Local \/ (cfg[v] \in VNIs /\ HasVNI(v, cfg[v]))

\* The FRR configuration of a request: only VRFs with a VNI have one.
VNIsOf(c) == [v \in VRFs |-> IF c[v] \in VNIs THEN c[v] ELSE None]

\* applyConfig takes the lock, parses the body and writes the file; a failed
\* write leaves the old file, the new one, or one cut short.  deleteLayer2, which
\* comes next, may fail as well.
Receive(c) ==
    /\ pc = "idle"
    /\ cfg' = c /\ created' = {}
    /\ \/ file' = VNIsOf(c) /\ pc' = "delete" /\ answer' = "none" /\ UNCHANGED faults
       \/ Fault /\ file' \in {file, VNIsOf(c), NoMapping} /\ Reply("error")
    /\ UNCHANGED <<devices, loaded, zebra>>

\* The links in gone are deleted; the kernel releases the ports of a device
\* that goes away.
Unlink(v, vrfGone, bridgesGone, vxlansGone) ==
    /\ vrf' = IF vrfGone THEN [vrf EXCEPT ![v] = 0] ELSE vrf
    /\ bridge' = [n \in VNIs |->
          CASE n \in bridgesGone -> NoBridge
            [] n \notin bridgesGone /\ vrfGone /\ bridge[n].master = v -> Freed(bridge[n])
            [] OTHER -> bridge[n]]
    /\ vxlan' = [n \in VNIs |->
          CASE n \in vxlansGone -> NoVxlan
            [] n \notin vxlansGone /\ n \in bridgesGone -> Unplugged(vxlan[n])
            [] OTHER -> vxlan[n]]

Ports(v) == {n \in Bridges(v) : vxlan[n].exists /\ vxlan[n].port}

\* CleanupL3 for one VRF.  It goes on after an error and reports it at the end.
CleanupL3(v) ==
    /\ pc = "delete"
    /\ vrf[v] # 0 /\ ~AsWanted(v)
    /\ \/ /\ Unlink(v, TRUE, Bridges(v), Ports(v))
          /\ UNCHANGED <<pc, answer, faults>>
       \/ /\ Fault
          /\ \E gone \in BOOLEAN, bs \in SUBSET Bridges(v), xs \in SUBSET Ports(v) :
                /\ <<gone, bs, xs>> # <<TRUE, Bridges(v), Ports(v)>>
                /\ Unlink(v, gone, bs, xs)
          /\ Reply("error")
    /\ UNCHANGED <<frr, cfg, created>>

\* Mutant: only VRFs with a name that is not wanted are deleted.
DeleteDoneByName ==
    /\ pc = "delete"
    /\ \A v \in VRFs : vrf[v] # 0 => cfg[v] # None
    /\ pc' = "create"
    /\ UNCHANGED <<devices, frr, cfg, created, answer, faults>>

\* getVRFsToDelete has nothing left to delete.
DeleteDone ==
    /\ pc = "delete"
    /\ \A v \in VRFs : vrf[v] # 0 => AsWanted(v)
    /\ pc' = "create"
    /\ UNCHANGED <<devices, frr, cfg, created, answer, faults>>

UsedTables == {vrf[v] : v \in VRFs} \ {0}

\* Mutant: as many tables as VRFs are taken to be the first ones.
CountedTable(t) == t = Cardinality(UsedTables) + 1

\* findFreeTableID: the first table that no VRF device uses.
FreeTable(t) == t \notin UsedTables /\ \A u \in 1..(t - 1) : u \in UsedTables

\* The first k devices of VRF v, of VRF, bridge and VXLAN: all DOWN but the VRF.
Create(v, k) ==
    LET n == cfg[v]
    IN  /\ \E t \in 1..Tables : FreeTable(t) /\ vrf' = [vrf EXCEPT ![v] = t]
        /\ bridge' = IF k < 2 THEN bridge ELSE [bridge EXCEPT ![n] = NewBridge(v)]
        /\ vxlan' = IF k < 3 THEN vxlan ELSE [vxlan EXCEPT ![n] = NewVxlan]

\* How many of them can be created before a name is taken, and how many there
\* should be.
Possible(v) == CASE cfg[v] = Local \/ bridge[cfg[v]].exists -> 1
                 [] cfg[v] # Local /\ ~bridge[cfg[v]].exists ->
                        IF vxlan[cfg[v]].exists THEN 2 ELSE 3
Wanted(v) == IF cfg[v] = Local THEN 1 ELSE 3

\* CreateL3 for one VRF: no table is free, or everything is created, or a name
\* is taken, or a call fails before or after some of the devices were created.
CreateL3(v) ==
    /\ pc = "create"
    /\ cfg[v] # None /\ ~AsWanted(v)
    /\ \/ /\ 1..Tables \subseteq UsedTables \/ vrf[v] # 0
          /\ Reply("error")
          /\ UNCHANGED <<devices, created, faults>>
       \/ /\ vrf[v] = 0
          /\ Possible(v) = Wanted(v) /\ Create(v, Wanted(v))
          /\ created' = created \union {v}
          /\ UNCHANGED <<pc, answer, faults>>
       \/ /\ vrf[v] = 0
          /\ Possible(v) < Wanted(v) /\ Create(v, Possible(v))
          /\ Reply("error")
          /\ UNCHANGED <<created, faults>>
       \/ /\ vrf[v] = 0
          /\ Fault
          /\ UNCHANGED devices \/ \E k \in 1..Possible(v) : Create(v, k)
          /\ Reply("error")
          /\ UNCHANGED created
    /\ UNCHANGED <<frr, cfg>>

\* Mutant: a VRF that could not be created is passed over.
CreateDoneAnyway ==
    /\ pc = "create"
    /\ pc' = "reload"
    /\ UNCHANGED <<devices, frr, cfg, created, answer, faults>>

CreateDone ==
    /\ pc = "create"
    /\ \A v \in VRFs : cfg[v] # None => AsWanted(v)
    /\ pc' = "reload"
    /\ UNCHANGED <<devices, frr, cfg, created, answer, faults>>

\* Mutant: the bridges come up before FRR reloads.
ReloadFRRLater ==
    /\ pc = "reload"
    /\ pc' = "up"
    /\ UNCHANGED <<devices, frr, cfg, created, answer, faults>>

\* reloadFRR: reload, or else restart, which makes zebra forget everything.
ReloadFRR ==
    /\ pc = "reload"
    /\ \/ /\ loaded' = file /\ zebra' \in {zebra, NoMapping}
          /\ pc' = "wait" /\ UNCHANGED <<answer, faults>>
       \/ /\ Fault
          /\ loaded' \in {loaded, file} /\ zebra' \in {zebra, NoMapping}
          /\ Reply("error")
    /\ UNCHANGED <<devices, file, cfg, created>>

\* zebra takes over what FRR was told to load.
ZebraLearns ==
    /\ zebra # loaded
    /\ zebra' = loaded
    /\ UNCHANGED <<devices, file, loaded, pc, cfg, created, answer, faults>>

\* waitForL3VNIs: as many entries with a new VNI as there are new VNIs, or the
\* timeout.
Needed == {cfg[v] : v \in created} \intersect VNIs
WaitForL3VNIs ==
    /\ pc = "wait"
    /\ \/ /\ Cardinality({v \in VRFs : zebra[v] \in Needed}) >= Cardinality(Needed)
          /\ UNCHANGED faults
       \/ Fault
    /\ pc' = "up"
    /\ UNCHANGED <<devices, frr, cfg, created, answer>>

\* UpL3 for one of the VRFs that this request created: bridge, then VXLAN.
UpL3(v) ==
    /\ pc = "up" /\ v \in created
    /\ LET n == cfg[v]
           BridgeUp == bridge' = [bridge EXCEPT ![n] = Raised(bridge[n])]
           VxlanUp == vxlan' = [vxlan EXCEPT ![n] = Raised(vxlan[n])]
       IN  \/ /\ n = Local
              /\ created' = created \ {v}
              /\ UNCHANGED <<bridge, vxlan, pc, answer, faults>>
           \/ /\ n # Local
              /\ BridgeUp /\ VxlanUp
              /\ created' = created \ {v}
              /\ UNCHANGED <<pc, answer, faults>>
           \/ /\ n # Local
              /\ Fault
              /\ BridgeUp \/ UNCHANGED bridge
              /\ Reply("error")
              /\ UNCHANGED <<vxlan, created>>
    /\ UNCHANGED <<vrf, frr, cfg>>

UpDone ==
    /\ pc = "up" /\ created = {}
    /\ pc' = "finish"
    /\ UNCHANGED <<devices, frr, cfg, created, answer, faults>>

\* createLayer2 and reconcilePolicyRoutes, which may fail, and the response.
Finish ==
    /\ pc = "finish"
    /\ \/ Reply("ok") /\ UNCHANGED faults
       \/ Fault /\ Reply("error")
    /\ UNCHANGED <<devices, frr, cfg, created>>

Next ==
    \/ \E c \in Requests : Receive(c)
    \/ \E v \in VRFs : CleanupL3(v) \/ CreateL3(v) \/ UpL3(v)
    \/ DeleteDone \/ CreateDone \/ ReloadFRR \/ ZebraLearns
    \/ WaitForL3VNIs \/ UpDone \/ Finish

Spec == Init /\ [][Next]_vars

-----------------------------------------------------------------------------
\* findFreeTableID hands out a table once: no two VRF devices share one, also
\* when devices of failed requests are still there.
TablesDistinct ==
    \A v, w \in VRFs : vrf[v] = vrf[w] /\ vrf[v] # 0 => v = w

\* A response of 200 means that the VRFs of the request are there, with bridge
\* and VXLAN for their VNI, that no other VRF is left, and that FRR was given
\* the same VNIs, whatever failed in requests before it.
AnswerMeansConfigured ==
    answer = "ok" =>
        /\ \A v \in VRFs :
              /\ vrf[v] = 0 <=> cfg[v] = None
              /\ cfg[v] \in VNIs => HasVNI(v, cfg[v])
        /\ loaded = VNIsOf(cfg)

\* "Must be called AFTER FRR reload": a bridge comes up only when FRR was told
\* that its VNI belongs to its VRF.
UpAfterReload ==
    [][\A n \in VNIs : bridge'[n].up /\ ~bridge[n].up
          => bridge[n].master \in VRFs /\ loaded[bridge[n].master] = n]_vars

\* A link that no VRF of its own holds: left by a cleanup that failed, or the
\* bridge of a VRF that has become local.
InTheWay(n) ==
    \/ bridge[n].exists /\ (bridge[n].master = None \/ cfg[bridge[n].master] = Local)
    \/ vxlan[n].exists /\ ~vxlan[n].port

\* What a failed request leaves behind does not make the next one fail: an
\* error needs a call that fails, a full range of tables, or a link in the way.
FailureHasCause ==
    [][answer' = "error" /\ answer # "error"
       => \/ faults' # faults
          \/ 1..Tables \subseteq UsedTables
          \/ \E v \in VRFs : cfg[v] \in VNIs /\ InTheWay(cfg[v])]_vars

\* "Callers must invoke upNewVRFs after FRR reload" (createVRFs): once a
\* request is answered with 200, the bridges and VXLANs that it wants are up.
AnswerMeansUp ==
    answer = "ok" => \A v \in VRFs :
        cfg[v] \in VNIs => bridge[cfg[v]].up /\ vxlan[cfg[v]].up
=============================================================================
