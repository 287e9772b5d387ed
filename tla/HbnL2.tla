------------------------------- MODULE HbnL2 -------------------------------
(***************************************************************************)
(* agent-hbn-l2: it makes the VLAN and dummy interfaces of the node's      *)
(* NodeNetplanConfig.  An interface belongs to the agent if it has an      *)
(* alias, and the alias is the name of the device that it was made for.    *)
(*                                                                         *)
(* A pass goes through the interfaces that are there and then through the  *)
(* devices that have none; any call may fail, and the pass ends with it.   *)
(***************************************************************************)
EXTENDS Naturals, Sequences, FiniteSets

CONSTANTS
    None,       \* no alias, no VLAN ID, no gateway
    Names,      \* of interfaces and devices
    States,     \* the desired states that the operator may write
    MaxPasses,  \* bound: passes
    MaxFaults   \* bound: passes in which a call fails

VARIABLES
    desired,   \* spec.desiredState of the NodeNetplanConfig
    kernel,    \* the interfaces by name, and the VLANs of the bridge "hbn"
    bridged,   \* "hbn" is a bridge
    stage, todo,  \* where the pass is, and what it has left to do there
    ready,     \* the readiness condition of the node: "none", "true", "false"
    taints,    \* the node still has its taints
    hurt,      \* interfaces that a failed call has left down, or out of the bridge
    excuse,    \* why this pass may fail
    passes, faults  \* counters behind MaxPasses and MaxFaults

vars == <<desired, kernel, bridged, stage, todo, ready, taints, hurt, excuse, passes, faults>>

NoLink == [absent |-> TRUE]
NewLink(kind, id) ==
    [kind |-> kind, alias |-> None, id |-> id, up |-> FALSE, offload |-> TRUE, addrs |-> {}, routes |-> {}]

NoConfig == [absent |-> TRUE]   \* there is no NodeNetplanConfig

Foreign(to) == [to |-> to, via |-> "admin", hbn |-> FALSE]

\* An interface of an older version has the name of its VLAN, and its alias is
\* already the name of its device; routes on it may be somebody else's.
Stale(device, id) ==
    [NewLink("vlan", id) EXCEPT !.alias = device, !.up = TRUE, !.routes = {Foreign("net")}]

Init ==
    /\ desired \in States
    /\ bridged \in BOOLEAN
    /\ \E old \in {{}, {"vlan10"}} :
          kernel = [links |-> [n \in Names |-> IF n \in old THEN Stale("lan", "10") ELSE NoLink],
                    vlans |-> IF bridged /\ old # {} THEN {"10"} ELSE {}]
    /\ stage = "idle" /\ todo = {}
    /\ ready = "none" /\ taints = TRUE
    /\ hurt = {} /\ excuse = {}
    /\ passes = 0 /\ faults = 0

-----------------------------------------------------------------------------
(* Procedures: the states of the kernel that their calls lead to.          *)

With(k, n, link) == [k EXCEPT !.links[n] = link]
Links(kind) == {n \in Names : kernel.links[n] # NoLink /\ kernel.links[n].kind = kind}
Owned(kind) == {n \in Links(kind) : kernel.links[n].alias # None}
Devices(kind) == IF kind = "vlan" THEN desired.vlans ELSE desired.dummies

Procedure(states, ok) == [states |-> states, ok |-> ok]
Then(p, q) == IF p.ok THEN Procedure(p.states \o q.states, q.ok) ELSE p

toNetlinkRoute(r) ==
    [to |-> IF r.to # "default" THEN r.to ELSE IF r.via = "gw4" THEN "0/0" ELSE "::/0",
     via |-> r.via, hbn |-> TRUE]
WantedRoutes(d) == {toNetlinkRoute(r) : r \in d.routes}

\* RouteReplace takes a destination away from whatever has it.
RouteReplace(k, n, routes) ==
    [k EXCEPT !.links = [m \in Names |->
        IF k.links[m] = NoLink THEN NoLink
        ELSE [k.links[m] EXCEPT !.routes =
                {r \in @ : r.to \notin {s.to : s \in routes}} \union (IF m = n THEN routes ELSE {})]]]

isDesiredRoute(r, d) == r \in WantedRoutes(d)
removeStaleRoutes(k, n, d) == [k EXCEPT !.links[n].routes = {r \in @ : r.hbn => isDesiredRoute(r, d)}]

\* A route needs a gateway and an interface that is up.
reconcileRoutes(k, n, d) ==
    LET replaced == RouteReplace(k, n, WantedRoutes(d))
    IN  CASE \E r \in d.routes : r.via = None -> Procedure(<<>>, FALSE)
          [] d.routes # {} /\ ~k.links[n].up -> Procedure(<<>>, FALSE)
          [] OTHER -> Procedure(<<replaced, removeStaleRoutes(replaced, n, d)>>, TRUE)

reconcileAddresses(k, n, d) ==
    Procedure(<<[k EXCEPT !.links[n].addrs = @ \union d.addrs], [k EXCEPT !.links[n].addrs = d.addrs]>>, TRUE)

\* The last state of a procedure that began in k.
Last(k, p) == IF p.states = <<>> THEN k ELSE p.states[Len(p.states)]

reconcileExistingAddresses(k, n, d) ==
    LET addresses == reconcileAddresses(k, n, d)
    IN  Then(addresses, reconcileRoutes(Last(k, addresses), n, d))

\* Down, renamed and up again: going down takes the routes.
ensureInterfaceName(n, name) ==
    LET link == kernel.links[n]
        down == [link EXCEPT !.up = FALSE, !.routes = {}]
        back == IF link.up THEN [down EXCEPT !.up = TRUE] ELSE down
        moved(l) == With(With(kernel, n, NoLink), name, l)
    IN  IF n = name THEN Procedure(<<>>, TRUE)
        ELSE IF kernel.links[name] # NoLink
        THEN Procedure(<<With(kernel, n, down), With(kernel, n, back)>>, FALSE)
        ELSE Procedure(<<With(kernel, n, down), moved(down), moved(back)>>, TRUE)

\* Offloads are switched off and never on again; ID and MTU stay as they are.
reconcileExistingInterface(n, kind) ==
    LET name == kernel.links[n].alias
        d == Devices(kind)[name]
        named == ensureInterfaceName(n, name)
        addressed == Then(named, reconcileExistingAddresses(Last(kernel, named), name, d))
        k == Last(kernel, addressed)
    IN  Then(addressed, Procedure(IF kind = "vlan" /\ ~d.offload
                                  THEN <<[k EXCEPT !.links[name].offload = FALSE]>> ELSE <<>>, TRUE))

\* The interface goes first, its VLAN on the bridge after it.
Remove(n, kind) ==
    LET gone == With(kernel, n, NoLink)
        cut == [gone EXCEPT !.vlans = @ \ {kernel.links[n].id}]
    IN  Procedure(IF bridged /\ kind = "vlan" THEN <<gone, cut>> ELSE <<gone>>, TRUE)

reconcileExisting(n, kind) ==
    IF kernel.links[n].alias \in DOMAIN Devices(kind) THEN reconcileExistingInterface(n, kind)
    ELSE Remove(n, kind)

\* LinkAdd refuses a name that is taken, and a second interface for a VLAN.
Taken(name, id) ==
    \/ kernel.links[name] # NoLink
    \/ id # None /\ \E n \in Links("vlan") : kernel.links[n].id = id

NewUp(name, kind, id) ==
    LET made == NewLink(kind, id)
        owned == [made EXCEPT !.alias = name]
    IN  <<With(kernel, name, made), With(kernel, name, owned), With(kernel, name, [owned EXCEPT !.up = TRUE])>>

createVLAN(name) ==
    LET d == desired.vlans[name]
        up == NewUp(name, "vlan", d.id)
        cut == [up[3] EXCEPT !.links[name].offload = d.offload]
        linked == Then(Procedure(up \o <<cut>>, TRUE), reconcileExistingAddresses(cut, name, d))
        k == Last(kernel, linked)
    IN  IF Taken(name, d.id) THEN Procedure(<<>>, FALSE)
        ELSE Then(linked, Procedure(IF bridged THEN <<[k EXCEPT !.vlans = @ \union {d.id}]>> ELSE <<>>, TRUE))

\* A new dummy gets its addresses; routes come with the next pass.
createDummy(name) ==
    LET up == NewUp(name, "dummy", None)
    IN  IF Taken(name, None) THEN Procedure(<<>>, FALSE)
        ELSE Then(Procedure(up, TRUE), reconcileAddresses(up[3], name, desired.dummies[name]))

-----------------------------------------------------------------------------
(* Reconcile.                                                              *)

Stages == <<"vlan existing", "vlan new", "dummy existing", "dummy new", "checks">>
Kind == IF stage \in {"vlan existing", "vlan new"} THEN "vlan" ELSE "dummy"
Made(kind) == {kernel.links[n].alias : n \in Owned(kind)}

Work(st) ==
    CASE st = "vlan existing" -> Owned("vlan")
      [] st = "vlan new" -> DOMAIN desired.vlans \ Made("vlan")
      [] st = "dummy existing" -> Owned("dummy")
      [] st = "dummy new" -> DOMAIN desired.dummies \ Made("dummy")
      [] st = "checks" -> {"checks"}

\* Interfaces of the agent that are down, or whose VLAN the bridge does not have.
Loose(k) ==
    {k.links[n].alias : n \in {m \in Names : /\ k.links[m] # NoLink /\ k.links[m].alias # None
                                             /\ \/ ~k.links[m].up
                                                \/ bridged /\ k.links[m].kind = "vlan"
                                                   /\ k.links[m].id \notin k.vlans}}

Excuses(s) ==
    {e \in {"route", "name", "vlan", "down"} :
        CASE e = "route" -> \E n \in DOMAIN s.vlans : \E r \in s.vlans[n].routes : r.via = None
          [] e = "name" -> \E n \in Names : kernel.links[n] # NoLink /\ kernel.links[n].alias # n
                                            /\ n \in DOMAIN s.vlans \union DOMAIN s.dummies
          [] e = "vlan" -> \E n \in DOMAIN s.vlans : \E m \in Links("vlan") :
                               kernel.links[m].id = s.vlans[n].id /\ kernel.links[m].alias # n
                               /\ (kernel.links[m].alias \in DOMAIN s.vlans \union {None})
          [] e = "down" -> \E n \in DOMAIN s.vlans : s.vlans[n].routes # {} /\ n \in hurt}

Change(s) ==
    /\ stage = "idle" /\ desired' = s /\ s # desired
    /\ UNCHANGED <<kernel, bridged, stage, todo, ready, taints, hurt, excuse, passes, faults>>

\* Without an object the pass returns at once.
Start ==
    /\ stage = "idle" /\ passes < MaxPasses /\ desired # NoConfig
    /\ passes' = passes + 1
    /\ stage' = "vlan existing" /\ todo' = Work("vlan existing")
    /\ excuse' = Excuses(desired)
    /\ UNCHANGED <<desired, kernel, bridged, ready, taints, hurt, faults>>

\* The pass ends with an error, and the condition says so if it can be written.
Fail ==
    /\ stage' = "idle" /\ todo' = {}
    /\ hurt' = Loose(kernel')
    /\ UNCHANGED taints

Fault == faults < MaxFaults /\ faults' = faults + 1 /\ excuse' = excuse \union {"fault"}

Perform(p, item) ==
    \/ /\ p.ok
       /\ kernel' = Last(kernel, p) /\ todo' = todo \ {item} /\ hurt' = hurt \intersect Loose(kernel')
       /\ UNCHANGED <<stage, ready, taints, excuse, faults>>
    \/ /\ ~p.ok
       /\ kernel' = Last(kernel, p) /\ Fail /\ ready' = "false"
       /\ UNCHANGED <<excuse, faults>>
    \/ /\ Fault
       /\ \E n \in 0..Len(p.states) : kernel' = IF n = 0 THEN kernel ELSE p.states[n]
       /\ Fail /\ ready' \in {ready, "false"}

Item(item) ==
    /\ stage \notin {"idle", "checks"} /\ item \in todo
    /\ Perform(CASE stage \in {"vlan existing", "dummy existing"} -> reconcileExisting(item, Kind)
                 [] stage = "vlan new" -> createVLAN(item)
                 [] stage = "dummy new" -> createDummy(item), item)
    /\ UNCHANGED <<desired, bridged, passes>>

\* "hbn" is not there, or the interfaces cannot be listed.
NoListing ==
    /\ stage \in {"vlan existing", "dummy existing"} /\ Fault
    /\ kernel' = kernel /\ Fail /\ ready' \in {ready, "false"}
    /\ UNCHANGED <<desired, bridged, passes>>

NextStage ==
    LET i == CHOOSE j \in DOMAIN Stages : Stages[j] = stage
    IN  /\ stage \notin {"idle", "checks"} /\ todo = {}
        /\ stage' = Stages[i + 1] /\ todo' = Work(Stages[i + 1])
        /\ UNCHANGED <<desired, kernel, bridged, ready, taints, hurt, excuse, passes, faults>>

\* CheckInterfaces, CheckReachability, CheckAPIServer; then the condition and the
\* taints.  An error of the condition is only logged.
Checks ==
    /\ stage = "checks"
    /\ stage' = "idle" /\ todo' = {}
    /\ \/ ready' = "true" /\ taints' = FALSE /\ UNCHANGED <<excuse, faults>>
       \/ /\ Fault
          /\ \/ ready' \in {ready, "false"} /\ UNCHANGED taints   \* a check, and perhaps the condition
             \/ ready' = ready /\ taints' = FALSE                 \* the condition
             \/ ready' = "true" /\ UNCHANGED taints               \* the taints
    /\ UNCHANGED <<desired, kernel, bridged, hurt, passes>>

Next ==
    \/ \E s \in States \union {NoConfig} : Change(s)
    \/ Start \/ NoListing
    \/ \E item \in todo : Item(item)
    \/ NextStage
    \/ Checks

Spec == Init /\ [][Next]_vars

-----------------------------------------------------------------------------

\* Who has a destination when several devices want it depends on their order.
Contested(name, r) ==
    \E n \in DOMAIN desired.vlans \ {name} : r.to \in {s.to : s \in WantedRoutes(desired.vlans[n])}

InterfaceAsWanted(name, kind) ==
    LET d == Devices(kind)[name]
        link == kernel.links[name]
    IN  /\ link # NoLink /\ link.alias = name /\ link.kind = kind
        /\ link.addrs = d.addrs
        /\ \A r \in link.routes : r.hbn => r \in WantedRoutes(d)
        /\ kind = "vlan" => /\ \A r \in WantedRoutes(d) : r \in link.routes \/ Contested(name, r)
                            /\ ~d.offload => ~link.offload
        /\ name \in hurt \/ (link.up /\ (bridged /\ kind = "vlan" => link.id \in kernel.vlans))

\* When a pass has made all interfaces and goes on to the checks, whatever
\* failed before: every device has its interface, under its own name, with its
\* addresses and with no route of the agent but its own, and it is up unless a
\* failed pass has left it down; no other interface of the agent is left.
HostAsConfigured ==
    stage = "checks" =>
        /\ \A kind \in {"vlan", "dummy"} :
              /\ Owned(kind) = DOMAIN Devices(kind)
              /\ \A name \in DOMAIN Devices(kind) : InterfaceAsWanted(name, kind)

\* A pass fails only because a call fails, because a route has no gateway,
\* because a name or a VLAN is taken, or because routes are wanted on an
\* interface that an earlier failure has left down.
HostFailsForCause == stage = "idle" /\ ready = "false" => excuse # {}
=============================================================================
