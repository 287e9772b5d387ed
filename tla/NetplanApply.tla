---------------------------- MODULE NetplanApply ----------------------------
(***************************************************************************)
(* agent-netplan: it hands the desired state of the NodeNetplanConfig to   *)
(* netplan over D-Bus.  A pass opens a configuration object, sets every    *)
(* device in it, and applies it unless netplan already had that state.     *)
(***************************************************************************)
EXTENDS Naturals, Sequences, SequencesExt, FiniteSets

CONSTANTS
    States,     \* the desired states that the operator may write: sets of devices
                \* [kind, name, value, needs]
    MaxPasses,  \* bound: passes
    MaxFaults   \* bound: calls that fail

VARIABLES
    desired,   \* spec.desiredState
    etc,       \* the devices in /etc/netplan
    host,      \* the devices that the host has been told to have
    step,      \* where the pass is
    cfg,       \* the state that the pass has fetched
    object,    \* the devices in the configuration object
    initial,   \* config.initialState
    total,     \* successfullTotalOperations
    ready,     \* the readiness condition: "none", "true", "false"
    taints,    \* the node still has its taints
    outcome,   \* of the last pass: "none", "ok", "error"
    half,      \* netplan has written /etc/netplan and not told the host
    excuse,    \* why this pass may fail
    passes, faults  \* counters behind MaxPasses and MaxFaults

pass == <<step, cfg, object, initial, total>>
vars == <<desired, etc, host, pass, ready, taints, outcome, half, excuse, passes, faults>>

Init ==
    /\ desired \in States
    /\ etc = {} /\ host = {}
    /\ step = "idle" /\ cfg = {} /\ object = {} /\ initial = {} /\ total = 0
    /\ ready = "none" /\ taints = TRUE /\ outcome = "none" /\ half = FALSE /\ excuse = {}
    /\ passes = 0 /\ faults = 0

-----------------------------------------------------------------------------
(* States of netplan.                                                      *)

Kinds == <<"ethernet", "bridge", "bond", "vlan", "vrf", "dummy">>
Rank(d) == CHOOSE i \in DOMAIN Kinds : Kinds[i] = d.kind

\* DeviceIterator: kind after kind, and a map's order within a kind.
DeviceIterators(state) ==
    {s \in SetToSeqs(state) : \A i, j \in DOMAIN s : i < j => Rank(s[i]) <= Rank(s[j])}

\* GetInterfaceTypeStatePath appends an "s": "dummys" is no key of netplan.
KnownPath(d) == d.kind # "dummy"

\* Set, of one property: netplan refuses what refers to a device that it does not know.
Accepts(state, d) == KnownPath(d) /\ d.needs \subseteq {e.name : e \in state}
setProperty(state, d) == {e \in state : e.name # d.name} \union {d}

\* State.Equals looks at these kinds only.
Equals(s, t) ==
    LET compared(state) == {d \in state : d.kind \in {"ethernet", "vlan", "bond", "bridge"}}
    IN  compared(s) = compared(t)

\* One round of Set over the devices; the calls for lost fail.
Round(order, lost) ==
    FoldLeft(LAMBDA acc, d : IF d \notin lost /\ Accepts(acc.state, d)
                             THEN [state |-> setProperty(acc.state, d), done |-> acc.done + 1] ELSE acc,
             [state |-> object, done |-> 0], order)

-----------------------------------------------------------------------------
(* Reconcile.                                                              *)

Fault == faults < MaxFaults /\ faults' = faults + 1 /\ excuse' = excuse \union {"fault"}
NoFault == UNCHANGED <<faults, excuse>>
Return(result, condition) == step' = "idle" /\ outcome' = result /\ ready' = condition

Change(s) ==
    /\ s # desired /\ desired' = s
    /\ UNCHANGED <<etc, host, pass, ready, taints, outcome, half, excuse, passes, faults>>

\* A device that netplan never accepts, or that needs one of these.
Refused(state) ==
    LET known(s) == {e.name : e \in s}
        grow[n \in 0..Cardinality(state)] ==
            IF n = 0 THEN etc
            ELSE grow[n - 1] \union {d \in state : KnownPath(d) /\ d.needs \subseteq known(grow[n - 1])}
    IN  state \ grow[Cardinality(state)]

\* Initialize: a new configuration object, and what is in it.
Initialize ==
    /\ step = "idle" /\ passes < MaxPasses /\ passes' = passes + 1
    /\ \/ /\ cfg' = desired /\ object' = etc /\ initial' = etc /\ total' = 0
          /\ step' = "set" /\ outcome' = "none"
          /\ excuse' = IF Refused(desired) # {} THEN {"refused"} ELSE {}
          /\ UNCHANGED <<ready, faults>>
       \/ /\ faults < MaxFaults /\ faults' = faults + 1 /\ excuse' = {"fault"}
          /\ Return("error", ready)
          /\ UNCHANGED <<cfg, object, initial, total>>
    /\ UNCHANGED <<desired, etc, host, taints, half>>

\* Set: round after round, as long as one sets more devices than the one before.
\* An error leaves the object behind and the condition as it is.
Set ==
    /\ step = "set"
    /\ \E order \in DeviceIterators(cfg), lost \in {{}} \union {{d} : d \in cfg} :
          LET round == Round(order, lost)
          IN  /\ object' = round.state /\ total' = round.done
              /\ IF lost = {} THEN NoFault ELSE Fault
              /\ IF round.done = Cardinality(cfg) THEN step' = "sync" /\ UNCHANGED <<ready, outcome>>
                 ELSE IF round.done <= total THEN Return("error", ready)
                 ELSE UNCHANGED <<step, ready, outcome>>
    /\ UNCHANGED <<desired, etc, host, cfg, initial, taints, half, passes>>

\* IsSynced: what a Get that fails returns is dereferenced.
IsSynced ==
    /\ step = "sync"
    /\ \/ /\ step' = (IF Equals(initial, object) THEN "discard" ELSE "apply")
          /\ NoFault /\ UNCHANGED <<ready, outcome>>
       \/ Fault /\ Return("error", ready)
    /\ UNCHANGED <<desired, etc, host, cfg, object, initial, total, taints, half, passes>>

\* Discard: an error is logged.
Discard ==
    /\ step = "discard" /\ step' = "checks"
    /\ NoFault \/ Fault
    /\ UNCHANGED <<desired, etc, host, cfg, object, initial, total, ready, taints, outcome, half, passes>>

\* Apply: the files, then the host.  Set removes no device, so there is no link
\* for netManager.Delete.
Apply ==
    /\ step = "apply"
    /\ \/ /\ etc' = object /\ host' = object /\ half' = FALSE /\ NoFault
          /\ step' = "checks" /\ UNCHANGED <<ready, outcome>>
       \/ /\ Fault
          /\ \/ UNCHANGED <<etc, half>>
             \/ etc' = object /\ half' = TRUE
          /\ \E condition \in {"false", ready} : Return("error", condition)
          /\ UNCHANGED host
    /\ UNCHANGED <<desired, cfg, object, initial, total, taints, passes>>

\* The health checks, the condition, whose error is only logged, and the taints.
Checks ==
    /\ step = "checks"
    /\ \/ Return("ok", "true") /\ taints' = FALSE /\ NoFault
       \/ /\ Fault
          /\ \/ Return("ok", ready) /\ taints' = FALSE
             \/ \E condition \in {"false", ready, "true"} : Return("error", condition) /\ UNCHANGED taints
    /\ UNCHANGED <<desired, etc, host, cfg, object, initial, total, half, passes>>

Next ==
    \/ \E s \in States : Change(s)
    \/ Initialize \/ Set \/ IsSynced \/ Discard \/ Apply \/ Checks

Spec == Init /\ [][Next]_vars

-----------------------------------------------------------------------------

\* When a pass comes to the checks, every Ethernet, VLAN, bond and bridge of the
\* state that it has fetched is on the host, unless a failed Apply has written the
\* files: then they look as if they were in use.
NetplanAsConfigured ==
    step = "checks" /\ ~half =>
        \A d \in cfg : d.kind \in {"ethernet", "vlan", "bond", "bridge"} => d \in host

\* Whatever the order of the devices, a pass ends early only because a call fails
\* or because of a device that netplan accepts in no order.
NetplanFailsForCause == outcome = "error" => excuse # {}
=============================================================================
