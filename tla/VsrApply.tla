------------------------------ MODULE VsrApply ------------------------------
(***************************************************************************)
(* The VSR agent and its router: Manager.ApplyConfiguration of pkg/cra-vsr *)
(* replaces the candidate configuration by the startup configuration,      *)
(* merges its own document into it and commits.  Each of the three is a    *)
(* Send over one NETCONF session, which is opened again once when it turns *)
(* out to be closed.  The metrics handler of the same process uses the     *)
(* same session, without a lock.                                           *)
(*                                                                         *)
(* The candidate belongs to the router, not to the session.  A router that *)
(* loses a session drops the requests that it has not executed.            *)
(***************************************************************************)
EXTENDS VsrConfig

CONSTANTS
    Configs,     \* the node configurations that may be applied
    Scrapers,    \* {"scrape"}, or {} without metrics
    MaxApplies,  \* bound: calls of ApplyConfiguration
    MaxFaults    \* bound: lost connections, timeouts, failed dials

VARIABLES
    session,     \* nc.session: "nil", "live" or "dead"
    proc,        \* proc[p]: where the goroutine p is in Send, its attempt and session
    stage,       \* the request that ApplyConfiguration is at
    want,        \* the configuration that it applies
    made,        \* the tables of the document that it made of it
    running,     \* m.running: the table of every VRF, 0 without one
    candidate,   \* the router's candidate and
    device,      \* running configuration: [cfg, tables]
    answer,      \* of the last ApplyConfiguration
    lost,        \* a commit was executed that ApplyConfiguration knows nothing of
    excuse,      \* why this ApplyConfiguration may fail
    applies, faults  \* counters behind MaxApplies and MaxFaults

wires == <<session, proc>>
work == <<stage, want, made, running>>
router == <<candidate, device>>
history == <<answer, lost, excuse, applies, faults>>
vars == <<wires, work, router, history>>

Procs == {"apply"} \union Scrapers
Idle == [at |-> "idle", try |-> 0, handle |-> "none", current |-> FALSE]
EmptyConfig == [vrfs |-> <<>>, cluster |-> {}, layer2s |-> <<>>]
StartupTables == [v \in VRFNames |-> CASE v = Cluster -> 1 [] v = Mgmt -> 2 [] OTHER -> 0]
Startup == [cfg |-> EmptyConfig, tables |-> StartupTables]

\* NewManager has opened a session and read the running configuration.
Init ==
    /\ session = "live"
    /\ proc = [p \in Procs |-> Idle]
    /\ stage = "none" /\ want = EmptyConfig /\ made = StartupTables
    /\ running = StartupTables
    /\ candidate = Startup /\ device = Startup
    /\ answer = "none" /\ lost = FALSE /\ excuse = {}
    /\ applies = 0 /\ faults = 0

Fault == faults < MaxFaults /\ faults' = faults + 1
At(p, where) == proc' = [proc EXCEPT ![p].at = where]
Scraping(procs) == \E p \in Scrapers : procs[p].at # "idle"
Excused(why) == excuse' = excuse \union why

\* nc.session is closed: whoever waits on it is told so.
Closed(procs) ==
    [p \in Procs |-> IF procs[p].current
                     THEN [procs[p] EXCEPT !.handle = "dead", !.current = FALSE] ELSE procs[p]]

-----------------------------------------------------------------------------
(* ApplyConfiguration: where it begins and ends, and what the router does. *)

Start(c) ==
    /\ proc["apply"].at = "idle" /\ applies < MaxApplies
    /\ applies' = applies + 1
    /\ want' = c /\ stage' = "replace" /\ answer' = "none"
    /\ excuse' = {w \in {"broken", "scrape"} : IF w = "broken" THEN session = "dead" ELSE Scraping(proc)}
    /\ At("apply", "send")
    /\ UNCHANGED <<session, made, running, router, lost, faults>>

\* The call of Send by p has failed, and with it what p was doing.
Failed(p) ==
    IF p = "apply" THEN stage' = "none" /\ answer' = "error"
    ELSE UNCHANGED <<stage, answer>>

\* Merging keeps in the candidate what the document does not speak of.
Merged(base) ==
    [cfg |-> [want EXCEPT !.vrfs = want.vrfs @@ base.cfg.vrfs,
                          !.layer2s = want.layer2s \o
                              SelectSeq(base.cfg.layer2s, LAMBDA l : l \notin Range(want.layer2s))],
     tables |-> [v \in VRFNames |-> IF made[v] # 0 THEN made[v] ELSE base.tables[v]]]

Refused == stage = "merge" /\ ~Accepts(makeVRouter(want, made))

\* The router executes the request that p has sent.
Execute(p) ==
    /\ candidate' = CASE p = "apply" /\ stage = "replace" -> Startup
                      [] p = "apply" /\ stage = "merge" -> Merged(candidate)
                      [] OTHER -> candidate
    /\ device' = IF p = "apply" /\ stage = "commit" THEN candidate ELSE device

\* What p does with the answer; ApplyConfiguration makes its document before the
\* second request and remembers it after the third.
Answered(p) ==
    \/ /\ p = "apply" /\ stage = "replace"
       /\ LET tables == setupTables(want, running)
          IN  IF Untranslatable(want, tables)
              THEN /\ proc' = [proc EXCEPT ![p] = Idle]
                   /\ stage' = "none" /\ answer' = "error"
                   /\ UNCHANGED <<made, running, lost>>
              ELSE /\ proc' = [proc EXCEPT ![p] = [Idle EXCEPT !.at = "send"]]
                   /\ made' = tables /\ stage' = "merge"
                   /\ UNCHANGED <<answer, running, lost>>
    \/ /\ p = "apply" /\ stage = "merge"
       /\ proc' = [proc EXCEPT ![p] = [Idle EXCEPT !.at = "send"]]
       /\ stage' = "commit"
       /\ UNCHANGED <<answer, made, running, lost>>
    \/ /\ p = "apply" /\ stage = "commit"
       /\ proc' = [proc EXCEPT ![p] = Idle]
       /\ running' = made /\ lost' = FALSE
       /\ stage' = "none" /\ answer' = "ok"
       /\ UNCHANGED made
    \/ /\ p # "apply"   \* GetMetrics: one request after another
       /\ \E next \in {Idle, [Idle EXCEPT !.at = "send"]} : proc' = [proc EXCEPT ![p] = next]
       /\ UNCHANGED <<stage, answer, made, running, lost>>

-----------------------------------------------------------------------------
(* Netconf.Send and Open.                                                  *)

Scrape(p) ==
    /\ proc[p].at = "idle"
    /\ At(p, "send") /\ Excused({"scrape"})
    /\ UNCHANGED <<session, work, router, answer, lost, applies, faults>>

\* Send looks at nc.session ...
Send(p) ==
    /\ proc[p].at = "send"
    /\ At(p, IF session = "nil" THEN "dial" ELSE "exec")
    /\ UNCHANGED <<session, work, router, history>>

\* ... and again when it uses it.
Exec(p) ==
    /\ proc[p].at = "exec" /\ session # "nil"
    /\ proc' = [proc EXCEPT ![p].at = "wait", ![p].current = TRUE,
                            ![p].handle = IF session = "live" THEN "live" ELSE "unsent"]
    /\ UNCHANGED <<session, work, router, history>>

\* Open: the old session is closed and forgotten, then a new one is dialled.
Open(p) ==
    /\ proc[p].at = "open"
    /\ proc' = [Closed(proc) EXCEPT ![p].at = "dial"]
    /\ session' = "nil"
    /\ UNCHANGED <<work, router, history>>

\* A session that somebody else has opened meanwhile is forgotten, not closed.
Orphaned(procs) == [p \in Procs |-> [procs[p] EXCEPT !.current = FALSE]]

Dial(p) ==
    /\ proc[p].at = "dial"
    /\ \/ /\ session' = "live"
          /\ proc' = [Orphaned(proc) EXCEPT ![p].at = "exec"]
          /\ UNCHANGED <<work, history>>
       \/ /\ Fault /\ Excused({"hard"})
          /\ session' \in {session, "nil"}
          /\ proc' = [(IF session' = session THEN proc ELSE Orphaned(proc)) EXCEPT ![p] = Idle]
          /\ Failed(p)
          /\ UNCHANGED <<want, made, running, lost, applies>>
    /\ UNCHANGED router

\* The answer is there.
Reply(p) ==
    /\ proc[p].at = "wait" /\ proc[p].handle = "live"
    /\ ~(p = "apply" /\ Refused)
    /\ Execute(p) /\ Answered(p)
    /\ UNCHANGED <<session, want, excuse, applies, faults>>

\* The answer is an error, or does not come in time; the session is kept.
ReplyError(p) ==
    /\ proc[p].at = "wait" /\ proc[p].handle = "live"
    /\ proc' = [proc EXCEPT ![p] = Idle]
    /\ Failed(p)
    /\ \/ /\ p = "apply" /\ Refused
          /\ UNCHANGED <<router, lost, excuse, faults>>
       \/ /\ Fault /\ Excused({"hard"})
          /\ \/ UNCHANGED <<router, lost>>
             \/ ~(p = "apply" /\ Refused) /\ Execute(p) /\ lost' = (lost \/ device' # device)
    /\ UNCHANGED <<session, want, made, running, applies>>

\* Mutant: a closed session is an error like any other.
ReplyClosedOnce(p) ==
    /\ proc[p].at = "wait" /\ proc[p].handle \in {"dead", "unsent"}
    /\ proc' = [proc EXCEPT ![p] = Idle]
    /\ Failed(p)
    /\ UNCHANGED <<session, want, made, running, router, lost, excuse, applies, faults>>

\* The session turns out to be closed: once it is opened again and the request is
\* repeated, whether or not it was executed; the second time it is given up.
ReplyClosed(p) ==
    /\ proc[p].at = "wait" /\ proc[p].handle \in {"dead", "unsent"}
    /\ \/ UNCHANGED <<router, lost>>
       \/ /\ proc[p].handle = "dead" /\ ~(p = "apply" /\ Refused)
          /\ Execute(p) /\ lost' = (lost \/ device' # device)
    /\ \/ /\ proc[p].try = 0
          /\ proc' = [proc EXCEPT ![p] = [Idle EXCEPT !.at = "open", !.try = 1]]
          /\ UNCHANGED <<session, stage, answer>>
       \/ /\ proc[p].try = 1
          /\ proc' = [Closed(proc) EXCEPT ![p] = Idle]
          /\ session' = "nil"
          /\ Failed(p)
    /\ UNCHANGED <<want, made, running, excuse, applies, faults>>

\* The connection is lost.
Break ==
    /\ session = "live" /\ Fault
    /\ session' = "dead"
    /\ proc' = [p \in Procs |-> IF proc[p].current THEN [proc[p] EXCEPT !.handle = "dead"] ELSE proc[p]]
    /\ Excused(IF "broken" \in excuse THEN {"hard"} ELSE {"broken"})
    /\ UNCHANGED <<work, router, answer, lost, applies>>

\* The process ends, and is started again: NewManager opens a session and reads the
\* running configuration.
Restart ==
    /\ session' = "live" /\ proc' = [p \in Procs |-> Idle]
    /\ running' = device.tables /\ lost' = FALSE
    /\ stage' = "none"
    /\ answer' = IF stage = "none" THEN answer ELSE "crash"
    /\ UNCHANGED <<want, made, router, applies>>

\* Somebody else's Open has set nc.session to nil: using it is a panic.
Panic(p) ==
    /\ proc[p].at = "exec" /\ session = "nil"
    /\ Restart
    /\ UNCHANGED <<excuse, faults>>
Crash == Fault /\ Excused({"hard"}) /\ Restart

Next ==
    \/ \E c \in Configs : Start(c)
    \/ \E p \in Scrapers : Scrape(p)
    \/ \E p \in Procs : \/ Send(p) \/ Exec(p) \/ Open(p) \/ Dial(p)
                        \/ Reply(p) \/ ReplyError(p) \/ ReplyClosed(p) \/ Panic(p)
    \/ Break \/ Crash

Spec == Init /\ [][Next]_vars

-----------------------------------------------------------------------------
\* A configuration that ApplyConfiguration reports as applied runs on the router,
\* its tables are the remembered ones, and the router does with routes, ports and
\* traffic what the configuration says.  At any time the router runs one whole
\* configuration, however many requests were lost or repeated.
AppliedMeansConfigured ==
    /\ device = Startup \/ device.cfg \in Configs
    /\ answer = "ok" =>
        LET doc == makeVRouter(device.cfg, device.tables)
        IN  /\ device.cfg = want /\ device.tables = running
            /\ FiltersKept(want, doc)
            /\ FabricKeptApart(want, doc)
            /\ PortsKept(want, doc)
            /\ TablesKept(want, device.tables, doc)

\* setupTableID: a VRF that stays keeps its routing table, over restarts and lost
\* connections as well.  The exception is a commit whose answer did not arrive.
TableKept ==
    ~lost /\ device' # device => \A v \in VRFNames :
        device.tables[v] # 0 /\ device'.tables[v] # 0 => device'.tables[v] = device.tables[v]
StayingKeepsTable == [][TableKept]_vars

\* A configuration that cannot be applied: too many VRFs, names that are too long,
\* gateways and policy routes to nowhere, one peer or import twice.
Contradictory(cfg) ==
    LET confs == {v \in Infos(cfg) : ConfOf(cfg, v) # {}}
        conf(v) == CHOOSE c \in ConfOf(cfg, v) : TRUE
        peers == UNION {{<<v, i>> : i \in DOMAIN conf(v).peers} : v \in confs}
        froms(v) == [i \in DOMAIN conf(v).imports |-> conf(v).imports[i].from]
    IN  \/ Cardinality(Infos(cfg) \ {Cluster, Mgmt}) > TableEnd - TableStart
        \/ Infos(cfg) \intersect TooLong # {}
        \/ \E l2 \in Range(cfg.layer2s) : InvalidL2(cfg, l2)
        \/ \E p \in Range(PolicyRoutes(cfg)) : InvalidPolicyRoute(cfg, p)
        \/ \E a, b \in peers : a # b /\ conf(a[1]).peers[a[2]].key = conf(b[1]).peers[b[2]].key
        \/ \E v \in confs : \/ ~Distinct(froms(v))
                            \/ isReservedVRF(v) /\ Range(froms(v)) \intersect {Cluster, Mgmt} # {}

\* Send repeats a request when its session was closed: ApplyConfiguration fails
\* only if the configuration is contradictory, the router cannot be reached or
\* does not answer in time, the connection breaks twice, or the metrics handler
\* used the session at the same time.
ApplyFailsForCause ==
    /\ answer = "error" => excuse \intersect {"hard", "scrape"} # {} \/ Contradictory(want)
    /\ answer = "crash" => excuse \intersect {"hard", "scrape"} # {}
=============================================================================
