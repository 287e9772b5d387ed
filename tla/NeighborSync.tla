---------------------------- MODULE NeighborSync ----------------------------
(***************************************************************************)
(* The neighbour synchronisation of the layer 2 agents                     *)
(* (pkg/neighborsync): on every node three goroutines - receiveUpdates,     *)
(* runNeighborCheck and runBpfNeighborSync - and the caller that enables    *)
(* and disables an interface.  One address on one bridge per node; the      *)
(* bridges are joined by VXLAN, so what one node announces the others read. *)
(***************************************************************************)
EXTENDS Naturals, Sequences

CONSTANTS Nodes, Macs, MaxMoves, MaxLosses

VARIABLES kern,     \* the kernel's entry for the address: [mac, state]
          link,     \* whether bridge and veth exist
          attached, \* whether the BPF program is on the veth
          refresh,  \* neighRefreshInterfaces holds the bridge
          send,     \* sendGratuitousNeighbor holds the bridge
          receive,  \* receiveNeighbors holds the veth
          timers,   \* the MAC of the refresh timer of the address, if any
          updates,  \* netlink neighbour messages not yet processed
          sub,      \* the subscription: "on", "closed", "cleared" or "dead"
          sync,     \* syncKernelNeighbors of the caller: [step, entry]
          bpf,      \* runBpfNeighborSync: [step, mac, changed]
          frames,   \* ARP replies and advertisements on their way to the veth
          moves, losses,
          raced     \* history: the kernel changed under syncKernelNeighbors, or
                    \* a message was lost with its subscription
neighVars == <<kern, link, attached, refresh, send, receive, timers, updates, sub, sync,
               bpf, frames, moves, losses, raced>>

NoMac == "none"
NoNeigh == [mac |-> NoMac, state |-> "none"]
Resting == [step |-> "idle", entry |-> NoNeigh]
Waiting == [step |-> "idle", mac |-> NoMac, changed |-> FALSE]

NeighInit ==
    /\ kern = [n \in Nodes |-> NoNeigh]
    /\ link = [n \in Nodes |-> TRUE] /\ attached = [n \in Nodes |-> FALSE]
    /\ refresh = attached /\ send = attached /\ receive = attached
    /\ timers = [n \in Nodes |-> NoMac]
    /\ updates = [n \in Nodes |-> <<>>] /\ sub = [n \in Nodes |-> "on"]
    /\ sync = [n \in Nodes |-> Resting] /\ bpf = [n \in Nodes |-> Waiting]
    /\ frames = [n \in Nodes |-> {}]
    /\ moves = 0 /\ losses = 0 /\ raced = [n \in Nodes |-> FALSE]

config == <<attached, refresh, send, receive>>

\* A gratuitous ARP or unsolicited advertisement reaches every other node.
sendGratuitousNeighbor(n, mac) == [m \in Nodes |-> IF m = n THEN frames[m] ELSE frames[m] \cup {mac}]

(***************************************************************************)
(* The kernel.                                                             *)
(***************************************************************************)
Entries == [mac : Macs, state : {"reachable", "stale", "extern_learned"}] \cup {NoNeigh}

\* A change of the table is one message to the subscriber.
SetNeigh(n, e) == /\ kern' = [kern EXCEPT ![n] = e]
                  /\ updates' = [updates EXCEPT ![n] = IF sub[n] = "on" THEN Append(@, e) ELSE @]
                  /\ raced' = [raced EXCEPT ![n] = @ \/ sync[n].step # "idle" \/ sub[n] # "on"]

KernelChanges(n, e) ==
    /\ moves < MaxMoves /\ moves' = moves + 1
    /\ link[n] /\ kern[n] # e
    /\ e.state = "stale" => kern[n] = [e EXCEPT !.state = "reachable"]
    /\ SetNeigh(n, e)
    /\ UNCHANGED <<link, config, timers, sub, sync, bpf, frames, losses>>

\* A pod answers: the frame passes the veth.
PodSpeaks(n, mac) ==
    /\ moves < MaxMoves /\ moves' = moves + 1
    /\ frames' = [frames EXCEPT ![n] = @ \cup {mac}]
    /\ UNCHANGED <<kern, link, config, timers, updates, sub, sync, bpf, losses, raced>>

\* The interfaces go, with their neighbours and the program on them.
LinkGoes(n) ==
    /\ losses < MaxLosses /\ losses' = losses + 1
    /\ link[n] /\ link' = [link EXCEPT ![n] = FALSE]
    /\ attached' = [attached EXCEPT ![n] = FALSE]
    /\ IF kern[n] = NoNeigh THEN UNCHANGED <<kern, updates, raced>> ELSE SetNeigh(n, NoNeigh)
    /\ UNCHANGED <<refresh, send, receive, timers, sub, sync, bpf, frames, moves>>

createTimerIfNotExists(n, mac) == timers' = [timers EXCEPT ![n] = mac]
deleteTimerIfExists(n) == timers' = [timers EXCEPT ![n] = NoMac]

(***************************************************************************)
(* receiveUpdates.                                                         *)
(***************************************************************************)
\* An EVPN entry is announced and no longer refreshed here; a reachable one
\* gets a timer; a stale one is asked for, which changes nothing here.
handleNeighborAdd(n, e) ==
    CASE e.state = "extern_learned" ->
            /\ frames' = IF send[n] THEN sendGratuitousNeighbor(n, e.mac) ELSE frames
            /\ deleteTimerIfExists(n)
      [] e.state = "reachable" -> createTimerIfNotExists(n, e.mac) /\ UNCHANGED frames
      [] OTHER -> UNCHANGED <<frames, timers>>

handleNeighborDelete(n) == deleteTimerIfExists(n) /\ UNCHANGED frames

processUpdate(n) ==
    /\ sub[n] = "on" /\ updates[n] # <<>>
    /\ updates' = [updates EXCEPT ![n] = Tail(@)]
    /\ LET e == Head(updates[n])
       IN  CASE ~refresh[n]  -> UNCHANGED <<frames, timers>>
             [] refresh[n] /\ e = NoNeigh -> handleNeighborDelete(n)
             [] OTHER        -> handleNeighborAdd(n, e)
    /\ raced' = [raced EXCEPT ![n] = @ /\ ~(refresh[n] /\ Len(updates[n]) = 1 /\ sync[n].step = "idle")]
    /\ UNCHANGED <<kern, link, config, sub, sync, bpf, moves, losses>>

ChannelCloses(n) ==
    /\ losses < MaxLosses /\ losses' = losses + 1
    /\ sub[n] = "on" /\ sub' = [sub EXCEPT ![n] = "closed"]
    /\ updates' = [updates EXCEPT ![n] = <<>>]
    /\ raced' = [raced EXCEPT ![n] = @ \/ updates[n] # <<>>]
    /\ UNCHANGED <<kern, link, config, timers, sync, bpf, frames, moves>>

ClearTimers(n) ==
    /\ sub[n] = "closed" /\ sub' = [sub EXCEPT ![n] = "cleared"]
    /\ timers' = [timers EXCEPT ![n] = NoMac]
    /\ UNCHANGED <<kern, link, config, updates, sync, bpf, frames, moves, losses, raced>>

\* Mutant: only changes from now on.
SubscribeOnly(n) ==
    /\ sub[n] = "cleared" /\ sub' = [sub EXCEPT ![n] = "on"]
    /\ raced' = [raced EXCEPT ![n] = sync[n].step # "idle"]
    /\ UNCHANGED <<kern, link, config, timers, updates, sync, bpf, frames, moves, losses>>

\* ListExisting: the new subscription starts with the table as it is.  A
\* subscription that fails ends the goroutine.
Subscribe(n) ==
    /\ sub[n] = "cleared" /\ sub' = [sub EXCEPT ![n] = "on"]
    /\ updates' = [updates EXCEPT ![n] = IF kern[n] = NoNeigh THEN <<>> ELSE <<kern[n]>>]
    /\ raced' = [raced EXCEPT ![n] = sync[n].step # "idle"]
    /\ UNCHANGED <<kern, link, config, timers, sync, bpf, frames, moves, losses>>

SubscribeFails(n) ==
    /\ losses < MaxLosses /\ losses' = losses + 1
    /\ sub[n] = "cleared" /\ sub' = [sub EXCEPT ![n] = "dead"]
    /\ UNCHANGED <<kern, link, config, timers, updates, sync, bpf, frames, moves, raced>>

(***************************************************************************)
(* runNeighborCheck: a due timer asks again (PodSpeaks answers), or goes   *)
(* with its interface.                                                     *)
(***************************************************************************)
runNeighborCheck(n) ==
    /\ timers[n] # NoMac /\ ~link[n]
    /\ deleteTimerIfExists(n)
    /\ UNCHANGED <<kern, link, config, updates, sub, sync, bpf, frames, moves, losses, raced>>

(***************************************************************************)
(* runBpfNeighborSync: an event is dropped unless the veth is tracked; the *)
(* entry of the bridge is read, then set, then announced if it was new.    *)
(***************************************************************************)
\* Mutant: every answer is announced.
alwaysChanged(n, mac) == TRUE

\* An entry of another MAC, or none.
macChanged(n, mac) == kern[n].mac # mac

ReadEvent(n, mac) ==
    /\ bpf[n].step = "idle" /\ mac \in frames[n]
    /\ frames' = [frames EXCEPT ![n] = @ \ {mac}]
    /\ bpf' = IF attached[n] /\ receive[n] /\ link[n]
              THEN [bpf EXCEPT ![n] = [step |-> "set", mac |-> mac, changed |-> macChanged(n, mac)]]
              ELSE bpf
    /\ UNCHANGED <<kern, link, config, timers, updates, sub, sync, moves, losses, raced>>

replaceNeighborReachable(n) ==
    LET mac == bpf[n].mac
    IN  /\ bpf[n].step = "set"
        /\ bpf' = [bpf EXCEPT ![n] = Waiting]
        /\ IF ~link[n] THEN UNCHANGED <<kern, updates, raced, frames>>
           ELSE /\ SetNeigh(n, [mac |-> mac, state |-> "reachable"])
                /\ frames' = IF bpf[n].changed /\ send[n] THEN sendGratuitousNeighbor(n, mac) ELSE frames
        /\ UNCHANGED <<link, config, timers, sub, sync, moves, losses>>

(***************************************************************************)
(* The caller (the layer 2 reconcile of an agent), one call at a time.     *)
(***************************************************************************)
calm == <<kern, link, timers, updates, sub, bpf, frames, moves, losses, raced>>

EnsureARPRefresh(n) ==
    /\ sync[n].step = "idle" /\ link[n] /\ ~refresh[n]
    /\ refresh' = [refresh EXCEPT ![n] = TRUE]
    /\ sync' = [sync EXCEPT ![n].step = "list"]
    /\ UNCHANGED <<attached, send, receive, calm>>

\* The program is attached before the maps are filled; an attach that fails
\* leaves them alone.
EnsureNeighborSuppression(n) ==
    /\ sync[n].step = "idle" /\ link[n] /\ ~receive[n]
    /\ attached' = [attached EXCEPT ![n] = TRUE]
    /\ send' = [send EXCEPT ![n] = TRUE] /\ receive' = [receive EXCEPT ![n] = TRUE]
    /\ sync' = IF send[n] THEN sync ELSE [sync EXCEPT ![n].step = "list"]
    /\ UNCHANGED <<refresh, calm>>

\* syncKernelNeighbors: the table is listed, then handled like messages.
ListNeighbors(n) ==
    /\ sync[n].step = "list"
    /\ sync' = [sync EXCEPT ![n] = [step |-> "handle", entry |-> kern[n]]]
    /\ UNCHANGED <<config, calm>>

HandleListed(n) ==
    /\ sync[n].step = "handle"
    /\ sync' = [sync EXCEPT ![n] = Resting]
    /\ handleNeighborAdd(n, sync[n].entry)
    /\ UNCHANGED <<kern, link, config, updates, sub, bpf, moves, losses, raced>>

DisableARPRefresh(n) ==
    /\ moves < MaxMoves /\ moves' = moves + 1
    /\ sync[n].step = "idle" /\ refresh[n]
    /\ refresh' = [refresh EXCEPT ![n] = FALSE]
    /\ UNCHANGED <<kern, link, attached, send, receive, timers, updates, sub, sync, bpf, frames, losses, raced>>

\* A veth that is gone has nothing to detach; the maps are cleared all the same.
DisableNeighborSuppression(n) ==
    /\ moves < MaxMoves /\ moves' = moves + 1
    /\ sync[n].step = "idle" /\ receive[n]
    /\ attached' = [attached EXCEPT ![n] = FALSE]
    /\ send' = [send EXCEPT ![n] = FALSE] /\ receive' = [receive EXCEPT ![n] = FALSE]
    /\ UNCHANGED <<kern, link, refresh, timers, updates, sub, sync, bpf, frames, losses, raced>>

Step(n) == \/ processUpdate(n) \/ ClearTimers(n) \/ Subscribe(n)
           \/ runNeighborCheck(n)
           \/ \E mac \in Macs : ReadEvent(n, mac)
           \/ replaceNeighborReachable(n)
           \/ ListNeighbors(n) \/ HandleListed(n)

World(n) == \/ \E e \in Entries : KernelChanges(n, e)
            \/ \E mac \in Macs : PodSpeaks(n, mac)
            \/ LinkGoes(n) \/ ChannelCloses(n) \/ SubscribeFails(n)
            \/ EnsureARPRefresh(n) \/ EnsureNeighborSuppression(n)
            \/ DisableARPRefresh(n) \/ DisableNeighborSuppression(n)

NeighNext == \E n \in Nodes : Step(n) \/ World(n)

\* Each goroutine keeps running.
NeighFairness ==
    \A n \in Nodes : /\ WF_neighVars(\E mac \in Macs : ReadEvent(n, mac))
                     /\ WF_neighVars(replaceNeighborReachable(n))
                     /\ WF_neighVars(processUpdate(n))

NeighSpec == NeighInit /\ [][NeighNext]_neighVars /\ NeighFairness

(***************************************************************************)
(* Properties.                                                             *)
(***************************************************************************)
\* While an interface is refreshed and its messages are processed, a
\* reachable neighbour has a timer and an extern_learned or vanished one has
\* none: "When a neighbor moves to extern_learned or permanent state, it is
\* no longer refreshed by this instance" (neighborsync.go:516).  Not claimed
\* after the kernel changed under a listing of syncKernelNeighbors: the
\* listed entry is then handled after the newer message.
Refreshed ==
    \A n \in Nodes :
        refresh[n] /\ sub[n] = "on" /\ updates[n] = <<>> /\ sync[n].step = "idle" /\ ~raced[n] =>
            /\ kern[n].state = "reachable" => timers[n] = kern[n].mac
            /\ kern[n].state = "extern_learned" => timers[n] = NoMac

Silent == \A n \in Nodes : frames[n] = {}

\* Announcements die out: "Only send gratuitous ARP/NA when the MAC actually
\* changed to avoid infinite flooding loops through VXLAN" (neighborsync.go:428-429).
AnnouncementsEnd == <>[]Silent
=============================================================================
