----------------------------- MODULE HostProofs -----------------------------
(***************************************************************************)
(* Proofs about two parts of every agent: the debouncer of its reloads,    *)
(* for any number of callers and goroutines, and the refresh of neighbour  *)
(* entries, for any nodes and addresses and any number of lost messages.   *)
(***************************************************************************)
EXTENDS Debounce, NeighborSync, TLAPS

-----------------------------------------------------------------------------
(* The debouncer.                                                          *)

\* The lock is held exactly while its goroutine lives.
LockHeld == scheduled <=> \E g \in Goroutines : Alive(g)

\* The inductive invariant behind NeverConcurrent: without LockHeld a caller
\* could win the compare-and-swap while a goroutine is still running.
ExclusionInv == TypeOK /\ NeverConcurrent /\ LockHeld

\* The initial state: no goroutine, nothing scheduled.
LEMMA InitExclusion == Init => ExclusionInv
  BY DEF Init, ExclusionInv, TypeOK, NeverConcurrent, LockHeld, Alive,
         CallerPC, RoutinePC, RequestState

\* A step inside the goroutine that holds the lock moves only its own
\* program counter and does not end it.
LEMMA StepKeepsLock ==
    ASSUME ExclusionInv, NEW g \in Goroutines, NEW pc \in RoutinePC,
           Alive(g), pc # "none",
           routine' = [routine EXCEPT ![g] = pc],
           scheduled' = scheduled
    PROVE  NeverConcurrent' /\ LockHeld'
  BY DEF ExclusionInv, TypeOK, NeverConcurrent, LockHeld, Alive

\* Every step of Debounce, debounceRoutine and Stop preserves the invariant.
LEMMA NextExclusion == ExclusionInv /\ [Next]_vars => ExclusionInv'
<1> SUFFICES ASSUME ExclusionInv, [Next]_vars
             PROVE  ExclusionInv'
    OBVIOUS
<1> USE DEF ExclusionInv, TypeOK, CallerPC, RoutinePC, RequestState
<1>1. ASSUME NEW c \in Callers, DebounceStore(c)
      PROVE  ExclusionInv'
      BY <1>1 DEF DebounceStore, NeverConcurrent, LockHeld, Alive
<1>2. ASSUME NEW c \in Callers, DebounceCAS(c)
      PROVE  ExclusionInv'
  <2>1. CASE scheduled
        BY <1>2, <2>1 DEF DebounceCAS, NeverConcurrent, LockHeld, Alive
  <2>2. CASE ~scheduled
    <3>1. PICK g \in Goroutines :
              ~Alive(g) /\ routine' = [routine EXCEPT ![g] = "sleep"]
          BY <1>2, <2>2 DEF DebounceCAS
    <3>2. TypeOK'
          BY <1>2, <2>2, <3>1 DEF DebounceCAS
    <3>3. NeverConcurrent' /\ LockHeld'
          BY <1>2, <2>2, <3>1 DEF DebounceCAS, NeverConcurrent, LockHeld, Alive
    <3> QED BY <3>2, <3>3
  <2> QED BY <2>1, <2>2
<1>3. ASSUME NEW g \in Goroutines, RoutineStep(g)
      PROVE  ExclusionInv'
  <2>1. CASE ClearFlag(g)
        BY <2>1, StepKeepsLock DEF ClearFlag, Alive
  <2>2. CASE StartFunction(g)
        BY <2>2, StepKeepsLock DEF StartFunction, Alive
  <2>3. CASE FunctionSucceeds(g)
        BY <2>3, StepKeepsLock DEF FunctionSucceeds, Alive
  <2>4. CASE FunctionFails(g)
        BY <2>4, StepKeepsLock DEF FunctionFails, Alive
  <2>5. CASE CheckFlag(g)
        BY <2>5, StepKeepsLock DEF CheckFlag, Alive
  <2>6. CASE ResetScheduled(g)
        BY <2>6 DEF ResetScheduled, NeverConcurrent, LockHeld, Alive
  <2> QED BY <1>3, <2>1, <2>2, <2>3, <2>4, <2>5, <2>6 DEF RoutineStep
<1>4. CASE Stop
      BY <1>4 DEF Stop, NeverConcurrent, LockHeld, Alive
<1>5. CASE UNCHANGED vars
      BY <1>5 DEF vars, NeverConcurrent, LockHeld, Alive
<1> QED BY <1>1, <1>2, <1>3, <1>4, <1>5 DEF Next

\* The debounced function never runs in two goroutines at once.
THEOREM DebounceExclusion == Spec => []NeverConcurrent
<1>1. ExclusionInv => NeverConcurrent
      BY DEF ExclusionInv
<1> QED BY <1>1, InitExclusion, NextExclusion, PTL DEF Spec

\* Every variable of the Debouncer stays within its type.
THEOREM DebounceTypeCorrect == Spec => []TypeOK
<1>1. ExclusionInv => TypeOK
      BY DEF ExclusionInv
<1> QED BY <1>1, InitExclusion, NextExclusion, PTL DEF Spec

-----------------------------------------------------------------------------
\* A call that no execution covered is in the flag, or ahead of a goroutine
\* that has still to start the function.
THEOREM DebounceRemembers == Spec => []FlagRemembersCall
<1>1. Init => FlagRemembersCall
      BY DEF Init, FlagRemembersCall
<1>2. TypeOK /\ FlagRemembersCall /\ [Next]_vars => FlagRemembersCall'
  <2> SUFFICES ASSUME TypeOK, FlagRemembersCall, [Next]_vars
               PROVE  FlagRemembersCall'
      OBVIOUS
  <2> USE DEF TypeOK, FlagRemembersCall, RoutinePC
  <2>1. ASSUME NEW c \in Callers, DebounceStore(c) \/ DebounceCAS(c)
        PROVE  FlagRemembersCall'
        BY <2>1 DEF DebounceStore, DebounceCAS, Alive
  <2>2. ASSUME NEW g \in Goroutines, RoutineStep(g)
        PROVE  FlagRemembersCall'
    <3>1. CASE ClearFlag(g)
          BY <3>1 DEF ClearFlag
    <3>2. CASE StartFunction(g)
          BY <3>2 DEF StartFunction, RequestState
    <3>3. CASE FunctionSucceeds(g) \/ FunctionFails(g)
          BY <3>3 DEF FunctionSucceeds, FunctionFails
    <3>4. CASE CheckFlag(g)
          BY <3>4 DEF CheckFlag
    <3>5. CASE ResetScheduled(g)
          BY <3>5 DEF ResetScheduled
    <3> QED BY <2>2, <3>1, <3>2, <3>3, <3>4, <3>5 DEF RoutineStep
  <2>3. CASE Stop \/ UNCHANGED vars
        BY <2>3 DEF Stop, vars
  <2> QED BY <2>1, <2>2, <2>3 DEF Next
<1> QED BY <1>1, <1>2, DebounceTypeCorrect, PTL DEF Spec

-----------------------------------------------------------------------------
(* neighborsync.                                                           *)

Known == [mac : Macs \cup {NoMac}, state : {"reachable", "stale", "extern_learned", "none"}]
NeighTypeOK ==
  /\ kern \in [Nodes -> Known]
  /\ link \in [Nodes -> BOOLEAN] /\ refresh \in [Nodes -> BOOLEAN] /\ raced \in [Nodes -> BOOLEAN]
  /\ timers \in [Nodes -> Macs \cup {NoMac}]
  /\ updates \in [Nodes -> Seq(Known)]
  /\ sub \in [Nodes -> {"on", "closed", "cleared", "dead"}]
  /\ sync \in [Nodes -> [step : {"idle", "list", "handle"}, entry : Known]]
  /\ bpf \in [Nodes -> [step : {"idle", "set"}, mac : Macs \cup {NoMac}, changed : BOOLEAN]]

\* On every node: the last message tells what the kernel has; there are no
\* neighbours without the link; what was listed and not yet handled is
\* still so, unless raced; and Refreshed.
Fine(k, l, r, t, u, s, y, rc) ==
  /\ s = "on" /\ u # <<>> => u[Len(u)] = k
  /\ ~l => k = NoNeigh
  /\ y.step = "handle" /\ ~rc => y.entry = k
  /\ r /\ s = "on" /\ u = <<>> /\ y.step = "idle" /\ ~rc =>
       /\ k.state = "reachable" => t = k.mac
       /\ k.state = "extern_learned" => t = NoMac

FineAt(n) == Fine(kern[n], link[n], refresh[n], timers[n], updates[n], sub[n], sync[n], raced[n])
NeighInv == NeighTypeOK /\ \A n \in Nodes : FineAt(n)

\* The fields of no neighbour and of goroutines at rest.
LEMMA RestFields ==
  /\ NoNeigh \in Known /\ NoNeigh.state = "none" /\ NoNeigh.mac = NoMac
  /\ Resting \in [step : {"idle", "list", "handle"}, entry : Known] /\ Resting.step = "idle"
  /\ Waiting \in [step : {"idle", "set"}, mac : Macs \cup {NoMac}, changed : BOOLEAN]
<1>1. NoNeigh \in Known /\ NoNeigh.state = "none" /\ NoNeigh.mac = NoMac
  BY DEF NoNeigh, Known, NoMac
<1> QED
  BY <1>1 DEF Resting, Waiting

\* The initial state.
LEMMA InitNeighInv == NeighInit => NeighInv
BY RestFields DEF NeighInit, NeighInv, NeighTypeOK, FineAt, Fine

\* A step of a node n that leaves the others alone.
LEMMA OthersFine ==
  ASSUME NeighInv, NEW n \in Nodes, NeighTypeOK', FineAt(n)',
         \A m \in Nodes \ {n} :
            /\ kern'[m] = kern[m] /\ link'[m] = link[m] /\ refresh'[m] = refresh[m]
            /\ timers'[m] = timers[m] /\ updates'[m] = updates[m] /\ sub'[m] = sub[m]
            /\ sync'[m] = sync[m] /\ raced'[m] = raced[m]
  PROVE  NeighInv'
<1>1. ASSUME NEW m \in Nodes, m # n PROVE FineAt(m)'
  BY <1>1 DEF NeighInv, FineAt
<1> QED
  BY <1>1 DEF NeighInv

\* The last element of a sequence that loses its first.
LEMMA TailLast ==
  ASSUME NEW S, NEW u \in Seq(S), u # <<>>
  PROVE  /\ Tail(u) \in Seq(S) /\ Head(u) \in S
         /\ Tail(u) = <<>> => Head(u) = u[Len(u)] /\ Len(u) = 1
         /\ Tail(u) # <<>> => Len(u) # 1 /\ Tail(u)[Len(Tail(u))] = u[Len(u)]
<1>1. Tail(u) \in Seq(S) /\ Head(u) \in S /\ Head(u) = u[1] /\ Len(Tail(u)) = Len(u) - 1 /\ Len(u) >= 1
  OBVIOUS
<1>2. ASSUME Tail(u) = <<>> PROVE Head(u) = u[Len(u)] /\ Len(u) = 1
  <2> DEFINE t == Tail(u)
  <2> HIDE DEF t
  <2>1. t = <<>> => Len(t) = 0
    OBVIOUS
  <2>2. Len(Tail(u)) = 0
    BY <1>2, <2>1 DEF t
  <2>3. Len(u) \in Nat
    OBVIOUS
  <2> DEFINE k == Len(u)
             l == Len(Tail(u))
  <2> HIDE DEF k, l
  <2>4. k \in Nat /\ l = k - 1 /\ l = 0 => k = 1
    OBVIOUS
  <2>5. l = k - 1
    BY Zenon, <1>1 DEF k, l
  <2>6. l = 0 /\ k \in Nat
    BY Zenon, <2>2, <2>3 DEF k, l
  <2>7. Len(u) = 1
    BY Zenon, <2>4, <2>5, <2>6 DEF k
  <2> QED
    BY <1>1, <2>7
<1>3. ASSUME Tail(u) # <<>> PROVE Len(u) # 1 /\ Tail(u)[Len(Tail(u))] = u[Len(u)]
  <2>1. Len(Tail(u)) >= 1
    BY <1>1, <1>3
  <2> QED
    BY <1>1, <2>1
<1> QED
  BY <1>1, <1>2, <1>3

\* A change in the kernel.
LEMMA SetNeighFine ==
  ASSUME NeighInv, NEW n \in Nodes, NEW e \in Known, SetNeigh(n, e),
         NEW l \in [Nodes -> BOOLEAN], l = link', l[n] \/ e = NoNeigh,
         \A m \in Nodes \ {n} : l[m] = link[m],
         refresh' = refresh, timers' = timers, sub' = sub, sync' = sync,
         bpf' \in [Nodes -> [step : {"idle", "set"}, mac : Macs \cup {NoMac}, changed : BOOLEAN]]
  PROVE  NeighInv'
<1>1. /\ kern' = [kern EXCEPT ![n] = e]
      /\ updates' = [updates EXCEPT ![n] = IF sub[n] = "on" THEN Append(updates[n], e) ELSE updates[n]]
      /\ raced' = [raced EXCEPT ![n] = raced[n] \/ sync[n].step # "idle" \/ sub[n] # "on"]
  BY DEF SetNeigh
<1>2. updates[n] \in Seq(Known)
  BY DEF NeighInv, NeighTypeOK
<1>3. /\ Append(updates[n], e) \in Seq(Known) /\ Append(updates[n], e) # <<>>
      /\ Append(updates[n], e)[Len(Append(updates[n], e))] = e
  BY <1>2
<1> DEFINE a == Append(updates[n], e)
<1> HIDE DEF a
<1>4. NeighTypeOK'
  BY <1>1, <1>2, <1>3 DEF NeighInv, NeighTypeOK
<1>5. /\ kern'[n] = e /\ (sub[n] = "on" => updates'[n] = a)
      /\ ~raced'[n] => sync[n].step = "idle" /\ sub[n] = "on"
      /\ \A m \in Nodes \ {n} : kern'[m] = kern[m] /\ updates'[m] = updates[m] /\ raced'[m] = raced[m]
  <2>1. /\ kern'[n] = e /\ (sub[n] = "on" => updates'[n] = a)
        /\ \A m \in Nodes \ {n} : kern'[m] = kern[m] /\ updates'[m] = updates[m]
    BY <1>1 DEF NeighInv, NeighTypeOK, a
  <2>2. /\ raced'[n] = (raced[n] \/ sync[n].step # "idle" \/ sub[n] # "on")
        /\ \A m \in Nodes \ {n} : raced'[m] = raced[m]
    BY <1>1 DEF NeighInv, NeighTypeOK
  <2> QED
    BY Zenon, <2>1, <2>2
<1>6. a # <<>> /\ a[Len(a)] = e
  BY <1>3 DEF a
<1>7. FineAt(n)'
  BY <1>5, <1>6 DEF FineAt, Fine
<1> QED
  BY <1>4, <1>5, <1>7, OthersFine

\* A message is processed.
LEMMA processUpdateFine ==
  ASSUME NeighInv, NEW n \in Nodes, processUpdate(n)
  PROVE  NeighInv'
<1> DEFINE u == updates[n]
           e == Head(u)
<1>1. /\ kern' = kern /\ link' = link /\ refresh' = refresh /\ sub' = sub /\ sync' = sync /\ bpf' = bpf
      /\ sub[n] = "on" /\ u # <<>> /\ updates' = [updates EXCEPT ![n] = Tail(u)]
      /\ raced' = [raced EXCEPT ![n] = raced[n] /\ ~(refresh[n] /\ Len(u) = 1 /\ sync[n].step = "idle")]
  BY DEF processUpdate, config
<1>2. u \in Seq(Known) /\ u[Len(u)] = kern[n]
  BY <1>1 DEF NeighInv, NeighTypeOK, FineAt, Fine
<1>3. /\ Tail(u) \in Seq(Known) /\ e \in Known
      /\ Tail(u) = <<>> => e = kern[n] /\ Len(u) = 1
      /\ Tail(u) # <<>> => Len(u) # 1 /\ Tail(u)[Len(Tail(u))] = kern[n]
  BY <1>1, <1>2, TailLast
<1>4. /\ timers' \in [Nodes -> Macs \cup {NoMac}]
      /\ \A m \in Nodes \ {n} : timers'[m] = timers[m]
      /\ refresh[n] /\ e.state = "reachable" => timers'[n] = e.mac
      /\ refresh[n] /\ e.state = "extern_learned" => timers'[n] = NoMac
  <2>1. CASE ~refresh[n]
    <3>1. timers' = timers
      BY <2>1 DEF processUpdate
    <3> QED
      BY <2>1, <3>1 DEF NeighInv, NeighTypeOK
  <2>2. CASE refresh[n] /\ e = NoNeigh
    <3>1. timers' = [timers EXCEPT ![n] = NoMac]
      BY <2>2 DEF processUpdate, handleNeighborDelete, deleteTimerIfExists
    <3> QED
      BY <2>2, <3>1, RestFields DEF NeighInv, NeighTypeOK
  <2>3. CASE refresh[n] /\ e # NoNeigh
    <3>1. handleNeighborAdd(n, e)
      BY <2>3 DEF processUpdate
    <3>2. /\ e.state = "extern_learned" => timers' = [timers EXCEPT ![n] = NoMac]
          /\ e.state = "reachable" => timers' = [timers EXCEPT ![n] = e.mac]
          /\ e.state \notin {"extern_learned", "reachable"} => timers' = timers
      BY <3>1 DEF handleNeighborAdd, deleteTimerIfExists, createTimerIfNotExists
    <3>3. e.mac \in Macs \cup {NoMac}
      BY <1>3 DEF Known
    <3>4. timers \in [Nodes -> Macs \cup {NoMac}]
      BY DEF NeighInv, NeighTypeOK
    <3> HIDE DEF e
    <3>5. CASE e.state = "extern_learned"
      BY <3>2, <3>4, <3>5
    <3>6. CASE e.state = "reachable"
      BY <3>2, <3>3, <3>4, <3>6
    <3>7. CASE e.state \notin {"extern_learned", "reachable"}
      BY <3>2, <3>4, <3>7
    <3> QED
      BY <3>5, <3>6, <3>7
  <2> QED
    BY <2>1, <2>2, <2>3
<1> DEFINE t == Tail(u)
<1> HIDE DEF t, e
<1>5. NeighTypeOK'
  <2>1. updates' = [updates EXCEPT ![n] = t] /\ t \in Seq(Known)
    BY <1>1, <1>3 DEF t
  <2>2. updates' \in [Nodes -> Seq(Known)]
    BY <2>1 DEF NeighInv, NeighTypeOK
  <2>3. raced' \in [Nodes -> BOOLEAN]
    BY <1>1 DEF NeighInv, NeighTypeOK
  <2> QED
    BY <1>1, <1>4, <2>2, <2>3 DEF NeighInv, NeighTypeOK
<1>6. /\ updates'[n] = t
      /\ ~raced'[n] => ~raced[n] \/ (refresh[n] /\ Len(u) = 1 /\ sync[n].step = "idle")
      /\ \A m \in Nodes \ {n} : updates'[m] = updates[m] /\ raced'[m] = raced[m]
  <2>1. updates' = [updates EXCEPT ![n] = t]
    BY <1>1 DEF t
  <2>2. updates'[n] = t /\ \A m \in Nodes \ {n} : updates'[m] = updates[m]
    BY <2>1 DEF NeighInv, NeighTypeOK
  <2>3. /\ raced'[n] = (raced[n] /\ ~(refresh[n] /\ Len(u) = 1 /\ sync[n].step = "idle"))
        /\ \A m \in Nodes \ {n} : raced'[m] = raced[m]
    BY <1>1 DEF NeighInv, NeighTypeOK
  <2> QED
    BY Zenon, <2>2, <2>3
<1>7. /\ t = <<>> => e = kern[n] /\ Len(u) = 1
      /\ t # <<>> => Len(u) # 1 /\ t[Len(t)] = kern[n]
  BY <1>3 DEF t
<1>8. FineAt(n)
  BY DEF NeighInv
<1>9. FineAt(n)'
  BY <1>1, <1>4, <1>6, <1>7, <1>8 DEF FineAt, Fine
<1> QED
  BY <1>1, <1>4, <1>5, <1>6, <1>9, OthersFine

\* The goroutines other than the reader of messages.
LEMMA GoroutinesFine ==
  ASSUME NeighInv, NEW n \in Nodes,
         \/ ClearTimers(n) \/ Subscribe(n) \/ runNeighborCheck(n)
         \/ (\E mac \in Macs : ReadEvent(n, mac))
         \/ replaceNeighborReachable(n) \/ ListNeighbors(n) \/ HandleListed(n)
  PROVE  NeighInv'
<1>1. NeighTypeOK /\ FineAt(n)
  BY DEF NeighInv
<1>2. CASE ClearTimers(n)
  <2>1. /\ kern' = kern /\ link' = link /\ refresh' = refresh /\ updates' = updates /\ sync' = sync
        /\ bpf' = bpf /\ raced' = raced /\ sub' = [sub EXCEPT ![n] = "cleared"]
        /\ timers' = [timers EXCEPT ![n] = NoMac]
    BY <1>2 DEF ClearTimers, config
  <2>2. NeighTypeOK'
    BY <1>1, <2>1 DEF NeighTypeOK
  <2>3. sub'[n] = "cleared" /\ \A m \in Nodes \ {n} : sub'[m] = sub[m] /\ timers'[m] = timers[m]
    BY <1>1, <2>1 DEF NeighTypeOK
  <2>4. FineAt(n)'
    BY <1>1, <2>1, <2>3 DEF FineAt, Fine
  <2> QED
    BY <2>1, <2>2, <2>3, <2>4, OthersFine
<1>3. CASE Subscribe(n)
  <2> DEFINE u == IF kern[n] = NoNeigh THEN <<>> ELSE <<kern[n]>>
  <2>1. /\ kern' = kern /\ link' = link /\ refresh' = refresh /\ timers' = timers /\ sync' = sync
        /\ bpf' = bpf /\ raced' = [raced EXCEPT ![n] = sync[n].step # "idle"]
        /\ sub' = [sub EXCEPT ![n] = "on"] /\ updates' = [updates EXCEPT ![n] = u]
    BY <1>3 DEF Subscribe, config
  <2>2. /\ u \in Seq(Known) /\ (u = <<>> => kern[n] = NoNeigh)
        /\ u # <<>> => u[Len(u)] = kern[n]
    BY <1>1 DEF NeighTypeOK
  <2> HIDE DEF u
  <2>3. NeighTypeOK'
    BY <1>1, <2>1, <2>2 DEF NeighTypeOK
  <2>4. /\ updates'[n] = u
        /\ \A m \in Nodes \ {n} : sub'[m] = sub[m] /\ updates'[m] = updates[m]
    BY <1>1, <2>1 DEF NeighTypeOK
  <2>5. raced'[n] = (sync[n].step # "idle") /\ \A m \in Nodes \ {n} : raced'[m] = raced[m]
    BY <1>1, <2>1 DEF NeighTypeOK
  <2>6. FineAt(n)'
    <3>1. sync[n].step = "handle" => raced'[n]
      BY Zenon, <2>5
    <3> QED
      BY <1>1, <2>1, <2>2, <2>4, <3>1, RestFields DEF FineAt, Fine
  <2> QED
    BY <2>1, <2>3, <2>4, <2>5, <2>6, OthersFine
<1>4. CASE runNeighborCheck(n)
  <2>1. /\ kern' = kern /\ link' = link /\ refresh' = refresh /\ updates' = updates /\ sync' = sync
        /\ bpf' = bpf /\ raced' = raced /\ sub' = sub /\ ~link[n]
        /\ timers' = [timers EXCEPT ![n] = NoMac]
    BY <1>4 DEF runNeighborCheck, deleteTimerIfExists, config
  <2>2. NeighTypeOK'
    BY <1>1, <2>1 DEF NeighTypeOK
  <2>3. \A m \in Nodes \ {n} : timers'[m] = timers[m]
    BY <1>1, <2>1 DEF NeighTypeOK
  <2>4. FineAt(n)'
    BY <1>1, <2>1, RestFields DEF FineAt, Fine
  <2> QED
    BY <2>1, <2>2, <2>3, <2>4, OthersFine
<1>5. ASSUME NEW mac \in Macs, ReadEvent(n, mac) PROVE NeighInv'
  <2>1. /\ kern' = kern /\ link' = link /\ refresh' = refresh /\ updates' = updates /\ sync' = sync
        /\ timers' = timers /\ raced' = raced /\ sub' = sub
    BY <1>5 DEF ReadEvent, config
  <2>2. bpf' \in [Nodes -> [step : {"idle", "set"}, mac : Macs \cup {NoMac}, changed : BOOLEAN]]
    <3>1. [step |-> "set", mac |-> mac, changed |-> macChanged(n, mac)]
            \in [step : {"idle", "set"}, mac : Macs \cup {NoMac}, changed : BOOLEAN]
      BY DEF macChanged
    <3> QED
      BY <1>1, <1>5, <3>1 DEF ReadEvent, NeighTypeOK
  <2> QED
    BY <2>1, <2>2 DEF NeighInv, NeighTypeOK, FineAt
<1>6. CASE replaceNeighborReachable(n)
  <2> DEFINE e == [mac |-> bpf[n].mac, state |-> "reachable"]
  <2>1. /\ link' = link /\ refresh' = refresh /\ sync' = sync /\ timers' = timers /\ sub' = sub
        /\ bpf' = [bpf EXCEPT ![n] = Waiting]
    BY <1>6 DEF replaceNeighborReachable, config
  <2>2. bpf' \in [Nodes -> [step : {"idle", "set"}, mac : Macs \cup {NoMac}, changed : BOOLEAN]]
    BY <1>1, <2>1, RestFields DEF NeighTypeOK
  <2>3. CASE ~link[n]
    <3>1. kern' = kern /\ updates' = updates /\ raced' = raced
      BY <1>6, <2>3 DEF replaceNeighborReachable
    <3> QED
      BY <2>1, <2>2, <3>1 DEF NeighInv, NeighTypeOK, FineAt
  <2>4. CASE link[n]
    <3>1. SetNeigh(n, e)
      BY <1>6, <2>4 DEF replaceNeighborReachable
    <3>2. e \in Known
      BY <1>1 DEF NeighTypeOK, Known
    <3> DEFINE l == link'
    <3>3. l = link /\ l \in [Nodes -> BOOLEAN]
      BY <1>1, <2>1 DEF NeighTypeOK
    <3> HIDE DEF e, l
    <3>4. l = link'
      BY DEF l
    <3> QED
      BY <2>1, <2>2, <2>4, <3>1, <3>2, <3>3, <3>4, SetNeighFine
  <2> QED
    BY <2>3, <2>4
<1>7. CASE ListNeighbors(n)
  <2> DEFINE y == [step |-> "handle", entry |-> kern[n]]
  <2>1. /\ kern' = kern /\ link' = link /\ refresh' = refresh /\ updates' = updates
        /\ timers' = timers /\ raced' = raced /\ sub' = sub /\ bpf' = bpf
        /\ sync' = [sync EXCEPT ![n] = y]
    BY <1>7 DEF ListNeighbors, config, calm
  <2>2. y \in [step : {"idle", "list", "handle"}, entry : Known] /\ y.step = "handle" /\ y.entry = kern[n]
    BY <1>1 DEF NeighTypeOK
  <2> HIDE DEF y
  <2>3. sync'[n] = y /\ \A m \in Nodes \ {n} : sync'[m] = sync[m]
    BY <1>1, <2>1 DEF NeighTypeOK
  <2>4. NeighTypeOK'
    BY <1>1, <2>1, <2>2 DEF NeighTypeOK
  <2>5. FineAt(n)'
    BY <1>1, <2>1, <2>2, <2>3 DEF FineAt, Fine
  <2> QED
    BY <2>1, <2>3, <2>4, <2>5, OthersFine
<1>8. CASE HandleListed(n)
  <2> DEFINE e == sync[n].entry
  <2>1. /\ kern' = kern /\ link' = link /\ refresh' = refresh /\ updates' = updates
        /\ raced' = raced /\ sub' = sub /\ bpf' = bpf /\ sync[n].step = "handle"
        /\ sync' = [sync EXCEPT ![n] = Resting] /\ handleNeighborAdd(n, e)
    BY <1>8 DEF HandleListed, config
  <2>2. /\ e.state = "extern_learned" => timers' = [timers EXCEPT ![n] = NoMac]
        /\ e.state = "reachable" => timers' = [timers EXCEPT ![n] = e.mac]
        /\ e.state \notin {"extern_learned", "reachable"} => timers' = timers
    BY <2>1 DEF handleNeighborAdd, deleteTimerIfExists, createTimerIfNotExists
  <2>3. e.mac \in Macs \cup {NoMac} /\ (~raced[n] => e = kern[n])
    BY <1>1, <2>1 DEF NeighTypeOK, Known, FineAt, Fine
  <2>4. timers \in [Nodes -> Macs \cup {NoMac}]
    BY <1>1 DEF NeighTypeOK
  <2> HIDE DEF e
  <2>5. /\ timers' \in [Nodes -> Macs \cup {NoMac}]
        /\ \A m \in Nodes \ {n} : timers'[m] = timers[m]
        /\ e.state = "reachable" => timers'[n] = e.mac
        /\ e.state = "extern_learned" => timers'[n] = NoMac
    <3>1. CASE e.state = "extern_learned"
      BY <2>2, <2>4, <3>1
    <3>2. CASE e.state = "reachable"
      BY <2>2, <2>3, <2>4, <3>2
    <3>3. CASE e.state \notin {"extern_learned", "reachable"}
      BY <2>2, <2>4, <3>3
    <3> QED
      BY <3>1, <3>2, <3>3
  <2>6. sync'[n] = Resting /\ \A m \in Nodes \ {n} : sync'[m] = sync[m]
    BY <1>1, <2>1 DEF NeighTypeOK
  <2>7. NeighTypeOK'
    <3>1. sync' \in [Nodes -> [step : {"idle", "list", "handle"}, entry : Known]]
      BY <1>1, <2>1, RestFields DEF NeighTypeOK
    <3> QED
      BY <1>1, <2>1, <2>5, <3>1 DEF NeighTypeOK
  <2>8. FineAt(n)'
    BY <1>1, <2>1, <2>3, <2>5, <2>6, RestFields DEF FineAt, Fine
  <2> QED
    BY <2>1, <2>5, <2>6, <2>7, <2>8, OthersFine
<1> QED
  BY <1>2, <1>3, <1>4, <1>5, <1>6, <1>7, <1>8

\* The world and the caller.
LEMMA WorldFine ==
  ASSUME NeighInv, NEW n \in Nodes, World(n)
  PROVE  NeighInv'
<1>1. NeighTypeOK /\ FineAt(n)
  BY DEF NeighInv
<1>2. ASSUME NEW e \in Entries, KernelChanges(n, e) PROVE NeighInv'
  <2>1. /\ SetNeigh(n, e) /\ link[n] /\ link' = link /\ refresh' = refresh /\ timers' = timers
        /\ sub' = sub /\ sync' = sync /\ bpf' = bpf
    BY <1>2 DEF KernelChanges, config
  <2>2. e \in Known
    BY RestFields DEF Entries, Known
  <2> DEFINE l == link'
  <2>3. l = link /\ l \in [Nodes -> BOOLEAN]
    BY <1>1, <2>1 DEF NeighTypeOK
  <2>4. bpf' \in [Nodes -> [step : {"idle", "set"}, mac : Macs \cup {NoMac}, changed : BOOLEAN]]
    BY <1>1, <2>1 DEF NeighTypeOK
  <2>5. l = link'
    OBVIOUS
  <2> HIDE DEF l
  <2> QED
    BY <2>1, <2>2, <2>3, <2>4, <2>5, SetNeighFine
<1>3. ASSUME NEW mac \in Macs, PodSpeaks(n, mac) PROVE NeighInv'
  <2>1. /\ kern' = kern /\ link' = link /\ refresh' = refresh /\ updates' = updates /\ sync' = sync
        /\ timers' = timers /\ raced' = raced /\ sub' = sub /\ bpf' = bpf
    BY <1>3 DEF PodSpeaks, config
  <2> QED
    BY <2>1 DEF NeighInv, NeighTypeOK, FineAt
<1>4. CASE LinkGoes(n)
  <2> DEFINE l == link'
  <2>1. /\ l = [link EXCEPT ![n] = FALSE] /\ refresh' = refresh /\ timers' = timers
        /\ sub' = sub /\ sync' = sync /\ bpf' = bpf
    BY <1>4 DEF LinkGoes
  <2>2. /\ l \in [Nodes -> BOOLEAN] /\ l[n] = FALSE /\ \A m \in Nodes \ {n} : l[m] = link[m]
    BY <1>1, <2>1 DEF NeighTypeOK
  <2>3. bpf' \in [Nodes -> [step : {"idle", "set"}, mac : Macs \cup {NoMac}, changed : BOOLEAN]]
    BY <1>1, <2>1 DEF NeighTypeOK
  <2>4. l = link'
    OBVIOUS
  <2> HIDE DEF l
  <2>5. CASE kern[n] # NoNeigh
    <3>1. SetNeigh(n, NoNeigh)
      BY <1>4, <2>5 DEF LinkGoes
    <3> DEFINE e == NoNeigh
    <3>2. e \in Known /\ e = NoNeigh
      BY RestFields
    <3>3. SetNeigh(n, e)
      BY <3>1
    <3>4. /\ refresh' = refresh /\ timers' = timers /\ sub' = sub /\ sync' = sync
          /\ l \in [Nodes -> BOOLEAN] /\ \A m \in Nodes \ {n} : l[m] = link[m]
      BY <2>1, <2>2
    <3> HIDE DEF e
    <3> QED
      BY <2>3, <2>4, <3>2, <3>3, <3>4, SetNeighFine
  <2>6. CASE kern[n] = NoNeigh
    <3>1. kern' = kern /\ updates' = updates /\ raced' = raced
      BY <1>4, <2>6 DEF LinkGoes
    <3>2. link' \in [Nodes -> BOOLEAN] /\ \A m \in Nodes \ {n} : link'[m] = link[m]
      BY <2>2, <2>4
    <3>3. /\ refresh' = refresh /\ timers' = timers /\ sub' = sub /\ sync' = sync /\ bpf' = bpf
      BY <2>1
    <3>4. NeighTypeOK'
      BY <1>1, <3>1, <3>2, <3>3 DEF NeighTypeOK
    <3>5. FineAt(n)'
      BY <1>1, <2>6, <3>1, <3>3 DEF FineAt, Fine
    <3> QED
      BY <3>1, <3>4, <3>5, <3>2, <3>3, OthersFine
  <2> QED
    BY <2>5, <2>6
<1>5. CASE ChannelCloses(n)
  <2>1. /\ kern' = kern /\ link' = link /\ refresh' = refresh /\ timers' = timers /\ sync' = sync
        /\ bpf' = bpf /\ sub' = [sub EXCEPT ![n] = "closed"]
        /\ updates' = [updates EXCEPT ![n] = <<>>]
        /\ raced' = [raced EXCEPT ![n] = raced[n] \/ updates[n] # <<>>]
    BY <1>5 DEF ChannelCloses, config
  <2>2. updates' \in [Nodes -> Seq(Known)]
    BY <1>1, <2>1 DEF NeighTypeOK
  <2>3. raced' \in [Nodes -> BOOLEAN]
    BY <1>1, <2>1 DEF NeighTypeOK
  <2>4. NeighTypeOK'
    BY <1>1, <2>1, <2>2, <2>3 DEF NeighTypeOK
  <2>5. sub'[n] = "closed" /\ \A m \in Nodes \ {n} : sub'[m] = sub[m] /\ updates'[m] = updates[m]
    BY <1>1, <2>1 DEF NeighTypeOK
  <2>6. /\ raced'[n] = (raced[n] \/ updates[n] # <<>>)
        /\ \A m \in Nodes \ {n} : raced'[m] = raced[m]
    BY <1>1, <2>1 DEF NeighTypeOK
  <2>7. ~raced'[n] => ~raced[n]
    BY Zenon, <2>6
  <2>8. FineAt(n)'
    BY <1>1, <2>1, <2>5, <2>7 DEF FineAt, Fine
  <2> QED
    BY <2>1, <2>4, <2>5, <2>6, <2>8, OthersFine
<1>6. CASE SubscribeFails(n)
  <2>1. /\ kern' = kern /\ link' = link /\ refresh' = refresh /\ timers' = timers /\ sync' = sync
        /\ bpf' = bpf /\ updates' = updates /\ raced' = raced /\ sub' = [sub EXCEPT ![n] = "dead"]
    BY <1>6 DEF SubscribeFails, config
  <2>2. NeighTypeOK'
    BY <1>1, <2>1 DEF NeighTypeOK
  <2>3. sub'[n] = "dead" /\ \A m \in Nodes \ {n} : sub'[m] = sub[m]
    BY <1>1, <2>1 DEF NeighTypeOK
  <2>4. FineAt(n)'
    BY <1>1, <2>1, <2>3 DEF FineAt, Fine
  <2> QED
    BY <2>1, <2>2, <2>3, <2>4, OthersFine
<1>7. CASE EnsureARPRefresh(n) \/ EnsureNeighborSuppression(n)
  <2> DEFINE y == [sync[n] EXCEPT !.step = "list"]
  <2>1. /\ kern' = kern /\ link' = link /\ timers' = timers /\ updates' = updates /\ raced' = raced
        /\ sub' = sub /\ bpf' = bpf
    BY <1>7 DEF EnsureARPRefresh, EnsureNeighborSuppression, calm
  <2>2. /\ sync' = [sync EXCEPT ![n] = y] \/ (sync' = sync /\ refresh' = refresh)
        /\ refresh' = [refresh EXCEPT ![n] = TRUE] \/ refresh' = refresh
    BY <1>7 DEF EnsureARPRefresh, EnsureNeighborSuppression
  <2>3. y \in [step : {"idle", "list", "handle"}, entry : Known] /\ y.step = "list"
    <3>1. sync[n] \in [step : {"idle", "list", "handle"}, entry : Known]
      BY <1>1 DEF NeighTypeOK
    <3>2. \A x \in [step : {"idle", "list", "handle"}, entry : Known] :
            /\ [x EXCEPT !.step = "list"] \in [step : {"idle", "list", "handle"}, entry : Known]
            /\ [x EXCEPT !.step = "list"].step = "list"
      OBVIOUS
    <3> QED
      BY Zenon, <3>1, <3>2
  <2> HIDE DEF y
  <2>4. /\ sync' \in [Nodes -> [step : {"idle", "list", "handle"}, entry : Known]]
        /\ sync'[n] = y \/ (sync'[n] = sync[n] /\ refresh' = refresh)
        /\ \A m \in Nodes \ {n} : sync'[m] = sync[m]
    <3>1. sync \in [Nodes -> [step : {"idle", "list", "handle"}, entry : Known]]
      BY <1>1 DEF NeighTypeOK
    <3>2. CASE sync' = [sync EXCEPT ![n] = y]
      BY <2>3, <3>1, <3>2
    <3>3. CASE sync' = sync /\ refresh' = refresh
      BY <3>1, <3>3
    <3> QED
      BY <2>2, <3>2, <3>3
  <2>5. /\ refresh' \in [Nodes -> BOOLEAN]
        /\ \A m \in Nodes \ {n} : refresh'[m] = refresh[m]
    <3>1. CASE refresh' = [refresh EXCEPT ![n] = TRUE]
      BY <1>1, <3>1 DEF NeighTypeOK
    <3>2. CASE refresh' = refresh
      BY <1>1, <3>2 DEF NeighTypeOK
    <3> QED
      BY <2>2, <3>1, <3>2
  <2>6. NeighTypeOK'
    BY <1>1, <2>1, <2>4, <2>5 DEF NeighTypeOK
  <2>7. FineAt(n)'
    BY <1>1, <2>1, <2>3, <2>4 DEF FineAt, Fine
  <2> QED
    BY <2>1, <2>4, <2>5, <2>6, <2>7, OthersFine
<1>8. CASE DisableARPRefresh(n) \/ DisableNeighborSuppression(n)
  <2>1. /\ kern' = kern /\ link' = link /\ timers' = timers /\ updates' = updates /\ raced' = raced
        /\ sub' = sub /\ bpf' = bpf /\ sync' = sync
        /\ refresh' = [refresh EXCEPT ![n] = FALSE] \/ refresh' = refresh
    BY <1>8 DEF DisableARPRefresh, DisableNeighborSuppression
  <2>2. /\ refresh' \in [Nodes -> BOOLEAN] /\ (refresh'[n] => refresh[n])
        /\ \A m \in Nodes \ {n} : refresh'[m] = refresh[m]
    <3>1. CASE refresh' = [refresh EXCEPT ![n] = FALSE]
      BY <1>1, <3>1 DEF NeighTypeOK
    <3>2. CASE refresh' = refresh
      BY <1>1, <3>2 DEF NeighTypeOK
    <3> QED
      BY <2>1, <3>1, <3>2
  <2>3. NeighTypeOK'
    BY <1>1, <2>1, <2>2 DEF NeighTypeOK
  <2>4. FineAt(n)'
    BY <1>1, <2>1, <2>2 DEF FineAt, Fine
  <2> QED
    BY <2>1, <2>2, <2>3, <2>4, OthersFine
<1> QED
  BY <1>2, <1>3, <1>4, <1>5, <1>6, <1>7, <1>8 DEF World

\* The comment on handleNeighborAdd (neighborsync.go): a neighbour that became
\* extern_learned is no longer refreshed by this instance, a reachable one is -
\* on every node and however messages, closed subscriptions, listings, events
\* of the BPF program and calls interleave, except after the kernel changed
\* under a listing or without a subscription.
THEOREM NeighborsAreRefreshed == NeighSpec => []Refreshed
<1>1. NeighInv /\ [NeighNext]_neighVars => NeighInv'
  <2> SUFFICES ASSUME NeighInv, [NeighNext]_neighVars PROVE NeighInv'
    OBVIOUS
  <2>1. CASE UNCHANGED neighVars
    BY <2>1 DEF neighVars, NeighInv, NeighTypeOK, FineAt
  <2>2. ASSUME NEW n \in Nodes, Step(n) PROVE NeighInv'
    BY <2>2, processUpdateFine, GoroutinesFine DEF Step
  <2>3. ASSUME NEW n \in Nodes, World(n) PROVE NeighInv'
    BY <2>3, WorldFine
  <2> QED
    BY <2>1, <2>2, <2>3 DEF NeighNext
<1>2. NeighInv => Refreshed
  BY DEF NeighInv, FineAt, Fine, Refreshed
<1> QED
  BY <1>1, <1>2, InitNeighInv, PTL DEF NeighSpec
=============================================================================
