------------------------------ MODULE Debounce ------------------------------
(***************************************************************************)
(* pkg/debounce/debounce.go: the Debouncer through which every reconciler  *)
(* of the operator runs its work.  Callers (controller-runtime workers)    *)
(* and the goroutine interleave at the granularity of the atomic loads,    *)
(* stores and compare-and-swaps of the code.                               *)
(*                                                                         *)
(* The debounced function belongs to the caller of NewDebouncer; here it   *)
(* starts, and later returns nil or an error.                              *)
(***************************************************************************)
EXTENDS Naturals, FiniteSets

CONSTANTS Callers,      \* goroutines that call Debounce
          Goroutines    \* identities for the goroutines that Debounce spawns

ASSUME CallersAssumption == Callers # {}
ASSUME GoroutinesAssumption == Goroutines # {}

VARIABLES
    scheduled,               \* Debouncer.scheduled
    calledDuringExecution,   \* Debouncer.calledDuringExecution
    caller,                  \* caller[c]: where c is inside Debounce
    routine,                 \* routine[g]: where g is inside debounceRoutine
    stopped,                 \* the internal context is cancelled
    request                  \* history: what became of one arbitrary call

vars == <<scheduled, calledDuringExecution, caller, routine, stopped, request>>

CallerPC == {"out", "cas"}
RoutinePC == {"none", "sleep", "call", "run", "check", "reset"}

(***************************************************************************)
(* "asked":   the tracked call was made and no execution began since;      *)
(* "covered": an execution that began after the call is under way;         *)
(* "none":    no call is tracked, or such an execution returned nil.       *)
(***************************************************************************)
RequestState == {"none", "asked", "covered"}

TypeOK ==
    /\ scheduled \in BOOLEAN
    /\ calledDuringExecution \in BOOLEAN
    /\ caller \in [Callers -> CallerPC]
    /\ routine \in [Goroutines -> RoutinePC]
    /\ stopped \in BOOLEAN
    /\ request \in RequestState

Alive(g) == routine[g] # "none"

Init ==
    /\ scheduled = FALSE
    /\ calledDuringExecution = FALSE
    /\ caller = [c \in Callers |-> "out"]
    /\ routine = [g \in Goroutines |-> "none"]
    /\ stopped = FALSE
    /\ request = "none"

-----------------------------------------------------------------------------
\* Debounce: the flag is raised before anything else.
DebounceStore(c) ==
    /\ caller[c] = "out"
    /\ caller' = [caller EXCEPT ![c] = "cas"]
    /\ calledDuringExecution' = TRUE
    /\ \/ request' = request
       \/ request = "none" /\ request' = "asked"
    /\ UNCHANGED <<scheduled, routine, stopped>>

\* Mutant: scheduled is loaded and tested, but the swap is lost.
DebounceNoSwap(c) ==
    /\ caller[c] = "cas"
    /\ caller' = [caller EXCEPT ![c] = "out"]
    /\ IF scheduled
       THEN UNCHANGED routine
       ELSE \E g \in Goroutines :
                /\ ~Alive(g)
                /\ routine' = [routine EXCEPT ![g] = "sleep"]
    /\ UNCHANGED <<scheduled, calledDuringExecution, stopped, request>>

\* Debounce: CompareAndSwap(false, true) on scheduled; the winner spawns.
DebounceCAS(c) ==
    /\ caller[c] = "cas"
    /\ caller' = [caller EXCEPT ![c] = "out"]
    /\ IF scheduled
       THEN UNCHANGED <<scheduled, routine>>
       ELSE /\ scheduled' = TRUE
            /\ \E g \in Goroutines :
                   /\ ~Alive(g)
                   /\ routine' = [routine EXCEPT ![g] = "sleep"]
    /\ UNCHANGED <<calledDuringExecution, stopped, request>>

-----------------------------------------------------------------------------
\* time.Sleep returns and the flag is cleared.
ClearFlag(g) ==
    /\ routine[g] = "sleep"
    /\ routine' = [routine EXCEPT ![g] = "call"]
    /\ calledDuringExecution' = FALSE
    /\ UNCHANGED <<scheduled, caller, stopped, request>>

\* The function starts: from here on it may read the state of the cluster.
StartFunction(g) ==
    /\ routine[g] = "call"
    /\ routine' = [routine EXCEPT ![g] = "run"]
    /\ request' = IF request = "asked" THEN "covered" ELSE request
    /\ UNCHANGED <<scheduled, calledDuringExecution, caller, stopped>>

\* Mutant: the flag is cleared after the function instead of before it.
FunctionSucceedsClears(g) ==
    /\ routine[g] = "run"
    /\ routine' = [routine EXCEPT ![g] = "check"]
    /\ request' = IF request = "covered" THEN "none" ELSE request
    /\ calledDuringExecution' = FALSE
    /\ UNCHANGED <<scheduled, caller, stopped>>

\* The function returns nil.
FunctionSucceeds(g) ==
    /\ routine[g] = "run"
    /\ routine' = [routine EXCEPT ![g] = "check"]
    /\ request' = IF request = "covered" THEN "none" ELSE request
    /\ UNCHANGED <<scheduled, calledDuringExecution, caller, stopped>>

\* The function returns an error: the loop sleeps and tries again.
FunctionFails(g) ==
    /\ routine[g] = "run"
    /\ routine' = [routine EXCEPT ![g] = "sleep"]
    /\ request' = IF request = "covered" THEN "asked" ELSE request
    /\ UNCHANGED <<scheduled, calledDuringExecution, caller, stopped>>

\* CompareAndSwap(true, false) on the flag: run again, or go on to reset.
CheckFlag(g) ==
    /\ routine[g] = "check"
    /\ routine' = [routine EXCEPT ![g] =
                       IF calledDuringExecution THEN "sleep" ELSE "reset"]
    /\ calledDuringExecution' = FALSE
    /\ UNCHANGED <<scheduled, caller, stopped, request>>

\* Mutant: the goroutine ends without giving scheduled back.
ResetForgets(g) ==
    /\ routine[g] = "reset"
    /\ routine' = [routine EXCEPT ![g] = "none"]
    /\ UNCHANGED <<scheduled, calledDuringExecution, caller, stopped, request>>

\* scheduled.Store(false), and the goroutine ends.
ResetScheduled(g) ==
    /\ routine[g] = "reset"
    /\ routine' = [routine EXCEPT ![g] = "none"]
    /\ scheduled' = FALSE
    /\ UNCHANGED <<calledDuringExecution, caller, stopped, request>>

\* Stop: cancels the internal context, and nothing else.
Stop ==
    /\ ~stopped
    /\ stopped' = TRUE
    /\ UNCHANGED <<scheduled, calledDuringExecution, caller, routine, request>>

RoutineStep(g) ==
    \/ ClearFlag(g)
    \/ StartFunction(g)
    \/ FunctionSucceeds(g)
    \/ FunctionFails(g)
    \/ CheckFlag(g)
    \/ ResetScheduled(g)

Next ==
    \/ \E c \in Callers : DebounceStore(c) \/ DebounceCAS(c)
    \/ \E g \in Goroutines : RoutineStep(g)
    \/ Stop

Spec == Init /\ [][Next]_vars

(***************************************************************************)
(* The Go scheduler runs every goroutine that can run.  The function may   *)
(* fail any number of times, but not forever while its context lives.      *)
(***************************************************************************)
GoScheduling ==
    /\ \A c \in Callers : WF_vars(DebounceCAS(c))
    /\ \A g \in Goroutines :
           /\ WF_vars(RoutineStep(g))
           /\ SF_vars(~stopped /\ FunctionSucceeds(g))

FairSpec == Spec /\ GoScheduling

(***************************************************************************)
(* The controllers return RequeueAfter (config_controller.go, requeueTime) *)
(* so each of them calls Debounce again and again.                         *)
(***************************************************************************)
RequeueSpec == FairSpec /\ \A c \in Callers : WF_vars(DebounceStore(c))

-----------------------------------------------------------------------------
\* The debounced function never runs in two goroutines at once, whatever the
\* callers do: scheduled is a lock that only its holder releases.
NeverConcurrent ==
    \A g, h \in Goroutines : Alive(g) /\ Alive(h) => g = h

\* A call that no execution has covered is remembered by the flag, unless a
\* goroutine has yet to start the function and will cover it.  This is what
\* clearing calledDuringExecution before the function is called is for.
FlagRemembersCall ==
    request = "asked" =>
        \/ calledDuringExecution
        \/ \E g \in Goroutines : routine[g] \in {"sleep", "call"}

\* While the controllers keep requeuing, every call is followed by an
\* execution that began after it and succeeded, unless the debouncer stops.
CallsAreServed ==
    (request = "asked") ~> (request = "none" \/ stopped)

\* "a debounce during running execution (scheduled is still true,
\* calledDuringExecution will be true) will run the debounced routine once
\* again" (comment in Debounce): a call that no execution covers always
\* leaves somebody behind who will start one.
CallRunsRoutineAgain ==
    request = "asked" =>
        \/ \E g \in Goroutines : Alive(g)
        \/ \E c \in Callers : caller[c] = "cas"
=============================================================================
