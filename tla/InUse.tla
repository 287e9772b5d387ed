-------------------------------- MODULE InUse --------------------------------
(***************************************************************************)
(* The in-use finalizers of the intent reconciler                          *)
(* (pkg/reconciler/intent/finalizer).  Every pass sweeps over the objects: *)
(* it puts a finalizer on each VRF, Network, Destination and Collector     *)
(* that an active object uses, and takes it off the others, working on the *)
(* lists fetched at its start.                                             *)
(***************************************************************************)
EXTENDS Naturals, Sequences, FiniteSets

CONSTANTS
  Objects,    \* VRFs, Networks, Destinations, Collectors and their users
  KindOf,     \* object -> its kind
  Refs,       \* object -> the objects it uses: vrfRef, networkRef, the
              \* Destinations its selector matches, its Collector
  MaxEdits    \* bound on creations and deletions

VARIABLES
  obj,    \* object -> NoObj or [uid, rv, deleting, fin]
  sweep,  \* the running sweep of the finalizer manager
  seen,   \* <<user, target>> pairs the last completed sweep found in use
  edits

useVars == <<obj, sweep, seen, edits>>

NoObj == [uid |-> 0, rv |-> 0, deleting |-> FALSE, fin |-> FALSE]
Order == <<"VRF", "Network", "Destination", "Collector">>
OfKind(k) == {o \in Objects : KindOf[o] = k}
Present(view) == {o \in Objects : view[o] # NoObj}
Active(view) == {o \in Present(view) : ~view[o].deleting}
NoSweep == [at |-> 0]

\* Mutant: objects being deleted are not listed.
ListedActive(view, k) == OfKind(k) \cap Active(view)

\* fetchAll keeps the objects being deleted for VRFs, Networks and
\* Destinations (AllVRFs, AllNetworks, AllDestinations); every other list,
\* the Collectors' too, holds the active ones.
Listed(view, k) ==
  OfKind(k) \cap (IF k = "Collector" THEN Active(view) ELSE Present(view))

\* Mutant: an object being deleted counts as unused.
UsedUnlessDeleting(view, t) == ~view[t].deleting /\ \E u \in Active(view) : t \in Refs[u]

Used(view, t) == \E u \in Active(view) : t \in Refs[u]

UseInit ==
  /\ obj = [o \in Objects |-> NoObj]
  /\ sweep = NoSweep
  /\ seen = {}
  /\ edits = 0

StartPass ==
  /\ sweep = NoSweep
  /\ sweep' = [at |-> 1, view |-> obj, todo |-> Listed(obj, Order[1])]
  /\ UNCHANGED <<obj, seen, edits>>

\* The next kind; after the Collectors the manager is done.
NextKind ==
  /\ sweep # NoSweep /\ sweep.todo = {}
  /\ IF sweep.at = Len(Order)
     THEN /\ sweep' = NoSweep
          /\ seen' = {p \in (Active(sweep.view) \cap Active(obj)) \X Active(sweep.view) :
                        p[2] \in Refs[p[1]]}
     ELSE /\ sweep' = [sweep EXCEPT !.at = @ + 1,
                        !.todo = Listed(sweep.view, Order[sweep.at + 1])]
          /\ UNCHANGED seen
  /\ UNCHANGED <<obj, edits>>

Newer(e, deleting, fin) ==
  [uid |-> e.uid, rv |-> e.rv + 1, deleting |-> deleting, fin |-> fin]

\* The API server: an update needs the current version, no finalizer is
\* added to an object being deleted, and one that loses its last is gone.
Stored(o, fin) ==
  obj' = [obj EXCEPT ![o] = IF @.deleting /\ ~fin THEN NoObj
                            ELSE Newer(@, @.deleting, fin)]

Accepts(o, fin) ==
  /\ obj[o] # NoObj /\ obj[o].uid = sweep.view[o].uid /\ obj[o].rv = sweep.view[o].rv
  /\ ~(fin /\ obj[o].deleting)

\* Add or remove; a refused update ends the manager's work in this sweep.
ReconcileFinalizer(o) ==
  /\ sweep # NoSweep /\ o \in sweep.todo
  /\ LET used == Used(sweep.view, o)
     IN  IF used = sweep.view[o].fin
         THEN sweep' = [sweep EXCEPT !.todo = @ \ {o}] /\ UNCHANGED obj
         ELSE \/ /\ Accepts(o, used) /\ Stored(o, used)
                 /\ sweep' = [sweep EXCEPT !.todo = @ \ {o}]
              \/ /\ ~Accepts(o, used)
                 /\ sweep' = NoSweep /\ UNCHANGED obj
  /\ UNCHANGED <<seen, edits>>

\* Users create and delete.
Create(o) ==
  /\ obj[o] = NoObj /\ edits < MaxEdits
  /\ obj' = [obj EXCEPT ![o] = [uid |-> edits + 1, rv |-> 1, deleting |-> FALSE, fin |-> FALSE]]
  /\ edits' = edits + 1
  /\ UNCHANGED <<sweep, seen>>

Delete(o) ==
  /\ obj[o] # NoObj /\ ~obj[o].deleting /\ edits < MaxEdits
  /\ obj' = [obj EXCEPT ![o] = IF @.fin THEN Newer(@, TRUE, TRUE) ELSE NoObj]
  /\ seen' = {p \in seen : p[1] # o}
  /\ edits' = edits + 1
  /\ UNCHANGED sweep

UseNext ==
  \/ StartPass \/ NextKind
  \/ \E o \in Objects : ReconcileFinalizer(o) \/ Create(o) \/ Delete(o)

\* Every change of an object triggers a sweep, which ends.
UseFairness ==
  /\ WF_useVars(StartPass) /\ WF_useVars(NextKind)
  /\ \A o \in Objects : WF_useVars(ReconcileFinalizer(o))

UseSpec == UseInit /\ [][UseNext]_useVars /\ UseFairness

\* What is used is a VRF, a Network, a Destination or a Collector.
RefsAreListed ==
  \A u \in Objects : \A t \in Refs[u] :
    t \in Objects /\ \E i \in 1 .. 4 : KindOf[t] = Order[i]

-----------------------------------------------------------------------------
\* What a completed sweep found in use stays while its user stays: whatever is
\* created, deleted or updated meanwhile, and even when its own deletion has
\* been requested.
UsedStays == \A p \in seen : obj[p[2]] # NoObj

\* A VRF, Network or Destination whose deletion was requested goes away once
\* nothing active uses it.
DeletedGoes ==
  \A o \in {x \in Objects : KindOf[x] \in {"VRF", "Network", "Destination"}} :
    (<>[](obj[o].deleting => ~Used(obj, o))) => []<>(~obj[o].deleting)
=============================================================================
