--------------------------- MODULE RolloutProofs ---------------------------
(***************************************************************************)
(* Proofs about RevisionRollout, for any number of nodes, revisions and    *)
(* threads, and for any number of changes, creations and faults.           *)
(***************************************************************************)
EXTENDS RevisionRollout, FiniteSetTheorems, TLAPS

RevisionObjects ==
  [revision : Revisions, uid : Nat, isInvalid : BOOLEAN, ready : Nat, total : Nat]

\* A list of revisions: neither a uid nor a name belongs to two of them.
Sound(list, c) ==
  /\ list \subseteq RevisionObjects
  /\ \A o \in list : o.uid <= c
  /\ \A o, p \in list : o.uid = p.uid \/ o.revision = p.revision => o = p

\* Two lists of different times: a uid keeps its name.
Agree(list, other) ==
  \A o \in list, p \in other : o.uid = p.uid => o.revision = p.revision

Seen(s) ==
  /\ s = [revs |-> s.revs, ready |-> s.ready, nnc |-> s.nnc, owner |-> s.owner,
          expired |-> s.expired, isInvalid |-> s.isInvalid]
  /\ s.ready \subseteq Nodes

ThreadOK(x) ==
  /\ x = [at |-> x.at, revision |-> x.revision]
  /\ x.at # "idle" => x.revision \in Revisions

NodeObjects == {x \in Object : ~x.exists => x = Absent}

\* What a pass is about to deploy is a revision that nobody has marked.
DeployOK ==
  /\ deploy.nodes \subseteq Nodes
  /\ pc = "deploy" =>
       /\ deploy.revision \in Revisions
       /\ \A o \in revs : o.revision = deploy.revision => o.isInvalid = FALSE

RevsOK ==
  /\ created \in Nat
  /\ Sound(revs, created) /\ Sound(seen.revs, created) /\ Agree(revs, seen.revs)

RolloutInv ==
  /\ RevsOK
  /\ Seen(seen)
  /\ nnc \in [Nodes -> NodeObjects]
  /\ ready \subseteq Nodes /\ config \in Revisions
  /\ DOMAIN thread = Threads /\ \A t \in Threads : ThreadOK(thread[t])
  /\ DeployOK

-----------------------------------------------------------------------------
\* A list with an object has a newest one, because uids are bounded.
LEMMA NewestOfList ==
  ASSUME NEW list, list # {}, NEW c \in Nat, \A o \in list : o.uid \in Nat /\ o.uid <= c
  PROVE  Newest(list) \in list /\ \A p \in list : p.uid <= Newest(list).uid
<1> DEFINE T == {c - o.uid : o \in list}
           R == OpToRel(<, Nat)
<1>1. T \subseteq Nat /\ T # {}
  OBVIOUS
<1> HIDE DEF T
<1>2. PICK x \in T : \A y \in T : ~(<<y, x>> \in R)
  BY <1>1, NatLessThanWellFounded, WFMin, Zenon
<1>3. \A y \in T : ~(y < x)
  BY <1>1, <1>2 DEF OpToRel
<1>4. PICK o \in list : x = c - o.uid
  BY DEF T
<1>5. ASSUME NEW p \in list PROVE p.uid <= o.uid
  <2>1. c - p.uid \in T
    BY DEF T
  <2>2. ~(c - p.uid < c - o.uid)
    BY <2>1, <1>3, <1>4
  <2> QED
    BY <2>2
<1> QED
  BY <1>5 DEF Newest

\* The revision to deploy is a valid one of the list.
LEMMA FirstValidIsValid ==
  ASSUME NEW list, NEW c \in Nat, \A o \in list : o.uid \in Nat /\ o.uid <= c,
         Valid(list) # {}
  PROVE  FirstValid(list) \in list /\ ~FirstValid(list).isInvalid
<1>1. \A o \in Valid(list) : o \in list /\ ~o.isInvalid /\ o.uid \in Nat /\ o.uid <= c
  BY DEF Valid
<1>2. FirstValid(list) \in Valid(list)
  BY <1>1, NewestOfList DEF FirstValid
<1> QED
  BY <1>1, <1>2

\* invalidateRevision changes nothing but the mark.
LEMMA MarkedObject ==
  ASSUME NEW o \in RevisionObjects, NEW us
  PROVE  LET m == [o EXCEPT !.isInvalid = @ \/ o.uid \in us]
         IN  /\ m \in RevisionObjects /\ m.uid = o.uid /\ m.revision = o.revision
             /\ o.isInvalid => m.isInvalid
<1> DEFINE b == o.isInvalid \/ o.uid \in us
<1>1. b \in BOOLEAN /\ (o.isInvalid => b)
  OBVIOUS
<1> HIDE DEF b
<1>2. /\ [o EXCEPT !.isInvalid = b] \in RevisionObjects
      /\ [o EXCEPT !.isInvalid = b].uid = o.uid
      /\ [o EXCEPT !.isInvalid = b].revision = o.revision
      /\ [o EXCEPT !.isInvalid = b].isInvalid = b
  BY <1>1 DEF RevisionObjects
<1> QED
  BY <1>1, <1>2 DEF b

\* A list whose objects are rewritten under their uids and names stays sound.
LEMMA RewrittenList ==
  ASSUME NEW c \in Nat, NEW list, Sound(list, c), NEW f,
         \A o \in list : /\ f[o] \in RevisionObjects
                         /\ f[o].uid = o.uid /\ f[o].revision = o.revision,
         NEW new, \A m \in new : \E o \in list : m = f[o]
  PROVE  Sound(new, c) /\ \A other : Agree(list, other) => Agree(new, other)
  BY DEF Sound, Agree

\* So does a list that loses some of its objects.
LEMMA ShorterList ==
  ASSUME NEW c, NEW list, Sound(list, c), NEW new \in SUBSET list
  PROVE  Sound(new, c) /\ \A other : Agree(list, other) => Agree(new, other)
  BY DEF Sound, Agree

\* The end of a pass forgets its lists and what it meant to deploy.
LEMMA EndOfPass ==
  ASSUME RolloutInv, created' = created, Sound(revs', created), EndPass
  PROVE  RevsOK' /\ Seen(seen') /\ DeployOK'
<1>1. seen' = NothingSeen /\ deploy' = NothingToDeploy /\ pc' = "idle"
  BY DEF EndPass
<1>2. seen'.revs = {} /\ Seen(seen') /\ deploy'.nodes = {}
  BY <1>1 DEF NothingSeen, NothingToDeploy, Seen
<1>3. Sound({}, created) /\ Agree(revs', {})
  BY DEF Sound, Agree
<1> QED
  BY <1>1, <1>2, <1>3 DEF RolloutInv, RevsOK, DeployOK

\* A step that leaves the pass alone and marks no revision.
LEMMA PassKept ==
  ASSUME RolloutInv, created' = created, Sound(revs', created), Agree(revs', seen.revs),
         UNCHANGED pass, revs' \subseteq revs
  PROVE  RevsOK' /\ Seen(seen') /\ DeployOK'
  BY DEF RolloutInv, RevsOK, DeployOK, pass

\* No revision and no thread at the start.
LEMMA InitInv == ASSUME Init PROVE RolloutInv
<1>1. Sound({}, 0) /\ Agree({}, {}) /\ 0 \in Nat
  BY DEF Sound, Agree
<1>2. NothingSeen.revs = {} /\ Seen(NothingSeen) /\ NothingToDeploy.nodes = {}
  BY DEF NothingSeen, NothingToDeploy, Seen
<1>3. Absent \in NodeObjects
  BY DEF Absent, NodeObjects, Object, Statuses
<1>4. DOMAIN thread = Threads /\ \A t \in Threads : ThreadOK(thread[t])
  BY DEF Init, ThreadOK
<1> QED
  BY <1>1, <1>2, <1>3, <1>4 DEF Init, RolloutInv, RevsOK, DeployOK

-----------------------------------------------------------------------------
\* ConfigReconciler.

\* A thread of the config reconciler that moves on stays well formed.
LEMMA ThreadMoves ==
  ASSUME RolloutInv, NEW t \in Threads,
         \/ Leave(t)
         \/ \E at : at # "idle" /\ thread[t].at # "idle" /\ GoTo(t, at)
         \/ thread' = [thread EXCEPT ![t] = [at |-> "list", revision |-> config]]
  PROVE  DOMAIN thread' = Threads /\ \A u \in Threads : ThreadOK(thread'[u])
<1>1. DOMAIN thread' = Threads /\ \A u \in Threads \ {t} : thread'[u] = thread[u]
  BY DEF RolloutInv, Leave, GoTo
<1>2. ThreadOK(thread'[t])
  <2>1. CASE Leave(t)
    BY <2>1 DEF RolloutInv, Leave, ThreadOK
  <2>2. CASE \E at : at # "idle" /\ thread[t].at # "idle" /\ GoTo(t, at)
    BY <2>2 DEF RolloutInv, GoTo, ThreadOK
  <2>3. CASE thread' = [thread EXCEPT ![t] = [at |-> "list", revision |-> config]]
    BY <2>3 DEF RolloutInv, ThreadOK
  <2> QED
    BY <2>1, <2>2, <2>3
<1> QED
  BY <1>1, <1>2 DEF RolloutInv

\* The config reconciler creates revisions with new names and deletes old ones.
LEMMA ThreadStep ==
  ASSUME RolloutInv, NEW t \in Threads,
         FetchConfigData(t) \/ ListRevisions(t) \/ CreateRevision(t) \/ DeleteRevision(t)
  PROVE  RolloutInv'
<1>1. CASE FetchConfigData(t)
  <2>1. DOMAIN thread' = Threads /\ \A u \in Threads : ThreadOK(thread'[u])
    BY <1>1, ThreadMoves DEF FetchConfigData
  <2>2. RevsOK' /\ Seen(seen') /\ DeployOK'
    BY <1>1, PassKept DEF FetchConfigData, RolloutInv, RevsOK, objects
  <2> QED
    BY <1>1, <2>1, <2>2 DEF FetchConfigData, RolloutInv, objects, nodes, cluster
<1>2. CASE ListRevisions(t)
  <2>1. DOMAIN thread' = Threads /\ \A u \in Threads : ThreadOK(thread'[u])
    BY <1>2, ThreadMoves DEF ListRevisions
  <2>2. RevsOK' /\ Seen(seen') /\ DeployOK'
    BY <1>2, PassKept DEF ListRevisions, RolloutInv, RevsOK, objects
  <2> QED
    BY <1>2, <2>1, <2>2 DEF ListRevisions, RolloutInv, objects, nodes, cluster
<1>3. CASE CreateRevision(t)
  <2>1. DOMAIN thread' = Threads /\ \A u \in Threads : ThreadOK(thread'[u])
    BY <1>3, ThreadMoves DEF CreateRevision
  <2>2. CASE UNCHANGED <<revs, created>>
    BY <1>3, <2>2, <2>1, PassKept DEF CreateRevision, RolloutInv, RevsOK, nodes, cluster
  <2>3. CASE /\ ~Known(revs, thread[t].revision)
             /\ revs' = revs \union {NewRevision(thread[t].revision)}
             /\ created' = created + 1
    <3> DEFINE o == NewRevision(thread[t].revision)
    <3>1. /\ o \in RevisionObjects /\ o.uid = created + 1 /\ o.isInvalid = FALSE
          /\ o.revision = thread[t].revision
      BY <1>3 DEF CreateRevision, RolloutInv, RevsOK, ThreadOK, NewRevision, RevisionObjects
    <3>2. \A p \in revs \union seen.revs :
            /\ p.uid \in Nat /\ p.uid <= created /\ p.uid # o.uid /\ p.uid <= created + 1
      BY <3>1 DEF RolloutInv, RevsOK, Sound, RevisionObjects
    <3>3. \A p \in revs : p.revision # o.revision
      BY <2>3, <3>1 DEF Known
    <3> HIDE DEF o
    <3>4. created + 1 \in Nat /\ o.uid <= created + 1
      BY <3>1 DEF RolloutInv, RevsOK
    <3>5. Sound(revs \union {o}, created + 1)
      BY <3>1, <3>2, <3>3, <3>4 DEF RolloutInv, RevsOK, Sound
    <3>6. Sound(seen.revs, created + 1) /\ Agree(revs \union {o}, seen.revs)
      BY <3>1, <3>2 DEF RolloutInv, RevsOK, Sound, Agree
    <3>7. seen' = seen /\ deploy' = deploy /\ pc' = pc /\ revs' = revs \union {o}
      BY <1>3, <2>3 DEF CreateRevision, pass, o
    <3>8. RevsOK' /\ DeployOK'
      BY <2>3, <3>1, <3>4, <3>5, <3>6, <3>7 DEF RevsOK, DeployOK, RolloutInv
    <3> QED
      BY <1>3, <2>1, <3>7, <3>8 DEF CreateRevision, RolloutInv, nodes, cluster
  <2> QED
    BY <1>3, <2>2, <2>3 DEF CreateRevision
<1>4. CASE DeleteRevision(t)
  <2>1. DOMAIN thread' = Threads /\ \A u \in Threads : ThreadOK(thread'[u])
    BY <1>4, ThreadMoves DEF DeleteRevision
  <2>2. revs' \in SUBSET revs /\ created' = created /\ UNCHANGED pass
    BY <1>4 DEF DeleteRevision
  <2>3. RevsOK' /\ Seen(seen') /\ DeployOK'
    BY <2>2, PassKept, ShorterList DEF RolloutInv, RevsOK
  <2> QED
    BY <1>4, <2>1, <2>3 DEF DeleteRevision, RolloutInv, nodes, cluster
<1> QED
  BY <1>1, <1>2, <1>3, <1>4

-----------------------------------------------------------------------------
\* The passes of ConfigRevisionReconciler.

\* Marking revisions invalid changes none of their names or revisions.
LEMMA MarkedList ==
  ASSUME NEW c \in Nat, NEW list, Sound(list, c), NEW us
  PROVE  /\ Sound(Marked(list, us), c)
         /\ \A other : Agree(list, other) => Agree(Marked(list, us), other)
         /\ \A m \in Marked(list, us) :
              \E o \in list : m.uid = o.uid /\ m.revision = o.revision
<1> DEFINE f == [o \in list |-> [o EXCEPT !.isInvalid = @ \/ o.uid \in us]]
<1>1. \A o \in list : /\ f[o] \in RevisionObjects
                     /\ f[o].uid = o.uid /\ f[o].revision = o.revision
  BY MarkedObject DEF Sound
<1>2. \A m \in Marked(list, us) : \E o \in list : m = f[o]
  BY DEF Marked
<1> HIDE DEF f
<1>3. \A m \in Marked(list, us) : \E o \in list : m.uid = o.uid /\ m.revision = o.revision
  BY <1>1, <1>2
<1>4. /\ Sound(Marked(list, us), c)
      /\ \A other : Agree(list, other) => Agree(Marked(list, us), other)
  BY <1>1, <1>2, RewrittenList
<1> QED
  BY <1>3, <1>4

\* The counters written to a status leave the identity of the revision alone.
LEMMA CountedObject ==
  ASSUME Seen(seen), NEW o \in RevisionObjects
  PROVE  /\ Counted(o) \in RevisionObjects
         /\ Counted(o).uid = o.uid /\ Counted(o).revision = o.revision
         /\ Counted(o).isInvalid <=> \E c \in Current : c.uid = o.uid /\ c.isInvalid
<1> DEFINE b == \E c \in Current : c.uid = o.uid /\ c.isInvalid
           k == Cardinality(ReadyOf(o))
           l == Cardinality(seen.ready)
<1>1. ReadyOf(o) \subseteq Nodes /\ seen.ready \subseteq Nodes /\ IsFiniteSet(Nodes)
  BY RolloutAssumption DEF ReadyOf, ConfigsOf, Seen
<1>2. k \in Nat /\ l \in Nat
  BY <1>1, FS_Subset, FS_CardinalityType
<1>3. b \in BOOLEAN
  OBVIOUS
<1> HIDE DEF b, k, l
<1>4. LET m == [o EXCEPT !.isInvalid = b, !.ready = k, !.total = l]
      IN  m \in RevisionObjects /\ m.uid = o.uid /\ m.revision = o.revision /\ m.isInvalid = b
  BY <1>2, <1>3 DEF RevisionObjects
<1>5. Counted(o) = [o EXCEPT !.isInvalid = b, !.ready = k, !.total = l]
  BY DEF Counted, b, k, l
<1> QED
  BY <1>4, <1>5 DEF b

\* reconcileDebounced lists.
LEMMA PassListsStep == ASSUME RolloutInv, PassLists PROVE RolloutInv'
<1>1. seen'.revs = revs /\ seen'.ready = ready /\ Seen(seen') /\ pc' = "process"
  BY DEF PassLists, Seen, RolloutInv
<1>2. UNCHANGED <<cluster, objects, nodes, thread, deploy, created>>
  BY DEF PassLists
<1>3. Agree(revs, revs)
  BY DEF RolloutInv, RevsOK, Sound, Agree
<1>4. RevsOK' /\ DeployOK'
  BY <1>1, <1>2, <1>3 DEF RolloutInv, RevsOK, DeployOK, objects
<1> QED
  BY <1>1, <1>2, <1>4 DEF RolloutInv, cluster, objects, nodes

\* Deleting node objects leaves objects of the right shape.
LEMMA DeletedObjects ==
  ASSUME nnc \in [Nodes -> NodeObjects], NEW gone, Delete(gone)
  PROVE  nnc' \in [Nodes -> NodeObjects]
<1>1. Absent \in NodeObjects
  BY DEF Absent, NodeObjects, Object, Statuses
<1> QED
  BY <1>1 DEF Delete

\* A cleanup that fails half way.
LEMMA RemovalFailsStep == ASSUME RolloutInv, RemovalFails PROVE RolloutInv'
<1>1. nnc' \in [Nodes -> NodeObjects]
  BY DeletedObjects DEF RemovalFails, RolloutInv
<1>2. RevsOK' /\ Seen(seen') /\ DeployOK'
  BY EndOfPass DEF RemovalFails, RolloutInv, RevsOK
<1> QED
  BY <1>1, <1>2 DEF RemovalFails, RolloutInv, cluster

\* processConfigsForRevision.
LEMMA PassProcessesStep == ASSUME RolloutInv, PassProcesses PROVE RolloutInv'
<1>1. nnc' \in [Nodes -> NodeObjects]
  BY DeletedObjects DEF PassProcesses, RolloutInv
<1>2. PICK invalid :
        /\ revs' = Marked(revs, invalid)
        /\ \/ EndPass
           \/ pc' = "counters" /\ seen' = [seen EXCEPT !.isInvalid = invalid] /\ deploy' = deploy
  BY DEF PassProcesses
<1>3. UNCHANGED <<cluster, ready, thread, created>>
  BY DEF PassProcesses
<1>4. Sound(revs', created) /\ Agree(revs', seen.revs)
  BY <1>2, MarkedList DEF RolloutInv, RevsOK
<1>5. CASE EndPass
  BY <1>1, <1>3, <1>4, <1>5, EndOfPass DEF RolloutInv, cluster
<1>6. CASE pc' = "counters" /\ seen' = [seen EXCEPT !.isInvalid = invalid] /\ deploy' = deploy
  <2>1. seen'.revs = seen.revs /\ Seen(seen')
    BY <1>6 DEF RolloutInv, Seen
  <2>2. RevsOK' /\ DeployOK'
    BY <1>3, <1>4, <1>6, <2>1 DEF RolloutInv, RevsOK, DeployOK
  <2> QED
    BY <1>1, <1>3, <2>1, <2>2 DEF RolloutInv, cluster
<1> QED
  BY <1>2, <1>5, <1>6

\* updateRevisionCounters, and the choice of the revision to deploy: it is still
\* there, no other object has its name, and the status just written to it is
\* the one that the choice was made on.
LEMMA PassCountsStep == ASSUME RolloutInv, PassCounts PROVE RolloutInv'
<1> DEFINE f(done) == [o \in revs |-> IF HasUid(done, o.uid) THEN Counted(o) ELSE o]
<1>1. PICK done \in Beginnings(seen.revs) :
        /\ \A o \in done : HasUid(revs, o.uid)
        /\ \A p \in revs' : \E o \in revs : p = f(done)[o]
        /\ \/ EndPass
           \/ /\ done = seen.revs /\ Valid(Current) # {}
              /\ pc' = "deploy"
              /\ deploy' = [revision |-> Target.revision, uid |-> Target.uid, nodes |-> Slots]
              /\ seen' = [NothingSeen EXCEPT !.revs = seen.revs, !.nnc = seen.nnc]
  BY DEF PassCounts
<1>2. UNCHANGED <<cluster, nnc, nodes, thread, created>>
  BY DEF PassCounts
<1>3. \A o \in revs : /\ f(done)[o] \in RevisionObjects
                     /\ f(done)[o].uid = o.uid /\ f(done)[o].revision = o.revision
  BY CountedObject DEF RolloutInv, RevsOK, Sound
<1>4. \A o \in revs : HasUid(done, o.uid) => f(done)[o] = Counted(o)
  OBVIOUS
<1> HIDE DEF f
<1>5. Sound(revs', created) /\ Agree(revs', seen.revs)
  <2> DEFINE g == f(done)
  <2>1. /\ \A p \in revs' : \E o \in revs : p = g[o]
        /\ \A o \in revs : /\ g[o] \in RevisionObjects
                          /\ g[o].uid = o.uid /\ g[o].revision = o.revision
    BY <1>1, <1>3
  <2> HIDE DEF g
  <2>2. created \in Nat /\ Sound(revs, created) /\ Agree(revs, seen.revs)
    BY DEF RolloutInv, RevsOK
  <2> DEFINE new == revs'
  <2>3. \A p \in new : \E o \in revs : p = g[o]
    BY <2>1
  <2> HIDE DEF new
  <2>4. Sound(new, created) /\ \A other : Agree(revs, other) => Agree(new, other)
    BY <2>1, <2>2, <2>3, RewrittenList
  <2> QED
    BY <2>2, <2>4 DEF new
<1>6. CASE EndPass
  BY <1>2, <1>5, <1>6, EndOfPass DEF RolloutInv, cluster, nodes
<1>7. CASE /\ done = seen.revs /\ Valid(Current) # {}
           /\ pc' = "deploy"
           /\ deploy' = [revision |-> Target.revision, uid |-> Target.uid, nodes |-> Slots]
           /\ seen' = [NothingSeen EXCEPT !.revs = seen.revs, !.nnc = seen.nnc]
  <2>1. /\ Sound(Current, created)
        /\ \A m \in Current : \E o \in seen.revs : m.uid = o.uid /\ m.revision = o.revision
    BY MarkedList DEF RolloutInv, RevsOK, Current
  <2>2. Target \in Current /\ ~Target.isInvalid
    <3>1. \A o \in Current : o.uid \in Nat /\ o.uid <= created
      BY <2>1 DEF Sound, RevisionObjects
    <3> QED
      BY <1>7, <3>1, FirstValidIsValid DEF Target, RolloutInv, RevsOK
  <2>3. Target.revision \in Revisions
    BY <2>1, <2>2 DEF Sound, RevisionObjects
  <2>4. ASSUME NEW p \in revs', p.revision = Target.revision PROVE ~p.isInvalid
    <3>1. PICK o \in revs : p = f(done)[o]
      BY <1>1
    <3>2. PICK a \in seen.revs : Target.uid = a.uid /\ Target.revision = a.revision
      BY <2>1, <2>2
    <3>3. PICK q \in revs : q.uid = Target.uid
      BY <1>1, <1>7, <3>2 DEF HasUid
    <3>4. q.revision = Target.revision
      BY <3>2, <3>3 DEF RolloutInv, RevsOK, Agree
    <3>5. o = q
      BY <2>4, <1>3, <3>1, <3>4 DEF RolloutInv, RevsOK, Sound
    <3>6. HasUid(done, o.uid)
      BY <1>7, <3>2, <3>3, <3>5 DEF HasUid
    <3>7. p = Counted(o)
      BY <1>4, <3>1, <3>6
    <3>8. \A m \in Current : m.uid = o.uid => m = Target
      BY <2>1, <2>2, <3>3, <3>5 DEF Sound
    <3>9. p.isInvalid <=> \E m \in Current : m.uid = o.uid /\ m.isInvalid
      BY <3>7, CountedObject DEF RolloutInv, RevsOK, Sound
    <3> QED
      BY <2>2, <3>8, <3>9
  <2>5. seen'.revs = seen.revs /\ Seen(seen')
    BY <1>7 DEF NothingSeen, Seen
  <2>6. deploy'.revision = Target.revision /\ deploy'.nodes \subseteq Nodes
    BY <1>7 DEF Slots, Outdated, RolloutInv, Seen
  <2>7. \A p \in revs' : p.isInvalid \in BOOLEAN
    BY <1>5 DEF Sound, RevisionObjects
  <2>8. DeployOK'
    BY <2>3, <2>4, <2>6, <2>7 DEF DeployOK
  <2>9. RevsOK'
    BY <1>2, <1>5, <2>5 DEF RolloutInv, RevsOK
  <2> QED
    BY <1>2, <2>5, <2>8, <2>9 DEF RolloutInv, cluster, nodes
<1> QED
  BY <1>1, <1>6, <1>7

\* deployNodeNetworkConfig.
LEMMA DeployedObject ==
  ASSUME RolloutInv, NEW n \in Nodes, NEW o, o.revision \in Revisions,
         DeployNodeNetworkConfig(n, o)
  PROVE  /\ nnc' \in [Nodes -> NodeObjects]
         /\ nnc'[n].exists /\ nnc'[n].revision = o.revision
         /\ \A m \in Nodes \ {n} : nnc'[m] = nnc[m]
<1>1. nnc[n] \in NodeObjects
  BY DEF RolloutInv
<1>2. CASE nnc[n].exists
  <2>1. nnc' = [nnc EXCEPT ![n] = [nnc[n] EXCEPT !.revision = o.revision]]
    BY <1>2 DEF DeployNodeNetworkConfig
  <2>2. LET x == [nnc[n] EXCEPT !.revision = o.revision]
        IN  x \in NodeObjects /\ x.exists /\ x.revision = o.revision
    BY <1>1, <1>2 DEF NodeObjects, Object
  <2> QED
    BY <2>1, <2>2 DEF RolloutInv
<1>3. CASE ~nnc[n].exists
  <2>1. nnc' = [nnc EXCEPT ![n] = Created(o.revision)]
    BY <1>3 DEF DeployNodeNetworkConfig
  <2>2. /\ Created(o.revision) \in NodeObjects /\ Created(o.revision).exists
        /\ Created(o.revision).revision = o.revision
    BY DEF Created, NodeObjects, Object, Statuses
  <2> QED
    BY <2>1, <2>2 DEF RolloutInv
<1> QED
  BY <1>2, <1>3

\* deployNodeConfig for one node at most.
LEMMA PassDeploysStep == ASSUME RolloutInv, PassDeploys PROVE RolloutInv'
<1>1. /\ nnc' = nnc \/ \E n \in deploy.nodes : DeployNodeNetworkConfig(n, deploy)
      /\ EndPass \/ ToCleanup
      /\ pc = "deploy" /\ UNCHANGED <<cluster, revs, nodes, thread, created>>
  BY DEF PassDeploys, DeployNodeConfig
<1>2. nnc' \in [Nodes -> NodeObjects]
  BY <1>1, DeployedObject DEF RolloutInv, DeployOK
<1>3. CASE EndPass
  BY <1>1, <1>2, <1>3, EndOfPass DEF RolloutInv, RevsOK, cluster, nodes
<1>4. CASE ToCleanup
  <2>1. seen' = seen /\ pc' = "cleanup" /\ deploy'.nodes = {}
    BY <1>4 DEF ToCleanup, NothingToDeploy
  <2> QED
    BY <1>1, <1>2, <2>1 DEF RolloutInv, RevsOK, DeployOK, cluster, nodes
<1> QED
  BY <1>1, <1>3, <1>4

\* revisionCleanup.
LEMMA PassCleansUpStep == ASSUME RolloutInv, PassCleansUp PROVE RolloutInv'
<1>1. revs' \in SUBSET revs /\ EndPass /\ UNCHANGED <<cluster, nnc, nodes, thread, created>>
  BY DEF PassCleansUp
<1>2. Sound(revs', created)
  BY <1>1, ShorterList DEF RolloutInv, RevsOK
<1> QED
  BY <1>1, <1>2, EndOfPass DEF RolloutInv, cluster, nodes

\* A pass of the operator that ends with an error.
LEMMA OperatorFailsStep == ASSUME RolloutInv, OperatorFails PROVE RolloutInv'
<1>1. UNCHANGED <<cluster, objects, nodes, created>>
  BY DEF OperatorFails
<1>2. Sound(revs', created) /\ Agree(revs', seen.revs) /\ revs' \subseteq revs /\ created' = created
  BY <1>1 DEF RolloutInv, RevsOK, objects
<1>3. CASE EndPass /\ UNCHANGED thread
  BY <1>1, <1>2, <1>3, EndOfPass DEF RolloutInv, cluster, nodes, objects
<1>4. CASE \E t \in Threads : Leave(t) /\ UNCHANGED pass
  <2>1. DOMAIN thread' = Threads /\ \A t \in Threads : ThreadOK(thread'[t])
    BY <1>4, ThreadMoves
  <2>2. RevsOK' /\ Seen(seen') /\ DeployOK'
    BY <1>2, <1>4, PassKept
  <2> QED
    BY <1>1, <2>1, <2>2 DEF RolloutInv, cluster, nodes, objects
<1> QED
  BY <1>3, <1>4 DEF OperatorFails

-----------------------------------------------------------------------------
\* The cluster and the agents.

\* A status written by the agent leaves the revision of the object alone.
LEMMA ReportedObject ==
  ASSUME NEW x \in NodeObjects, x.exists, NEW st \in Statuses
  PROVE  /\ WithStatus(x, st) \in NodeObjects
         /\ WithStatus(x, st).exists /\ WithStatus(x, st).revision = x.revision
<1> DEFINE l == IF st \in {"provisioned", "invalid"} THEN x.revision ELSE x.lastApplied
<1>1. l \in Revisions \union {NoRevision}
  BY DEF NodeObjects, Object
<1>2. WithStatus(x, st) = [x EXCEPT !.status = st, !.lastApplied = l]
  BY DEF WithStatus
<1> HIDE DEF l
<1> QED
  BY <1>1, <1>2 DEF NodeObjects, Object

\* A step of the agent of n is one report on an object that is there.
LEMMA AgentReports ==
  ASSUME NEW n \in Nodes, Agent(n)
  PROVE  \E st \in Statuses : nnc[n].exists /\ Report(n, st)
  BY DEF Agent, AgentStarts, AgentProvisions, AgentInvalidates, AgentRestarts, Statuses

\* An agent writes the object of its own node, and never its revision.
LEMMA AgentObject ==
  ASSUME RolloutInv, NEW n \in Nodes, Agent(n)
  PROVE  /\ nnc' \in [Nodes -> NodeObjects]
         /\ \A m \in Nodes : nnc'[m] # nnc[m] => m = n
         /\ nnc[n].exists /\ nnc'[n].revision = nnc[n].revision
<1>1. PICK st \in Statuses : nnc[n].exists /\ Report(n, st)
  BY AgentReports
<1>2. nnc' = [nnc EXCEPT ![n] = WithStatus(nnc[n], st)]
  BY <1>1 DEF Report
<1>3. /\ WithStatus(nnc[n], st) \in NodeObjects
      /\ WithStatus(nnc[n], st).revision = nnc[n].revision
  BY <1>1, ReportedObject DEF RolloutInv
<1> QED
  BY <1>1, <1>2, <1>3 DEF RolloutInv

\* Every report of an agent keeps the invariant.
LEMMA AgentStep == ASSUME RolloutInv, NEW n \in Nodes, Agent(n) PROVE RolloutInv'
<1>1. nnc' \in [Nodes -> NodeObjects]
  BY AgentObject
<1>2. UNCHANGED <<cluster, revs, ready, thread, pass, created>>
  BY AgentReports DEF Report
<1>3. RevsOK' /\ Seen(seen') /\ DeployOK'
  BY <1>2, PassKept DEF RolloutInv, RevsOK
<1> QED
  BY <1>1, <1>2, <1>3 DEF RolloutInv, cluster

\* Nodes that come and go and time that passes touch no node object.
LEMMA ClusterStep ==
  ASSUME RolloutInv, NEW n \in Nodes,
         CollectGarbage(n) \/ ReadinessChanges(n) \/ TimePasses(n)
  PROVE  RolloutInv' /\ nnc' = nnc
<1>1. UNCHANGED <<cluster, revs, nnc, thread, pass, created>>
  BY DEF CollectGarbage, ReadinessChanges, TimePasses, objects
<1>2. ready' \subseteq Nodes
  BY DEF CollectGarbage, ReadinessChanges, TimePasses, nodes, RolloutInv
<1>3. RevsOK' /\ Seen(seen') /\ DeployOK'
  BY <1>1, PassKept DEF RolloutInv, RevsOK
<1> QED
  BY <1>1, <1>2, <1>3 DEF RolloutInv, cluster

\* A change of the configuration by the user.
LEMMA UserStep == ASSUME RolloutInv, UserChanges PROVE RolloutInv'
<1>1. UNCHANGED <<objects, nodes, thread, pass, created>> /\ config' \in Revisions
  BY DEF UserChanges
<1>2. RevsOK' /\ Seen(seen') /\ DeployOK'
  BY <1>1, PassKept DEF RolloutInv, RevsOK, objects
<1> QED
  BY <1>1, <1>2 DEF RolloutInv, objects, nodes

\* A step that changes nothing.
LEMMA Quiet == ASSUME RolloutInv, UNCHANGED vars PROVE RolloutInv'
  BY DEF RolloutInv, RevsOK, DeployOK, vars, cluster, objects, nodes, pass

\* RolloutInv is inductive.
LEMMA RolloutInvStep == RolloutInv /\ [Next]_vars => RolloutInv'
<1> SUFFICES ASSUME RolloutInv, Next \/ UNCHANGED vars PROVE RolloutInv'
  OBVIOUS
<1>1. CASE UserChanges
  BY <1>1, UserStep
<1>2. CASE ConfigReconciler
  BY <1>2, ThreadStep DEF ConfigReconciler
<1>3. CASE Pass
  BY <1>3, PassListsStep, PassProcessesStep, RemovalFailsStep, PassCountsStep,
     PassDeploysStep, PassCleansUpStep DEF Pass
<1>4. CASE OperatorFails
  BY <1>4, OperatorFailsStep
<1>5. CASE \E n \in Nodes : \/ Agent(n) \/ CollectGarbage(n)
                            \/ ReadinessChanges(n) \/ TimePasses(n)
  BY <1>5, AgentStep, ClusterStep
<1>6. CASE UNCHANGED vars
  BY <1>6, Quiet
<1> QED
  BY <1>1, <1>2, <1>3, <1>4, <1>5, <1>6 DEF Next

-----------------------------------------------------------------------------
\* What a step does to the objects of the nodes: a report of an agent, the
\* deployment of one node, the removal of some objects, or nothing.
LEMMA ObjectSteps ==
  ASSUME RolloutInv, [Next]_vars
  PROVE  \/ \E n \in Nodes : Agent(n)
         \/ \E n \in Nodes : PassDeploys /\ DeployNodeNetworkConfig(n, deploy)
         \/ \E gone : Delete(gone)
         \/ nnc' = nnc
<1>1. CASE Next
  <2>1. CASE UserChanges
    BY <2>1 DEF UserChanges, objects
  <2>2. CASE ConfigReconciler
    BY <2>2 DEF ConfigReconciler, FetchConfigData, ListRevisions, CreateRevision,
                DeleteRevision, objects
  <2>3. CASE Pass
    <3>1. CASE PassDeploys
      BY <3>1 DEF PassDeploys, DeployNodeConfig, RolloutInv, DeployOK
    <3>2. CASE PassProcesses \/ RemovalFails
      BY <3>2 DEF PassProcesses, RemovalFails
    <3>3. CASE PassLists \/ PassCounts \/ PassCleansUp
      BY <3>3 DEF PassLists, PassCounts, PassCleansUp, objects
    <3> QED
      BY <2>3, <3>1, <3>2, <3>3 DEF Pass
  <2>4. CASE OperatorFails
    BY <2>4 DEF OperatorFails, objects
  <2>5. CASE \E n \in Nodes : \/ Agent(n) \/ CollectGarbage(n)
                              \/ ReadinessChanges(n) \/ TimePasses(n)
    BY <2>5, ClusterStep
  <2> QED
    BY <1>1, <2>1, <2>2, <2>3, <2>4, <2>5 DEF Next
<1>2. CASE UNCHANGED vars
  BY <1>2 DEF vars, objects
<1> QED
  BY <1>1, <1>2

\* reconcileDebounced never moves a node to a revision whose object is marked
\* invalid, however old the list is that it works on.
THEOREM InvalidIsNotDeployed == Spec => NoMoveToInvalid
<1> DEFINE A == \A n \in Nodes, o \in revs :
                  o.isInvalid /\ nnc'[n].exists /\ nnc'[n].revision = o.revision
                  => OnRevision(n, o.revision)
<1>1. Init => RolloutInv
  BY InitInv
<1>2. RolloutInv /\ [Next]_vars => RolloutInv'
  BY RolloutInvStep
<1>3. RolloutInv /\ [Next]_vars => A
  <2> SUFFICES ASSUME RolloutInv, [Next]_vars, NEW n \in Nodes, NEW o \in revs,
                      o.isInvalid, nnc'[n].exists, nnc'[n].revision = o.revision
               PROVE  OnRevision(n, o.revision)
    OBVIOUS
  <2>1. CASE \E m \in Nodes : Agent(m)
    BY <2>1, AgentObject DEF OnRevision
  <2>2. ASSUME NEW m \in Nodes, PassDeploys, DeployNodeNetworkConfig(m, deploy)
        PROVE  OnRevision(n, o.revision)
    <3>1. deploy.revision \in Revisions
      BY <2>2 DEF PassDeploys, RolloutInv, DeployOK
    <3>2. deploy.revision # o.revision
      BY <2>2 DEF PassDeploys, RolloutInv, DeployOK
    <3> QED
      BY <2>2, <3>1, <3>2, DeployedObject DEF OnRevision
  <2>3. CASE \E gone : Delete(gone)
    <3>1. nnc'[n] = Absent \/ nnc'[n] = nnc[n]
      BY <2>3 DEF Delete
    <3>2. ~Absent.exists
      BY DEF Absent
    <3> QED
      BY <3>1, <3>2 DEF OnRevision
  <2>4. CASE nnc' = nnc
    BY <2>4 DEF OnRevision
  <2> QED
    BY <2>1, <2>2, <2>3, <2>4, ObjectSteps
<1> QED
  BY <1>1, <1>2, <1>3, PTL DEF Spec, NoMoveToInvalid

\* The list of a pass still says which revision the object of n has.
Kept(n) == nnc[n].exists => seen.nnc[n].exists /\ seen.nnc[n].revision = nnc[n].revision

\* It does for every object until the pass deploys one.
ListsOK ==
  /\ pc \in {"process", "counters", "deploy"} => \A n \in Nodes : Kept(n)
  /\ pc = "cleanup" => \A m, n \in Nodes : Kept(m) \/ Kept(n) \/ m = n

\* ListsOK is inductive, given RolloutInv.
LEMMA ListsStep == ASSUME RolloutInv, ListsOK, [Next]_vars PROVE ListsOK'
<1>1. ASSUME pc' = pc, seen'.nnc = seen.nnc,
             \A n \in Nodes : \/ nnc'[n] = nnc[n] \/ nnc'[n] = Absent
                              \/ nnc[n].exists /\ nnc'[n].revision = nnc[n].revision
      PROVE  ListsOK'
  <2>1. ~Absent.exists
    BY DEF Absent
  <2>2. \A n \in Nodes : Kept(n) => Kept(n)'
    BY <1>1, <2>1 DEF Kept
  <2> QED
    BY <1>1, <2>2 DEF ListsOK
<1>2. ASSUME UNCHANGED pass, nnc' = nnc PROVE ListsOK'
  BY <1>1, <1>2 DEF pass
<1>3. ASSUME EndPass PROVE ListsOK'
  BY <1>3 DEF EndPass, ListsOK
<1>4. CASE PassLists
  <2>1. seen'.nnc = nnc /\ nnc' = nnc /\ pc' = "process"
    BY <1>4 DEF PassLists, objects
  <2> QED
    BY <2>1 DEF ListsOK, Kept
<1>5. CASE PassProcesses
  <2>1. CASE EndPass
    BY <2>1, <1>3
  <2>2. CASE ~EndPass
    <3>1. pc = "process" /\ pc' = "counters" /\ seen'.nnc = seen.nnc
      BY <1>5, <2>2 DEF PassProcesses, RolloutInv, Seen
    <3>2. \A n \in Nodes : nnc'[n] = nnc[n] \/ nnc'[n] = Absent
      BY <1>5 DEF PassProcesses, Delete
    <3>3. ~Absent.exists
      BY DEF Absent
    <3> QED
      BY <3>1, <3>2, <3>3 DEF ListsOK, Kept
  <2> QED
    BY <2>1, <2>2
<1>6. CASE PassCounts
  <2>1. CASE EndPass
    BY <2>1, <1>3
  <2>2. CASE ~EndPass
    <3>1. pc = "counters" /\ pc' = "deploy" /\ nnc' = nnc /\ seen'.nnc = seen.nnc
      BY <1>6, <2>2 DEF PassCounts, NothingSeen
    <3> QED
      BY <3>1 DEF ListsOK, Kept
  <2> QED
    BY <2>1, <2>2
<1>7. CASE PassDeploys
  <2>1. CASE EndPass
    BY <2>1, <1>3
  <2>2. CASE ~EndPass
    <3>1. pc = "deploy" /\ pc' = "cleanup" /\ seen' = seen
      BY <1>7, <2>2 DEF PassDeploys, DeployNodeConfig, ToCleanup
    <3>2. \A n \in Nodes : Kept(n)
      BY <3>1 DEF ListsOK
    <3>3. CASE nnc' = nnc
      BY <3>1, <3>2, <3>3 DEF ListsOK, Kept
    <3>4. ASSUME NEW n \in Nodes, DeployNodeNetworkConfig(n, deploy) PROVE ListsOK'
      <4>1. \A m \in Nodes \ {n} : nnc'[m] = nnc[m]
        BY <3>1, <3>4, DeployedObject DEF RolloutInv, DeployOK
      <4> QED
        BY <3>1, <3>2, <4>1 DEF ListsOK, Kept
    <3> QED
      BY <1>7, <3>3, <3>4 DEF PassDeploys, DeployNodeConfig, RolloutInv, DeployOK
  <2> QED
    BY <2>1, <2>2
<1>8. CASE PassCleansUp \/ RemovalFails
  BY <1>3, <1>8 DEF PassCleansUp, RemovalFails
<1>9. CASE UserChanges \/ ConfigReconciler
  BY <1>2, <1>9 DEF UserChanges, ConfigReconciler, FetchConfigData, ListRevisions,
                    CreateRevision, DeleteRevision, objects
<1>10. CASE OperatorFails
  BY <1>2, <1>3, <1>10 DEF OperatorFails, objects
<1>11. ASSUME NEW n \in Nodes, Agent(n) PROVE ListsOK'
  <2>1. UNCHANGED pass
    BY <1>11, AgentReports DEF Report
  <2> QED
    BY <1>1, <1>11, <2>1, AgentObject DEF pass
<1>12. ASSUME NEW n \in Nodes, CollectGarbage(n) \/ ReadinessChanges(n) \/ TimePasses(n)
       PROVE  ListsOK'
  BY <1>2, <1>12 DEF CollectGarbage, ReadinessChanges, TimePasses, objects
<1>13. CASE UNCHANGED vars
  BY <1>2, <1>13 DEF vars, objects
<1> QED
  BY <1>4, <1>5, <1>6, <1>7, <1>8, <1>9, <1>10, <1>11, <1>12, <1>13 DEF Next, Pass

\* revisionCleanup takes the revision from no object that the pass found with
\* it, and so from one object at most, whichever of its lists are behind.
THEOREM ReferencedIsKept == Spec => CleanupKeepsReferenced
<1> DEFINE A == PassCleansUp => \A m, n \in Nodes :
                  LosesRevision(m) =>
                    /\ ~(seen.nnc[m].exists /\ seen.nnc[m].revision = nnc[m].revision)
                    /\ LosesRevision(n) => m = n
<1>1. Init => RolloutInv /\ ListsOK
  BY InitInv DEF Init, ListsOK
<1>2. RolloutInv /\ ListsOK /\ [Next]_vars => RolloutInv' /\ ListsOK'
  BY RolloutInvStep, ListsStep
<1>3. RolloutInv /\ ListsOK => A
  <2> SUFFICES ASSUME RolloutInv, ListsOK, PassCleansUp
               PROVE  A
    OBVIOUS
  <2>1. PICK list \in {revs, seen.revs}, configs \in {nnc, seen.nnc} :
          \E deleted \in SUBSET Obsolete(list, configs) :
            revs' = {p \in revs : ~Known(deleted, p.revision)}
    BY DEF PassCleansUp
  <2> PICK deleted \in SUBSET Obsolete(list, configs) :
          revs' = {p \in revs : ~Known(deleted, p.revision)}
    BY <2>1
  <2>2. ASSUME NEW n \in Nodes, LosesRevision(n) PROVE nnc[n].exists /\ ~Kept(n)
    <3>1. /\ nnc[n].exists
          /\ \E o \in revs : o.revision = nnc[n].revision /\ o \notin revs'
      BY <2>2 DEF LosesRevision, Known
    <3>2. PICK d \in deleted : d.revision = nnc[n].revision
      BY <2>1, <3>1 DEF Known
    <3>3. ~(configs[n].exists /\ configs[n].revision = d.revision)
      BY <2>1, <3>2 DEF Obsolete
    <3> QED
      BY <3>1, <3>2, <3>3 DEF Kept
  <2>3. \A m, n \in Nodes : Kept(m) \/ Kept(n) \/ m = n
    BY DEF ListsOK, PassCleansUp
  <2> QED
    BY <2>2, <2>3 DEF Kept
<1> QED
  BY <1>1, <1>2, <1>3, PTL DEF Spec, CleanupKeepsReferenced

\* Every object of a node goes through the contract of ConfigStatus, whatever
\* passes, recreated revisions, garbage collection and faults do to it.
THEOREM ObjectsKeepContract == Spec => NodesKeepContract
<1> DEFINE A == \A n \in Nodes : nnc'[n] # nnc[n] => Contract(n)!ContractNext
<1>1. Init => RolloutInv
  BY InitInv
<1>2. RolloutInv /\ [Next]_vars => RolloutInv'
  BY RolloutInvStep
<1>3. Init => \A n \in Nodes : Contract(n)!ContractInit
  BY DEF Init, Contract!ContractInit, Absent, Contract!Absent
<1>4. RolloutInv /\ [Next]_vars => [A]_nnc
  <2> SUFFICES ASSUME RolloutInv, [Next]_vars, NEW n \in Nodes, nnc'[n] # nnc[n]
               PROVE  Contract(n)!ContractNext
    OBVIOUS
  <2>0. nnc[n] \in NodeObjects
    BY DEF RolloutInv
  <2>1. CASE \E m \in Nodes : Agent(m)
    <3>1. Agent(n)
      BY <2>1, AgentObject
    <3>2. nnc[n].exists
      BY <3>1, AgentObject
    <3>3. CASE AgentStarts(n) \/ AgentRestarts(n)
      <4>1. /\ nnc'[n] = WithStatus(nnc[n], "provisioning")
            /\ ~(nnc[n].status = "invalid" /\ nnc[n].lastApplied = nnc[n].revision)
        BY <3>3 DEF AgentStarts, AgentRestarts, Report, Reported, RolloutInv
      <4> QED
        BY <3>2, <4>1 DEF Contract!ContractNext, Contract!AgentStarts,
                          Contract!WithStatus, WithStatus
    <3>4. CASE AgentProvisions(n)
      <4>1. nnc'[n] = WithStatus(nnc[n], "provisioned")
        BY <3>4 DEF AgentProvisions, Report, RolloutInv
      <4> QED
        BY <3>2, <4>1 DEF Contract!ContractNext, Contract!AgentProvisions,
                          Contract!WithStatus, WithStatus
    <3>5. CASE AgentInvalidates(n)
      <4>1. nnc'[n] = WithStatus(nnc[n], "invalid") /\ nnc[n].status = "provisioning"
        BY <3>5 DEF AgentInvalidates, Report, RolloutInv
      <4> QED
        BY <3>2, <4>1 DEF Contract!ContractNext, Contract!AgentInvalidates,
                          Contract!WithStatus, WithStatus
    <3> QED
      BY <3>1, <3>3, <3>4, <3>5 DEF Agent
  <2>2. ASSUME NEW m \in Nodes, PassDeploys, DeployNodeNetworkConfig(m, deploy)
        PROVE  Contract(n)!ContractNext
    <3>1. deploy.revision \in Revisions
      BY <2>2 DEF PassDeploys, RolloutInv, DeployOK
    <3>2. m = n
      BY <2>2, <3>1, DeployedObject
    <3>3. nnc'[n] = IF nnc[n].exists THEN [nnc[n] EXCEPT !.revision = deploy.revision]
                                     ELSE Created(deploy.revision)
      BY <2>2, <3>2 DEF DeployNodeNetworkConfig, RolloutInv
    <3> QED
      BY <3>1, <3>3 DEF Contract!ContractNext, Contract!OperatorMoves,
                        Contract!OperatorCreates, Contract!Created, Created
  <2>3. CASE \E gone : Delete(gone)
    <3>1. nnc'[n] = Absent /\ nnc[n].exists
      BY <2>0, <2>3 DEF Delete, NodeObjects
    <3> QED
      BY <3>1 DEF Contract!ContractNext, Contract!OperatorDeletes, Contract!Absent, Absent
  <2> QED
    BY <2>1, <2>2, <2>3, ObjectSteps
<1> QED
  BY <1>1, <1>2, <1>3, <1>4, PTL DEF Spec, NodesKeepContract
=============================================================================
