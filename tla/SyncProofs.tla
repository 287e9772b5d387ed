----------------------------- MODULE SyncProofs -----------------------------
(***************************************************************************)
(* Proofs about ClusterSync, for any sets of intents and clusters and any  *)
(* number of edits and faults.                                             *)
(***************************************************************************)
EXTENDS ClusterSync, TLAPS

Objs == [ver : Nat, gen : Nat, deleting : BOOLEAN, fin : BOOLEAN, addr : BOOLEAN,
         ready : BOOLEAN, at : Nat]
Keys == {"managed-by", "k", "x"}
Copies == [ver : Nat, managed : BOOLEAN, addr : BOOLEAN, sgen : Nat, observed : BOOLEAN,
           ready : BOOLEAN, labels : SUBSET Keys, mine : SUBSET Keys]
OneObject == {"delete", "release", "finalize", "apply", "status"}
Stages == OneObject \cup {"idle", "drain", "block", "sync"}
Passes == [at : Stages, cl : Clusters \cup {"none"},
           todo : SUBSET Intents, o : Intents \cup {"none"}, copy : Objs,
           allocs : SUBSET Counted]

SyncTypeOK ==
  /\ edits \in Nat
  /\ mgmt \in [Names -> Objs] /\ cache \in [Names -> Objs]
  /\ kubeconfig \in [Clusters -> {"absent", "pending", "ready"}]
  /\ clients \subseteq Clusters
  /\ remote \in [Clusters -> [Names -> Copies]]
  /\ pass \in Passes
  /\ pass.at \in OneObject => pass.o \in Intents
  /\ pass.at \in OneObject \cup {"sync"} => pass.cl \in Clusters
  /\ abandoned \subseteq Clusters \X Names

\* Only objects with the finalizer are shown as being deleted, and every object
\* carries the version of an edit.
Sane(m, n) == (m.deleting => m.fin) /\ (m # NoObj => m.ver > 0) /\ m.ver <= n

\* The object s was read from is still there: it may have been edited since.
Holds(s, m) == m.fin /\ s.gen <= m.gen /\ (s.gen = m.gen => s.ver = m.ver)

\* A deletion that the cache shows is not undone for that version, and an object
\* that the cache shows with its finalizer is still there: the finalizer only
\* goes after the cache has shown the deletion.
CacheOK ==
  /\ Sane(pass.copy, edits)
  /\ \A o \in Intents :
       /\ Sane(mgmt[o], edits) /\ Sane(cache[o], edits)
       /\ cache[o].deleting /\ mgmt[o].ver = cache[o].ver => mgmt[o].deleting
       /\ cache[o].fin /\ ~cache[o].deleting => Holds(cache[o], mgmt[o])

\* What the pass knows of the object it is at.
PassOK ==
  /\ pass.at \in {"delete", "release"} =>
       /\ pass.copy.fin
       /\ mgmt[pass.o].ver = pass.copy.ver =>
            /\ mgmt[pass.o].deleting
            /\ cache[pass.o].ver = pass.copy.ver /\ cache[pass.o].deleting
  /\ pass.at = "release" => ~remote[pass.cl][pass.o].managed
  /\ pass.at = "finalize" => pass.copy # NoObj
  /\ pass.at \in {"apply", "status"} => Holds(pass.copy, mgmt[pass.o]) /\ pass.copy.ver > 0
  /\ pass.at = "status" =>
       remote[pass.cl][pass.o] = NoCopy \/ remote[pass.cl][pass.o].ver = pass.copy.ver
  /\ pass.at \in OneObject \cup {"sync"} /\ ~lagged =>
       \A o \in Counted \ pass.allocs : ~mgmt[o].addr

\* What is reported Ready was proved, in the workload cluster and here.
ReportsOK ==
  /\ \A c \in Clusters, o \in Intents :
       remote[c][o].observed /\ remote[c][o].ready => remote[c][o].ver \in proved
  /\ \A o \in Intents : mgmt[o].ready =>
       mgmt[o].at <= mgmt[o].gen /\ (mgmt[o].at = mgmt[o].gen => mgmt[o].ver \in proved)

\* A copy is held by the finalizer of its intent or abandoned, and has the
\* labels of its version.
CopiesOK ==
  \A c \in Clusters, o \in Names : remote[c][o].managed =>
    /\ o \in Intents => mgmt[o].fin \/ <<c, o>> \in abandoned
    /\ remote[c][o].mine = Labels(remote[c][o].ver)
    /\ remote[c][o].labels \ {"x"} = Labels(remote[c][o].ver)

SyncInv == SyncTypeOK /\ CacheOK /\ PassOK /\ ReportsOK /\ CopiesOK

\* The fields of the objects that are not there and of the idle controller.
LEMMA EmptyFields ==
  /\ NoObj \in Objs /\ NoObj.ver = 0 /\ NoObj.gen = 0 /\ NoObj.at = 0
  /\ ~NoObj.deleting /\ ~NoObj.fin /\ ~NoObj.addr /\ ~NoObj.ready
  /\ NoCopy \in Copies /\ ~NoCopy.managed /\ ~NoCopy.addr /\ ~NoCopy.observed
  /\ NoCopy.labels = {} /\ NoCopy.mine = {}
  /\ Idle \in Passes /\ Idle.at = "idle" /\ Idle.copy = NoObj
<1>1. /\ NoObj \in Objs /\ NoObj.ver = 0 /\ NoObj.gen = 0 /\ NoObj.at = 0
      /\ ~NoObj.deleting /\ ~NoObj.fin /\ ~NoObj.addr /\ ~NoObj.ready
  BY DEF NoObj, Objs
<1>2. /\ NoCopy \in Copies /\ ~NoCopy.managed /\ ~NoCopy.addr /\ ~NoCopy.observed
      /\ NoCopy.labels = {} /\ NoCopy.mine = {}
  BY DEF NoCopy, Copies, Keys
<1>3. Idle \in Passes /\ Idle.at = "idle" /\ Idle.copy = NoObj
  BY <1>1 DEF Idle, Passes, Stages
<1> QED
  BY <1>1, <1>2, <1>3

\* An edit.
Edited(x, e) == [x EXCEPT !.ver = e, !.gen = x.gen + 1]
\* An edit changes the version and the generation and nothing else.
LEMMA EditedObject ==
  ASSUME NEW x \in Objs, NEW e \in Nat
  PROVE  /\ Edited(x, e) \in Objs
         /\ Edited(x, e).ver = e /\ Edited(x, e).gen = x.gen + 1 /\ Edited(x, e).deleting = x.deleting
         /\ Edited(x, e).fin = x.fin /\ Edited(x, e).addr = x.addr
         /\ Edited(x, e).ready = x.ready /\ Edited(x, e).at = x.at
<1>1. PICK y : y = Edited(x, e)
  OBVIOUS
<1>2. /\ y.ver = e /\ y.gen = x.gen + 1 /\ y.deleting = x.deleting /\ y.fin = x.fin
      /\ y.addr = x.addr /\ y.ready = x.ready /\ y.at = x.at
  BY <1>1 DEF Objs, Edited
<1>3. x.gen + 1 \in Nat
  BY DEF Objs
<1>4. y \in Objs
  BY Zenon, <1>1, <1>3 DEF Objs, Edited
<1> QED
  BY <1>1, <1>2, <1>4

\* A status.
Reported(x, b, e) == [x EXCEPT !.ready = b, !.at = e]
\* A status write changes the report and nothing else.
LEMMA ReportedObject ==
  ASSUME NEW x \in Objs, NEW b \in BOOLEAN, NEW e \in Nat
  PROVE  /\ Reported(x, b, e) \in Objs
         /\ Reported(x, b, e).ver = x.ver /\ Reported(x, b, e).gen = x.gen /\ Reported(x, b, e).deleting = x.deleting
         /\ Reported(x, b, e).fin = x.fin /\ Reported(x, b, e).addr = x.addr
         /\ Reported(x, b, e).ready = b /\ Reported(x, b, e).at = e
<1>1. PICK y : y = Reported(x, b, e)
  OBVIOUS
<1>2. /\ y.ver = x.ver /\ y.gen = x.gen /\ y.deleting = x.deleting /\ y.fin = x.fin
      /\ y.addr = x.addr /\ y.ready = b /\ y.at = e
  BY <1>1 DEF Objs, Reported
<1>4. y \in Objs
  BY Zenon, <1>1 DEF Objs, Reported
<1> QED
  BY <1>1, <1>2, <1>4

\* A deletion that waits for finalizers.
Deleted(x) == [x EXCEPT !.deleting = TRUE]
\* A delete sets the timestamp and nothing else.
LEMMA DeletedObject ==
  ASSUME NEW x \in Objs
  PROVE  /\ Deleted(x) \in Objs
         /\ Deleted(x).ver = x.ver /\ Deleted(x).gen = x.gen /\ Deleted(x).deleting
         /\ Deleted(x).fin = x.fin /\ Deleted(x).addr = x.addr
         /\ Deleted(x).ready = x.ready /\ Deleted(x).at = x.at
<1>1. PICK y : y = Deleted(x)
  OBVIOUS
<1>2. /\ y.ver = x.ver /\ y.gen = x.gen /\ y.deleting /\ y.fin = x.fin
      /\ y.addr = x.addr /\ y.ready = x.ready /\ y.at = x.at
  BY <1>1 DEF Objs, Deleted
<1>4. y \in Objs
  BY Zenon, <1>1 DEF Objs, Deleted
<1> QED
  BY <1>1, <1>2, <1>4

\* The finalizer.
Finalized(x) == [x EXCEPT !.fin = TRUE]
\* Adding the finalizer changes nothing else.
LEMMA FinalizedObject ==
  ASSUME NEW x \in Objs
  PROVE  /\ Finalized(x) \in Objs
         /\ Finalized(x).ver = x.ver /\ Finalized(x).gen = x.gen /\ Finalized(x).deleting = x.deleting
         /\ Finalized(x).fin /\ Finalized(x).addr = x.addr
         /\ Finalized(x).ready = x.ready /\ Finalized(x).at = x.at
<1>1. PICK y : y = Finalized(x)
  OBVIOUS
<1>2. /\ y.ver = x.ver /\ y.gen = x.gen /\ y.deleting = x.deleting /\ y.fin
      /\ y.addr = x.addr /\ y.ready = x.ready /\ y.at = x.at
  BY <1>1 DEF Objs, Finalized
<1>4. y \in Objs
  BY Zenon, <1>1 DEF Objs, Finalized
<1> QED
  BY <1>1, <1>2, <1>4

\* An address from IPAM.
Addressed(x) == [x EXCEPT !.addr = TRUE]
\* Recording the addresses changes nothing else.
LEMMA AddressedObject ==
  ASSUME NEW x \in Objs
  PROVE  /\ Addressed(x) \in Objs
         /\ Addressed(x).ver = x.ver /\ Addressed(x).gen = x.gen /\ Addressed(x).deleting = x.deleting
         /\ Addressed(x).fin = x.fin /\ Addressed(x).addr
         /\ Addressed(x).ready = x.ready /\ Addressed(x).at = x.at
<1>1. PICK y : y = Addressed(x)
  OBVIOUS
<1>2. /\ y.ver = x.ver /\ y.gen = x.gen /\ y.deleting = x.deleting /\ y.fin = x.fin
      /\ y.addr /\ y.ready = x.ready /\ y.at = x.at
  BY <1>1 DEF Objs, Addressed
<1>4. y \in Objs
  BY Zenon, <1>1 DEF Objs, Addressed
<1> QED
  BY <1>1, <1>2, <1>4

\* One object less to do.
Without(x, t) == [x EXCEPT !.todo = t]
\* The worklist of a pass is all that changes.
LEMMA WithoutPass ==
  ASSUME NEW x \in Passes, NEW t \in SUBSET Intents
  PROVE  /\ Without(x, t) \in Passes
         /\ Without(x, t).at = x.at /\ Without(x, t).cl = x.cl /\ Without(x, t).todo = t
         /\ Without(x, t).o = x.o /\ Without(x, t).copy = x.copy /\ Without(x, t).allocs = x.allocs
<1>1. PICK y : y = Without(x, t)
  OBVIOUS
<1>2. /\ y.at = x.at /\ y.cl = x.cl /\ y.todo = t /\ y.o = x.o /\ y.copy = x.copy /\ y.allocs = x.allocs
  BY <1>1 DEF Passes, Without
<1>3. y \in Passes
  BY Zenon, <1>1 DEF Passes, Without, Stages
<1> QED
  BY <1>1, <1>2, <1>3

\* The next step for the object.
Going(x, a) == [x EXCEPT !.at = a]
\* The stage of a pass is all that changes.
LEMMA GoingPass ==
  ASSUME NEW x \in Passes, NEW a \in Stages
  PROVE  /\ Going(x, a) \in Passes
         /\ Going(x, a).at = a /\ Going(x, a).cl = x.cl /\ Going(x, a).todo = x.todo
         /\ Going(x, a).o = x.o /\ Going(x, a).copy = x.copy /\ Going(x, a).allocs = x.allocs
<1>1. PICK y : y = Going(x, a)
  OBVIOUS
<1>2. /\ y.at = a /\ y.cl = x.cl /\ y.todo = x.todo /\ y.o = x.o /\ y.copy = x.copy /\ y.allocs = x.allocs
  BY <1>1 DEF Passes, Going
<1>3. y \in Passes
  BY Zenon, <1>1 DEF Passes, Going, Stages
<1> QED
  BY <1>1, <1>2, <1>3

\* The next object.
Taken(x, t, oo, c, a) == [x EXCEPT !.todo = t, !.o = oo, !.copy = c, !.at = a]
\* The object in hand, its copy and the worklist are all that change.
LEMMA TakenPass ==
  ASSUME NEW x \in Passes, NEW t \in SUBSET Intents, NEW oo \in Intents, NEW c \in Objs, NEW a \in Stages
  PROVE  /\ Taken(x, t, oo, c, a) \in Passes
         /\ Taken(x, t, oo, c, a).at = a /\ Taken(x, t, oo, c, a).cl = x.cl /\ Taken(x, t, oo, c, a).todo = t
         /\ Taken(x, t, oo, c, a).o = oo /\ Taken(x, t, oo, c, a).copy = c /\ Taken(x, t, oo, c, a).allocs = x.allocs
<1>1. PICK y : y = Taken(x, t, oo, c, a)
  OBVIOUS
<1>2. /\ y.at = a /\ y.cl = x.cl /\ y.todo = t /\ y.o = oo /\ y.copy = c /\ y.allocs = x.allocs
  BY <1>1 DEF Passes, Taken
<1>3. y \in Passes
  BY Zenon, <1>1 DEF Passes, Taken, Stages
<1> QED
  BY <1>1, <1>2, <1>3

\* The next step, with another copy.
Kept(x, a, c) == [x EXCEPT !.at = a, !.copy = c]
\* The stage and the copy in hand are all that change.
LEMMA KeptPass ==
  ASSUME NEW x \in Passes, NEW a \in Stages, NEW c \in Objs
  PROVE  /\ Kept(x, a, c) \in Passes
         /\ Kept(x, a, c).at = a /\ Kept(x, a, c).cl = x.cl /\ Kept(x, a, c).todo = x.todo
         /\ Kept(x, a, c).o = x.o /\ Kept(x, a, c).copy = c /\ Kept(x, a, c).allocs = x.allocs
<1>1. PICK y : y = Kept(x, a, c)
  OBVIOUS
<1>2. /\ y.at = a /\ y.cl = x.cl /\ y.todo = x.todo /\ y.o = x.o /\ y.copy = c /\ y.allocs = x.allocs
  BY <1>1 DEF Passes, Kept
<1>3. y \in Passes
  BY Zenon, <1>1 DEF Passes, Kept, Stages
<1> QED
  BY <1>1, <1>2, <1>3

\* A pass starts.
Started(x, a, t, c, l) == [x EXCEPT !.at = a, !.todo = t, !.cl = c, !.allocs = l]
\* A pass starts on the client and with the worklist it was given.
LEMMA StartedPass ==
  ASSUME NEW x \in Passes, NEW a \in Stages, NEW t \in SUBSET Intents,
         NEW c \in Clusters \cup {"none"}, NEW l \in SUBSET Counted
  PROVE  /\ Started(x, a, t, c, l) \in Passes
         /\ Started(x, a, t, c, l).at = a /\ Started(x, a, t, c, l).cl = c
         /\ Started(x, a, t, c, l).copy = x.copy /\ Started(x, a, t, c, l).allocs = l
<1>1. PICK y : y = Started(x, a, t, c, l)
  OBVIOUS
<1>2. y.at = a /\ y.cl = c /\ y.copy = x.copy /\ y.allocs = l
  BY <1>1 DEF Passes, Started
<1>3. y \in Passes
  BY Zenon, <1>1 DEF Passes, Started, Stages
<1> QED
  BY <1>1, <1>2, <1>3

\* The object is done.
LEMMA Next1Pass ==
  ASSUME pass \in Passes
  PROVE  /\ Next1 \in Passes /\ Next1.at = "sync" /\ Next1.cl = pass.cl
         /\ Next1.copy = NoObj /\ Next1.allocs = pass.allocs
<1>1. PICK y : y = Next1
  OBVIOUS
<1>2. y.at = "sync" /\ y.cl = pass.cl /\ y.copy = NoObj /\ y.allocs = pass.allocs
  BY <1>1 DEF Next1, Passes
<1>3. NoObj \in Objs
  BY EmptyFields
<1>4. y \in Passes
  BY Zenon, <1>1, <1>3 DEF Next1, Passes, Stages
<1> QED
  BY <1>1, <1>2, <1>4

\* A copy that somebody else made.
LEMMA ForeignCopy ==
  ASSUME NEW x \in Copies, NEW e \in Nat, NEW y, y = [x EXCEPT !.ver = e]
  PROVE  y \in Copies /\ y.managed = x.managed /\ y.observed = x.observed
BY DEF Copies

\* The initial state.
LEMMA InitSyncInv == Init => SyncInv
<1> SUFFICES ASSUME Init PROVE SyncInv
  OBVIOUS
<1> USE SyncAssumption
<1>1. NoObj \in Objs
  BY EmptyFields
<1>2. /\ [NoCopy EXCEPT !.ver = MaxEdits + 1] \in Copies
      /\ ~[NoCopy EXCEPT !.ver = MaxEdits + 1].managed
      /\ ~[NoCopy EXCEPT !.ver = MaxEdits + 1].observed
      /\ NoCopy \in Copies /\ ~NoCopy.managed /\ ~NoCopy.observed
  BY ForeignCopy, EmptyFields
<1>3. Idle \in Passes /\ Idle.at = "idle" /\ Idle.copy = NoObj
  BY EmptyFields
<1>4. Sane(NoObj, edits) /\ ~NoObj.deleting /\ ~NoObj.fin /\ ~NoObj.ready
  BY DEF Init, NoObj, Sane
<1>5. SyncTypeOK
  BY <1>1, <1>2, <1>3 DEF Init, SyncTypeOK, OneObject
<1>6. CacheOK
  BY <1>3, <1>4 DEF Init, CacheOK, Names
<1>7. PassOK
  BY <1>3 DEF Init, PassOK, OneObject
<1>8. \A c \in Clusters, o \in Names : ~remote[c][o].managed /\ ~remote[c][o].observed
  BY <1>2 DEF Init
<1>9. ReportsOK
  <2>1. \A o \in Intents : ~mgmt[o].ready
    BY <1>4 DEF Init, Names
  <2> QED
    BY <1>8, <2>1 DEF ReportsOK, Names
<1>10. CopiesOK
  BY <1>8 DEF CopiesOK
<1> QED
  BY <1>5, <1>6, <1>7, <1>9, <1>10 DEF SyncInv

\* A pass that ends, by an error, a restart or because all is done, knows nothing.
LEMMA EndsSync ==
  ASSUME SyncInv, pass' = Idle, mgmt' = mgmt, cache' = cache, remote' = remote, edits' = edits,
         abandoned' = abandoned, proved' = proved,
         kubeconfig' = kubeconfig, clients' \subseteq Clusters
  PROVE  SyncInv'
<1> USE EmptyFields
<1>1. SyncTypeOK'
  BY DEF SyncInv, SyncTypeOK, OneObject
<1>2. Sane(pass.copy, edits)'
  BY DEF SyncInv, SyncTypeOK, Sane
<1>3. CacheOK'
  BY <1>2 DEF SyncInv, CacheOK, Sane, Holds
<1>4. PassOK'
  BY DEF PassOK, OneObject
<1>5. ReportsOK' /\ CopiesOK'
  BY DEF SyncInv, ReportsOK, CopiesOK
<1> QED
  BY <1>1, <1>3, <1>4, <1>5 DEF SyncInv

\* The object a user edits gets a version nobody has seen.
LEMMA EditSync ==
  ASSUME SyncInv, NEW o \in Names, Edit(o)
  PROVE  SyncInv'
<1> USE SyncAssumption
<1> DEFINE m == Edited(mgmt[o], edits')
<1>1. edits \in Nat /\ edits' = edits + 1 /\ mgmt[o] \in Objs /\ ~mgmt[o].deleting
  BY DEF Edit, SyncInv, SyncTypeOK
<1>2. /\ m \in Objs /\ m.ver = edits + 1 /\ m.gen = mgmt[o].gen + 1 /\ m.deleting = mgmt[o].deleting
      /\ m.fin = mgmt[o].fin /\ m.addr = mgmt[o].addr /\ m.ready = mgmt[o].ready /\ m.at = mgmt[o].at
  BY <1>1, EditedObject
<1>3. mgmt' = [mgmt EXCEPT ![o] = m]
  BY Zenon DEF Edit, Edited
<1> HIDE DEF m
<1>4. /\ mgmt' \in [Names -> Objs] /\ mgmt'[o] = m
      /\ \A p \in Names : p # o => mgmt'[p] = mgmt[p]
  BY <1>2, <1>3 DEF SyncInv, SyncTypeOK
<1>5. /\ cache' = cache /\ kubeconfig' = kubeconfig /\ clients' = clients /\ remote' = remote
      /\ pass' = pass /\ abandoned' = abandoned /\ proved' = proved /\ lagged' = lagged
  BY DEF Edit, fleet, history
<1>6. SyncTypeOK'
  BY <1>1, <1>4, <1>5 DEF SyncInv, SyncTypeOK
<1>7. \A s \in Objs : Sane(s, edits) => s.ver <= edits /\ Sane(s, edits')
  BY <1>1 DEF Sane, Objs
<1>8. Sane(m, edits')
  BY <1>1, <1>2 DEF Sane
<1>9. pass.copy \in Objs /\ \A p \in Names : cache[p] \in Objs /\ mgmt[p] \in Objs
  BY DEF SyncInv, SyncTypeOK, Passes
<1>10. \A p \in Intents : Sane(mgmt'[p], edits') /\ Sane(cache[p], edits')
  BY <1>4, <1>7, <1>8, <1>9 DEF SyncInv, CacheOK, Names
<1>11. \A s \in Objs, p \in Names : Holds(s, mgmt[p]) => Holds(s, mgmt'[p])
  BY <1>1, <1>2, <1>4, <1>9 DEF Holds, Objs
<1>12. \A s \in Objs : Sane(s, edits) /\ mgmt'[o].ver = s.ver => FALSE
  BY <1>1, <1>2, <1>4, <1>7 DEF Objs
<1>13. CacheOK'
  <2>1. Sane(pass.copy, edits)'
    BY <1>5, <1>7, <1>9 DEF SyncInv, CacheOK, Sane
  <2>2. ASSUME NEW p \in Intents
        PROVE  /\ cache[p].deleting /\ mgmt'[p].ver = cache[p].ver => mgmt'[p].deleting
               /\ cache[p].fin /\ ~cache[p].deleting => Holds(cache[p], mgmt'[p])
    BY <1>4, <1>9, <1>11, <1>12 DEF SyncInv, CacheOK, Names
  <2> QED
    BY <1>5, <1>10, <2>1, <2>2 DEF CacheOK, Sane, Holds
<1>14. PassOK'
  <2>1. pass.at \in {"delete", "release"} =>
          pass.o \in Names /\ (mgmt'[pass.o].ver = pass.copy.ver => mgmt'[pass.o] = mgmt[pass.o])
    BY <1>4, <1>9, <1>12 DEF SyncInv, SyncTypeOK, CacheOK, Names, OneObject
  <2>2. pass.at \in {"apply", "status"} => Holds(pass.copy, mgmt'[pass.o])
    BY <1>9, <1>11 DEF SyncInv, SyncTypeOK, PassOK, Names, OneObject
  <2>3. \A p \in Names : mgmt'[p].addr = mgmt[p].addr
    BY <1>2, <1>4
  <2>4. pass.at \in OneObject \cup {"sync"} /\ ~lagged => \A p \in Counted \ pass.allocs : ~mgmt'[p].addr
    BY <2>3 DEF SyncInv, PassOK, Names
  <2> QED
    BY <1>5, <2>1, <2>2, <2>4 DEF SyncInv, PassOK, Holds
<1>15. ReportsOK'
  <2>1. ASSUME NEW p \in Intents, mgmt'[p].ready
        PROVE  mgmt'[p].at <= mgmt'[p].gen /\ (mgmt'[p].at = mgmt'[p].gen => mgmt'[p].ver \in proved)
    <3>1. CASE p = o
      <4>1. mgmt[o].at <= mgmt[o].gen /\ mgmt[o].at \in Nat /\ mgmt[o].gen \in Nat
        BY <1>1, <1>2, <1>4, <2>1, <3>1 DEF SyncInv, ReportsOK, Objs
      <4> QED
        BY <1>2, <1>4, <3>1, <4>1
    <3>2. CASE p # o
      BY <1>4, <2>1, <3>2 DEF SyncInv, ReportsOK, Names
    <3> QED
      BY <3>1, <3>2
  <2> QED
    BY <1>5, <2>1 DEF SyncInv, ReportsOK
<1>16. CopiesOK'
  <2>1. \A p \in Names : mgmt'[p].fin = mgmt[p].fin
    BY <1>2, <1>4
  <2> QED
    BY <1>5, <2>1 DEF SyncInv, CopiesOK, Names
<1> QED
  BY <1>6, <1>13, <1>14, <1>15, <1>16 DEF SyncInv

\* A deletion waits for the finalizer; without one the object goes.
LEMMA DeleteSync ==
  ASSUME SyncInv, NEW o \in Names, Delete(o)
  PROVE  SyncInv'
<1> USE SyncAssumption
<1> DEFINE m == IF mgmt[o].fin THEN Deleted(mgmt[o]) ELSE NoObj
<1>1. edits \in Nat /\ edits' = edits + 1 /\ mgmt[o] \in Objs /\ ~mgmt[o].deleting
  BY DEF Delete, SyncInv, SyncTypeOK
<1>a. /\ mgmt[o].fin \in BOOLEAN /\ mgmt[o].ver \in Nat
      /\ mgmt[o].fin => mgmt[o] # NoObj
  BY <1>1, EmptyFields DEF Objs
<1>2. /\ m \in Objs /\ (m.fin <=> mgmt[o].fin) /\ (m.addr => mgmt[o].addr)
      /\ m.fin => m.gen = mgmt[o].gen /\ m.ver = mgmt[o].ver
      /\ m.deleting => m.fin
      /\ ~m.fin => m = NoObj
      /\ m.ready => /\ mgmt[o].ready /\ m.at = mgmt[o].at /\ m.gen = mgmt[o].gen
                    /\ m.ver = mgmt[o].ver
      /\ m.ver # 0 => m.ver = mgmt[o].ver
      /\ m.fin => m.deleting
  <2>1. CASE mgmt[o].fin
    <3>1. m = Deleted(mgmt[o])
      BY <2>1
    <3> HIDE DEF m
    <3>2. /\ Deleted(mgmt[o]) \in Objs /\ Deleted(mgmt[o]).fin = mgmt[o].fin
          /\ Deleted(mgmt[o]).addr = mgmt[o].addr /\ Deleted(mgmt[o]).gen = mgmt[o].gen
          /\ Deleted(mgmt[o]).ver = mgmt[o].ver /\ Deleted(mgmt[o]).at = mgmt[o].at
          /\ Deleted(mgmt[o]).ready = mgmt[o].ready /\ Deleted(mgmt[o]).deleting
      BY <1>1, DeletedObject
    <3> QED
      BY Zenon, <2>1, <3>1, <3>2
  <2>2. CASE ~mgmt[o].fin
    <3>1. m = NoObj
      BY <2>2
    <3> HIDE DEF m
    <3> QED
      BY Zenon, <1>a, <2>2, <3>1, EmptyFields
  <2> QED
    BY Zenon, <2>1, <2>2
<1>3. mgmt' = [mgmt EXCEPT ![o] = m]
  BY Zenon DEF Delete, Deleted
<1> HIDE DEF m
<1>4. /\ mgmt' \in [Names -> Objs] /\ mgmt'[o] = m
      /\ \A p \in Names : p # o => mgmt'[p] = mgmt[p]
  BY <1>2, <1>3 DEF SyncInv, SyncTypeOK
<1>5. /\ cache' = cache /\ kubeconfig' = kubeconfig /\ clients' = clients /\ remote' = remote
      /\ pass' = pass /\ abandoned' = abandoned /\ proved' = proved /\ lagged' = lagged
  BY DEF Delete, fleet, history
<1>6. SyncTypeOK'
  BY <1>1, <1>4, <1>5 DEF SyncInv, SyncTypeOK
<1>7. pass.copy \in Objs /\ \A p \in Names : cache[p] \in Objs /\ mgmt[p] \in Objs
  BY DEF SyncInv, SyncTypeOK, Passes
<1>8. \A s \in Objs : Sane(s, edits) => Sane(s, edits')
  BY <1>1 DEF Sane, Objs
<1>9. \A p \in Intents : Sane(mgmt'[p], edits') /\ Sane(cache[p], edits')
  <2>1. o \in Intents => Sane(m, edits')
    <3>1. o \in Intents => Sane(mgmt[o], edits)
      BY DEF SyncInv, CacheOK
    <3>2. CASE m.fin
      BY <1>1, <1>a, <1>2, <3>1, <3>2 DEF Sane
    <3>3. CASE ~m.fin
      BY <1>1, <1>2, <3>3, EmptyFields DEF Sane
    <3> QED
      BY <3>2, <3>3
  <2> QED
    BY <1>4, <1>7, <1>8, <2>1 DEF SyncInv, CacheOK, Names
<1>10. \A s \in Objs, p \in Names : Holds(s, mgmt[p]) => Holds(s, mgmt'[p])
  BY <1>2, <1>4 DEF Holds
<1>11. CacheOK'
  <2>1. Sane(pass.copy, edits')
    BY <1>7, <1>8 DEF SyncInv, CacheOK
  <2>2. ASSUME NEW p \in Intents
        PROVE  /\ cache[p].deleting /\ mgmt'[p].ver = cache[p].ver => mgmt'[p].deleting
               /\ cache[p].fin /\ ~cache[p].deleting => Holds(cache[p], mgmt'[p])
    <3>1. cache[p].deleting => cache[p].ver # 0
      BY EmptyFields, <1>7 DEF SyncInv, CacheOK, Sane, Names, Objs
    <3>2. cache[p].deleting /\ mgmt[p].ver = cache[p].ver => mgmt[p].deleting
      BY DEF SyncInv, CacheOK
    <3>3. cache[p].deleting /\ mgmt'[p].ver = cache[p].ver => mgmt'[p].deleting
      BY <1>1, <1>2, <1>4, <3>1, <3>2 DEF Names
    <3> QED
      BY <1>7, <1>10, <3>3 DEF SyncInv, CacheOK, Names
  <2> QED
    BY <1>5, <1>9, <2>1, <2>2 DEF CacheOK, Sane, Holds
<1>12. PassOK'
  <2>1. pass.at \in {"delete", "release"} =>
          pass.o \in Names /\ (mgmt'[pass.o].ver = pass.copy.ver => mgmt'[pass.o] = mgmt[pass.o])
    <3>1. pass.at \in {"delete", "release"} =>
            /\ pass.o \in Names
            /\ pass.copy.ver # 0
            /\ mgmt[pass.o].ver = pass.copy.ver => mgmt[pass.o].deleting
      BY SMTT(30), <1>7, EmptyFields
      DEF SyncInv, SyncTypeOK, CacheOK, PassOK, Sane, Names, OneObject, Objs
    <3> QED
      BY <1>1, <1>2, <1>4, <3>1
  <2>2. pass.at \in {"apply", "status"} => Holds(pass.copy, mgmt'[pass.o])
    BY <1>7, <1>10 DEF SyncInv, SyncTypeOK, PassOK, Names, OneObject
  <2>3. \A p \in Names : mgmt'[p].addr => mgmt[p].addr
    BY <1>2, <1>4
  <2>4. pass.at \in OneObject \cup {"sync"} /\ ~lagged => \A p \in Counted \ pass.allocs : ~mgmt'[p].addr
    BY <2>3 DEF SyncInv, PassOK, Names
  <2> QED
    BY <1>5, <2>1, <2>2, <2>4 DEF SyncInv, PassOK, Holds
<1>13. ReportsOK'
  <2>1. \A p \in Names : mgmt'[p].ready =>
          /\ mgmt[p].ready /\ mgmt'[p].at = mgmt[p].at /\ mgmt'[p].gen = mgmt[p].gen
          /\ mgmt'[p].ver = mgmt[p].ver
    BY <1>2, <1>4
  <2> QED
    BY <1>5, <2>1 DEF SyncInv, ReportsOK, Names
<1>14. CopiesOK'
  <2>1. \A p \in Names : mgmt'[p].fin <=> mgmt[p].fin
    BY <1>2, <1>4
  <2> QED
    BY <1>5, <2>1 DEF SyncInv, CopiesOK, Names
<1> QED
  BY <1>6, <1>11, <1>12, <1>13, <1>14 DEF SyncInv

\* The informer shows an object as it is.
LEMMA CacheSyncSync ==
  ASSUME SyncInv, NEW o \in Names, CacheSync(o)
  PROVE  SyncInv'
<1> USE SyncAssumption
<1>1. /\ cache' \in [Names -> Objs] /\ cache'[o] = mgmt[o]
      /\ \A p \in Names : p # o => cache'[p] = cache[p]
  BY DEF CacheSync, SyncInv, SyncTypeOK
<1>2. /\ edits' = edits /\ mgmt' = mgmt /\ kubeconfig' = kubeconfig /\ clients' = clients
      /\ remote' = remote /\ pass' = pass /\ abandoned' = abandoned /\ proved' = proved /\ lagged' = lagged
  BY DEF CacheSync, fleet, history
<1>3. SyncTypeOK'
  BY <1>1, <1>2 DEF SyncInv, SyncTypeOK
<1>4. \A p \in Names : mgmt[p] \in Objs
  BY DEF SyncInv, SyncTypeOK
<1>5. CacheOK'
  <2>1. \A p \in Intents : Sane(cache'[p], edits)
    BY <1>1 DEF SyncInv, CacheOK, Names
  <2>2. \A p \in Intents : cache'[p].fin /\ ~cache'[p].deleting => Holds(cache'[p], mgmt[p])
    BY <1>1, <1>4 DEF SyncInv, CacheOK, Holds, Names, Objs
  <2>3. \A p \in Intents : cache'[p].deleting /\ mgmt[p].ver = cache'[p].ver => mgmt[p].deleting
    BY <1>1 DEF SyncInv, CacheOK, Names
  <2> QED
    BY <1>2, <2>1, <2>2, <2>3 DEF SyncInv, CacheOK, Sane, Holds
<1>6. PassOK'
  <2>1. pass.at \in {"delete", "release"} /\ mgmt[pass.o].ver = pass.copy.ver =>
          cache'[pass.o].ver = pass.copy.ver /\ cache'[pass.o].deleting
    BY Zenon, <1>1 DEF SyncInv, SyncTypeOK, PassOK, Names, OneObject
  <2> QED
    BY Zenon, <1>2, <2>1 DEF SyncInv, PassOK, Holds
<1>7. ReportsOK' /\ CopiesOK'
  BY <1>2 DEF SyncInv, ReportsOK, CopiesOK
<1> QED
  BY <1>3, <1>5, <1>6, <1>7 DEF SyncInv

\* What the workload cluster does to a copy.
Observed(x, b) == [x EXCEPT !.observed = TRUE, !.ready = b]
\* The workload cluster reports on a copy and leaves its content alone.
LEMMA ObservedCopy ==
  ASSUME NEW x \in Copies, NEW b \in BOOLEAN
  PROVE  /\ Observed(x, b) \in Copies
         /\ Observed(x, b).ver = x.ver /\ (Observed(x, b).managed <=> x.managed)
         /\ Observed(x, b).labels = x.labels /\ Observed(x, b).mine = x.mine
         /\ (Observed(x, b).ready <=> b) /\ (Observed(x, b).addr <=> x.addr)
<1>1. PICK y : y = Observed(x, b)
  OBVIOUS
<1>2. /\ y.ver = x.ver /\ (y.managed <=> x.managed) /\ y.labels = x.labels /\ y.mine = x.mine
      /\ (y.ready <=> b) /\ (y.addr <=> x.addr)
  BY <1>1 DEF Copies, Observed
<1>3. y \in Copies
  BY Zenon, <1>1 DEF Copies, Observed
<1> QED
  BY <1>1, <1>2, <1>3

Labelled(x) == [x EXCEPT !.labels = x.labels \cup {"x"}]
\* Somebody in the workload cluster adds a label and changes nothing else.
LEMMA LabelledCopy ==
  ASSUME NEW x \in Copies
  PROVE  /\ Labelled(x) \in Copies
         /\ Labelled(x).ver = x.ver /\ (Labelled(x).managed <=> x.managed) /\ Labelled(x).mine = x.mine
         /\ (Labelled(x).observed <=> x.observed) /\ (Labelled(x).ready <=> x.ready)
         /\ Labelled(x).labels = x.labels \cup {"x"} /\ (Labelled(x).addr <=> x.addr)
<1>1. PICK y : y = Labelled(x)
  OBVIOUS
<1>2. /\ y.ver = x.ver /\ (y.managed <=> x.managed) /\ y.mine = x.mine
      /\ (y.observed <=> x.observed) /\ (y.ready <=> x.ready)
      /\ y.labels = x.labels \cup {"x"} /\ (y.addr <=> x.addr)
  BY <1>1 DEF Copies, Labelled
<1>3. x.labels \cup {"x"} \in SUBSET Keys
  BY DEF Copies, Keys
<1>4. y \in Copies
  BY Zenon, <1>1, <1>3 DEF Copies, Labelled
<1> QED
  BY <1>1, <1>2, <1>4

\* Versions have no label of others.
LEMMA OwnLabels == \A v : "x" \notin Labels(v) /\ Labels(v) \in SUBSET Keys
BY DEF Labels, Keys

\* A change of copies that nobody but the workload cluster makes.
LEMMA RemoteSync ==
  ASSUME SyncInv, remote' \in [Clusters -> [Names -> Copies]],
         edits' = edits, mgmt' = mgmt, cache' = cache, pass' = pass, abandoned' = abandoned,
         lagged' = lagged, proved \subseteq proved',
         kubeconfig' \in [Clusters -> {"absent", "pending", "ready"}], clients' \subseteq Clusters,
         \A c \in Clusters, o \in Names :
            \/ remote'[c][o] = NoCopy
            \/ /\ remote'[c][o].ver = remote[c][o].ver
               /\ (remote'[c][o].managed <=> remote[c][o].managed)
               /\ remote'[c][o].mine = remote[c][o].mine
               /\ remote'[c][o].labels \ {"x"} = remote[c][o].labels \ {"x"}
               /\ remote[c][o] = NoCopy => remote'[c][o] = NoCopy
               /\ remote'[c][o].observed /\ remote'[c][o].ready =>
                    (remote[c][o].observed /\ remote[c][o].ready) \/ remote'[c][o].ver \in proved'
  PROVE  SyncInv'
<1>1. SyncTypeOK'
  BY DEF SyncInv, SyncTypeOK
<1>2. CacheOK'
  BY Zenon DEF SyncInv, CacheOK, Sane, Holds
<1>3. PassOK'
  <2>1. pass.at = "release" => ~remote'[pass.cl][pass.o].managed
    BY Zenon, EmptyFields DEF SyncInv, SyncTypeOK, PassOK, Names, OneObject
  <2>2. pass.at = "status" =>
          remote'[pass.cl][pass.o] = NoCopy \/ remote'[pass.cl][pass.o].ver = pass.copy.ver
    BY Zenon DEF SyncInv, SyncTypeOK, PassOK, Names, OneObject
  <2> QED
    BY Zenon, <2>1, <2>2 DEF SyncInv, PassOK, Holds
<1>4. ReportsOK'
  <2>1. \A c \in Clusters, o \in Intents :
          remote'[c][o].observed /\ remote'[c][o].ready => remote'[c][o].ver \in proved'
    BY SMTT(30), EmptyFields DEF SyncInv, ReportsOK, Names
  <2> QED
    BY <2>1 DEF SyncInv, ReportsOK
<1>5. CopiesOK'
  <2>1. ASSUME NEW c \in Clusters, NEW o \in Names, remote'[c][o].managed
        PROVE  /\ o \in Intents => mgmt[o].fin \/ <<c, o>> \in abandoned
               /\ remote'[c][o].mine = Labels(remote'[c][o].ver)
               /\ remote'[c][o].labels \ {"x"} = Labels(remote'[c][o].ver)
    <3>1. /\ remote[c][o].managed /\ remote'[c][o].ver = remote[c][o].ver
          /\ remote'[c][o].mine = remote[c][o].mine
          /\ remote'[c][o].labels \ {"x"} = remote[c][o].labels \ {"x"}
      BY <2>1, EmptyFields
    <3>2. /\ o \in Intents => mgmt[o].fin \/ <<c, o>> \in abandoned
          /\ remote[c][o].mine = Labels(remote[c][o].ver)
          /\ remote[c][o].labels \ {"x"} = Labels(remote[c][o].ver)
      BY SMTT(30), <3>1 DEF SyncInv, CopiesOK
    <3> QED
      BY <3>1, <3>2
  <2> QED
    BY <2>1 DEF CopiesOK
<1> QED
  BY <1>1, <1>2, <1>3, <1>4, <1>5 DEF SyncInv

\* Clusters come and go, with all their copies.
LEMMA ClusterChangesSync ==
  ASSUME SyncInv, NEW c \in Clusters, ClusterChanges(c)
  PROVE  SyncInv'
<1> DEFINE none == [o \in Names |-> NoCopy]
<1>1. none \in [Names -> Copies] /\ \A o \in Names : none[o] = NoCopy
  BY EmptyFields
<1>2. remote' = [remote EXCEPT ![c] = IF kubeconfig'[c] = "absent" THEN none ELSE remote[c]]
  BY Zenon DEF ClusterChanges
<1>3. kubeconfig' \in [Clusters -> {"absent", "pending", "ready"}]
  BY DEF ClusterChanges, SyncInv, SyncTypeOK
<1>4. /\ edits' = edits /\ mgmt' = mgmt /\ cache' = cache /\ clients' = clients /\ pass' = pass
      /\ abandoned' = abandoned /\ proved' = proved /\ lagged' = lagged
  BY DEF ClusterChanges, users, history
<1> HIDE DEF none
<1>5. /\ remote' \in [Clusters -> [Names -> Copies]]
      /\ \A d \in Clusters : remote'[d] = remote[d] \/ remote'[d] = none
  BY <1>1, <1>2 DEF SyncInv, SyncTypeOK
<1>6. \A d \in Clusters, o \in Names : remote'[d][o] = remote[d][o] \/ remote'[d][o] = NoCopy
  BY <1>1, <1>5
<1> QED
  BY Zenon, <1>3, <1>4, <1>5, <1>6, RemoteSync DEF SyncInv, SyncTypeOK

\* The workload operator reports; what it reports Ready is proved.
LEMMA WorkloadReportsSync ==
  ASSUME SyncInv, NEW c \in Clusters, NEW o \in Names, WorkloadReports(c, o)
  PROVE  SyncInv'
<1>1. PICK ok \in BOOLEAN :
        /\ remote' = [remote EXCEPT ![c][o] = Observed(remote[c][o], ok)]
        /\ proved' = IF ok THEN proved \cup {remote[c][o].ver} ELSE proved
  BY Zenon DEF WorkloadReports, Observed
<1>2. remote[c][o] \in Copies /\ remote[c][o].managed
  BY DEF SyncInv, SyncTypeOK, WorkloadReports
<1> DEFINE r == Observed(remote[c][o], ok)
<1>3. /\ r \in Copies /\ r.ver = remote[c][o].ver /\ (r.managed <=> remote[c][o].managed)
      /\ r.labels = remote[c][o].labels /\ r.mine = remote[c][o].mine /\ (r.ready <=> ok)
  BY <1>2, ObservedCopy
<1> HIDE DEF r
<1>4. remote' = [remote EXCEPT ![c][o] = r]
  BY <1>1 DEF r
<1>5. /\ remote' \in [Clusters -> [Names -> Copies]] /\ remote'[c][o] = r
      /\ \A d \in Clusters, p \in Names : d # c \/ p # o => remote'[d][p] = remote[d][p]
  BY <1>3, <1>4 DEF SyncInv, SyncTypeOK
<1>6. /\ edits' = edits /\ mgmt' = mgmt /\ cache' = cache /\ clients' = clients /\ pass' = pass
      /\ abandoned' = abandoned /\ lagged' = lagged /\ kubeconfig' = kubeconfig
  BY DEF WorkloadReports, users
<1>7. proved \subseteq proved' /\ (r.ready => r.ver \in proved')
  BY <1>1, <1>3
<1>8. remote[c][o] # NoCopy
  BY <1>2, EmptyFields
<1>9. \A d \in Clusters, p \in Names :
        /\ remote'[d][p].ver = remote[d][p].ver
        /\ (remote'[d][p].managed <=> remote[d][p].managed)
        /\ remote'[d][p].mine = remote[d][p].mine
        /\ remote'[d][p].labels = remote[d][p].labels
        /\ remote[d][p] = NoCopy => remote'[d][p] = NoCopy
        /\ remote'[d][p].observed /\ remote'[d][p].ready =>
             (remote[d][p].observed /\ remote[d][p].ready) \/ remote'[d][p].ver \in proved'
  BY <1>3, <1>5, <1>7, <1>8
<1> QED
  <2>1. /\ kubeconfig' \in [Clusters -> {"absent", "pending", "ready"}] /\ clients' \subseteq Clusters
        /\ remote' \in [Clusters -> [Names -> Copies]]
    BY <1>5, <1>6 DEF SyncInv, SyncTypeOK
  <2>2. \A d \in Clusters, p \in Names : remote'[d][p].labels \ {"x"} = remote[d][p].labels \ {"x"}
    BY Zenon, <1>9
  <2> QED
    BY Zenon, <1>6, <1>7, <1>9, <2>1, <2>2, RemoteSync

\* Somebody labels a copy.
LEMMA WorkloadLabelsSync ==
  ASSUME SyncInv, NEW c \in Clusters, NEW o \in Names, WorkloadLabels(c, o)
  PROVE  SyncInv'
<1> DEFINE r == Labelled(remote[c][o])
<1>1. remote' = [remote EXCEPT ![c][o] = r]
  BY Zenon DEF WorkloadLabels, Labelled
<1>2. remote[c][o] \in Copies /\ remote[c][o].managed
  BY DEF SyncInv, SyncTypeOK, WorkloadLabels
<1>3. /\ r \in Copies /\ r.ver = remote[c][o].ver /\ (r.managed <=> remote[c][o].managed)
      /\ r.labels = remote[c][o].labels \cup {"x"} /\ r.mine = remote[c][o].mine
      /\ (r.observed <=> remote[c][o].observed) /\ (r.ready <=> remote[c][o].ready)
  BY <1>2, LabelledCopy
<1> HIDE DEF r
<1>5. /\ remote' \in [Clusters -> [Names -> Copies]] /\ remote'[c][o] = r
      /\ \A d \in Clusters, p \in Names : d # c \/ p # o => remote'[d][p] = remote[d][p]
  BY <1>1, <1>3 DEF SyncInv, SyncTypeOK
<1>6. /\ edits' = edits /\ mgmt' = mgmt /\ cache' = cache /\ clients' = clients /\ pass' = pass
      /\ abandoned' = abandoned /\ proved' = proved /\ lagged' = lagged /\ kubeconfig' = kubeconfig
  BY DEF WorkloadLabels, users, history
<1>7. remote[c][o] # NoCopy
  BY <1>2, EmptyFields
<1>8. r.labels \ {"x"} = remote[c][o].labels \ {"x"}
  BY <1>3
<1>9. \A d \in Clusters, p \in Names :
        /\ remote'[d][p].ver = remote[d][p].ver
        /\ (remote'[d][p].managed <=> remote[d][p].managed)
        /\ remote'[d][p].mine = remote[d][p].mine
        /\ remote'[d][p].labels \ {"x"} = remote[d][p].labels \ {"x"}
        /\ remote[d][p] = NoCopy => remote'[d][p] = NoCopy
        /\ (remote'[d][p].observed <=> remote[d][p].observed) /\ (remote'[d][p].ready <=> remote[d][p].ready)
  BY <1>3, <1>5, <1>7, <1>8
<1> QED
  <2>1. \A d \in Clusters, p \in Names :
          remote'[d][p].observed /\ remote'[d][p].ready => remote[d][p].observed /\ remote[d][p].ready
    BY Zenon, <1>9
  <2>2. /\ kubeconfig' \in [Clusters -> {"absent", "pending", "ready"}] /\ clients' \subseteq Clusters
        /\ remote' \in [Clusters -> [Names -> Copies]] /\ proved \subseteq proved'
    BY <1>5, <1>6 DEF SyncInv, SyncTypeOK
  <2>3. \A d \in Clusters, p \in Names :
          /\ remote'[d][p].ver = remote[d][p].ver
          /\ (remote'[d][p].managed <=> remote[d][p].managed)
          /\ remote'[d][p].mine = remote[d][p].mine
          /\ remote'[d][p].labels \ {"x"} = remote[d][p].labels \ {"x"}
          /\ remote[d][p] = NoCopy => remote'[d][p] = NoCopy
          /\ remote'[d][p].observed /\ remote'[d][p].ready =>
               (remote[d][p].observed /\ remote[d][p].ready) \/ remote'[d][p].ver \in proved'
    BY Zenon, <1>9, <2>1
  <2> QED
    BY Zenon, <1>6, <2>2, <2>3, RemoteSync

\* A client comes or goes.
LEMMA ReconcileClusterSync ==
  ASSUME SyncInv, NEW c \in Clusters, ReconcileCluster(c)
  PROVE  SyncInv'
<1>1. /\ edits' = edits /\ mgmt' = mgmt /\ cache' = cache /\ pass' = pass /\ remote' = remote
      /\ abandoned' = abandoned /\ proved' = proved /\ lagged' = lagged /\ kubeconfig' = kubeconfig
  BY DEF ReconcileCluster, users, history
<1>2. clients' \subseteq Clusters
  BY DEF ReconcileCluster, UpdateFromKubeconfig, Remove, SyncInv, SyncTypeOK
<1> QED
  BY Zenon, <1>1, <1>2, RemoteSync DEF SyncInv, SyncTypeOK

\* The pass takes an object from its list, as the cache shows it.
LEMMA TakeSync ==
  ASSUME SyncInv, NEW o \in Intents, Take(o)
  PROVE  SyncInv'
<1> DEFINE stage == CASE cache[o] = NoObj -> "sync"
                      [] cache[o].deleting -> IF cache[o].fin THEN "delete" ELSE "sync"
                      [] OTHER -> IF cache[o].fin THEN "apply" ELSE "finalize"
           next == Taken(pass, pass.todo \ {o}, o, cache[o], stage)
<1>1. pass' = next
  BY Zenon DEF Take, Taken
<1>2. /\ stage \in {"sync", "delete", "apply", "finalize"}
      /\ stage = "delete" => cache[o].fin /\ cache[o].deleting
      /\ stage = "apply" => cache[o].fin /\ ~cache[o].deleting
      /\ stage = "finalize" => cache[o] # NoObj
  OBVIOUS
<1> HIDE DEF stage
<1>3. o \in Names /\ cache[o] \in Objs /\ pass \in Passes /\ pass.at = "sync" /\ pass.cl \in Clusters
  BY DEF SyncInv, SyncTypeOK, Names, Take
<1>4. pass.todo \ {o} \in SUBSET Intents /\ stage \in Stages
  BY <1>2, <1>3 DEF Passes, Stages, OneObject
<1>5. /\ next \in Passes /\ next.at = stage /\ next.cl = pass.cl /\ next.o = o
      /\ next.copy = cache[o] /\ next.allocs = pass.allocs
  BY SMTT(30), <1>3, <1>4, TakenPass
<1> HIDE DEF next
<1>6. /\ edits' = edits /\ mgmt' = mgmt /\ cache' = cache /\ remote' = remote /\ clients' = clients
      /\ abandoned' = abandoned /\ proved' = proved /\ lagged' = lagged /\ kubeconfig' = kubeconfig
  BY DEF Take, users, fleet, history
<1>7. SyncTypeOK'
  BY <1>1, <1>3, <1>5, <1>6 DEF SyncInv, SyncTypeOK
<1>8. CacheOK'
  <2>1. Sane(next.copy, edits)
    BY Zenon, <1>5 DEF SyncInv, CacheOK
  <2> QED
    BY Zenon, <1>1, <1>6, <2>1 DEF SyncInv, CacheOK, Sane, Holds
<1>9. PassOK'
  <2>1. stage = "delete" /\ mgmt[o].ver = cache[o].ver => mgmt[o].deleting
    BY Zenon, <1>2 DEF SyncInv, CacheOK
  <2>2. stage = "apply" => Holds(cache[o], mgmt[o]) /\ cache[o].ver > 0
    BY Zenon, <1>2, EmptyFields DEF SyncInv, CacheOK, Sane
  <2>3. ~lagged => \A p \in Counted \ pass.allocs : ~mgmt[p].addr
    BY <1>3 DEF SyncInv, PassOK, OneObject
  <2> QED
    BY Zenon, <1>1, <1>2, <1>5, <1>6, <2>1, <2>2, <2>3 DEF PassOK, Holds
<1>10. ReportsOK' /\ CopiesOK'
  BY Zenon, <1>6 DEF SyncInv, ReportsOK, CopiesOK
<1> QED
  BY <1>7, <1>8, <1>9, <1>10 DEF SyncInv

\* The copy goes, by name.
LEMMA DeleteRemoteSync ==
  ASSUME SyncInv, DeleteRemote
  PROVE  SyncInv'
<1> DEFINE next == Going(pass, "release")
           c == pass.cl
           o == pass.o
<1>1. pass' = next /\ remote' = [remote EXCEPT ![c][o] = NoCopy]
  BY Zenon DEF DeleteRemote, Going
<1>2. pass \in Passes /\ pass.at = "delete" /\ c \in Clusters /\ o \in Intents /\ o \in Names
  BY DEF DeleteRemote, SyncInv, SyncTypeOK, OneObject, Names
<1>3. /\ next \in Passes /\ next.at = "release" /\ next.cl = c /\ next.o = o
      /\ next.copy = pass.copy /\ next.allocs = pass.allocs
  BY <1>2, GoingPass DEF Stages, OneObject
<1> HIDE DEF next, c, o
<1>4. /\ edits' = edits /\ mgmt' = mgmt /\ cache' = cache /\ clients' = clients
      /\ abandoned' = abandoned /\ proved' = proved /\ lagged' = lagged /\ kubeconfig' = kubeconfig
  BY DEF DeleteRemote, users, history
<1>5. /\ remote' \in [Clusters -> [Names -> Copies]] /\ remote'[c][o] = NoCopy
      /\ \A d \in Clusters, p \in Names : d # c \/ p # o => remote'[d][p] = remote[d][p]
  BY Zenon, <1>1, <1>2, EmptyFields DEF SyncInv, SyncTypeOK
<1>6. SyncTypeOK'
  BY <1>1, <1>2, <1>3, <1>4, <1>5 DEF SyncInv, SyncTypeOK
<1>7. CacheOK'
  BY Zenon, <1>1, <1>3, <1>4 DEF SyncInv, CacheOK, Sane, Holds
<1>8. PassOK'
  <2>1. ~remote'[c][o].managed
    BY Zenon, <1>5, EmptyFields
  <2> QED
    BY Zenon, <1>1, <1>2, <1>3, <1>4, <2>1 DEF SyncInv, PassOK, Holds, OneObject, c, o
<1>9. ReportsOK'
  <2>1. \A d \in Clusters, p \in Names :
          remote'[d][p].observed /\ remote'[d][p].ready => remote'[d][p] = remote[d][p]
    BY <1>5, EmptyFields
  <2> QED
    BY Zenon, <1>4, <2>1 DEF SyncInv, ReportsOK, Names
<1>10. CopiesOK'
  <2>1. \A d \in Clusters, p \in Names : remote'[d][p].managed => remote'[d][p] = remote[d][p]
    BY <1>5, EmptyFields
  <2> QED
    BY SMTT(30), <1>4, <2>1 DEF SyncInv, CopiesOK
<1> QED
  BY <1>6, <1>7, <1>8, <1>9, <1>10 DEF SyncInv

\* The finalizer goes after the copy; the copies elsewhere are abandoned.
LEMMA ReleaseSync ==
  ASSUME SyncInv, ReleaseFinalizer, Current(pass.o)
  PROVE  SyncInv'
<1> DEFINE c == pass.cl
           o == pass.o
<1>1. /\ mgmt' = [mgmt EXCEPT ![o] = NoObj] /\ pass' = Next1
      /\ abandoned' = abandoned \cup Elsewhere(o, {c})
  BY Zenon DEF ReleaseFinalizer
<1>2. /\ pass \in Passes /\ pass.at = "release" /\ c \in Clusters /\ o \in Intents /\ o \in Names
      /\ mgmt[o] = pass.copy
  BY Zenon DEF ReleaseFinalizer, Current, SyncInv, SyncTypeOK, OneObject, Names
<1>3. pass.copy.fin /\ cache[o].deleting /\ ~remote[c][o].managed
  BY Zenon, <1>2 DEF SyncInv, PassOK
<1>4. \A d \in Clusters : d # c /\ remote[d][o].managed => <<d, o>> \in abandoned'
  BY Zenon, <1>1 DEF Elsewhere
<1>5. abandoned' \subseteq Clusters \X Names /\ abandoned \subseteq abandoned'
  BY <1>1, <1>2 DEF Elsewhere, SyncInv, SyncTypeOK
<1> HIDE DEF c, o
<1>6. /\ edits' = edits /\ remote' = remote /\ cache' = cache /\ clients' = clients
      /\ proved' = proved /\ lagged' = lagged /\ kubeconfig' = kubeconfig
  BY DEF ReleaseFinalizer, fleet
<1>7. /\ mgmt' \in [Names -> Objs] /\ mgmt'[o] = NoObj
      /\ \A p \in Names : p # o => mgmt'[p] = mgmt[p]
  BY Zenon, <1>1, <1>2, EmptyFields DEF SyncInv, SyncTypeOK
<1>8. /\ pass' \in Passes /\ pass'.at = "sync" /\ pass'.cl = c /\ pass'.copy = NoObj
      /\ pass'.allocs = pass.allocs
  BY <1>1, <1>2, Next1Pass DEF c
<1>9. SyncTypeOK'
  BY Zenon, <1>2, <1>5, <1>6, <1>7, <1>8 DEF SyncInv, SyncTypeOK, OneObject
<1>10. CacheOK'
  <2>1. Sane(NoObj, edits)
    BY EmptyFields DEF SyncInv, SyncTypeOK, Sane
  <2>2. \A p \in Intents : Sane(mgmt'[p], edits)
    BY <1>7, <2>1 DEF SyncInv, CacheOK, Names
  <2>3. \A p \in Intents : cache[p].deleting /\ mgmt'[p].ver = cache[p].ver => mgmt'[p].deleting
    <3>1. cache[o].ver # 0
      <4>1. Sane(cache[o], edits) /\ cache[o] # NoObj
        BY Zenon, <1>2, <1>3, EmptyFields DEF SyncInv, CacheOK
      <4> QED
        BY <4>1 DEF Sane
    <3>2. mgmt'[o].ver = 0
      BY <1>7, EmptyFields
    <3> QED
      BY Zenon, <1>7, <3>1, <3>2 DEF SyncInv, CacheOK, Names
  <2>4. \A p \in Intents : cache[p].fin /\ ~cache[p].deleting => Holds(cache[p], mgmt'[p])
    BY <1>3, <1>7 DEF SyncInv, CacheOK, Names
  <2> QED
    BY Zenon, <1>6, <1>8, <2>1, <2>2, <2>3, <2>4 DEF SyncInv, CacheOK, Sane, Holds
<1>11. PassOK'
  <2>1. \A p \in Names : mgmt'[p].addr => mgmt[p].addr
    BY Zenon, <1>7, EmptyFields
  <2>2. ~lagged => \A p \in Counted \ pass.allocs : ~mgmt'[p].addr
    BY Zenon, <1>2, <2>1, SyncAssumption DEF SyncInv, PassOK, OneObject, Names
  <2> QED
    BY <1>6, <1>8, <2>2 DEF PassOK
<1>12. ReportsOK'
  <2>1. \A p \in Names : mgmt'[p].ready => mgmt'[p] = mgmt[p]
    BY <1>7, EmptyFields
  <2> QED
    BY Zenon, <1>6, <2>1 DEF SyncInv, ReportsOK, Names
<1>13. CopiesOK'
  <2>1. ASSUME NEW d \in Clusters, NEW p \in Intents, remote[d][p].managed
        PROVE  mgmt'[p].fin \/ <<d, p>> \in abandoned'
    <3>1. CASE p = o
      BY Zenon, <1>3, <1>4, <2>1, <3>1 DEF o
    <3>2. CASE p # o
      BY Zenon, <1>5, <1>7, <2>1, <3>2 DEF SyncInv, CopiesOK, Names
    <3> QED
      BY <3>1, <3>2
  <2> QED
    BY <1>6, <2>1 DEF SyncInv, CopiesOK
<1> QED
  BY <1>9, <1>10, <1>11, <1>12, <1>13 DEF SyncInv

\* Without a client the finalizers go; whatever copies there are are abandoned.
LEMMA DrainSync ==
  ASSUME SyncInv, NEW o \in Intents, Drain(o), cache[o].deleting, cache[o].fin, mgmt[o] = cache[o]
  PROVE  SyncInv'
<1> DEFINE next == Without(pass, pass.todo \ {o})
<1>1. /\ mgmt' = [mgmt EXCEPT ![o] = NoObj] /\ pass' = next
      /\ abandoned' = abandoned \cup Elsewhere(o, {})
  BY Zenon DEF Drain, Without
<1>2. pass \in Passes /\ pass.at = "drain" /\ o \in Names
  BY DEF Drain, SyncInv, SyncTypeOK, Names
<1>3. pass.todo \ {o} \in SUBSET Intents
  BY <1>2 DEF Passes
<1>4. next \in Passes /\ next.at = "drain" /\ next.copy = pass.copy
  BY <1>2, <1>3, WithoutPass
<1> HIDE DEF next
<1>5. \A d \in Clusters : remote[d][o].managed => <<d, o>> \in abandoned'
  BY <1>1 DEF Elsewhere
<1>6. abandoned' \subseteq Clusters \X Names /\ abandoned \subseteq abandoned'
  BY <1>1, <1>2 DEF Elsewhere, SyncInv, SyncTypeOK
<1>7. /\ edits' = edits /\ remote' = remote /\ cache' = cache /\ clients' = clients
      /\ proved' = proved /\ lagged' = lagged /\ kubeconfig' = kubeconfig
  BY DEF Drain, fleet
<1>8. /\ mgmt' \in [Names -> Objs] /\ mgmt'[o] = NoObj
      /\ \A p \in Names : p # o => mgmt'[p] = mgmt[p]
  BY Zenon, <1>1, <1>2, EmptyFields DEF SyncInv, SyncTypeOK
<1>9. SyncTypeOK'
  BY Zenon, <1>1, <1>4, <1>6, <1>7, <1>8 DEF SyncInv, SyncTypeOK, OneObject
<1>10. CacheOK'
  <2>1. Sane(NoObj, edits)
    BY SMTT(30), EmptyFields DEF SyncInv, SyncTypeOK, Sane
  <2>2. \A p \in Intents : Sane(mgmt'[p], edits)
    BY Zenon, <1>8, <2>1 DEF SyncInv, CacheOK, Names
  <2>3. \A p \in Intents : cache[p].deleting /\ mgmt'[p].ver = cache[p].ver => mgmt'[p].deleting
    <3>1. cache[o].ver # 0
      <4>1. Sane(cache[o], edits) /\ cache[o] # NoObj
        BY Zenon, EmptyFields DEF SyncInv, CacheOK
      <4> QED
        BY <4>1 DEF Sane
    <3>2. mgmt'[o].ver = 0
      BY <1>8, EmptyFields
    <3> QED
      BY Zenon, <1>8, <3>1, <3>2 DEF SyncInv, CacheOK, Names
  <2>4. \A p \in Intents : cache[p].fin /\ ~cache[p].deleting => Holds(cache[p], mgmt'[p])
    BY Zenon, <1>8 DEF SyncInv, CacheOK, Names
  <2>5. Sane(next.copy, edits)
    BY Zenon, <1>4 DEF SyncInv, CacheOK
  <2> QED
    BY Zenon, <1>1, <1>7, <2>2, <2>3, <2>4, <2>5 DEF SyncInv, CacheOK, Sane, Holds
<1>11. PassOK'
  BY Zenon, <1>1, <1>4 DEF PassOK, OneObject
<1>12. ReportsOK'
  <2>1. \A p \in Names : mgmt'[p].ready => mgmt'[p] = mgmt[p]
    BY Zenon, <1>8, EmptyFields
  <2> QED
    BY Zenon, <1>7, <2>1 DEF SyncInv, ReportsOK, Names
<1>13. CopiesOK'
  <2>1. ASSUME NEW d \in Clusters, NEW p \in Intents, remote[d][p].managed
        PROVE  mgmt'[p].fin \/ <<d, p>> \in abandoned'
    <3>1. CASE p = o
      BY <1>5, <2>1, <3>1
    <3>2. CASE p # o
      BY <1>6, <1>8, <2>1, <3>2 DEF SyncInv, CopiesOK, Names
    <3> QED
      BY <3>1, <3>2
  <2> QED
    BY Zenon, <1>7, <2>1 DEF SyncInv, CopiesOK
<1> QED
  BY <1>9, <1>10, <1>11, <1>12, <1>13 DEF SyncInv

\* A pass without a cluster goes on to its next object.
LEMMA SkipSync ==
  ASSUME SyncInv, NEW o \in Intents, pass.at \in {"drain", "block"},
         pass' = Without(pass, pass.todo \ {o}), edits' = edits, mgmt' = mgmt, cache' = cache,
         remote' = remote, clients' = clients, kubeconfig' = kubeconfig,
         abandoned' = abandoned, proved' = proved
  PROVE  SyncInv'
<1> DEFINE next == Without(pass, pass.todo \ {o})
<1>1. pass \in Passes /\ pass.todo \ {o} \in SUBSET Intents
  BY DEF SyncInv, SyncTypeOK, Passes
<1>2. next \in Passes /\ next.at = pass.at /\ next.copy = pass.copy
  BY <1>1, WithoutPass
<1> HIDE DEF next
<1>3. pass' = next
  BY DEF next
<1>4. SyncTypeOK'
  BY Zenon, <1>2, <1>3 DEF SyncInv, SyncTypeOK, OneObject
<1>5. CacheOK'
  BY Zenon, <1>2, <1>3 DEF SyncInv, CacheOK, Sane, Holds
<1>6. PassOK'
  BY Zenon, <1>2, <1>3 DEF PassOK, OneObject
<1>7. ReportsOK' /\ CopiesOK'
  BY Zenon DEF SyncInv, ReportsOK, CopiesOK
<1> QED
  BY <1>4, <1>5, <1>6, <1>7 DEF SyncInv

\* A status changes nothing else, and is about a version that is proved.
LEMMA StatusSync ==
  ASSUME SyncInv, NEW o \in Intents, NEW b \in BOOLEAN, NEW e \in Nat, mgmt[o] # NoObj,
         mgmt' = [mgmt EXCEPT ![o] = Reported(mgmt[o], b, e)],
         b => e <= mgmt[o].gen /\ (e = mgmt[o].gen => mgmt[o].ver \in proved),
         edits' = edits, cache' = cache, remote' = remote, clients' = clients,
         kubeconfig' = kubeconfig, abandoned' = abandoned, proved' = proved
  PROVE  /\ mgmt' \in [Names -> Objs]
         /\ \A p \in Names : mgmt'[p].addr = mgmt[p].addr
         /\ Sane(pass'.copy, edits) => CacheOK'
         /\ ReportsOK' /\ CopiesOK'
<1> DEFINE m == Reported(mgmt[o], b, e)
<1>1. o \in Names /\ mgmt[o] \in Objs
  BY DEF SyncInv, SyncTypeOK, Names
<1>2. /\ m \in Objs /\ m.ver = mgmt[o].ver /\ m.gen = mgmt[o].gen /\ m.deleting = mgmt[o].deleting
      /\ m.fin = mgmt[o].fin /\ m.addr = mgmt[o].addr /\ (m.ready <=> b) /\ m.at = e
  BY <1>1, ReportedObject
<1> HIDE DEF m
<1>3. mgmt' = [mgmt EXCEPT ![o] = m]
  BY DEF m
<1>4. /\ mgmt' \in [Names -> Objs] /\ mgmt'[o] = m
      /\ \A p \in Names : p # o => mgmt'[p] = mgmt[p]
  BY Zenon, <1>1, <1>2, <1>3 DEF SyncInv, SyncTypeOK
<1>5. \A p \in Names : /\ mgmt'[p].ver = mgmt[p].ver /\ mgmt'[p].gen = mgmt[p].gen
                       /\ mgmt'[p].deleting = mgmt[p].deleting /\ mgmt'[p].fin = mgmt[p].fin
                       /\ mgmt'[p].addr = mgmt[p].addr
  BY <1>2, <1>4
<1>6. Sane(pass'.copy, edits) => CacheOK'
  <2>1. \A p \in Intents : Sane(mgmt'[p], edits)
    <3>1. Sane(mgmt[o], edits)
      BY Zenon DEF SyncInv, CacheOK
    <3>2. Sane(m, edits)
      BY <1>2, <3>1 DEF Sane
    <3> QED
      BY Zenon, <1>4, <3>2 DEF SyncInv, CacheOK, Names
  <2>2. \A p \in Intents : /\ cache[p].deleting /\ mgmt'[p].ver = cache[p].ver => mgmt'[p].deleting
                           /\ cache[p].fin /\ ~cache[p].deleting => Holds(cache[p], mgmt'[p])
    BY SMTT(30), <1>5 DEF SyncInv, CacheOK, Names, Holds
  <2> QED
    BY Zenon, <2>1, <2>2 DEF SyncInv, CacheOK, Sane, Holds
<1>7. ReportsOK'
  <2>1. \A p \in Intents : mgmt'[p].ready =>
          mgmt'[p].at <= mgmt'[p].gen /\ (mgmt'[p].at = mgmt'[p].gen => mgmt'[p].ver \in proved)
    BY SMTT(30), <1>2, <1>4 DEF SyncInv, ReportsOK, Names
  <2> QED
    BY Zenon, <2>1 DEF SyncInv, ReportsOK
<1>8. CopiesOK'
  <2>1. \A p \in Intents : mgmt'[p].fin <=> mgmt[p].fin
    BY <1>5 DEF Names
  <2> QED
    BY Zenon, <2>1 DEF SyncInv, CopiesOK
<1> QED
  BY <1>4, <1>5, <1>6, <1>7, <1>8

\* Several clients: Ready becomes False.
LEMMA BlockSync ==
  ASSUME SyncInv, NEW o \in Intents, Block(o)
  PROVE  SyncInv'
<1> DEFINE next == Without(pass, pass.todo \ {o})
<1>1. /\ pass' = next /\ pass.at = "block" /\ edits' = edits /\ cache' = cache /\ remote' = remote
      /\ clients' = clients /\ kubeconfig' = kubeconfig /\ abandoned' = abandoned
      /\ proved' = proved /\ lagged' = lagged
  BY Zenon DEF Block, Without, fleet, history
<1>2. CASE mgmt[o] = NoObj \/ cache[o].deleting \/ cache[o] = NoObj
  <2>1. mgmt' = mgmt
    BY <1>2 DEF Block
  <2> QED
    BY <1>1, <2>1, SkipSync
<1>3. CASE ~(mgmt[o] = NoObj \/ cache[o].deleting \/ cache[o] = NoObj)
  <2>1. mgmt' = [mgmt EXCEPT ![o] = Reported(mgmt[o], FALSE, cache[o].gen)]
    BY Zenon, <1>3 DEF Block, Reported
  <2>2. cache[o].gen \in Nat /\ pass \in Passes /\ pass.todo \ {o} \in SUBSET Intents
    BY DEF SyncInv, SyncTypeOK, Objs, Names, Passes
  <2>3. next \in Passes /\ next.at = "block" /\ next.copy = pass.copy
    BY Zenon, <1>1, <2>2, WithoutPass
  <2> HIDE DEF next
  <2>4. Sane(pass'.copy, edits)
    BY Zenon, <1>1, <2>3 DEF SyncInv, CacheOK
  <2>5. mgmt' \in [Names -> Objs] /\ CacheOK' /\ ReportsOK' /\ CopiesOK'
    BY Zenon, <1>1, <1>3, <2>1, <2>2, <2>4, StatusSync
  <2>6. SyncTypeOK'
    BY <1>1, <2>3, <2>5 DEF SyncInv, SyncTypeOK, OneObject
  <2>7. PassOK'
    BY Zenon, <1>1, <2>3 DEF PassOK, OneObject
  <2> QED
    BY <2>5, <2>6, <2>7 DEF SyncInv
<1> QED
  BY <1>2, <1>3

\* The status of the copy comes back, as one of the generation it was made from.
LEMMA StatusBackSync ==
  ASSUME SyncInv, StatusBack
  PROVE  SyncInv'
<1> DEFINE c == pass.cl
           o == pass.o
           r == remote[c][o]
           b == desiredMirroredConditions(r, pass.copy.gen)
<1>1. /\ pass' = Next1 /\ pass.at = "status" /\ edits' = edits /\ cache' = cache /\ remote' = remote
      /\ clients' = clients /\ kubeconfig' = kubeconfig /\ abandoned' = abandoned
      /\ proved' = proved /\ lagged' = lagged
  BY DEF StatusBack, fleet, history
<1>2. /\ pass \in Passes /\ c \in Clusters /\ o \in Intents /\ o \in Names /\ pass.copy \in Objs
      /\ mgmt[o] \in Objs /\ pass.copy.gen \in Nat /\ r \in Copies
  BY SMTT(30), <1>1 DEF SyncInv, SyncTypeOK, OneObject, Names, Passes, Objs
<1>3. /\ pass' \in Passes /\ pass'.at = "sync" /\ pass'.cl = c /\ pass'.copy = NoObj
      /\ pass'.allocs = pass.allocs
  BY Zenon, <1>1, <1>2, Next1Pass
<1>4. Holds(pass.copy, mgmt[o]) /\ (r = NoCopy \/ r.ver = pass.copy.ver)
  BY Zenon, <1>1 DEF SyncInv, PassOK
<1>5. b \in BOOLEAN /\ (b => r.observed /\ r.ready)
  BY Zenon, <1>2 DEF desiredMirroredConditions, workloadCaughtUp
<1>6. r.observed /\ r.ready => r.ver \in proved
  BY Zenon, <1>2 DEF SyncInv, ReportsOK
<1>7. Sane(pass'.copy, edits)
  BY SMTT(30), <1>3, EmptyFields DEF SyncInv, SyncTypeOK, Sane
<1>8. /\ mgmt' \in [Names -> Objs] /\ CacheOK' /\ ReportsOK' /\ CopiesOK'
      /\ \A p \in Names : mgmt'[p].addr = mgmt[p].addr
  <2>1. CASE r = NoCopy
    <3>1. mgmt' = mgmt
      BY <2>1 DEF StatusBack
    <3> QED
      BY Zenon, <1>1, <1>7, <3>1 DEF SyncInv, SyncTypeOK, CacheOK, ReportsOK, CopiesOK, Sane, Holds
  <2>2. CASE r # NoCopy
    <3>1. mgmt' = [mgmt EXCEPT ![o] = Reported(mgmt[o], b, pass.copy.gen)]
      BY Zenon, <2>2 DEF StatusBack, Reported
    <3>2. mgmt[o] # NoObj
      BY <1>4, EmptyFields DEF Holds
    <3>3. b => pass.copy.gen <= mgmt[o].gen /\ (pass.copy.gen = mgmt[o].gen => mgmt[o].ver \in proved)
      BY Zenon, <1>4, <1>5, <1>6, <2>2 DEF Holds
    <3> HIDE DEF b, o, r, c
    <3> QED
      BY Zenon, <1>1, <1>2, <1>5, <1>7, <3>1, <3>2, <3>3, StatusSync
  <2> QED
    BY <2>1, <2>2
<1>9. SyncTypeOK'
  BY Zenon, <1>1, <1>2, <1>3, <1>8 DEF SyncInv, SyncTypeOK, OneObject
<1>10. PassOK'
  <2>1. ~lagged => \A p \in Counted \ pass.allocs : ~mgmt'[p].addr
    BY Zenon, <1>1, <1>8, SyncAssumption DEF SyncInv, PassOK, OneObject, Names
  <2> QED
    BY Zenon, <1>1, <1>3, <2>1 DEF PassOK
<1> QED
  BY <1>8, <1>9, <1>10 DEF SyncInv

\* The finalizer is set before there is a copy.
LEMMA AddFinalizerSync ==
  ASSUME SyncInv, AddFinalizer, Current(pass.o), ~mgmt[pass.o].deleting
  PROVE  SyncInv'
<1> DEFINE o == pass.o
           m == Finalized(mgmt[o])
           next == Kept(pass, "apply", m)
<1>1. mgmt' = [mgmt EXCEPT ![o] = m] /\ pass' = [pass EXCEPT !.at = "apply", !.copy = mgmt'[o]]
  BY Zenon DEF AddFinalizer, Finalized
<1>2. /\ pass \in Passes /\ pass.at = "finalize" /\ pass.cl \in Clusters /\ o \in Intents
      /\ o \in Names /\ mgmt[o] \in Objs /\ mgmt[o] # NoObj /\ mgmt[o] = pass.copy
  BY DEF AddFinalizer, Current, SyncInv, SyncTypeOK, PassOK, OneObject, Names
<1>3. /\ m \in Objs /\ m.ver = mgmt[o].ver /\ m.gen = mgmt[o].gen /\ m.deleting = mgmt[o].deleting
      /\ m.fin /\ m.addr = mgmt[o].addr /\ m.ready = mgmt[o].ready /\ m.at = mgmt[o].at
  BY Zenon, <1>2, FinalizedObject
<1> HIDE DEF m
<1>4. /\ mgmt' \in [Names -> Objs] /\ mgmt'[o] = m
      /\ \A p \in Names : p # o => mgmt'[p] = mgmt[p]
  BY <1>1, <1>2, <1>3 DEF SyncInv, SyncTypeOK
<1>5. pass' = next
  BY Zenon, <1>1, <1>4 DEF Kept
<1>6. /\ next \in Passes /\ next.at = "apply" /\ next.cl = pass.cl /\ next.o = o /\ next.copy = m
      /\ next.allocs = pass.allocs
  BY SMTT(30), <1>2, <1>3, KeptPass DEF Stages, OneObject
<1> HIDE DEF next
<1>7. /\ edits' = edits /\ cache' = cache /\ remote' = remote /\ clients' = clients
      /\ kubeconfig' = kubeconfig /\ abandoned' = abandoned /\ proved' = proved /\ lagged' = lagged
  BY DEF AddFinalizer, fleet, history
<1>8. SyncTypeOK'
  BY Zenon, <1>2, <1>4, <1>5, <1>6, <1>7 DEF SyncInv, SyncTypeOK
<1>9. \A p \in Names : /\ mgmt'[p].ver = mgmt[p].ver /\ mgmt'[p].gen = mgmt[p].gen
                       /\ mgmt'[p].deleting = mgmt[p].deleting /\ (mgmt[p].fin => mgmt'[p].fin)
                       /\ mgmt'[p].addr = mgmt[p].addr /\ mgmt'[p].ready = mgmt[p].ready
                       /\ mgmt'[p].at = mgmt[p].at
  BY Zenon, <1>3, <1>4
<1>10. Sane(m, edits) /\ m.ver > 0
  <2>1. Sane(mgmt[o], edits)
    BY Zenon, <1>2 DEF SyncInv, CacheOK
  <2> QED
    BY <1>2, <1>3, <2>1 DEF Sane
<1>11. CacheOK'
  <2>1. \A p \in Intents : Sane(mgmt'[p], edits)
    BY Zenon, <1>4, <1>10 DEF SyncInv, CacheOK, Names
  <2>2. \A p \in Intents : /\ cache[p].deleting /\ mgmt'[p].ver = cache[p].ver => mgmt'[p].deleting
                           /\ cache[p].fin /\ ~cache[p].deleting => Holds(cache[p], mgmt'[p])
    BY Zenon, <1>9 DEF SyncInv, CacheOK, Names, Holds
  <2> QED
    BY Zenon, <1>5, <1>6, <1>7, <1>10, <2>1, <2>2 DEF SyncInv, CacheOK, Sane, Holds
<1>12. PassOK'
  <2>1. Holds(m, mgmt'[o])
    BY SMTT(30), <1>3, <1>4 DEF Holds, Objs
  <2>2. ~lagged => \A p \in Counted \ pass.allocs : ~mgmt'[p].addr
    BY Zenon, <1>2, <1>9, SyncAssumption DEF SyncInv, PassOK, OneObject, Names
  <2> QED
    BY Zenon, <1>5, <1>6, <1>7, <1>10, <2>1, <2>2 DEF PassOK, Holds
<1>13. ReportsOK'
  <2>1. ASSUME NEW p \in Intents, mgmt'[p].ready
        PROVE  mgmt'[p].at <= mgmt'[p].gen /\ (mgmt'[p].at = mgmt'[p].gen => mgmt'[p].ver \in proved)
    <3>1. /\ mgmt'[p].ready = mgmt[p].ready /\ mgmt'[p].at = mgmt[p].at
          /\ mgmt'[p].gen = mgmt[p].gen /\ mgmt'[p].ver = mgmt[p].ver
      BY Zenon, <1>9 DEF Names
    <3>2. mgmt[p].at <= mgmt[p].gen /\ (mgmt[p].at = mgmt[p].gen => mgmt[p].ver \in proved)
      BY Zenon, <2>1, <3>1 DEF SyncInv, ReportsOK
    <3> QED
      BY Zenon, <3>1, <3>2
  <2> QED
    BY Zenon, <1>7, <2>1 DEF SyncInv, ReportsOK
<1>14. CopiesOK'
  <2>1. \A p \in Intents : mgmt[p].fin => mgmt'[p].fin
    BY <1>9 DEF Names
  <2> QED
    BY Zenon, <1>7, <2>1 DEF SyncInv, CopiesOK
<1> QED
  BY <1>8, <1>11, <1>12, <1>13, <1>14 DEF SyncInv

\* Ours is the copy that is not there yet or has the labels of its version.
Ours(old) == old = NoCopy \/ /\ old.managed /\ old.mine = Labels(old.ver)
                             /\ old.labels \ {"x"} = Labels(old.ver)

\* What applyRemote makes of such a copy.
LEMMA OverlaidCopy ==
  ASSUME NEW old \in Copies, NEW copy \in Objs, NEW a \in BOOLEAN, Ours(old)
  PROVE  LET r == Overlay(old, buildRemoteObject(copy, a))
         IN  /\ r \in Copies /\ r.managed /\ r.ver = copy.ver /\ (r.addr <=> a)
             /\ r.mine = Labels(copy.ver) /\ r.labels \ {"x"} = Labels(copy.ver)
             /\ "x" \in old.labels => "x" \in r.labels
             /\ (r.ready <=> old.ready)
             /\ r.observed => old.observed /\ old.ver = copy.ver
<1> DEFINE new == buildRemoteObject(copy, a)
           labels == mergeAndPrune(old.labels, Labels(copy.ver), old.mine)
<1>1. /\ new.ver = copy.ver /\ new.addr = a /\ new.sgen = copy.gen /\ new.labels = Labels(copy.ver)
  BY DEF buildRemoteObject
<1> HIDE DEF new
<1>2. PICK r : r = Overlay(old, new)
  OBVIOUS
<1>3. copy.ver \in Nat /\ copy.gen \in Nat /\ old.labels \in SUBSET Keys /\ old.mine \in SUBSET Keys
  BY DEF Objs, Copies
<1>4. old.labels \ {"x"} = old.mine /\ "x" \notin old.mine
  BY EmptyFields, OwnLabels DEF Ours
<1>5. /\ labels \in SUBSET Keys /\ labels \ {"x"} = Labels(copy.ver)
      /\ "x" \in old.labels => "x" \in labels
  BY <1>3, <1>4, OwnLabels DEF mergeAndPrune
<1>6. r = [old EXCEPT !.ver = copy.ver, !.managed = TRUE, !.addr = a, !.sgen = copy.gen,
                      !.labels = labels, !.mine = Labels(copy.ver),
                      !.observed = old.observed /\ <<copy.ver, a>> = <<old.ver, old.addr>>]
  BY <1>1, <1>2 DEF Overlay
<1> HIDE DEF labels
<1> DEFINE w == old.observed /\ <<copy.ver, a>> = <<old.ver, old.addr>>
<1>7. w \in BOOLEAN
  OBVIOUS
<1>8. w => old.observed /\ old.ver = copy.ver
  OBVIOUS
<1>9. r = [old EXCEPT !.ver = copy.ver, !.managed = TRUE, !.addr = a, !.sgen = copy.gen,
                      !.labels = labels, !.mine = Labels(copy.ver), !.observed = w]
  BY <1>6
<1> HIDE DEF w
<1>10. Labels(copy.ver) \in SUBSET Keys
  BY OwnLabels
<1>11. /\ r.managed /\ r.ver = copy.ver /\ (r.addr <=> a) /\ r.labels = labels
       /\ r.mine = Labels(copy.ver) /\ (r.ready <=> old.ready) /\ (r.observed <=> w)
  BY <1>7, <1>9 DEF Copies
<1>12. r \in Copies
  BY Zenon, <1>3, <1>5, <1>7, <1>9, <1>10 DEF Copies
<1> QED
  BY Zenon, <1>2, <1>5, <1>8, <1>11, <1>12 DEF new

\* The copy is written, held by the finalizer that the object has by now.
LEMMA ApplySync ==
  ASSUME SyncInv, ApplyRemote, Ours(remote[pass.cl][pass.o])
  PROVE  SyncInv'
<1> DEFINE c == pass.cl
           o == pass.o
           a == promoteIPAMAddresses(o)
           r == Overlay(remote[c][o], buildRemoteObject(pass.copy, a))
           next == Going(pass, "status")
<1>1. pass.at = "apply" /\ (remote[c][o] = NoCopy \/ remote[c][o].managed)
  BY DEF ApplyRemote, Ours
<1>2. /\ abandoned' = abandoned \ {<<c, o>>} /\ remote' = [remote EXCEPT ![c][o] = r]
      /\ pass' = next
  BY Zenon, <1>1 DEF ApplyRemote, Going
<1>3. /\ pass \in Passes /\ c \in Clusters /\ o \in Intents /\ o \in Names /\ pass.copy \in Objs
      /\ remote[c][o] \in Copies
  BY <1>1 DEF SyncInv, SyncTypeOK, OneObject, Names, Passes
<1>4. a \in BOOLEAN
  BY <1>3 DEF promoteIPAMAddresses
<1>5. /\ r \in Copies /\ r.managed /\ r.ver = pass.copy.ver
      /\ r.mine = Labels(pass.copy.ver) /\ r.labels \ {"x"} = Labels(pass.copy.ver)
      /\ (r.ready <=> remote[c][o].ready)
      /\ r.observed => remote[c][o].observed /\ remote[c][o].ver = r.ver
  <2> HIDE DEF a
  <2>1. PICK x \in Copies : x = remote[c][o]
    BY Zenon, <1>3
  <2>2. PICK s \in Objs : s = pass.copy
    BY Zenon, <1>3
  <2> DEFINE made == Overlay(x, buildRemoteObject(s, a))
  <2>3. Ours(x) /\ made = r
    BY Zenon, <2>1, <2>2
  <2>4. /\ made \in Copies /\ made.managed /\ made.ver = s.ver
        /\ made.mine = Labels(s.ver) /\ made.labels \ {"x"} = Labels(s.ver)
        /\ (made.ready <=> x.ready) /\ (made.observed => x.observed /\ x.ver = s.ver)
    BY <1>4, <2>3, OverlaidCopy
  <2> HIDE DEF r, made
  <2> QED
    BY Zenon, <2>1, <2>2, <2>3, <2>4
<1>6. next \in Passes /\ next.at = "status" /\ next.cl = c /\ next.o = o
      /\ next.copy = pass.copy /\ next.allocs = pass.allocs
  BY <1>3, GoingPass DEF Stages, OneObject
<1> HIDE DEF r, next
<1>7. /\ edits' = edits /\ mgmt' = mgmt /\ cache' = cache /\ clients' = clients
      /\ kubeconfig' = kubeconfig /\ proved' = proved /\ lagged' = lagged
  BY DEF ApplyRemote, users
<1>8. /\ remote' \in [Clusters -> [Names -> Copies]] /\ remote'[c][o] = r
      /\ \A d \in Clusters, p \in Names : d # c \/ p # o => remote'[d][p] = remote[d][p]
  BY Zenon, <1>2, <1>3, <1>5 DEF SyncInv, SyncTypeOK
<1>9. SyncTypeOK'
  BY Zenon, <1>2, <1>3, <1>6, <1>7, <1>8 DEF SyncInv, SyncTypeOK
<1>10. CacheOK'
  BY Zenon, <1>2, <1>6, <1>7 DEF SyncInv, CacheOK, Sane, Holds
<1>11. mgmt[o].fin
  BY Zenon, <1>1 DEF SyncInv, PassOK, Holds
<1>12. PassOK'
  <2>1. /\ Holds(pass.copy, mgmt[o]) /\ pass.copy.ver > 0
        /\ ~lagged => \A p \in Counted \ pass.allocs : ~mgmt[p].addr
    BY Zenon, <1>1 DEF SyncInv, PassOK, OneObject
  <2>2. /\ pass'.at = "status" /\ pass'.copy = pass.copy /\ pass'.allocs = pass.allocs
        /\ pass'.o = o /\ remote'[pass'.cl][pass'.o].ver = pass'.copy.ver
    BY Zenon, <1>2, <1>5, <1>6, <1>8
  <2>3. /\ pass'.at \notin {"delete", "release"} /\ pass'.at # "release" /\ pass'.at # "finalize"
    BY <2>2
  <2>4. Holds(pass'.copy, mgmt'[pass'.o]) /\ pass'.copy.ver > 0
    BY Zenon, <1>7, <2>1, <2>2
  <2>5. ~lagged' => \A p \in Counted \ pass'.allocs : ~mgmt'[p].addr
    BY Zenon, <1>7, <2>1, <2>2
  <2> QED
    BY Zenon, <2>2, <2>3, <2>4, <2>5 DEF PassOK
<1>13. ReportsOK'
  <2>1. \A d \in Clusters, p \in Intents : remote'[d][p].observed /\ remote'[d][p].ready =>
          /\ remote[d][p].observed /\ remote[d][p].ready
          /\ remote'[d][p].ver = remote[d][p].ver
    BY Zenon, <1>5, <1>8 DEF Names
  <2> QED
    BY Zenon, <1>7, <2>1 DEF SyncInv, ReportsOK
<1>14. CopiesOK'
  <2>1. ASSUME NEW d \in Clusters, NEW p \in Names, remote'[d][p].managed
        PROVE  /\ p \in Intents => mgmt[p].fin \/ <<d, p>> \in abandoned'
               /\ remote'[d][p].mine = Labels(remote'[d][p].ver)
               /\ remote'[d][p].labels \ {"x"} = Labels(remote'[d][p].ver)
    <3>1. CASE d = c /\ p = o
      BY Zenon, <1>5, <1>8, <1>11, <3>1
    <3>2. CASE d # c \/ p # o
      <4>1. remote'[d][p] = remote[d][p] /\ remote[d][p].managed
        BY Zenon, <1>8, <2>1, <3>2
      <4>2. <<d, p>> \in abandoned => <<d, p>> \in abandoned'
        BY <1>2, <3>2
      <4> QED
        BY Zenon, <4>1, <4>2 DEF SyncInv, CopiesOK
    <3> QED
      BY Zenon, <3>1, <3>2
  <2> QED
    BY Zenon, <1>7, <2>1 DEF CopiesOK
<1> QED
  BY <1>9, <1>10, <1>12, <1>13, <1>14 DEF SyncInv

\* What the pass finds under the name is ours if it is managed.
LEMMA ManagedIsOurs ==
  ASSUME SyncInv, NEW c \in Clusters, NEW o \in Names, remote[c][o] = NoCopy \/ remote[c][o].managed
  PROVE  Ours(remote[c][o])
<1>1. remote[c][o].managed => /\ remote[c][o].mine = Labels(remote[c][o].ver)
                              /\ remote[c][o].labels \ {"x"} = Labels(remote[c][o].ver)
  BY Zenon DEF SyncInv, CopiesOK
<1> QED
  BY Zenon, <1>1 DEF Ours

\* The Secret of the peerings, the last step of a pass.
LEMMA SyncSecretsSync ==
  ASSUME SyncInv, SyncSecrets
  PROVE  SyncInv'
<1> DEFINE c == pass.cl
           old == remote[c][Secret]
           new == Overlay(old, buildRemoteObject(mgmt[Secret], FALSE))
<1>1. /\ pass.at = "sync" /\ pass' = Idle /\ edits' = edits /\ mgmt' = mgmt /\ cache' = cache
      /\ clients' = clients /\ kubeconfig' = kubeconfig /\ abandoned' = abandoned
      /\ proved' = proved /\ lagged' = lagged
  BY DEF SyncSecrets, users, history
<1>2. /\ c \in Clusters /\ Secret \in Names /\ Secret \notin Intents /\ mgmt[Secret] \in Objs
      /\ old \in Copies
  BY Zenon, <1>1, SyncAssumption DEF SyncInv, SyncTypeOK, OneObject, Names
<1>3. PICK r : /\ remote' = [remote EXCEPT ![c][Secret] = r]
               /\ r = old \/ r = NoCopy \/ (r = new /\ (old = NoCopy \/ old.managed))
  BY Zenon DEF SyncSecrets
<1>4. (old = NoCopy \/ old.managed) => Ours(old)
  BY <1>2, ManagedIsOurs
<1>5. r = new /\ (old = NoCopy \/ old.managed) =>
        /\ new \in Copies /\ new.mine = Labels(new.ver) /\ new.labels \ {"x"} = Labels(new.ver)
  <2>1. PICK x \in Copies : x = old
    BY Zenon, <1>2
  <2>2. PICK s \in Objs : s = mgmt[Secret]
    BY Zenon, <1>2
  <2>3. PICK no \in BOOLEAN : no = FALSE
    BY Zenon
  <2> DEFINE made == Overlay(x, buildRemoteObject(s, no))
  <2>4. made = new /\ (Ours(x) <=> Ours(old))
    BY Zenon, <2>1, <2>2, <2>3
  <2>5. Ours(x) => /\ made \in Copies /\ made.ver = s.ver
                   /\ made.mine = Labels(s.ver) /\ made.labels \ {"x"} = Labels(s.ver)
    BY OverlaidCopy
  <2> HIDE DEF made, new
  <2> QED
    BY Zenon, <1>4, <2>4, <2>5
<1> HIDE DEF new
<1>6. /\ r \in Copies
      /\ r.managed => r.mine = Labels(r.ver) /\ r.labels \ {"x"} = Labels(r.ver)
  <2>1. CASE r = old
    <3>1. old.managed => old.mine = Labels(old.ver) /\ old.labels \ {"x"} = Labels(old.ver)
      BY Zenon, <1>2 DEF SyncInv, CopiesOK
    <3> QED
      BY Zenon, <1>2, <2>1, <3>1
  <2>2. CASE r = NoCopy
    BY Zenon, <2>2, EmptyFields
  <2>3. CASE r = new /\ (old = NoCopy \/ old.managed)
    BY Zenon, <1>5, <2>3
  <2> QED
    BY Zenon, <1>3, <2>1, <2>2, <2>3
<1>7. /\ remote' \in [Clusters -> [Names -> Copies]] /\ remote'[c][Secret] = r
      /\ \A d \in Clusters, p \in Names : d # c \/ p # Secret => remote'[d][p] = remote[d][p]
  BY Zenon, <1>2, <1>3, <1>6 DEF SyncInv, SyncTypeOK
<1>8. \A d \in Clusters, p \in Intents : remote'[d][p] = remote[d][p]
  BY Zenon, <1>2, <1>7 DEF Names
<1>9. SyncTypeOK'
  BY Zenon, <1>1, <1>7, EmptyFields DEF SyncInv, SyncTypeOK, OneObject
<1>10. CacheOK'
  <2>1. Sane(pass'.copy, edits)
    <3>1. pass'.copy = NoObj /\ edits \in Nat
      BY Zenon, <1>1, EmptyFields DEF SyncInv, SyncTypeOK
    <3> QED
      BY <3>1, EmptyFields DEF Sane
  <2> QED
    BY Zenon, <1>1, <2>1 DEF SyncInv, CacheOK, Sane, Holds
<1>11. PassOK'
  BY Zenon, <1>1, EmptyFields DEF PassOK, OneObject
<1>12. ReportsOK'
  BY Zenon, <1>1, <1>8 DEF SyncInv, ReportsOK
<1>13. CopiesOK'
  <2>1. ASSUME NEW d \in Clusters, NEW p \in Names, remote'[d][p].managed
        PROVE  /\ p \in Intents => mgmt[p].fin \/ <<d, p>> \in abandoned
               /\ remote'[d][p].mine = Labels(remote'[d][p].ver)
               /\ remote'[d][p].labels \ {"x"} = Labels(remote'[d][p].ver)
    <3>1. CASE d = c /\ p = Secret
      BY Zenon, <1>2, <1>6, <1>7, <2>1, <3>1
    <3>2. CASE d # c \/ p # Secret
      <4>1. remote'[d][p] = remote[d][p] /\ remote[d][p].managed
        BY <1>7, <2>1, <3>2
      <4> QED
        BY Zenon, <4>1 DEF SyncInv, CopiesOK
    <3> QED
      BY Zenon, <3>1, <3>2
  <2> QED
    BY Zenon, <1>1, <2>1 DEF CopiesOK
<1> QED
  BY <1>9, <1>10, <1>11, <1>12, <1>13 DEF SyncInv

\* A new pass; the addresses of IPAM first.  On a cache that is not outdated no
\* object with addresses is left without an allocation.
LEMMA StartPassSync ==
  ASSUME SyncInv, StartPass
  PROVE  SyncInv'
<1> DEFINE cl == IF Mode = "sync" THEN CHOOSE c \in clients : TRUE ELSE "none"
           allocs == IF Mode = "sync" THEN reconcileIPAM.allocs ELSE {}
<1>1. /\ pass' = [Idle EXCEPT !.at = Mode, !.todo = Intents, !.cl = cl, !.allocs = allocs]
      /\ mgmt' = IF Mode = "sync" THEN reconcileIPAM.mgmt ELSE mgmt
      /\ lagged' = (lagged \/ cache # mgmt)
      /\ edits' = edits /\ cache' = cache /\ remote' = remote /\ clients' = clients
      /\ kubeconfig' = kubeconfig /\ abandoned' = abandoned /\ proved' = proved
  BY Zenon DEF StartPass, fleet
<1>2. /\ edits \in Nat /\ mgmt \in [Names -> Objs] /\ cache \in [Names -> Objs]
      /\ clients \subseteq Clusters /\ Counted \subseteq Intents /\ Counted \subseteq Names
  BY Zenon, SyncAssumption DEF SyncInv, SyncTypeOK, Names
<1>3. Mode \in {"drain", "block", "sync"} /\ (Mode = "sync" => clients # {})
  BY DEF Mode
<1>4. Mode = "sync" => cl \in Clusters
  BY <1>2, <1>3
<1>5. cl \in Clusters \cup {"none"}
  BY <1>4
<1> DEFINE want == {o \in Counted : cache[o] # NoObj /\ ~cache[o].addr}
<1>6. /\ allocs \subseteq Counted
      /\ Mode = "sync" /\ (\A o \in want : mgmt[o] = cache[o]) =>
           \A o \in Counted : cache[o] # NoObj => o \in allocs
  BY Zenon DEF reconcileIPAM
<1>7. \A o \in Names : \/ mgmt'[o] = mgmt[o]
                       \/ o \in want /\ mgmt[o] = cache[o] /\ mgmt'[o] = Addressed(mgmt[o])
  <2>1. CASE Mode = "sync"
    <3>1. mgmt' = [o \in Names |-> IF o \in want /\ mgmt[o] = cache[o]
                                   THEN Addressed(mgmt[o]) ELSE mgmt[o]]
      BY Zenon, <1>1, <2>1 DEF reconcileIPAM, Addressed
    <3> HIDE DEF want
    <3> QED
      BY <3>1
  <2>2. CASE Mode # "sync"
    BY <1>1, <2>2
  <2> QED
    BY Zenon, <2>1, <2>2
<1>8. DOMAIN mgmt' = Names /\ mgmt' = [o \in DOMAIN mgmt' |-> mgmt'[o]]
  <2>1. CASE Mode = "sync"
    <3>1. mgmt' = [o \in Names |-> IF o \in want /\ mgmt[o] = cache[o]
                                   THEN Addressed(mgmt[o]) ELSE mgmt[o]]
      BY Zenon, <1>1, <2>1 DEF reconcileIPAM, Addressed
    <3> HIDE DEF want
    <3> QED
      BY <3>1
  <2>2. CASE Mode # "sync"
    BY <1>1, <1>2, <2>2
  <2> QED
    BY <2>1, <2>2
<1>9. /\ pass' \in Passes /\ pass'.at = Mode /\ pass'.cl = cl /\ pass'.copy = NoObj
      /\ pass'.allocs = allocs
  <2> HIDE DEF cl, allocs
  <2> DEFINE next == pass'
  <2>1. next = Started(Idle, Mode, Intents, cl, allocs)
    BY Zenon, <1>1 DEF Started
  <2> HIDE DEF next
  <2>2. Mode \in Stages /\ Intents \in SUBSET Intents /\ allocs \in SUBSET Counted
    BY <1>3, <1>6 DEF Stages
  <2>3. Idle \in Passes /\ Idle.copy = NoObj
    BY EmptyFields
  <2>4. /\ next \in Passes /\ next.at = Mode /\ next.cl = cl /\ next.copy = NoObj
        /\ next.allocs = allocs
    BY SMTT(30), <1>5, <2>1, <2>2, <2>3, StartedPass
  <2> QED
    BY <2>4 DEF next
<1> HIDE DEF cl, allocs
<1>10. \A o \in Names : Addressed(mgmt[o]) \in Objs
  BY <1>2, AddressedObject
<1>11. mgmt' \in [Names -> Objs]
  BY <1>2, <1>7, <1>8, <1>10
<1>12. \A o \in Names :
         /\ mgmt'[o].ver = mgmt[o].ver /\ mgmt'[o].gen = mgmt[o].gen
         /\ (mgmt'[o].deleting <=> mgmt[o].deleting) /\ (mgmt'[o].fin <=> mgmt[o].fin)
         /\ (mgmt'[o].ready <=> mgmt[o].ready) /\ mgmt'[o].at = mgmt[o].at
         /\ mgmt[o] = NoObj => mgmt'[o] = NoObj
  <2> SUFFICES ASSUME NEW o \in Names
               PROVE  /\ mgmt'[o].ver = mgmt[o].ver /\ mgmt'[o].gen = mgmt[o].gen
                      /\ (mgmt'[o].deleting <=> mgmt[o].deleting) /\ (mgmt'[o].fin <=> mgmt[o].fin)
                      /\ (mgmt'[o].ready <=> mgmt[o].ready) /\ mgmt'[o].at = mgmt[o].at
                      /\ mgmt[o] = NoObj => mgmt'[o] = NoObj
    BY Zenon
  <2>1. CASE mgmt'[o] = mgmt[o]
    BY <2>1
  <2>2. CASE o \in want /\ mgmt[o] = cache[o] /\ mgmt'[o] = Addressed(mgmt[o])
    <3>1. mgmt[o] # NoObj /\ mgmt[o] \in Objs
      BY <1>2, <2>2
    <3>2. /\ Addressed(mgmt[o]).ver = mgmt[o].ver /\ Addressed(mgmt[o]).gen = mgmt[o].gen
          /\ Addressed(mgmt[o]).deleting = mgmt[o].deleting /\ Addressed(mgmt[o]).fin = mgmt[o].fin
          /\ Addressed(mgmt[o]).ready = mgmt[o].ready /\ Addressed(mgmt[o]).at = mgmt[o].at
      BY <3>1, AddressedObject
    <3> QED
      BY Zenon, <2>2, <3>1, <3>2
  <2> QED
    BY Zenon, <1>7, <2>1, <2>2
<1>13. SyncTypeOK'
  BY <1>1, <1>3, <1>4, <1>9, <1>11 DEF SyncInv, SyncTypeOK, OneObject
<1>14. CacheOK'
  <2>1. Sane(pass'.copy, edits)
    BY SMTT(30), <1>2, <1>9, EmptyFields DEF Sane
  <2>2. \A p \in Intents : Sane(mgmt'[p], edits)
    BY Zenon, <1>12, EmptyFields DEF SyncInv, CacheOK, Sane, Names
  <2>3. \A p \in Intents : /\ cache[p].deleting /\ mgmt'[p].ver = cache[p].ver => mgmt'[p].deleting
                           /\ cache[p].fin /\ ~cache[p].deleting => Holds(cache[p], mgmt'[p])
    BY Zenon, <1>12 DEF SyncInv, CacheOK, Names, Holds
  <2> QED
    BY <1>1, <2>1, <2>2, <2>3 DEF SyncInv, CacheOK, Sane, Holds
<1>15. PassOK'
  <2>1. ASSUME Mode = "sync", ~lagged', NEW o \in Counted, o \notin allocs
        PROVE  ~mgmt'[o].addr
    <3>1. cache = mgmt
      BY Zenon, <1>1, <2>1
    <3>2. cache[o] = NoObj
      BY <1>6, <2>1, <3>1
    <3>3. mgmt'[o] = NoObj
      BY <1>2, <1>12, <2>1, <3>1, <3>2
    <3> QED
      BY Zenon, <3>3, EmptyFields
  <2> QED
    BY Zenon, <1>3, <1>9, <2>1 DEF PassOK, OneObject
<1>16. ReportsOK'
  BY <1>1, <1>12 DEF SyncInv, ReportsOK, Names
<1>17. CopiesOK'
  <2>1. \A p \in Intents : mgmt'[p].fin <=> mgmt[p].fin
    BY Zenon, <1>12 DEF Names
  <2> QED
    BY <1>1, <2>1 DEF SyncInv, CopiesOK
<1> QED
  BY <1>13, <1>14, <1>15, <1>16, <1>17 DEF SyncInv

\* Every step keeps the invariant.
LEMMA SyncStep ==
  SyncInv /\ [Next]_vars => SyncInv'
<1> SUFFICES ASSUME SyncInv, [Next]_vars PROVE SyncInv'
  OBVIOUS
<1>1. CASE UNCHANGED vars
  <2>1. /\ edits' = edits /\ mgmt' = mgmt /\ cache' = cache /\ kubeconfig' = kubeconfig
        /\ clients' = clients /\ remote' = remote /\ pass' = pass /\ abandoned' = abandoned
        /\ proved' = proved /\ lagged' = lagged
    BY <1>1 DEF vars
  <2>2. SyncTypeOK'
    BY Zenon, <2>1 DEF SyncInv, SyncTypeOK
  <2>3. CacheOK'
    BY Zenon, <2>1 DEF SyncInv, CacheOK
  <2>4. PassOK'
    BY Zenon, <2>1 DEF SyncInv, PassOK
  <2>5. ReportsOK' /\ CopiesOK'
    BY Zenon, <2>1 DEF SyncInv, ReportsOK, CopiesOK
  <2> QED
    BY Zenon, <2>2, <2>3, <2>4, <2>5 DEF SyncInv
<1>2. ASSUME NEW o \in Editable, Edit(o) \/ Delete(o) \/ CacheSync(o)
      PROVE  SyncInv'
  <2>1. o \in Names
    BY DEF Editable, Names
  <2> QED
    BY <1>2, <2>1, EditSync, DeleteSync, CacheSyncSync
<1>3. ASSUME NEW c \in Clusters, ClusterChanges(c) \/ ReconcileCluster(c)
      PROVE  SyncInv'
  BY <1>3, ClusterChangesSync, ReconcileClusterSync
<1>4. ASSUME NEW c \in Clusters, NEW o \in Intents, WorkloadReports(c, o) \/ WorkloadLabels(c, o)
      PROVE  SyncInv'
  BY <1>4, WorkloadReportsSync, WorkloadLabelsSync DEF Names
<1>5. CASE PassFails \/ Restart \/ EndPass
  <2>1. /\ pass' = Idle /\ mgmt' = mgmt /\ cache' = cache /\ remote' = remote /\ edits' = edits
        /\ abandoned' = abandoned /\ proved' = proved
        /\ kubeconfig' = kubeconfig /\ clients' \subseteq Clusters
    BY Zenon, <1>5 DEF PassFails, Restart, EndPass, users, fleet, history, SyncInv, SyncTypeOK
  <2> QED
    BY <2>1, EndsSync
<1>6. ASSUME NEW o \in Intents, Drain(o) PROVE SyncInv'
  <2>1. /\ pass.at = "drain" /\ cache' = cache /\ remote' = remote /\ edits' = edits
        /\ proved' = proved /\ kubeconfig' = kubeconfig /\ clients' = clients
        /\ clients' \subseteq Clusters
    BY <1>6 DEF Drain, fleet, SyncInv, SyncTypeOK
  <2>2. CASE cache[o].deleting /\ cache[o].fin /\ mgmt[o] = cache[o]
    BY Zenon, <1>6, <2>2, DrainSync
  <2>3. CASE cache[o].deleting /\ cache[o].fin /\ mgmt[o] # cache[o]
    <3>1. pass' = Idle /\ mgmt' = mgmt /\ abandoned' = abandoned
      BY <1>6, <2>3 DEF Drain
    <3> QED
      BY <2>1, <3>1, EndsSync
  <2>4. CASE ~(cache[o].deleting /\ cache[o].fin)
    <3>1. pass' = Without(pass, pass.todo \ {o}) /\ mgmt' = mgmt /\ abandoned' = abandoned
      BY Zenon, <1>6, <2>4 DEF Drain, Without
    <3> QED
      BY Zenon, <2>1, <3>1, SkipSync
  <2> QED
    BY Zenon, <2>2, <2>3, <2>4
<1>7. ASSUME NEW o \in Intents, Block(o) \/ Take(o) PROVE SyncInv'
  BY <1>7, BlockSync, TakeSync
<1>8. CASE ReleaseFinalizer
  <2>1. CASE Current(pass.o)
    BY <1>8, <2>1, ReleaseSync
  <2>2. CASE ~Current(pass.o)
    <3>1. /\ pass' = Idle /\ mgmt' = mgmt /\ cache' = cache /\ remote' = remote /\ edits' = edits
          /\ abandoned' = abandoned /\ proved' = proved
          /\ kubeconfig' = kubeconfig /\ clients' \subseteq Clusters
      BY Zenon, <1>8, <2>2 DEF ReleaseFinalizer, fleet, SyncInv, SyncTypeOK
    <3> QED
      BY <3>1, EndsSync
  <2> QED
    BY <2>1, <2>2
<1>9. CASE AddFinalizer
  <2>1. CASE Current(pass.o) /\ ~mgmt[pass.o].deleting
    BY <1>9, <2>1, AddFinalizerSync
  <2>2. CASE ~(Current(pass.o) /\ ~mgmt[pass.o].deleting)
    <3>1. /\ pass' = Idle /\ mgmt' = mgmt /\ cache' = cache /\ remote' = remote /\ edits' = edits
          /\ abandoned' = abandoned /\ proved' = proved
          /\ kubeconfig' = kubeconfig /\ clients' \subseteq Clusters
      BY Zenon, <1>9, <2>2 DEF AddFinalizer, fleet, history, SyncInv, SyncTypeOK
    <3> QED
      BY <3>1, EndsSync
  <2> QED
    BY Zenon, <2>1, <2>2
<1>10. CASE ApplyRemote
  <2> DEFINE old == remote[pass.cl][pass.o]
  <2>1. CASE old = NoCopy \/ old.managed
    <3>1. pass.cl \in Clusters /\ pass.o \in Names
      BY <1>10 DEF ApplyRemote, SyncInv, SyncTypeOK, OneObject, Names
    <3> QED
      BY Zenon, <1>10, <2>1, <3>1, ManagedIsOurs, ApplySync
  <2>2. CASE old # NoCopy /\ ~old.managed
    <3>1. /\ pass' = Idle /\ mgmt' = mgmt /\ cache' = cache /\ remote' = remote /\ edits' = edits
          /\ abandoned' = abandoned /\ proved' = proved
          /\ kubeconfig' = kubeconfig /\ clients' \subseteq Clusters
      BY Zenon, <1>10, <2>2 DEF ApplyRemote, users, SyncInv, SyncTypeOK
    <3> QED
      BY <3>1, EndsSync
  <2> QED
    BY <2>1, <2>2
<1>11. CASE StartPass \/ DeleteRemote \/ StatusBack \/ SyncSecrets
  BY <1>11, StartPassSync, DeleteRemoteSync, StatusBackSync, SyncSecretsSync
<1> QED
  BY <1>1, <1>2, <1>3, <1>4, <1>5, <1>6, <1>7, <1>8, <1>9, <1>10, <1>11 DEF Next, Steps

\* The invariant holds always.
THEOREM SyncInvariant == Spec => []SyncInv
BY InitSyncInv, SyncStep, PTL DEF Spec

\* deleteRemote before removeFinalizer, the finalizer before applyRemote
\* (sync_controller.go): no copy outlives its intent unless it was released
\* without a client for the copy's cluster, however caches lag, passes fail,
\* clusters come and go and intents are deleted and created again.
THEOREM SyncLeaksNothing == Spec => []NothingLeaks
<1>1. SyncInv => NothingLeaks
  BY Zenon, EmptyFields DEF SyncInv, CopiesOK, NothingLeaks, Names
<1> QED
  BY <1>1, SyncInvariant, PTL

\* workloadCaughtUp and the generation of the mirrored condition: an intent is
\* shown Ready for its generation only if the workload cluster reported exactly
\* that content Ready.
THEOREM SyncReadyIsCurrent == Spec => []ReadyIsCurrent
<1>1. SyncInv => ReadyIsCurrent
  BY Zenon DEF SyncInv, ReportsOK, ReadyIsCurrent
<1> QED
  BY <1>1, SyncInvariant, PTL

\* What a step may do to the copy r: nothing, delete it, or write it without
\* taking the labels of others or, unless excused, the addresses.
Gentle(r, s, excused) ==
  \/ s = r
  \/ s = NoCopy
  \/ /\ "x" \in r.labels => "x" \in s.labels
     /\ r.addr /\ ~s.addr => excused

\* Every step is gentle with the copies.
LEMMA GentleStep ==
  ASSUME SyncInv, [Next]_vars, NEW c \in Clusters, NEW o \in Names
  PROVE  Gentle(remote[c][o], remote'[c][o], o \in Counted => lagged \/ ~mgmt[o].addr)
<1> DEFINE excused == o \in Counted => lagged \/ ~mgmt[o].addr
           G == Gentle(remote[c][o], remote'[c][o], excused)
<1>1. remote \in [Clusters -> [Names -> Copies]] /\ remote[c][o] \in Copies
  BY DEF SyncInv, SyncTypeOK
<1>2. remote' = remote => G
  BY DEF Gentle
<1>3. ASSUME NEW d \in Clusters, ClusterChanges(d) PROVE G
  <2>1. remote'[c] = remote[c] \/ remote'[c] = [p \in Names |-> NoCopy]
    BY <1>1, <1>3 DEF ClusterChanges
  <2>2. remote'[c][o] = remote[c][o] \/ remote'[c][o] = NoCopy
    BY Zenon, <2>1
  <2> QED
    BY <2>2 DEF Gentle
<1>4. ASSUME NEW d \in Clusters, NEW p \in Intents, WorkloadReports(d, p) PROVE G
  <2>1. PICK ok \in BOOLEAN : remote' = [remote EXCEPT ![d][p] = Observed(remote[d][p], ok)]
    BY Zenon, <1>4 DEF WorkloadReports, Observed
  <2>2. CASE c = d /\ o = p
    <3>1. remote'[c][o] = Observed(remote[c][o], ok)
      BY <1>1, <2>1, <2>2
    <3>2. /\ Observed(remote[c][o], ok).labels = remote[c][o].labels
          /\ (Observed(remote[c][o], ok).addr <=> remote[c][o].addr)
      BY Zenon, <1>1, ObservedCopy
    <3> QED
      BY Zenon, <3>1, <3>2 DEF Gentle
  <2>3. CASE ~(c = d /\ o = p)
    <3>1. remote'[c][o] = remote[c][o]
      BY <1>1, <2>1, <2>3
    <3> QED
      BY <3>1 DEF Gentle
  <2> QED
    BY Zenon, <2>2, <2>3
<1>5. ASSUME NEW d \in Clusters, NEW p \in Intents, WorkloadLabels(d, p) PROVE G
  <2>1. remote' = [remote EXCEPT ![d][p] = Labelled(remote[d][p])]
    BY Zenon, <1>5 DEF WorkloadLabels, Labelled
  <2>2. CASE c = d /\ o = p
    <3>1. remote'[c][o] = Labelled(remote[c][o])
      BY <1>1, <2>1, <2>2
    <3>2. /\ "x" \in Labelled(remote[c][o]).labels
          /\ (Labelled(remote[c][o]).addr <=> remote[c][o].addr)
      BY Zenon, <1>1, LabelledCopy
    <3> QED
      BY Zenon, <3>1, <3>2 DEF Gentle
  <2>3. CASE ~(c = d /\ o = p)
    <3>1. remote'[c][o] = remote[c][o]
      BY <1>1, <2>1, <2>3
    <3> QED
      BY <3>1 DEF Gentle
  <2> QED
    BY Zenon, <2>2, <2>3
<1>6. CASE DeleteRemote
  <2>1. remote' = [remote EXCEPT ![pass.cl][pass.o] = NoCopy] /\ pass.cl \in Clusters /\ pass.o \in Names
    BY <1>6 DEF DeleteRemote, SyncInv, SyncTypeOK, OneObject, Names
  <2>2. remote'[c][o] = remote[c][o] \/ remote'[c][o] = NoCopy
    BY <1>1, <2>1
  <2> QED
    BY <2>2 DEF Gentle
<1>7. CASE ApplyRemote
  <2> DEFINE old == remote[pass.cl][pass.o]
             a == promoteIPAMAddresses(pass.o)
             new == Overlay(old, buildRemoteObject(pass.copy, a))
  <2>1. /\ pass.at = "apply" /\ pass.cl \in Clusters /\ pass.o \in Names /\ pass.copy \in Objs
        /\ old \in Copies
    BY <1>7 DEF ApplyRemote, SyncInv, SyncTypeOK, OneObject, Names, Passes
  <2>2. CASE old # NoCopy /\ ~old.managed
    BY <1>2, <1>7, <2>2 DEF ApplyRemote
  <2>3. CASE old = NoCopy \/ old.managed
    <3>1. remote' = [remote EXCEPT ![pass.cl][pass.o] = new]
      BY Zenon, <1>7, <2>3 DEF ApplyRemote
    <3>2. Ours(old) /\ a \in BOOLEAN
      BY Zenon, <2>1, <2>3, ManagedIsOurs DEF promoteIPAMAddresses
    <3>3. ("x" \in old.labels => "x" \in new.labels) /\ (new.addr <=> a)
      <4> HIDE DEF a
      <4> QED
        BY Zenon, <2>1, <3>2, OverlaidCopy
    <3>4. pass.o \in Counted /\ ~a => lagged \/ ~mgmt[pass.o].addr
      BY Zenon, <2>1 DEF promoteIPAMAddresses, ipamAddresses, SyncInv, PassOK, OneObject
    <3>5. CASE c = pass.cl /\ o = pass.o
      <4>1. remote'[c][o] = new /\ remote[c][o] = old
        BY <1>1, <3>1, <3>5
      <4>2. remote[c][o].addr /\ ~new.addr => excused
        BY Zenon, <3>3, <3>4, <3>5
      <4>3. "x" \in remote[c][o].labels => "x" \in remote'[c][o].labels
        BY Zenon, <3>3, <4>1
      <4>4. remote[c][o].addr /\ ~remote'[c][o].addr => excused
        BY Zenon, <4>1, <4>2
      <4> QED
        BY Zenon, <4>3, <4>4 DEF Gentle
    <3>6. CASE ~(c = pass.cl /\ o = pass.o)
      <4>1. remote'[c][o] = remote[c][o]
        BY <1>1, <2>1, <3>1, <3>6
      <4> QED
        BY <4>1 DEF Gentle
    <3> QED
      BY Zenon, <3>5, <3>6
  <2> QED
    BY Zenon, <2>2, <2>3
<1>8. CASE SyncSecrets
  <2> DEFINE old == remote[pass.cl][Secret]
             no == FALSE
             new == Overlay(old, buildRemoteObject(mgmt[Secret], no))
  <2>1. /\ pass.at = "sync" /\ pass.cl \in Clusters /\ Secret \in Names /\ mgmt[Secret] \in Objs
        /\ old \in Copies /\ no \in BOOLEAN
    BY <1>8 DEF SyncSecrets, SyncInv, SyncTypeOK, OneObject, Names
  <2>2. PICK r : /\ remote' = [remote EXCEPT ![pass.cl][Secret] = r]
                 /\ r = old \/ r = NoCopy \/ (r = new /\ (old = NoCopy \/ old.managed))
    BY Zenon, <1>8 DEF SyncSecrets
  <2> HIDE DEF no
  <2>3. old = NoCopy \/ old.managed => ("x" \in old.labels => "x" \in new.labels)
    BY Zenon, <2>1, ManagedIsOurs, OverlaidCopy
  <2>4. CASE c = pass.cl /\ o = Secret
    <3>1. remote'[c][o] = r /\ remote[c][o] = old
      BY Zenon, <1>1, <2>2, <2>4
    <3>2. excused
      BY <2>4, SyncAssumption
    <3>3. \/ remote'[c][o] = remote[c][o] \/ remote'[c][o] = NoCopy
          \/ "x" \in remote[c][o].labels => "x" \in remote'[c][o].labels
      <4> HIDE DEF new, old, excused
      <4> QED
        BY <2>2, <2>3, <3>1
    <3> QED
      BY Zenon, <3>2, <3>3 DEF Gentle
  <2>5. CASE ~(c = pass.cl /\ o = Secret)
    <3>1. remote'[c][o] = remote[c][o]
      BY <1>1, <2>1, <2>2, <2>5
    <3> QED
      BY <3>1 DEF Gentle
  <2> QED
    BY Zenon, <2>4, <2>5
<1>9. ASSUME NEW p \in Editable, Edit(p) \/ Delete(p) \/ CacheSync(p) PROVE G
  BY <1>2, <1>9 DEF Edit, Delete, CacheSync, fleet
<1>10. ASSUME NEW d \in Clusters, ReconcileCluster(d) PROVE G
  BY Zenon, <1>2, <1>10 DEF ReconcileCluster
<1>11. ASSUME NEW p \in Intents, Drain(p) \/ Block(p) \/ Take(p) PROVE G
  BY <1>2, <1>11 DEF Drain, Block, Take, fleet
<1>12. CASE \/ UNCHANGED vars \/ PassFails \/ Restart \/ EndPass \/ StartPass \/ StatusBack
            \/ ReleaseFinalizer \/ AddFinalizer
  BY <1>2, <1>12 DEF vars, PassFails, Restart, EndPass, StartPass, StatusBack, ReleaseFinalizer,
                    AddFinalizer, fleet
<1> QED
  BY Zenon, <1>3, <1>4, <1>5, <1>6, <1>7, <1>8, <1>9, <1>10, <1>11, <1>12 DEF Next, Steps

\* reconcileManagedMetadata and promoteIPAMAddresses (sync_controller.go): no
\* step takes the labels of others from a copy or leaves one of its own that
\* the intent lost, and none takes promoted addresses back as long as no pass
\* started on an outdated cache.
THEOREM SyncKeepsCopies == Spec => CopiesKept
<1>1. SyncInv /\ SyncInv' /\ [Next]_vars => LabelsKept /\ AddressesKept
  <2> SUFFICES ASSUME SyncInv, SyncInv', [Next]_vars PROVE LabelsKept /\ AddressesKept
    OBVIOUS
  <2>1. ASSUME NEW c \in Clusters, NEW o \in Names, remote'[c][o].managed
        PROVE  /\ "x" \in remote[c][o].labels => "x" \in remote'[c][o].labels
               /\ o \in Counted /\ remote[c][o].addr /\ ~remote'[c][o].addr => lagged \/ ~mgmt[o].addr
    <3> DEFINE excused == o \in Counted => lagged \/ ~mgmt[o].addr
    <3>1. Gentle(remote[c][o], remote'[c][o], excused)
      BY Zenon, GentleStep
    <3>2. remote'[c][o] # NoCopy
      BY <2>1, EmptyFields
    <3> QED
      BY Zenon, <3>1, <3>2 DEF Gentle
  <2>2. \A c \in Clusters, o \in Names : remote'[c][o].managed =>
          remote'[c][o].labels \ {"x"} = Labels(remote'[c][o].ver)
    <3> DEFINE rem == remote'
    <3> SUFFICES ASSUME NEW c \in Clusters, NEW o \in Names, rem[c][o].managed
                 PROVE  rem[c][o].labels \ {"x"} = Labels(rem[c][o].ver)
      OBVIOUS
    <3> QED
      BY Zenon DEF SyncInv, CopiesOK
  <2>3. LabelsKept
    BY Zenon, <2>1, <2>2 DEF LabelsKept
  <2>4. AddressesKept
    BY Zenon, <2>1, SyncAssumption DEF AddressesKept, Names
  <2> QED
    BY <2>3, <2>4
<1> QED
  BY <1>1, SyncInvariant, PTL DEF Spec, CopiesKept

=============================================================================
