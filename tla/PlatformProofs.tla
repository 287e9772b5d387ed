--------------------------- MODULE PlatformProofs ---------------------------
(***************************************************************************)
(* Proofs about Platform, for each kind of object, any objects, any inputs *)
(* and any number of edits and faults.                                     *)
(***************************************************************************)
EXTENDS Platform, TLAPS

\* The four reconcilers; the families of a Network.
WellFormed ==
  /\ Kind \in {"Outbound", "PodNetwork", "Inbound", "InterfaceConfig"}
  /\ Kind = "PodNetwork" => \A i \in Inputs : i.fam \in {"v4", "v6"}

-----------------------------------------------------------------------------
\* An object as the API server keeps it: a deletion waits for the finalizer.
Shape(x) ==
  /\ DOMAIN x = {"there", "deleting", "fin", "spec", "status"}
  /\ x.there \in BOOLEAN /\ x.deleting \in BOOLEAN /\ x.fin \in BOOLEAN
  /\ x.fin => x.there
  /\ x.deleting => x.fin

ShapesOK ==
  /\ DOMAIN obj = Objects /\ DOMAIN cache = Objects
  /\ \A o \in Objects : Shape(obj[o]) /\ Shape(cache[o])
  /\ moved \in BOOLEAN
  /\ env \subseteq Inputs /\ envCache \subseteq Inputs

\* The calls that a pass makes, and the call that deletes a kind.
Calls(deleting) ==
  IF deleting
  THEN IF Kind = "Outbound" THEN {"deleteEgress", "deletePolicy", "deletePools", "release"}
       ELSE IF Kind = "PodNetwork" THEN {"deletePools", "release"}
       ELSE IF Kind = "Inbound" THEN {"deletePool", "deleteAdvertisement", "release"}
       ELSE {"deleteConfigs", "release"}
  ELSE IF Kind = "Outbound" THEN {"v4", "pruneV4", "v6", "pruneV6", "egress", "policy"}
       ELSE IF Kind = "PodNetwork" THEN {"pools", "prune", "status"}
       ELSE IF Kind = "Inbound" THEN {"pool", "advertisement", "status"}
       ELSE {"configs"}

Deleter == [IPPool |-> "deletePools", Egress |-> "deleteEgress",
            NetworkPolicy |-> "deletePolicy", IPAddressPool |-> "deletePool",
            L2Advertisement |-> "deleteAdvertisement", NodeNetplanConfig |-> "deleteConfigs"]

\* A list of calls still to be made: the finalizer goes last.
StepsOK(steps, deleting) ==
  /\ steps \in Seq(Calls(deleting)) /\ Len(steps) > 0
  /\ deleting => \A i \in 1 .. Len(steps) : steps[i] = "release" <=> i = Len(steps)

PassOK ==
  pass # Idle =>
    /\ DOMAIN pass = {"at", "steps", "copy", "env", "todo", "missed"}
    /\ pass.at \in Objects /\ Shape(pass.copy) /\ pass.copy.fin
    /\ StepsOK(pass.steps, pass.copy.deleting)
    /\ pass.env \subseteq Inputs

\* What is derived is found again under the same name.
Alike(x, y) == ~Leaves(x.spec, y.spec)

\* What a cached object still tells: without a deletion the finalizer is still
\* there, and a deletion is not undone before the object is gone.
CacheOK ==
  \A o \in Objects :
    /\ cache[o].fin /\ ~cache[o].deleting => obj[o].fin
    /\ cache[o].deleting /\ obj[o].fin => obj[o].deleting
    /\ ~moved /\ obj[o].fin /\ cache[o].fin => Alike(cache[o], obj[o])

EnvOK == ~moved /\ Kind = "InterfaceConfig" => envCache \subseteq env

\* The same for the copy that a pass works on.
WorkOK ==
  pass # Idle =>
    /\ ~pass.copy.deleting => obj[pass.at].fin
    /\ ~pass.copy.deleting /\ cache[pass.at].deleting => pass.at \in queue
    /\ pass.copy.deleting /\ obj[pass.at].fin =>
         obj[pass.at].deleting /\ cache[pass.at].deleting
    /\ ~moved /\ obj[pass.at].fin => Alike(pass.copy, obj[pass.at])
    /\ ~moved /\ Kind = "InterfaceConfig" => pass.todo \subseteq matchingNodes(pass.copy, envCache)

-----------------------------------------------------------------------------
KindsOf ==
  IF Kind = "Outbound" THEN {"IPPool", "Egress", "NetworkPolicy"}
  ELSE IF Kind = "PodNetwork" THEN {"IPPool"}
  ELSE IF Kind = "Inbound" THEN {"IPAddressPool", "L2Advertisement"}
  ELSE {"NodeNetplanConfig"}

\* The labels and names by which the cleanup of its owner finds an object.
Labelling(o, f) == managedLabels(o, IF Kind = "PodNetwork" THEN "podnetwork" ELSE "outbound", f)
Traceable(t) ==
  /\ t.owner \in Objects /\ t.kind \in KindsOf
  /\ t.kind = "IPPool" => \E f \in {"v4", "v6"} : t.label = Labelling(t.owner, f)
  /\ t.kind \in {"Egress", "NetworkPolicy"} => t.key = <<t.owner.ns, t.owner.name>>
Named(t, c, nodes) ==
  /\ t.kind \in {"IPAddressPool", "L2Advertisement"} => t.key = <<resolvePoolName(t.owner, c)>>
  /\ t.kind = "NodeNetplanConfig" => \E n \in nodes : t.key = <<n.name>>

\* A derived object has an owner with a finalizer.
Held(t) ==
  /\ Traceable(t)
  /\ ~moved => /\ obj[t.owner].fin
               /\ Named(t, obj[t.owner], matchingNodes(obj[t.owner], envCache))
TargetsOK == \A t \in target : Held(t)

\* What the cleanup has not deleted yet it will delete before the release.
Waits(t) ==
  /\ \E i \in 1 .. Len(pass.steps) : pass.steps[i] = Deleter[t.kind]
  /\ t.kind = "NodeNetplanConfig" => \E n \in pass.todo : t.key = <<n.name>>
CleanupOK ==
  pass # Idle /\ ~moved =>
    (pass.copy.deleting /\ obj[pass.at].fin =>
       \A t \in target : t.owner = pass.at => Waits(t))

\* DeletionPending, with the pass that it means.
PendingOK ==
  \A o \in Objects : obj[o].deleting =>
    \/ cache[o] # obj[o]
    \/ o \in queue
    \/ pass # Idle /\ pass.at = o /\ pass.copy.deleting

PlatformInv == /\ ShapesOK /\ PassOK /\ CacheOK /\ EnvOK /\ WorkOK
               /\ TargetsOK /\ CleanupOK /\ PendingOK

-----------------------------------------------------------------------------
\* An object that is not there carries no finalizer.
LEMMA AbsentShape == Shape(Absent) /\ ~Absent.there /\ ~Absent.fin /\ ~Absent.deleting
  BY DEF Absent, Shape

\* Only a pass in progress makes calls.
LEMMA RunningPass ==
  ASSUME NEW step, Running(step)
  PROVE  pass # Idle /\ pass.steps # <<>> /\ Head(pass.steps) = step
<1>1. Idle.steps = <<>>
  BY DEF Idle
<1> QED
  BY <1>1 DEF Running

\* Every list of calls that StartPass hands out is in order, and the list of
\* a cleanup deletes every kind that the reconciler writes.
LEMMA StepsStart ==
  ASSUME WellFormed, NEW d \in BOOLEAN
  PROVE  /\ StepsOK(Steps(d), d)
         /\ d => \A k \in KindsOf : \E i \in 1 .. Len(Steps(d)) : Steps(d)[i] = Deleter[k]
<1>1. CASE Kind = "Outbound" /\ d
  <2>1. /\ Steps(d) = <<"deleteEgress", "deletePolicy", "deletePools", "release">>
        /\ Calls(d) = {"deleteEgress", "deletePolicy", "deletePools", "release"}
    BY <1>1 DEF Steps, Calls
  <2>2. StepsOK(Steps(d), d)
    <3>1. Steps(d) \in Seq(Calls(d)) /\ Len(Steps(d)) > 0
      BY <2>1
    <3>2. \A i \in 1 .. Len(Steps(d)) : Steps(d)[i] = "release" <=> i = Len(Steps(d))
      BY <2>1
    <3> QED
      BY Zenon, <3>1, <3>2 DEF StepsOK
  <2>3. /\ KindsOf = {"IPPool", "Egress", "NetworkPolicy"}
        /\ Deleter["IPPool"] = "deletePools"
        /\ Deleter["Egress"] = "deleteEgress"
        /\ Deleter["NetworkPolicy"] = "deletePolicy"
    BY <1>1 DEF KindsOf, Deleter
  <2> QED
    BY <2>1, <2>2, <2>3
<1>2. CASE Kind = "Outbound" /\ ~d
  <2>1. /\ Steps(d) = <<"v4", "pruneV4", "v6", "pruneV6", "egress", "policy">>
        /\ Calls(d) = {"v4", "pruneV4", "v6", "pruneV6", "egress", "policy"}
    BY <1>2 DEF Steps, Calls
  <2>2. StepsOK(Steps(d), d)
    BY <1>2, <2>1 DEF StepsOK
  <2> QED
    BY <1>2, <2>2
<1>3. CASE Kind = "PodNetwork" /\ d
  <2>1. /\ Steps(d) = <<"deletePools", "release">>
        /\ Calls(d) = {"deletePools", "release"}
    BY <1>3 DEF Steps, Calls
  <2>2. StepsOK(Steps(d), d)
    <3>1. Steps(d) \in Seq(Calls(d)) /\ Len(Steps(d)) > 0
      BY <2>1
    <3>2. \A i \in 1 .. Len(Steps(d)) : Steps(d)[i] = "release" <=> i = Len(Steps(d))
      BY <2>1
    <3> QED
      BY Zenon, <3>1, <3>2 DEF StepsOK
  <2>3. /\ KindsOf = {"IPPool"}
        /\ Deleter["IPPool"] = "deletePools"
    BY <1>3 DEF KindsOf, Deleter
  <2> QED
    BY <2>1, <2>2, <2>3
<1>4. CASE Kind = "PodNetwork" /\ ~d
  <2>1. /\ Steps(d) = <<"pools", "prune", "status">>
        /\ Calls(d) = {"pools", "prune", "status"}
    BY <1>4 DEF Steps, Calls
  <2>2. StepsOK(Steps(d), d)
    BY <1>4, <2>1 DEF StepsOK
  <2> QED
    BY <1>4, <2>2
<1>5. CASE Kind = "Inbound" /\ d
  <2>1. /\ Steps(d) = <<"deletePool", "deleteAdvertisement", "release">>
        /\ Calls(d) = {"deletePool", "deleteAdvertisement", "release"}
    BY <1>5 DEF Steps, Calls
  <2>2. StepsOK(Steps(d), d)
    <3>1. Steps(d) \in Seq(Calls(d)) /\ Len(Steps(d)) > 0
      BY <2>1
    <3>2. \A i \in 1 .. Len(Steps(d)) : Steps(d)[i] = "release" <=> i = Len(Steps(d))
      BY <2>1
    <3> QED
      BY Zenon, <3>1, <3>2 DEF StepsOK
  <2>3. /\ KindsOf = {"IPAddressPool", "L2Advertisement"}
        /\ Deleter["IPAddressPool"] = "deletePool"
        /\ Deleter["L2Advertisement"] = "deleteAdvertisement"
    BY <1>5 DEF KindsOf, Deleter
  <2> QED
    BY <2>1, <2>2, <2>3
<1>6. CASE Kind = "Inbound" /\ ~d
  <2>1. /\ Steps(d) = <<"pool", "advertisement", "status">>
        /\ Calls(d) = {"pool", "advertisement", "status"}
    BY <1>6 DEF Steps, Calls
  <2>2. StepsOK(Steps(d), d)
    BY <1>6, <2>1 DEF StepsOK
  <2> QED
    BY <1>6, <2>2
<1>7. CASE Kind = "InterfaceConfig" /\ d
  <2>1. /\ Steps(d) = <<"deleteConfigs", "release">>
        /\ Calls(d) = {"deleteConfigs", "release"}
    BY <1>7 DEF Steps, Calls
  <2>2. StepsOK(Steps(d), d)
    <3>1. Steps(d) \in Seq(Calls(d)) /\ Len(Steps(d)) > 0
      BY <2>1
    <3>2. \A i \in 1 .. Len(Steps(d)) : Steps(d)[i] = "release" <=> i = Len(Steps(d))
      BY <2>1
    <3> QED
      BY Zenon, <3>1, <3>2 DEF StepsOK
  <2>3. /\ KindsOf = {"NodeNetplanConfig"}
        /\ Deleter["NodeNetplanConfig"] = "deleteConfigs"
    BY <1>7 DEF KindsOf, Deleter
  <2> QED
    BY <2>1, <2>2, <2>3
<1>8. CASE Kind = "InterfaceConfig" /\ ~d
  <2>1. /\ Steps(d) = <<"configs">>
        /\ Calls(d) = {"configs"}
    BY <1>8 DEF Steps, Calls
  <2>2. StepsOK(Steps(d), d)
    BY <1>8, <2>1 DEF StepsOK
  <2> QED
    BY <1>8, <2>2
<1> QED
  BY <1>1, <1>2, <1>3, <1>4, <1>5, <1>6, <1>7, <1>8 DEF WellFormed

\* A list of calls stays in order when the first has been made.
LEMMA StepsTail ==
  ASSUME NEW s, NEW d \in BOOLEAN, StepsOK(s, d), Len(s) > 1
  PROVE  /\ StepsOK(Tail(s), d)
         /\ \A k : k # Head(s) /\ (\E i \in 1 .. Len(s) : s[i] = k)
                   => \E i \in 1 .. Len(Tail(s)) : Tail(s)[i] = k
<1>1. /\ Tail(s) \in Seq(Calls(d)) /\ Len(Tail(s)) = Len(s) - 1 /\ Len(s) \in Nat
      /\ \A i \in 1 .. Len(Tail(s)) : Tail(s)[i] = s[i + 1]
      /\ Head(s) = s[1]
  BY DEF StepsOK
<1>2. \A i \in 1 .. Len(Tail(s)) : i + 1 \in 1 .. Len(s)
  BY <1>1
<1>3. StepsOK(Tail(s), d)
  <2>1. d => \A i \in 1 .. Len(Tail(s)) : Tail(s)[i] = "release" <=> i + 1 = Len(s)
    BY Zenon, <1>1, <1>2 DEF StepsOK
  <2>2. \A i \in 1 .. Len(Tail(s)) : i + 1 = Len(s) <=> i = Len(Tail(s))
    BY <1>1
  <2>3. Len(Tail(s)) > 0
    BY <1>1
  <2> QED
    BY Zenon, <1>1, <2>1, <2>2, <2>3 DEF StepsOK
<1>4. ASSUME NEW k, k # Head(s), NEW i \in 1 .. Len(s), s[i] = k
      PROVE  \E j \in 1 .. Len(Tail(s)) : Tail(s)[j] = k
  <2>1. i # 1
    BY <1>1, <1>4
  <2>2. i - 1 \in 1 .. Len(Tail(s)) /\ (i - 1) + 1 = i
    BY <1>1, <2>1
  <2> QED
    BY <1>1, <1>4, <2>2
<1> QED
  BY Zenon, <1>3, <1>4

\* What two alike versions of an object derive has the same names.
LEMMA AlikeNames ==
  ASSUME NEW x, NEW y, Alike(x, y), NEW t, NEW nodes, NEW more, nodes \subseteq more,
         WellFormed, Traceable(t)
  PROVE  Named(t, x, matchingNodes(x, nodes)) => Named(t, y, matchingNodes(y, more))
<1>1. x.spec.pool = y.spec.pool /\ (Kind = "InterfaceConfig" => x.spec.selects = y.spec.selects)
  BY DEF Alike, Leaves
<1>2. resolvePoolName(t.owner, x) = resolvePoolName(t.owner, y)
  BY Zenon, <1>1 DEF resolvePoolName
<1>3. t.kind = "NodeNetplanConfig" => Kind = "InterfaceConfig"
  BY DEF Traceable, KindsOf, WellFormed
<1>4. Kind = "InterfaceConfig" => matchingNodes(x, nodes) \subseteq matchingNodes(y, more)
  BY <1>1 DEF matchingNodes
<1> QED
  BY <1>2, <1>3, <1>4 DEF Named

-----------------------------------------------------------------------------
\* Likeness is an equivalence.
LEMMA AlikeTwice ==
  /\ \A x, y : x.spec = y.spec => Alike(x, y)
  /\ \A x, y, z : Alike(x, y) /\ Alike(y, z) => Alike(x, z)
  /\ \A x, y : Alike(x, y) => Alike(y, x)
  BY Zenon DEF Alike, Leaves

\* An edit, an allocation or a delete: one object changes, and keeps its
\* finalizer and its deletion.
LEMMA ObjectStep ==
  ASSUME WellFormed, PlatformInv, NEW o \in Objects, NEW x, Shape(x),
         obj' = [obj EXCEPT ![o] = x], x.fin = obj[o].fin,
         obj[o].deleting => x.deleting, x.deleting => ~cache[o].deleting,
         moved' \in BOOLEAN, moved => moved', ~moved' /\ obj[o].fin => Alike(obj[o], x),
         UNCHANGED <<cache, envCache, target, queue, pass>>,
         EnvOK', env' \subseteq Inputs
  PROVE  PlatformInv'
<1>1. /\ DOMAIN obj' = Objects /\ obj'[o] = x
      /\ \A p \in Objects : p # o => obj'[p] = obj[p]
  BY DEF PlatformInv, ShapesOK
<1>2. ShapesOK'
  BY <1>1 DEF PlatformInv, ShapesOK
<1>3. PassOK'
  BY DEF PlatformInv, PassOK
<1>4. CacheOK'
  <2>1. SUFFICES ASSUME NEW p \in Objects
                 PROVE  /\ cache[p].fin /\ ~cache[p].deleting => obj'[p].fin
                        /\ cache[p].deleting /\ obj'[p].fin => obj'[p].deleting
                        /\ ~moved' /\ obj'[p].fin /\ cache[p].fin => Alike(cache[p], obj'[p])
    BY Zenon DEF CacheOK
  <2>2. /\ cache[p].fin /\ ~cache[p].deleting => obj[p].fin
        /\ cache[p].deleting /\ obj[p].fin => obj[p].deleting
        /\ ~moved' /\ obj[p].fin /\ cache[p].fin => Alike(cache[p], obj[p])
    BY Zenon DEF PlatformInv, CacheOK
  <2>3. CASE p = o
    <3>1. /\ cache[o].fin /\ ~cache[o].deleting => x.fin
          /\ cache[o].deleting /\ x.fin => x.deleting
      BY Zenon, <2>2, <2>3
    <3>2. ~moved' /\ x.fin /\ cache[o].fin => Alike(cache[o], x)
      BY Zenon, <2>2, <2>3, AlikeTwice
    <3> QED
      BY Zenon, <1>1, <2>3, <3>1, <3>2
  <2>4. CASE p # o
    BY Zenon, <1>1, <2>2, <2>4
  <2> QED
    BY <2>3, <2>4
<1>5. WorkOK'
  <2>1. SUFFICES ASSUME pass # Idle
                 PROVE  /\ ~pass.copy.deleting => obj'[pass.at].fin
                        /\ ~pass.copy.deleting /\ cache[pass.at].deleting => pass.at \in queue
                        /\ pass.copy.deleting /\ obj'[pass.at].fin =>
                             obj'[pass.at].deleting /\ cache[pass.at].deleting
                        /\ ~moved' /\ obj'[pass.at].fin => Alike(pass.copy, obj'[pass.at])
                        /\ ~moved' /\ Kind = "InterfaceConfig" =>
                             pass.todo \subseteq matchingNodes(pass.copy, envCache)
    BY Zenon DEF WorkOK
  <2>2. pass.at \in Objects
    BY <2>1 DEF PlatformInv, PassOK
  <2>3. /\ ~pass.copy.deleting => obj[pass.at].fin
        /\ ~pass.copy.deleting /\ cache[pass.at].deleting => pass.at \in queue
        /\ pass.copy.deleting /\ obj[pass.at].fin => obj[pass.at].deleting /\ cache[pass.at].deleting
        /\ ~moved' /\ obj[pass.at].fin => Alike(pass.copy, obj[pass.at])
        /\ ~moved' /\ Kind = "InterfaceConfig" => pass.todo \subseteq matchingNodes(pass.copy, envCache)
    BY Zenon, <2>1 DEF PlatformInv, WorkOK
  <2>4. CASE pass.at = o
    BY Zenon, <1>1, <2>3, <2>4, AlikeTwice
  <2>5. CASE pass.at # o
    BY Zenon, <1>1, <2>2, <2>3, <2>5
  <2> QED
    BY <2>4, <2>5
<1>6. TargetsOK'
  <2>1. SUFFICES ASSUME NEW t \in target PROVE Held(t)'
    BY Zenon DEF TargetsOK
  <2>2. Traceable(t) /\ t.owner \in Objects
    BY Zenon DEF PlatformInv, TargetsOK, Held, Traceable
  <2>3. ~moved' => /\ obj[t.owner].fin
                   /\ Named(t, obj[t.owner], matchingNodes(obj[t.owner], envCache))
    BY Zenon DEF PlatformInv, TargetsOK, Held
  <2>4. ~moved' => obj'[t.owner].fin /\ Alike(obj[t.owner], obj'[t.owner])
    <3>1. CASE t.owner = o
      BY Zenon, <1>1, <2>3, <3>1
    <3>2. CASE t.owner # o
      <4>1. obj'[t.owner] = obj[t.owner]
        BY Zenon, <1>1, <2>2, <3>2
      <4> QED
        BY Zenon, <2>3, <4>1, AlikeTwice
    <3> QED
      BY <3>1, <3>2
  <2>5. ~moved' => Named(t, obj'[t.owner], matchingNodes(obj'[t.owner], envCache))
    BY Zenon, <2>2, <2>3, <2>4, AlikeNames
  <2> QED
    BY Zenon, <2>2, <2>4, <2>5 DEF Held
<1>7. CleanupOK'
  <2>1. SUFFICES ASSUME pass # Idle, ~moved', pass.copy.deleting, obj'[pass.at].fin,
                        NEW t \in target, t.owner = pass.at
                 PROVE  Waits(t)'
    BY Zenon DEF CleanupOK
  <2>2. pass.at \in Objects
    BY <2>1 DEF PlatformInv, PassOK
  <2>3. obj[pass.at].fin
    BY Zenon, <1>1, <2>1, <2>2
  <2>4. Waits(t)
    BY Zenon, <2>1, <2>3 DEF PlatformInv, CleanupOK
  <2> QED
    BY <2>4 DEF Waits
<1>8. PendingOK'
  <2>1. SUFFICES ASSUME NEW p \in Objects, obj'[p].deleting
                 PROVE  \/ cache[p] # obj'[p] \/ p \in queue
                        \/ pass # Idle /\ pass.at = p /\ pass.copy.deleting
    BY Zenon DEF PendingOK
  <2>2. CASE p = o
    BY Zenon, <1>1, <2>1, <2>2
  <2>3. CASE p # o
    BY Zenon, <1>1, <2>1, <2>3 DEF PlatformInv, PendingOK
  <2> QED
    BY <2>2, <2>3
<1> QED
  BY <1>2, <1>3, <1>4, <1>5, <1>6, <1>7, <1>8 DEF PlatformInv

-----------------------------------------------------------------------------
\* Arithmetic.
LEMMA OneOnly == \A n \in Nat : n > 0 /\ ~(n > 1) => n = 1
  OBVIOUS

\* A pass moves on: a cleanup that has not released the object has calls left.
LEMMA DoneStep ==
  ASSUME PlatformInv, NEW step, Running(step), step # "release", Done
  PROVE  \/ pass' = Idle /\ ~pass.copy.deleting
         \/ /\ PassOK' /\ pass' # Idle
            /\ pass'.at = pass.at /\ pass'.copy = pass.copy /\ pass'.todo = pass.todo
            /\ \A k : k # step /\ (\E i \in 1 .. Len(pass.steps) : pass.steps[i] = k)
                      => \E i \in 1 .. Len(pass'.steps) : pass'.steps[i] = k
<1>1. /\ pass # Idle /\ Head(pass.steps) = step
      /\ StepsOK(pass.steps, pass.copy.deleting) /\ pass.copy.deleting \in BOOLEAN
      /\ DOMAIN pass = {"at", "steps", "copy", "env", "todo", "missed"}
  BY Zenon, RunningPass DEF PlatformInv, PassOK, Shape
<1>2. CASE Len(pass.steps) > 1
  <2>1. /\ pass'.at = pass.at /\ pass'.copy = pass.copy /\ pass'.todo = pass.todo
        /\ pass'.env = pass.env /\ pass'.steps = Tail(pass.steps)
        /\ DOMAIN pass' = {"at", "steps", "copy", "env", "todo", "missed"}
    BY <1>1, <1>2 DEF Done
  <2>2. StepsOK(pass'.steps, pass.copy.deleting)
    BY Zenon, <1>1, <1>2, <2>1, StepsTail
  <2>3. PassOK'
    BY Zenon, <1>1, <2>1, <2>2 DEF PlatformInv, PassOK
  <2>4. \A k : k # Head(pass.steps) /\ (\E i \in 1 .. Len(pass.steps) : pass.steps[i] = k)
                => \E i \in 1 .. Len(Tail(pass.steps)) : Tail(pass.steps)[i] = k
    BY Zenon, <1>1, <1>2, StepsTail
  <2>5. pass' # Idle
    <3>1. Idle.steps = <<>> /\ Len(Idle.steps) = 0
      BY DEF Idle
    <3>2. Len(pass'.steps) > 0
      BY Zenon, <2>2 DEF StepsOK
    <3> QED
      BY <3>1, <3>2
  <2> QED
    BY Zenon, <1>1, <2>1, <2>3, <2>4, <2>5
<1>3. CASE ~(Len(pass.steps) > 1)
  <2>1. Len(pass.steps) = 1 /\ pass.steps[1] = step
    <3>1. PICK S : pass.steps \in Seq(S) /\ Len(pass.steps) > 0
      BY Zenon, <1>1 DEF StepsOK
    <3>2. Head(pass.steps) = pass.steps[1] /\ Len(pass.steps) \in Nat
      BY <3>1
    <3>3. PICK n \in Nat : n = Len(pass.steps)
      BY Zenon, <3>2
    <3>4. n = 1
      BY Zenon, <1>3, <3>1, <3>3, OneOnly
    <3> QED
      BY Zenon, <1>1, <3>2, <3>3, <3>4
  <2>2. ~pass.copy.deleting
    <3>1. 1 \in 1 .. Len(pass.steps) /\ 1 = Len(pass.steps)
      BY <2>1
    <3> QED
      BY Zenon, <1>1, <2>1, <3>1 DEF StepsOK
  <2> QED
    BY <1>3, <2>2 DEF Done
<1> QED
  BY <1>2, <1>3

\* What a call may do to the derived objects: leave one that it is not there to
\* delete, or write one for a live object under the names of its copy.
Left(t, step) ==
  t \in target /\ (pass.copy.deleting /\ ~moved /\ obj[pass.at].fin /\ t.owner = pass.at
                     => Deleter[t.kind] # step)
Written(t) ==
  /\ ~pass.copy.deleting /\ t.owner = pass.at /\ Traceable(t)
  /\ ~moved => Named(t, pass.copy, matchingNodes(pass.copy, envCache))

\* A status write changes nothing that the invariant speaks of.
SameObjects ==
  /\ DOMAIN obj' = Objects
  /\ \A o \in Objects : /\ Shape(obj'[o]) /\ obj'[o].fin = obj[o].fin
                         /\ obj'[o].deleting = obj[o].deleting /\ obj'[o].spec = obj[o].spec
  /\ \A o \in Objects : obj[o].deleting =>
       \/ cache[o] # obj'[o] \/ o \in queue
       \/ pass # Idle /\ pass.at = o /\ pass.copy.deleting

\* A call of the pass on an object keeps the invariant.
LEMMA CallStep ==
  ASSUME WellFormed, PlatformInv, NEW step, Running(step), step # "release", Done,
         SameObjects, UNCHANGED <<cache, env, envCache, queue, moved>>,
         \A t \in target' : Left(t, step) \/ Written(t)
  PROVE  PlatformInv'
<1>1. pass # Idle /\ pass.at \in Objects
  BY Zenon, RunningPass DEF PlatformInv, PassOK
<1>2. \/ pass' = Idle /\ ~pass.copy.deleting
      \/ /\ PassOK' /\ pass' # Idle
         /\ pass'.at = pass.at /\ pass'.copy = pass.copy /\ pass'.todo = pass.todo
         /\ \A k : k # step /\ (\E i \in 1 .. Len(pass.steps) : pass.steps[i] = k)
                   => \E i \in 1 .. Len(pass'.steps) : pass'.steps[i] = k
  BY Zenon, DoneStep
<1>3. ShapesOK'
  BY Zenon DEF PlatformInv, ShapesOK, SameObjects
<1>4. PassOK'
  BY Zenon, <1>2 DEF PassOK
<1>5. ASSUME NEW o \in Objects, NEW c, Alike(c, obj[o])
      PROVE  Alike(c, obj'[o])
  <2>1. obj'[o].spec = obj[o].spec
    BY Zenon DEF SameObjects
  <2> QED
    BY Zenon, <1>5, <2>1 DEF Alike
<1>6. CacheOK' /\ EnvOK'
  <2>1. EnvOK'
    BY Zenon DEF PlatformInv, EnvOK
  <2>2. SUFFICES ASSUME NEW o \in Objects
                 PROVE  /\ cache[o].fin /\ ~cache[o].deleting => obj'[o].fin
                        /\ cache[o].deleting /\ obj'[o].fin => obj'[o].deleting
                        /\ ~moved /\ obj'[o].fin /\ cache[o].fin => Alike(cache[o], obj'[o])
    BY Zenon, <2>1 DEF CacheOK
  <2>3. /\ cache[o].fin /\ ~cache[o].deleting => obj[o].fin
        /\ cache[o].deleting /\ obj[o].fin => obj[o].deleting
        /\ ~moved /\ obj[o].fin /\ cache[o].fin => Alike(cache[o], obj[o])
    BY Zenon DEF PlatformInv, CacheOK
  <2>4. obj'[o].fin = obj[o].fin /\ obj'[o].deleting = obj[o].deleting
    BY Zenon DEF SameObjects
  <2> QED
    BY Zenon, <1>5, <2>3, <2>4
<1>7. WorkOK'
  <2>1. SUFFICES ASSUME pass' # Idle
                 PROVE  /\ ~pass.copy.deleting => obj'[pass.at].fin
                        /\ ~pass.copy.deleting /\ cache[pass.at].deleting => pass.at \in queue
                        /\ pass.copy.deleting /\ obj'[pass.at].fin =>
                             obj'[pass.at].deleting /\ cache[pass.at].deleting
                        /\ ~moved /\ obj'[pass.at].fin => Alike(pass.copy, obj'[pass.at])
                        /\ ~moved /\ Kind = "InterfaceConfig" =>
                             pass.todo \subseteq matchingNodes(pass.copy, envCache)
    BY Zenon, <1>2 DEF WorkOK
  <2>2. /\ ~pass.copy.deleting => obj[pass.at].fin
        /\ ~pass.copy.deleting /\ cache[pass.at].deleting => pass.at \in queue
        /\ pass.copy.deleting /\ obj[pass.at].fin => obj[pass.at].deleting /\ cache[pass.at].deleting
        /\ ~moved /\ obj[pass.at].fin => Alike(pass.copy, obj[pass.at])
        /\ ~moved /\ Kind = "InterfaceConfig" => pass.todo \subseteq matchingNodes(pass.copy, envCache)
    BY Zenon, <1>1 DEF PlatformInv, WorkOK
  <2>3. obj'[pass.at].fin = obj[pass.at].fin /\ obj'[pass.at].deleting = obj[pass.at].deleting
    BY Zenon, <1>1 DEF SameObjects
  <2> QED
    BY Zenon, <1>1, <1>5, <2>2, <2>3
<1>8. TargetsOK'
  <2>1. SUFFICES ASSUME NEW t \in target' PROVE Held(t)'
    BY Zenon DEF TargetsOK
  <2>2. PICK c : /\ Traceable(t) /\ t.owner \in Objects
                 /\ ~moved => /\ obj[t.owner].fin /\ Alike(c, obj[t.owner])
                              /\ Named(t, c, matchingNodes(c, envCache))
    <3>1. CASE Left(t, step)
      BY Zenon, <3>1, AlikeTwice DEF Left, PlatformInv, TargetsOK, Held, Traceable
    <3>2. CASE Written(t)
      BY Zenon, <1>1, <3>2 DEF Written, PlatformInv, WorkOK
    <3> QED
      BY <3>1, <3>2
  <2>3. ~moved => obj'[t.owner].fin /\ Alike(c, obj'[t.owner])
    BY Zenon, <1>5, <2>2 DEF SameObjects
  <2>4. ~moved => Named(t, obj'[t.owner], matchingNodes(obj'[t.owner], envCache))
    BY Zenon, <2>2, <2>3, AlikeNames
  <2> QED
    BY Zenon, <2>2, <2>3, <2>4 DEF Held
<1>9. CleanupOK'
  <2>1. SUFFICES ASSUME pass' # Idle, ~moved, pass.copy.deleting, obj'[pass.at].fin,
                        NEW t \in target', t.owner = pass.at
                 PROVE  Waits(t)'
    BY Zenon, <1>2 DEF CleanupOK
  <2>2. obj[pass.at].fin
    BY Zenon, <1>1, <2>1 DEF SameObjects
  <2>3. t \in target /\ Deleter[t.kind] # step
    BY Zenon, <2>1, <2>2 DEF Left, Written
  <2>4. Waits(t)
    BY Zenon, <1>1, <2>1, <2>2, <2>3 DEF PlatformInv, CleanupOK
  <2> QED
    BY Zenon, <1>2, <2>1, <2>3, <2>4 DEF Waits
<1>10. PendingOK'
  <2>1. SUFFICES ASSUME NEW o \in Objects, obj[o].deleting
                 PROVE  \/ cache[o] # obj'[o] \/ o \in queue
                        \/ pass' # Idle /\ pass'.at = o /\ pass'.copy.deleting
    BY Zenon DEF PendingOK, SameObjects
  <2>2. \/ cache[o] # obj'[o] \/ o \in queue
        \/ pass # Idle /\ pass.at = o /\ pass.copy.deleting
    BY Zenon, <2>1 DEF SameObjects
  <2> QED
    BY Zenon, <1>2, <2>2
<1> QED
  BY <1>3, <1>4, <1>6, <1>7, <1>8, <1>9, <1>10 DEF PlatformInv

-----------------------------------------------------------------------------
\* The call that a pass is at is one of its reconciler.
LEMMA CallOf ==
  ASSUME PlatformInv, NEW step, Running(step)
  PROVE  /\ step \in Calls(pass.copy.deleting) /\ pass.copy.deleting \in BOOLEAN
         /\ pass # Idle /\ pass.at \in Objects
<1>1. /\ pass # Idle /\ pass.at \in Objects /\ pass.copy.deleting \in BOOLEAN
      /\ pass.steps \in Seq(Calls(pass.copy.deleting)) /\ pass.steps # <<>>
      /\ Head(pass.steps) = step
  BY Zenon, RunningPass DEF PlatformInv, PassOK, StepsOK, Shape
<1>2. PICK S : S = Calls(pass.copy.deleting) /\ pass.steps \in Seq(S) /\ pass.steps # <<>>
  BY Zenon, <1>1
<1>3. Head(pass.steps) \in S
  BY <1>2
<1> QED
  BY Zenon, <1>1, <1>2, <1>3

\* Which reconciler makes which call, and in which kind of pass.
LEMMA CallsSorted ==
  ASSUME WellFormed, NEW d \in BOOLEAN, NEW step \in Calls(d)
  PROVE  /\ step \in {"v4", "v6", "pruneV4", "pruneV6", "egress", "policy"} =>
              ~d /\ Kind = "Outbound"
         /\ step \in {"pools", "prune"} => ~d /\ Kind = "PodNetwork"
         /\ step \in {"pool", "advertisement"} => ~d /\ Kind = "Inbound"
         /\ step \in {"configs"} => ~d /\ Kind = "InterfaceConfig"
         /\ step = "status" => ~d
         /\ step \in {"deleteEgress", "deletePolicy"} => d /\ Kind = "Outbound"
         /\ step = "deletePools" => d
         /\ step \in {"deletePool", "deleteAdvertisement"} => d /\ Kind = "Inbound"
         /\ step = "deleteConfigs" => d /\ Kind = "InterfaceConfig"
         /\ step = "release" => d
<1>1. CASE d
  BY <1>1 DEF Calls, WellFormed
<1>2. CASE ~d
  BY <1>2 DEF Calls, WellFormed
<1> QED
  BY <1>1, <1>2

\* A call that writes for a live object.
LEMMA LiveWrite ==
  ASSUME WellFormed, PlatformInv, NEW step, NEW ts, Write(step, ts), ~pass.copy.deleting,
         \A t \in ts : t \in target \/ Written(t)
  PROVE  PlatformInv'
<1>1. Running(step) /\ Done /\ target' = ts /\ UNCHANGED <<obj, cache, env, envCache, queue, moved>>
  BY DEF Write, api
<1>2. step # "release"
  BY Zenon, <1>1, CallOf, CallsSorted
<1>3. SameObjects
  BY Zenon, <1>1 DEF PlatformInv, ShapesOK, PendingOK, SameObjects
<1>4. \A t \in target' : Left(t, step) \/ Written(t)
  BY Zenon, <1>1 DEF Left
<1> QED
  BY Zenon, <1>1, <1>2, <1>3, <1>4, CallStep

\* A call that deletes what the object owns of one kind.
LEMMA DeleteWrite ==
  ASSUME WellFormed, PlatformInv, NEW step, NEW ts, Write(step, ts), step # "release",
         ts \subseteq target,
         ASSUME NEW t \in ts, ~moved, t.owner = pass.at, Held(t), Waits(t),
                Alike(pass.copy, obj[pass.at])
         PROVE  Deleter[t.kind] # step
  PROVE  PlatformInv'
<1>1. Running(step) /\ Done /\ target' = ts /\ UNCHANGED <<obj, cache, env, envCache, queue, moved>>
  BY DEF Write, api
<1>2. SameObjects
  BY Zenon, <1>1 DEF PlatformInv, ShapesOK, PendingOK, SameObjects
<1>3. ASSUME NEW t \in target' PROVE Left(t, step)
  <2>1. SUFFICES ASSUME pass.copy.deleting, ~moved, obj[pass.at].fin, t.owner = pass.at
                 PROVE  Deleter[t.kind] # step
    BY Zenon, <1>1 DEF Left
  <2>2. t \in target /\ t \in ts
    BY <1>1
  <2>3. pass # Idle
    BY Zenon, <1>1, CallOf
  <2>4. Held(t)
    BY Zenon, <2>2 DEF PlatformInv, TargetsOK
  <2>5. Waits(t)
    BY Zenon, <2>1, <2>2, <2>3 DEF PlatformInv, CleanupOK
  <2>6. Alike(pass.copy, obj[pass.at])
    BY Zenon, <2>1, <2>3 DEF PlatformInv, WorkOK
  <2> QED
    BY Zenon, <2>1, <2>2, <2>4, <2>5, <2>6
<1> QED
  BY Zenon, <1>1, <1>2, <1>3, CallStep

-----------------------------------------------------------------------------
\* The fields by which a derived object is found again.
Core(t, o, kind, key, label) == t.owner = o /\ t.kind = kind /\ t.key = key /\ t.label = label
LEMMA DerivedCore ==
  ASSUME NEW o, NEW kind, NEW key, NEW label, NEW a, NEW b, NEW c
  PROVE  /\ Core([Derived(o, kind, key, label) EXCEPT !.addrs = a, !.block = b], o, kind, key, label)
         /\ Core([Derived(o, kind, key, label) EXCEPT !.addrs = a, !.dests = b, !.pools = c],
                 o, kind, key, label)
         /\ Core([Derived(o, kind, key, label) EXCEPT !.addrs = a], o, kind, key, label)
         /\ Core([Derived(o, kind, key, label) EXCEPT !.dests = a], o, kind, key, label)
         /\ Core([Derived(o, kind, key, label) EXCEPT !.pools = a], o, kind, key, label)
  BY DEF Derived, Core

\* The objects of an Outbound.
LEMMA OutboundWrites ==
  ASSUME WellFormed, PlatformInv, Kind = "Outbound", ~pass.copy.deleting, pass.at \in Objects
  PROVE  /\ \A fam \in {"v4", "v6"} : \A t \in CalicoPools(pass.at, pass.copy, fam) : Written(t)
         /\ Written(CoilEgress(pass.at, pass.copy, pass.env))
         /\ Written(EgressNetworkPolicy(pass.at, pass.copy, pass.env))
<1>1. ASSUME NEW t, NEW key, NEW kind, NEW label, kind \in {"IPPool", "Egress", "NetworkPolicy"},
             Core(t, pass.at, kind, key, label),
             kind = "IPPool" => \E f \in {"v4", "v6"} : label = managedLabels(pass.at, "outbound", f),
             kind # "IPPool" => key = <<pass.at.ns, pass.at.name>>
      PROVE  Written(t)
  <2>1. Named(t, pass.copy, matchingNodes(pass.copy, envCache))
    BY <1>1 DEF Core, Named
  <2>2. kind = "IPPool" => \E f \in {"v4", "v6"} : t.label = Labelling(pass.at, f)
    BY <1>1 DEF Core, Labelling
  <2>3. Traceable(t)
    BY <1>1, <2>2 DEF Core, Traceable, KindsOf
  <2> QED
    BY Zenon, <1>1, <2>1, <2>3 DEF Written, Core
<1>2. ASSUME NEW fam \in {"v4", "v6"}, NEW t \in CalicoPools(pass.at, pass.copy, fam)
      PROVE  Written(t)
  <2>1. PICK a \in CIDRs(pass.copy, fam) :
          t = [Derived(pass.at, "IPPool", calicoPoolName(pass.at, fam, a),
                       managedLabels(pass.at, "outbound", fam))
                 EXCEPT !.addrs = {a}, !.block = HostPrefix(fam)]
    BY Zenon, <1>2 DEF CalicoPools
  <2>2. Core(t, pass.at, "IPPool", calicoPoolName(pass.at, fam, a),
             managedLabels(pass.at, "outbound", fam))
    BY Zenon, <2>1, DerivedCore
  <2> QED
    BY <1>1, <2>2
<1>3. Written(CoilEgress(pass.at, pass.copy, pass.env))
  <2>1. PICK label : Core(CoilEgress(pass.at, pass.copy, pass.env), pass.at, "Egress",
                          <<pass.at.ns, pass.at.name>>, label)
    BY Zenon, DerivedCore DEF CoilEgress
  <2> QED
    BY <1>1, <2>1
<1>4. Written(EgressNetworkPolicy(pass.at, pass.copy, pass.env))
  <2>1. PICK label : Core(EgressNetworkPolicy(pass.at, pass.copy, pass.env), pass.at,
                          "NetworkPolicy", <<pass.at.ns, pass.at.name>>, label)
    BY Zenon, DerivedCore DEF EgressNetworkPolicy
  <2> QED
    BY <1>1, <2>1
<1> QED
  BY Zenon, <1>2, <1>3, <1>4

\* CoilReconciler, for an Outbound that lives.
LEMMA OutboundStep ==
  ASSUME WellFormed, PlatformInv,
         \/ \E fam \in {"v4", "v6"} : reconcileCalicoIPPools(fam) \/ pruneCalicoIPPools(fam)
         \/ upsertCoilEgress \/ upsertEgressNetworkPolicy
  PROVE  PlatformInv'
<1>1. CASE \E fam \in {"v4", "v6"} : reconcileCalicoIPPools(fam)
  <2>1. PICK fam \in {"v4", "v6"} : Write(fam, Upsert(CalicoPools(pass.at, pass.copy, fam)))
    BY Zenon, <1>1 DEF reconcileCalicoIPPools
  <2>2. Kind = "Outbound" /\ ~pass.copy.deleting /\ pass.at \in Objects
    BY <2>1, CallOf, CallsSorted DEF Write
  <2>3. \A t \in Upsert(CalicoPools(pass.at, pass.copy, fam)) : t \in target \/ Written(t)
    BY Zenon, <2>2, OutboundWrites DEF Upsert
  <2> QED
    BY Zenon, <2>1, <2>2, <2>3, LiveWrite
<1>2. CASE \E fam \in {"v4", "v6"} : pruneCalicoIPPools(fam)
  <2>1. PICK step \in {"pruneV4", "pruneV6"} : \E gone : Write(step, target \ gone)
    BY Zenon, <1>2 DEF pruneCalicoIPPools
  <2>2. ~pass.copy.deleting
    BY <2>1, CallOf, CallsSorted DEF Write
  <2> QED
    BY Zenon, <2>1, <2>2, LiveWrite
<1>3. CASE upsertCoilEgress
  <2>1. Write("egress", Upsert({CoilEgress(pass.at, pass.copy, pass.env)}))
    BY Zenon, <1>3 DEF upsertCoilEgress
  <2>2. Kind = "Outbound" /\ ~pass.copy.deleting /\ pass.at \in Objects
    BY <2>1, CallOf, CallsSorted DEF Write
  <2> QED
    BY Zenon, <2>1, <2>2, OutboundWrites, LiveWrite DEF Upsert
<1>4. CASE upsertEgressNetworkPolicy
  <2>1. Write("policy", Upsert({EgressNetworkPolicy(pass.at, pass.copy, pass.env)}))
    BY Zenon, <1>4 DEF upsertEgressNetworkPolicy
  <2>2. Kind = "Outbound" /\ ~pass.copy.deleting /\ pass.at \in Objects
    BY <2>1, CallOf, CallsSorted DEF Write
  <2> QED
    BY Zenon, <2>1, <2>2, OutboundWrites, LiveWrite DEF Upsert
<1> QED
  BY Zenon, <1>1, <1>2, <1>3, <1>4

\* A pool that exists keeps its block size and is written with the rest.
LEMMA KeptBlock ==
  ASSUME NEW o, NEW kind, NEW key, NEW label, NEW a, NEW b, NEW c, NEW t,
         t = [Derived(o, kind, key, label) EXCEPT !.addrs = a, !.block = b]
  PROVE  Core([t EXCEPT !.block = c], o, kind, key, label)
  BY DEF Derived, Core

\* PodNetworkReconciler, for a PodNetwork that lives.
LEMMA PodNetworkStep ==
  ASSUME WellFormed, PlatformInv, upsertPodNetworkPools \/ prunePodNetworkPools
  PROVE  PlatformInv'
<1>1. CASE upsertPodNetworkPools
  <2> DEFINE kept(t) == LET old == {s \in target : Same(s, t)}
                        IN  IF old = {} THEN t ELSE [t EXCEPT !.block = (CHOOSE s \in old : TRUE).block]
             ts == {kept(t) : t \in PodNetworkPools(pass.at, pass.env)}
  <2>1. Write("pools", Upsert(ts))
    BY Zenon, <1>1 DEF upsertPodNetworkPools
  <2>2. Kind = "PodNetwork" /\ ~pass.copy.deleting /\ pass.at \in Objects /\ pass # Idle
    BY <2>1, CallOf, CallsSorted DEF Write
  <2>3. pass.env \subseteq Inputs
    BY Zenon, <2>2 DEF PlatformInv, PassOK
  <2>4. ASSUME NEW u \in ts PROVE Written(u)
    <3>1. PICK t \in PodNetworkPools(pass.at, pass.env) : u = kept(t)
      BY Zenon, <2>4
    <3>2. PICK n \in pass.env :
            t = [Derived(pass.at, "IPPool", podNetworkPoolName(pass.at, n),
                         managedLabels(pass.at, "podnetwork", n.fam))
                   EXCEPT !.addrs = {[ip |-> n.fam, len |-> n.len]}, !.block = poolBlockSize(n)]
      BY Zenon, <3>1 DEF PodNetworkPools
    <3>3. u = t \/ \E b : u = [t EXCEPT !.block = b]
      BY Zenon, <3>1
    <3>4. Core(u, pass.at, "IPPool", podNetworkPoolName(pass.at, n),
               managedLabels(pass.at, "podnetwork", n.fam))
      <4>1. CASE u = t
        BY Zenon, <3>2, <4>1, DerivedCore
      <4>2. CASE \E b : u = [t EXCEPT !.block = b]
        <5>1. PICK b : u = [t EXCEPT !.block = b]
          BY Zenon, <4>2
        <5>2. Core([t EXCEPT !.block = b], pass.at, "IPPool", podNetworkPoolName(pass.at, n),
                   managedLabels(pass.at, "podnetwork", n.fam))
          BY Zenon, <3>2, KeptBlock
        <5> QED
          BY Zenon, <5>1, <5>2
      <4> QED
        BY <3>3, <4>1, <4>2
    <3>5. n.fam \in {"v4", "v6"}
      BY Zenon, <2>2, <2>3 DEF WellFormed
    <3>6. u.label = Labelling(pass.at, n.fam)
      BY <2>2, <3>4 DEF Core, Labelling
    <3>7. Traceable(u) /\ u.owner = pass.at
      BY <2>2, <3>4, <3>5, <3>6 DEF Core, Traceable, KindsOf
    <3>8. Named(u, pass.copy, matchingNodes(pass.copy, envCache))
      BY <3>4 DEF Core, Named
    <3> QED
      BY Zenon, <2>2, <3>7, <3>8 DEF Written
  <2> HIDE DEF ts
  <2>5. \A t \in Upsert(ts) : t \in target \/ Written(t)
    BY Zenon, <2>4 DEF Upsert
  <2> QED
    BY Zenon, <2>1, <2>2, <2>5, LiveWrite
<1>2. CASE prunePodNetworkPools
  <2>1. PICK gone : Write("prune", target \ gone)
    BY Zenon, <1>2 DEF prunePodNetworkPools
  <2>2. ~pass.copy.deleting
    BY <2>1, CallOf, CallsSorted DEF Write
  <2>3. \A t \in target \ gone : t \in target \/ Written(t)
    BY Zenon
  <2> QED
    BY Zenon, <2>1, <2>2, <2>3, LiveWrite
<1> QED
  BY <1>1, <1>2

\* MetalLBReconciler, for an Inbound that lives.
LEMMA InboundStep ==
  ASSUME WellFormed, PlatformInv, reconcilePool \/ reconcileAdvertisement
  PROVE  PlatformInv'
<1>1. ASSUME NEW t, NEW kind, NEW label, kind \in {"IPAddressPool", "L2Advertisement"},
             Core(t, pass.at, kind, <<resolvePoolName(pass.at, pass.copy)>>, label),
             Kind = "Inbound", ~pass.copy.deleting, pass.at \in Objects
      PROVE  Written(t)
  <2>1. Named(t, pass.copy, matchingNodes(pass.copy, envCache))
    BY <1>1 DEF Core, Named
  <2>2. Traceable(t)
    BY <1>1 DEF Core, Traceable, KindsOf
  <2> QED
    BY Zenon, <1>1, <2>1, <2>2 DEF Written, Core
<1>2. CASE reconcilePool
  <2>1. Write("pool", Upsert({newIPAddressPool(pass.at, pass.copy)}))
    BY Zenon, <1>2 DEF reconcilePool
  <2>2. Kind = "Inbound" /\ ~pass.copy.deleting /\ pass.at \in Objects
    BY <2>1, CallOf, CallsSorted DEF Write
  <2>3. PICK label : Core(newIPAddressPool(pass.at, pass.copy), pass.at, "IPAddressPool",
                          <<resolvePoolName(pass.at, pass.copy)>>, label)
    BY Zenon, DerivedCore DEF newIPAddressPool
  <2>4. Written(newIPAddressPool(pass.at, pass.copy))
    BY <1>1, <2>2, <2>3
  <2>5. \A t \in Upsert({newIPAddressPool(pass.at, pass.copy)}) : t \in target \/ Written(t)
    BY Zenon, <2>4 DEF Upsert
  <2> QED
    BY Zenon, <2>1, <2>2, <2>5, LiveWrite
<1>3. CASE reconcileAdvertisement
  <2>1. PICK ts : /\ Write("advertisement", ts)
                  /\ ts = target \/ ts = Upsert({newL2Advertisement(pass.at, pass.copy)})
    BY Zenon, <1>3 DEF reconcileAdvertisement
  <2>2. Kind = "Inbound" /\ ~pass.copy.deleting /\ pass.at \in Objects
    BY <2>1, CallOf, CallsSorted DEF Write
  <2>3. PICK label : Core(newL2Advertisement(pass.at, pass.copy), pass.at, "L2Advertisement",
                          <<resolvePoolName(pass.at, pass.copy)>>, label)
    BY Zenon, DerivedCore DEF newL2Advertisement
  <2>4. Written(newL2Advertisement(pass.at, pass.copy))
    BY <1>1, <2>2, <2>3
  <2>5. \A t \in ts : t \in target \/ Written(t)
    BY Zenon, <2>1, <2>4 DEF Upsert
  <2> QED
    BY Zenon, <2>1, <2>2, <2>5, LiveWrite
<1> QED
  BY <1>2, <1>3

-----------------------------------------------------------------------------
\* A status write on the object of the pass.
LEMMA StatusWrite ==
  ASSUME PlatformInv, NEW v, pass # Idle, ~pass.copy.deleting, UNCHANGED <<cache, queue>>,
         obj' = [obj EXCEPT ![pass.at].status.pools = v]
  PROVE  SameObjects
<1>1. pass.at \in Objects /\ DOMAIN obj = Objects /\ \A o \in Objects : Shape(obj[o])
  BY Zenon DEF PlatformInv, PassOK, ShapesOK
<1>2. DOMAIN obj' = Objects /\ \A o \in Objects : o # pass.at => obj'[o] = obj[o]
  BY <1>1
<1>3. obj'[pass.at] = [obj[pass.at] EXCEPT !.status.pools = v]
  BY <1>1
<1>4. /\ Shape(obj'[pass.at]) /\ obj'[pass.at].fin = obj[pass.at].fin
      /\ obj'[pass.at].deleting = obj[pass.at].deleting /\ obj'[pass.at].spec = obj[pass.at].spec
  BY <1>1, <1>3 DEF Shape
<1>5. ASSUME NEW o \in Objects, obj[o].deleting
      PROVE  \/ cache[o] # obj'[o] \/ o \in queue
             \/ pass # Idle /\ pass.at = o /\ pass.copy.deleting
  <2>1. CASE o = pass.at
    BY Zenon, <1>4, <1>5, <2>1 DEF PlatformInv, WorkOK
  <2>2. CASE o # pass.at
    BY Zenon, <1>2, <1>5, <2>2 DEF PlatformInv, PendingOK
  <2> QED
    BY <2>1, <2>2
<1> QED
  BY Zenon, <1>1, <1>2, <1>4, <1>5 DEF SameObjects

\* A pass that fails goes back to the queue.
LEMMA Requeue ==
  ASSUME PlatformInv, pass # Idle, pass' = Idle, queue' = queue \cup {pass.at},
         UNCHANGED <<obj, cache, env, envCache, target, moved>>
  PROVE  PlatformInv'
<1>1. PassOK' /\ WorkOK' /\ CleanupOK'
  BY Zenon DEF PassOK, WorkOK, CleanupOK
<1>2. ShapesOK' /\ CacheOK' /\ EnvOK'
  BY Zenon DEF PlatformInv, ShapesOK, CacheOK, EnvOK
<1>3. TargetsOK'
  BY Zenon DEF PlatformInv, TargetsOK, Held
<1>4. PendingOK'
  BY Zenon DEF PlatformInv, PendingOK
<1> QED
  BY <1>1, <1>2, <1>3, <1>4 DEF PlatformInv

\* The status at the end of a pass, the end of the loop over the nodes.
LEMMA LastStep ==
  ASSUME WellFormed, PlatformInv, updateIPPoolStatus \/ updatePoolName \/ NodesDone
  PROVE  PlatformInv'
<1>1. ASSUME NEW step \in {"status", "configs"}, Running(step)
      PROVE  pass # Idle /\ ~pass.copy.deleting /\ step # "release"
  BY <1>1, CallOf, CallsSorted
<1>2. ASSUME ~pass.copy.deleting, UNCHANGED target, NEW step
      PROVE  \A t \in target' : Left(t, step) \/ Written(t)
  BY Zenon, <1>2 DEF Left
<1>3. obj' = obj /\ UNCHANGED <<cache, queue>> => SameObjects
  BY Zenon DEF PlatformInv, ShapesOK, PendingOK, SameObjects
<1>4. CASE updateIPPoolStatus
  <2>1. /\ Running("status") /\ Done /\ UNCHANGED <<cache, env, envCache, queue, moved, target>>
        /\ obj' = obj \/ \E v : obj' = [obj EXCEPT ![pass.at].status.pools = v]
    BY Zenon, <1>4 DEF updateIPPoolStatus, api
  <2>2. SameObjects
    BY Zenon, <1>1, <1>3, <2>1, StatusWrite
  <2> QED
    BY Zenon, <1>1, <1>2, <2>1, <2>2, CallStep
<1>5. CASE updatePoolName
  <2>1. Running("status") /\ UNCHANGED <<cache, env, envCache, moved, target>>
    BY Zenon, <1>5 DEF updatePoolName, api
  <2>2. CASE pass.copy = obj[pass.at]
    <3>1. Done /\ UNCHANGED queue /\ \E v : obj' = [obj EXCEPT ![pass.at].status.pools = v]
      BY Zenon, <1>5, <2>2 DEF updatePoolName
    <3>2. SameObjects
      BY Zenon, <1>1, <2>1, <3>1, StatusWrite
    <3> QED
      BY Zenon, <1>1, <1>2, <2>1, <3>1, <3>2, CallStep
  <2>3. CASE pass.copy # obj[pass.at]
    BY Zenon, <1>1, <1>5, <2>1, <2>3, Requeue DEF updatePoolName
  <2> QED
    BY <2>2, <2>3
<1>6. CASE NodesDone
  <2>1. Running("configs") /\ Done /\ UNCHANGED <<obj, cache, env, envCache, queue, moved, target>>
    BY Zenon, <1>6 DEF NodesDone, api
  <2> QED
    BY Zenon, <1>1, <1>2, <1>3, <2>1, CallStep
<1> QED
  BY <1>4, <1>5, <1>6

\* InterfaceConfigReconciler at one node: a failed write leaves what is there.
LEMMA NodeStep ==
  ASSUME WellFormed, PlatformInv, NEW n \in Inputs, reconcileNodeConfig(n)
  PROVE  PlatformInv'
<1> DEFINE u == NodeNetplanConfig(pass.at, pass.copy, n)
<1>1. /\ Running("configs") /\ n \in pass.todo
      /\ target' = target \/ target' = Upsert({u})
      /\ \E b : pass' = [pass EXCEPT !.todo = pass.todo \ {n}, !.missed = b]
      /\ UNCHANGED <<obj, cache, env, envCache, queue, moved>>
  BY Zenon DEF reconcileNodeConfig, api
<1>2. Kind = "InterfaceConfig" /\ ~pass.copy.deleting /\ pass.at \in Objects /\ pass # Idle
  BY <1>1, CallOf, CallsSorted
<1>3. DOMAIN pass = {"at", "steps", "copy", "env", "todo", "missed"}
  BY Zenon, <1>2 DEF PlatformInv, PassOK
<1>4. /\ pass'.at = pass.at /\ pass'.copy = pass.copy /\ pass'.steps = pass.steps
      /\ pass'.env = pass.env /\ pass'.todo = pass.todo \ {n}
      /\ DOMAIN pass' = {"at", "steps", "copy", "env", "todo", "missed"}
  BY <1>1, <1>3
<1>5. PICK label : Core(u, pass.at, "NodeNetplanConfig", <<n.name>>, label)
  BY Zenon, DerivedCore DEF NodeNetplanConfig
<1> HIDE DEF u
<1>6. ShapesOK' /\ CacheOK' /\ EnvOK'
  BY Zenon, <1>1 DEF PlatformInv, ShapesOK, CacheOK, EnvOK
<1>7. PassOK'
  BY Zenon, <1>2, <1>4 DEF PlatformInv, PassOK
<1>8. WorkOK'
  <2>1. /\ obj[pass.at].fin
        /\ cache[pass.at].deleting => pass.at \in queue
        /\ ~moved => Alike(pass.copy, obj[pass.at])
        /\ ~moved => pass.todo \subseteq matchingNodes(pass.copy, envCache)
    BY Zenon, <1>2 DEF PlatformInv, WorkOK
  <2>2. ~moved => pass'.todo \subseteq matchingNodes(pass.copy, envCache)
    BY Zenon, <1>4, <2>1
  <2> QED
    BY Zenon, <1>1, <1>2, <1>4, <2>1, <2>2 DEF WorkOK
<1>9. TargetsOK'
  <2>1. SUFFICES ASSUME NEW t \in target' PROVE Held(t)
    BY Zenon, <1>1 DEF TargetsOK, Held
  <2>2. CASE t \in target
    BY Zenon, <2>2 DEF PlatformInv, TargetsOK
  <2>3. CASE t = u
    <3>1. t.owner = pass.at /\ Traceable(t)
      BY <1>2, <1>5, <2>3 DEF Core, Traceable, KindsOf
    <3>2. ~moved => /\ obj[pass.at].fin /\ Alike(pass.copy, obj[pass.at])
                    /\ n \in matchingNodes(pass.copy, envCache)
      BY Zenon, <1>1, <1>2 DEF PlatformInv, WorkOK
    <3>3. ~moved => Named(t, pass.copy, matchingNodes(pass.copy, envCache))
      BY <1>5, <2>3, <3>2 DEF Core, Named
    <3>4. ~moved => Named(t, obj[pass.at], matchingNodes(obj[pass.at], envCache))
      BY Zenon, <3>1, <3>2, <3>3, AlikeNames
    <3> QED
      BY Zenon, <3>1, <3>2, <3>4 DEF Held
  <2> QED
    BY Zenon, <1>1, <2>2, <2>3 DEF Upsert
<1>10. CleanupOK'
  BY Zenon, <1>2, <1>4 DEF CleanupOK
<1>11. PendingOK'
  BY Zenon, <1>1, <1>2, <1>4 DEF PlatformInv, PendingOK
<1> QED
  BY <1>6, <1>7, <1>8, <1>9, <1>10, <1>11 DEF PlatformInv

\* Every kind has a call of its own that deletes it.
LEMMA DeleterOf ==
  ASSUME NEW k \in KindsOf, WellFormed
  PROVE  /\ Deleter[k] = "deletePools" => k = "IPPool"
         /\ Deleter[k] = "deleteEgress" => k = "Egress"
         /\ Deleter[k] = "deletePolicy" => k = "NetworkPolicy"
         /\ Deleter[k] = "deletePool" => k = "IPAddressPool"
         /\ Deleter[k] = "deleteAdvertisement" => k = "L2Advertisement"
         /\ Deleter[k] = "deleteConfigs" => k = "NodeNetplanConfig"
         /\ Deleter[k] # "release"
<1>1. k \in {"IPPool", "Egress", "NetworkPolicy", "IPAddressPool", "L2Advertisement",
             "NodeNetplanConfig"}
  BY DEF KindsOf
<1> QED
  BY <1>1 DEF Deleter

\* The cleanups delete what their object owns, found by name or by label.
LEMMA DeletionStep ==
  ASSUME WellFormed, PlatformInv,
         \/ deleteEgress \/ deletePolicy \/ deletePools
         \/ deletePool \/ deleteAdvertisement \/ deleteConfigs
  PROVE  PlatformInv'
<1>1. ASSUME NEW step, step # "release", NEW kind, NEW keys, DeleteTargets(step, {kind}, keys),
             \A k \in KindsOf : Deleter[k] = step => k = kind,
             \A t \in target : ~moved /\ t.owner = pass.at /\ Held(t) /\ Waits(t) /\ t.kind = kind
                               /\ Alike(pass.copy, obj[pass.at]) => t.key \in keys
      PROVE  PlatformInv'
  <2> DEFINE ts == {t \in target : ~(t.kind \in {kind} /\ t.key \in keys)}
  <2>1. ts \subseteq target
    OBVIOUS
  <2>2. ASSUME NEW t \in ts, ~moved, t.owner = pass.at, Held(t), Waits(t),
               Alike(pass.copy, obj[pass.at])
        PROVE  Deleter[t.kind] # step
    <3>1. t.kind \in KindsOf
      BY Zenon, <2>2 DEF Held, Traceable
    <3>2. t \in target /\ ~(t.kind = kind /\ t.key \in keys)
      BY Zenon, <2>2
    <3>3. t.kind = kind => t.key \in keys
      BY Zenon, <1>1, <2>2, <3>2
    <3> QED
      BY Zenon, <1>1, <3>1, <3>2, <3>3
  <2> HIDE DEF ts
  <2>3. Write(step, ts)
    BY Zenon, <1>1 DEF ts, DeleteTargets
  <2> QED
    BY Zenon, <1>1, <2>1, <2>2, <2>3, DeleteWrite
<1>2. CASE deleteEgress
  <2> DEFINE keys == {<<pass.at.ns, pass.at.name>>}
  <2>1. ASSUME NEW t \in target, t.owner = pass.at, Held(t), t.kind = "Egress"
        PROVE  t.key \in keys
    BY Zenon, <2>1 DEF Held, Traceable
  <2>2. \A k \in KindsOf : Deleter[k] = "deleteEgress" => k = "Egress"
    BY Zenon, DeleterOf
  <2>3. "deleteEgress" # "release" /\ DeleteTargets("deleteEgress", {"Egress"}, keys)
    BY <1>2 DEF deleteEgress
  <2>4. \A t \in target : ~moved /\ t.owner = pass.at /\ Held(t) /\ Waits(t) /\ t.kind = "Egress"
                          /\ Alike(pass.copy, obj[pass.at]) => t.key \in keys
    BY Zenon, <2>1
  <2> HIDE DEF keys
  <2> QED
    BY Zenon, <1>1, <2>2, <2>3, <2>4
<1>3. CASE deletePolicy
  <2> DEFINE keys == {<<pass.at.ns, pass.at.name>>}
  <2>1. ASSUME NEW t \in target, t.owner = pass.at, Held(t), t.kind = "NetworkPolicy"
        PROVE  t.key \in keys
    BY Zenon, <2>1 DEF Held, Traceable
  <2>2. \A k \in KindsOf : Deleter[k] = "deletePolicy" => k = "NetworkPolicy"
    BY Zenon, DeleterOf
  <2>3. "deletePolicy" # "release" /\ DeleteTargets("deletePolicy", {"NetworkPolicy"}, keys)
    BY <1>3 DEF deletePolicy
  <2>4. \A t \in target : ~moved /\ t.owner = pass.at /\ Held(t) /\ Waits(t) /\ t.kind = "NetworkPolicy"
                          /\ Alike(pass.copy, obj[pass.at]) => t.key \in keys
    BY Zenon, <2>1
  <2> HIDE DEF keys
  <2> QED
    BY Zenon, <1>1, <2>2, <2>3, <2>4
<1>4. ASSUME NEW t \in target, ~moved, t.owner = pass.at, Held(t), Alike(pass.copy, obj[pass.at]),
             t.kind \in {"IPAddressPool", "L2Advertisement"}
      PROVE  t.key \in {<<resolvePoolName(pass.at, pass.copy)>>}
  <2>1. t.key = <<resolvePoolName(pass.at, obj[pass.at])>>
    BY Zenon, <1>4 DEF Held, Named
  <2>2. obj[pass.at].spec.pool = pass.copy.spec.pool
    BY Zenon, <1>4 DEF Alike, Leaves
  <2> QED
    BY Zenon, <2>1, <2>2 DEF resolvePoolName
<1>5. CASE deletePool
  <2>1. \A k \in KindsOf : Deleter[k] = "deletePool" => k = "IPAddressPool"
    BY Zenon, DeleterOf
  <2>3. "deletePool" # "release" /\ DeleteTargets("deletePool", {"IPAddressPool"}, {<<resolvePoolName(pass.at, pass.copy)>>})
    BY <1>5 DEF deletePool
  <2>4. \A t \in target : ~moved /\ t.owner = pass.at /\ Held(t) /\ Waits(t) /\ t.kind = "IPAddressPool"
                          /\ Alike(pass.copy, obj[pass.at]) => t.key \in {<<resolvePoolName(pass.at, pass.copy)>>}
    BY Zenon, <1>4
  <2> QED
    BY Zenon, <1>1, <2>1, <2>3, <2>4
<1>6. CASE deleteAdvertisement
  <2>1. \A k \in KindsOf : Deleter[k] = "deleteAdvertisement" => k = "L2Advertisement"
    BY Zenon, DeleterOf
  <2>3. "deleteAdvertisement" # "release" /\ DeleteTargets("deleteAdvertisement", {"L2Advertisement"}, {<<resolvePoolName(pass.at, pass.copy)>>})
    BY <1>6 DEF deleteAdvertisement
  <2>4. \A t \in target : ~moved /\ t.owner = pass.at /\ Held(t) /\ Waits(t) /\ t.kind = "L2Advertisement"
                          /\ Alike(pass.copy, obj[pass.at]) => t.key \in {<<resolvePoolName(pass.at, pass.copy)>>}
    BY Zenon, <1>4
  <2> QED
    BY Zenon, <1>1, <2>1, <2>3, <2>4
<1>7. CASE deleteConfigs
  <2>1. ASSUME NEW t \in target, Waits(t), t.kind = "NodeNetplanConfig"
        PROVE  t.key \in {<<n.name>> : n \in pass.todo}
    BY Zenon, <2>1 DEF Waits
  <2>2. \A k \in KindsOf : Deleter[k] = "deleteConfigs" => k = "NodeNetplanConfig"
    BY Zenon, DeleterOf
  <2>3. "deleteConfigs" # "release" /\ DeleteTargets("deleteConfigs", {"NodeNetplanConfig"}, {<<n.name>> : n \in pass.todo})
    BY <1>7 DEF deleteConfigs
  <2>4. \A t \in target : ~moved /\ t.owner = pass.at /\ Held(t) /\ Waits(t) /\ t.kind = "NodeNetplanConfig"
                          /\ Alike(pass.copy, obj[pass.at]) => t.key \in {<<n.name>> : n \in pass.todo}
    BY Zenon, <2>1
  <2> QED
    BY Zenon, <1>1, <2>2, <2>3, <2>4
<1>8. CASE deletePools
  <2> DEFINE ts == target \ OwnedPools(pass.at, {"v4", "v6"})
  <2>1. Write("deletePools", ts) /\ ts \subseteq target
    BY Zenon, <1>8 DEF deletePools
  <2>2. ASSUME NEW t \in ts, t.owner = pass.at, Held(t)
        PROVE  Deleter[t.kind] # "deletePools"
    <3>1. t.kind \in KindsOf /\ (t.kind = "IPPool" => \E f \in {"v4", "v6"} : t.label = Labelling(pass.at, f))
      BY Zenon, <2>2 DEF Held, Traceable
    <3>2. t.kind # "IPPool"
      BY Zenon, <2>2, <3>1 DEF OwnedPools, Labelling
    <3> QED
      BY Zenon, <3>1, <3>2, DeleterOf
  <2> HIDE DEF ts
  <2>3. "deletePools" # "release"
    OBVIOUS
  <2> QED
    BY Zenon, <2>1, <2>2, <2>3, DeleteWrite
<1> QED
  BY <1>2, <1>3, <1>5, <1>6, <1>7, <1>8

\* The finalizer goes when nothing is left to delete.
LEMMA ReleaseStep ==
  ASSUME WellFormed, PlatformInv, release
  PROVE  PlatformInv'
<1>1. Running("release") /\ UNCHANGED <<cache, env, envCache, moved, target>>
  BY Zenon DEF release, api
<1>2. /\ pass # Idle /\ pass.at \in Objects /\ pass.copy.deleting
      /\ StepsOK(pass.steps, pass.copy.deleting) /\ pass.copy.fin
      /\ Head(pass.steps) = "release" /\ pass.steps # <<>>
  <2>1. pass # Idle /\ pass.at \in Objects /\ pass.copy.deleting
    BY <1>1, CallOf, CallsSorted
  <2> QED
    BY Zenon, <1>1, <2>1, RunningPass DEF PlatformInv, PassOK
<1>3. CASE pass.copy # obj[pass.at]
  BY Zenon, <1>1, <1>2, <1>3, Requeue DEF release
<1>4. CASE pass.copy = obj[pass.at]
  <2>1. obj' = [obj EXCEPT ![pass.at] = Absent] /\ Done /\ UNCHANGED queue
    BY Zenon, <1>4 DEF release
  <2>2. /\ DOMAIN obj' = Objects /\ obj'[pass.at] = Absent
        /\ \A o \in Objects : o # pass.at => obj'[o] = obj[o]
    BY <1>2, <2>1 DEF PlatformInv, ShapesOK
  <2>3. Len(pass.steps) = 1 /\ \A i \in 1 .. Len(pass.steps) : pass.steps[i] = "release"
    <3>1. PICK S : pass.steps \in Seq(S)
      BY Zenon, <1>2 DEF StepsOK
    <3>2. 1 \in 1 .. Len(pass.steps) /\ pass.steps[1] = Head(pass.steps)
      BY <1>2, <3>1
    <3>3. 1 = Len(pass.steps)
      BY Zenon, <1>2, <3>2 DEF StepsOK
    <3>4. \A i \in 1 .. 1 : i = 1
      OBVIOUS
    <3> QED
      BY Zenon, <1>2, <3>2, <3>3, <3>4
  <2>4. pass' = Idle
    <3>1. ~(Len(pass.steps) > 1)
      BY <2>3
    <3> QED
      BY Zenon, <2>1, <3>1 DEF Done
  <2>5. cache[pass.at].deleting
    BY Zenon, <1>2, <1>4 DEF PlatformInv, WorkOK
  <2>6. PassOK' /\ WorkOK' /\ CleanupOK'
    BY Zenon, <2>4 DEF PassOK, WorkOK, CleanupOK
  <2>7. ShapesOK' /\ EnvOK'
    BY Zenon, <1>1, <2>2, AbsentShape DEF PlatformInv, ShapesOK, EnvOK
  <2>8. CacheOK'
    <3>1. SUFFICES ASSUME NEW o \in Objects
                   PROVE  /\ cache[o].fin /\ ~cache[o].deleting => obj'[o].fin
                          /\ cache[o].deleting /\ obj'[o].fin => obj'[o].deleting
                          /\ ~moved /\ obj'[o].fin /\ cache[o].fin => Alike(cache[o], obj'[o])
      BY Zenon, <1>1 DEF CacheOK
    <3>2. CASE o = pass.at
      BY Zenon, <2>2, <2>5, <3>2, AbsentShape
    <3>3. CASE o # pass.at
      BY Zenon, <2>2, <3>3 DEF PlatformInv, CacheOK
    <3> QED
      BY <3>2, <3>3
  <2>9. TargetsOK'
    <3>1. SUFFICES ASSUME NEW t \in target PROVE Held(t)'
      BY Zenon, <1>1 DEF TargetsOK
    <3>2. Held(t)
      BY Zenon DEF PlatformInv, TargetsOK
    <3>3. CASE moved
      BY Zenon, <1>1, <3>2, <3>3 DEF Held
    <3>4. CASE ~moved
      <4>1. t.owner # pass.at
        <5>1. SUFFICES ASSUME t.owner = pass.at PROVE FALSE
          OBVIOUS
        <5>2. Waits(t)
          BY Zenon, <1>2, <1>4, <3>4, <5>1 DEF PlatformInv, CleanupOK
        <5>3. Deleter[t.kind] = "release"
          BY Zenon, <2>3, <5>2 DEF Waits
        <5> QED
          BY Zenon, <3>2, <5>3, DeleterOf DEF Held, Traceable
      <4>2. obj'[t.owner] = obj[t.owner]
        BY Zenon, <2>2, <3>2, <4>1 DEF Held, Traceable
      <4> QED
        BY Zenon, <1>1, <3>2, <4>2 DEF Held
    <3> QED
      BY <3>3, <3>4
  <2>10. PendingOK'
    BY Zenon, <1>1, <2>1, <2>2, AbsentShape DEF PlatformInv, PendingOK
  <2> QED
    BY <2>6, <2>7, <2>8, <2>9, <2>10 DEF PlatformInv
<1> QED
  BY <1>3, <1>4

\* Adding the finalizer changes nothing else.
LEMMA WithFinalizer ==
  ASSUME NEW x, DOMAIN x = {"there", "deleting", "fin", "spec", "status"}, NEW y,
         y = [x EXCEPT !.fin = TRUE]
  PROVE  /\ DOMAIN y = DOMAIN x /\ y.fin = TRUE /\ y.there = x.there
         /\ y.deleting = x.deleting /\ y.spec = x.spec
  OBVIOUS

\* The worker takes a request.
LEMMA StartStep ==
  ASSUME WellFormed, PlatformInv, NEW o \in Objects, StartPass(o)
  PROVE  PlatformInv'
<1> DEFINE c == cache[o]
           adds == ~NothingToDo(c) /\ ~c.deleting /\ ~c.fin
           held == IF adds THEN [c EXCEPT !.fin = TRUE] ELSE c
<1>1. /\ pass = Idle /\ queue' = queue \ {o}
      /\ adds => c = obj[o]
      /\ obj' = IF adds THEN [obj EXCEPT ![o] = held] ELSE obj
      /\ pass' = IF NothingToDo(c) \/ Deferred(c) THEN Idle
                 ELSE [at |-> o, steps |-> Steps(c.deleting), copy |-> held, env |-> envCache,
                       todo |-> matchingNodes(c, envCache), missed |-> FALSE]
      /\ UNCHANGED <<cache, env, envCache, target, moved>>
  BY Zenon DEF StartPass, api
<1>2. /\ Shape(c) /\ Shape(obj[o]) /\ DOMAIN obj = Objects
      /\ envCache \subseteq Inputs
  BY Zenon DEF PlatformInv, ShapesOK
<1>3. adds => /\ Shape(held) /\ held.fin /\ ~held.deleting /\ held.spec = c.spec
              /\ ~obj[o].fin /\ ~obj[o].deleting
  <2>1. ASSUME adds PROVE held = [c EXCEPT !.fin = TRUE] /\ c.there /\ ~c.deleting /\ ~c.fin /\ c = obj[o]
    BY Zenon, <1>1, <2>1 DEF NothingToDo
  <2>2. ASSUME NEW x, Shape(x), x.there, ~x.deleting, NEW y, y = [x EXCEPT !.fin = TRUE]
        PROVE  Shape(y) /\ y.fin /\ ~y.deleting /\ y.spec = x.spec
    <3>1. DOMAIN x = {"there", "deleting", "fin", "spec", "status"}
      BY Zenon, <2>2 DEF Shape
    <3>2. /\ DOMAIN y = DOMAIN x /\ y.fin = TRUE /\ y.there = x.there
          /\ y.deleting = x.deleting /\ y.spec = x.spec
      BY Zenon, <2>2, <3>1, WithFinalizer
    <3> QED
      BY Zenon, <2>2, <3>1, <3>2 DEF Shape
  <2> QED
    BY Zenon, <1>2, <2>1, <2>2
<1>4. /\ DOMAIN obj' = Objects /\ (adds => obj'[o] = held) /\ (~adds => obj' = obj)
      /\ \A p \in Objects : p # o => obj'[p] = obj[p]
  BY <1>1, <1>2
<1>5. ~adds /\ ~NothingToDo(c) => held = c /\ c.fin
  BY Zenon, <1>2 DEF NothingToDo, Shape
<1>6. adds \in BOOLEAN /\ c.deleting \in BOOLEAN
  BY Zenon, <1>2 DEF Shape
<1> HIDE DEF c, adds, held
<1>7. cache[o] = c
  BY DEF c
<1>8. adds => ~NothingToDo(c) /\ ~c.deleting /\ ~c.fin
  BY Zenon DEF adds
<1>9. ShapesOK' /\ EnvOK'
  <2>1. \A p \in Objects : Shape(obj'[p])
    BY Zenon, <1>2, <1>3, <1>4, <1>6 DEF PlatformInv, ShapesOK
  <2> QED
    BY Zenon, <1>1, <1>4, <2>1 DEF PlatformInv, ShapesOK, EnvOK
<1>10. CacheOK'
  <2>1. SUFFICES ASSUME NEW p \in Objects
                 PROVE  /\ cache[p].fin /\ ~cache[p].deleting => obj'[p].fin
                        /\ cache[p].deleting /\ obj'[p].fin => obj'[p].deleting
                        /\ ~moved /\ obj'[p].fin /\ cache[p].fin => Alike(cache[p], obj'[p])
    BY Zenon, <1>1 DEF CacheOK
  <2>2. CASE p = o /\ adds
    BY Zenon, <1>7, <1>8, <2>2
  <2>3. CASE p # o \/ ~adds
    <3>1. obj'[p] = obj[p]
      BY Zenon, <1>4, <2>3
    <3> QED
      BY Zenon, <3>1 DEF PlatformInv, CacheOK
  <2> QED
    BY <2>2, <2>3
<1>11. TargetsOK'
  <2>1. SUFFICES ASSUME NEW t \in target PROVE Held(t)'
    BY Zenon, <1>1 DEF TargetsOK
  <2>2. Held(t)
    BY Zenon DEF PlatformInv, TargetsOK
  <2>3. CASE moved
    BY Zenon, <1>1, <2>2, <2>3 DEF Held
  <2>4. CASE ~moved
    <3>1. t.owner \in Objects /\ obj[t.owner].fin
      BY Zenon, <2>2, <2>4 DEF Held, Traceable
    <3>2. obj'[t.owner] = obj[t.owner]
      BY Zenon, <1>3, <1>4, <3>1
    <3> QED
      BY Zenon, <1>1, <2>2, <3>2 DEF Held
  <2> QED
    BY <2>3, <2>4
<1>12. CASE NothingToDo(c) \/ Deferred(c)
  <2>1. pass' = Idle
    BY Zenon, <1>1, <1>12
  <2>2. PassOK' /\ WorkOK' /\ CleanupOK'
    BY Zenon, <2>1 DEF PassOK, WorkOK, CleanupOK
  <2>3. PendingOK'
    <3>1. SUFFICES ASSUME NEW p \in Objects, obj'[p].deleting
                   PROVE  cache[p] # obj'[p] \/ p \in queue'
      BY Zenon, <1>1 DEF PendingOK
    <3>2. CASE p # o
      BY Zenon, <1>1, <1>4, <3>1, <3>2 DEF PlatformInv, PendingOK
    <3>3. CASE p = o
      <4>1. ~adds /\ obj'[o] = obj[o]
        BY Zenon, <1>3, <1>4, <3>1, <3>3
      <4>2. c.deleting => c.fin /\ c.there
        BY Zenon, <1>2 DEF Shape
      <4>3. ~c.deleting
        BY Zenon, <1>12, <4>2 DEF NothingToDo, Deferred
      <4> QED
        BY Zenon, <1>7, <3>1, <3>3, <4>1, <4>3
    <3> QED
      BY <3>2, <3>3
  <2> QED
    BY <1>9, <1>10, <1>11, <2>2, <2>3 DEF PlatformInv
<1>13. CASE ~(NothingToDo(c) \/ Deferred(c))
  <2>1. pass' = [at |-> o, steps |-> Steps(c.deleting), copy |-> held, env |-> envCache,
                 todo |-> matchingNodes(c, envCache), missed |-> FALSE]
    BY Zenon, <1>1, <1>13
  <2>2. /\ DOMAIN pass' = {"at", "steps", "copy", "env", "todo", "missed"}
        /\ pass'.at = o /\ pass'.steps = Steps(c.deleting) /\ pass'.copy = held
        /\ pass'.env = envCache /\ pass'.todo = matchingNodes(c, envCache)
    BY <2>1
  <2>3. /\ Shape(held) /\ held.fin /\ held.spec = c.spec
        /\ held.deleting = c.deleting /\ (c.deleting => ~adds /\ held = c)
    <3>1. CASE adds
      <4>1. held.deleting \in BOOLEAN
        BY Zenon, <1>3, <3>1 DEF Shape
      <4> QED
        BY <1>3, <1>6, <1>8, <3>1, <4>1
    <3>2. CASE ~adds
      BY Zenon, <1>2, <1>5, <1>13, <3>2
    <3> QED
      BY <3>1, <3>2
  <2>4. StepsOK(Steps(c.deleting), c.deleting)
    BY Zenon, <1>6, StepsStart
  <2>5. PassOK'
    BY Zenon, <1>2, <2>2, <2>3, <2>4 DEF PassOK
  <2>6. pass' # Idle
    <3>1. Idle.steps = <<>> /\ Len(Idle.steps) = 0
      BY DEF Idle
    <3>2. Len(pass'.steps) > 0
      BY Zenon, <2>2, <2>4 DEF StepsOK
    <3> QED
      BY <3>1, <3>2
  <2>7. WorkOK'
    <3>1. ~held.deleting => obj'[o].fin
      BY Zenon, <1>3, <1>4, <1>5, <1>7, <1>13, <2>3 DEF PlatformInv, CacheOK
    <3>2. held.deleting /\ obj'[o].fin => obj'[o].deleting /\ c.deleting
      BY Zenon, <1>4, <1>7, <2>3 DEF PlatformInv, CacheOK
    <3>3. ~moved /\ obj'[o].fin => Alike(held, obj'[o])
      <4>1. CASE adds
        BY Zenon, <1>4, <4>1, AlikeTwice
      <4>2. CASE ~adds
        BY Zenon, <1>4, <1>5, <1>7, <1>13, <4>2 DEF PlatformInv, CacheOK
      <4> QED
        BY <4>1, <4>2
    <3>4. matchingNodes(c, envCache) = matchingNodes(held, envCache)
      BY Zenon, <2>3 DEF matchingNodes
    <3> QED
      BY Zenon, <1>1, <1>7, <2>2, <2>3, <3>1, <3>2, <3>3, <3>4 DEF WorkOK
  <2>8. CleanupOK'
    <3>1. SUFFICES ASSUME ~moved, c.deleting, obj'[o].fin, NEW t \in target, t.owner = o
                   PROVE  Waits(t)'
      BY Zenon, <1>1, <2>2, <2>3 DEF CleanupOK
    <3>2. Held(t) /\ Traceable(t) /\ t.kind \in KindsOf
      BY Zenon, <3>1 DEF PlatformInv, TargetsOK, Held, Traceable
    <3>3. ~adds /\ obj'[o] = obj[o] /\ c.fin
      BY Zenon, <1>4, <1>5, <1>13, <2>3, <3>1
    <3>4. Alike(obj[o], c)
      BY Zenon, <1>7, <3>1, <3>3, AlikeTwice DEF PlatformInv, CacheOK
    <3>5. Named(t, c, matchingNodes(c, envCache))
      <4>1. Named(t, obj[o], matchingNodes(obj[o], envCache))
        BY Zenon, <3>1, <3>2 DEF Held
      <4> QED
        BY Zenon, <3>2, <3>4, <4>1, AlikeNames
    <3>6. t.kind = "NodeNetplanConfig" => \E n \in pass'.todo : t.key = <<n.name>>
      BY Zenon, <2>2, <3>5 DEF Named
    <3>7. \E i \in 1 .. Len(pass'.steps) : pass'.steps[i] = Deleter[t.kind]
      <4>1. \A k \in KindsOf : \E i \in 1 .. Len(Steps(c.deleting)) :
                                  Steps(c.deleting)[i] = Deleter[k]
        BY Zenon, <1>6, <3>1, StepsStart
      <4> QED
        BY Zenon, <2>2, <3>2, <4>1
    <3> QED
      BY Zenon, <3>6, <3>7 DEF Waits
  <2>9. PendingOK'
    <3>1. SUFFICES ASSUME NEW p \in Objects, obj'[p].deleting
                   PROVE  cache[p] # obj'[p] \/ p \in queue' \/ (p = o /\ held.deleting)
      BY Zenon, <1>1, <2>2, <2>6 DEF PendingOK
    <3>2. CASE p # o
      BY Zenon, <1>1, <1>4, <3>1, <3>2 DEF PlatformInv, PendingOK
    <3>3. CASE p = o
      <4>1. obj'[o] = obj[o]
        BY Zenon, <1>3, <1>4, <3>1, <3>3
      <4> QED
        BY Zenon, <1>7, <2>3, <3>1, <3>3, <4>1
    <3> QED
      BY <3>2, <3>3
  <2> QED
    BY <1>9, <1>10, <1>11, <2>5, <2>7, <2>8, <2>9 DEF PlatformInv
<1> QED
  BY <1>12, <1>13

-----------------------------------------------------------------------------
\* What the users and the intent operator do to an object.
LEMMA EditedFields ==
  ASSUME NEW x, DOMAIN x = {"there", "deleting", "fin", "spec", "status"}, NEW v
  PROVE  /\ LET y == [x EXCEPT !.there = TRUE, !.spec = v]
            IN  /\ DOMAIN y = DOMAIN x /\ y.there = TRUE /\ y.spec = v
                /\ y.deleting = x.deleting /\ y.fin = x.fin
         /\ LET y == [x EXCEPT !.status.addrs = v]
            IN  /\ DOMAIN y = DOMAIN x /\ y.there = x.there /\ y.spec = x.spec
                /\ y.deleting = x.deleting /\ y.fin = x.fin
         /\ LET y == [x EXCEPT !.deleting = TRUE]
            IN  /\ DOMAIN y = DOMAIN x /\ y.there = x.there /\ y.spec = x.spec
                /\ y.deleting = TRUE /\ y.fin = x.fin
  OBVIOUS

\* A user's edit.
LEMMA ApplyStep ==
  ASSUME WellFormed, PlatformInv, NEW o \in Objects, NEW spec, Apply(o, spec)
  PROVE  PlatformInv'
<1>1. /\ ~obj[o].deleting /\ obj' = [obj EXCEPT ![o] = [obj[o] EXCEPT !.there = TRUE, !.spec = spec]]
      /\ moved' = (moved \/ (obj[o].there /\ Leaves(obj[o].spec, spec)))
      /\ UNCHANGED <<cache, env, envCache, target, queue, pass>>
  BY Zenon DEF Apply, controller
<1>2. /\ DOMAIN obj = Objects /\ DOMAIN obj[o] = {"there", "deleting", "fin", "spec", "status"}
      /\ Shape(obj[o]) /\ moved \in BOOLEAN /\ env \subseteq Inputs /\ EnvOK
  BY Zenon DEF PlatformInv, ShapesOK, Shape
<1>3. PICK x : x = [obj[o] EXCEPT !.there = TRUE, !.spec = spec]
  BY Zenon
<1>4. obj' = [obj EXCEPT ![o] = x]
  BY Zenon, <1>1, <1>3
<1>5. /\ DOMAIN x = DOMAIN obj[o] /\ x.there = TRUE /\ x.spec = spec
      /\ x.deleting = obj[o].deleting /\ x.fin = obj[o].fin
  BY Zenon, <1>2, <1>3, EditedFields
<1>6. Shape(x)
  BY Zenon, <1>1, <1>2, <1>5 DEF Shape
<1>7. moved' \in BOOLEAN /\ (moved => moved')
  BY <1>1, <1>2
<1>8. ~moved' /\ obj[o].fin => Alike(obj[o], x)
  BY Zenon, <1>1, <1>2, <1>5 DEF Alike, Shape
<1>9. EnvOK' /\ env' \subseteq Inputs
  BY Zenon, <1>1, <1>2, <1>7 DEF EnvOK
<1> QED
  BY Zenon, <1>1, <1>4, <1>5, <1>6, <1>7, <1>8, <1>9, ObjectStep

\* An allocation.
LEMMA AllocateStep ==
  ASSUME WellFormed, PlatformInv, NEW o \in Objects, NEW addrs, Allocate(o, addrs)
  PROVE  PlatformInv'
<1>1. /\ ~obj[o].deleting /\ obj' = [obj EXCEPT ![o].status.addrs = addrs]
      /\ UNCHANGED <<cache, env, envCache, target, queue, pass, moved>>
  BY Zenon DEF Allocate, controller
<1>2. /\ DOMAIN obj = Objects /\ DOMAIN obj[o] = {"there", "deleting", "fin", "spec", "status"}
      /\ Shape(obj[o]) /\ moved \in BOOLEAN /\ env \subseteq Inputs /\ EnvOK
  BY Zenon DEF PlatformInv, ShapesOK, Shape
<1>3. PICK x : x = [obj[o] EXCEPT !.status.addrs = addrs]
  BY Zenon
<1>4. obj' = [obj EXCEPT ![o] = x]
  BY <1>1, <1>2, <1>3
<1>5. /\ DOMAIN x = DOMAIN obj[o] /\ x.there = obj[o].there /\ x.spec = obj[o].spec
      /\ x.deleting = obj[o].deleting /\ x.fin = obj[o].fin
  BY Zenon, <1>2, <1>3, EditedFields
<1>6. Shape(x)
  BY Zenon, <1>2, <1>5 DEF Shape
<1>7. Alike(obj[o], x)
  BY Zenon, <1>5 DEF Alike, Leaves
<1>8. EnvOK' /\ env' \subseteq Inputs /\ moved' \in BOOLEAN /\ (moved => moved')
  BY Zenon, <1>1, <1>2 DEF EnvOK
<1> QED
  BY Zenon, <1>1, <1>4, <1>5, <1>6, <1>7, <1>8, ObjectStep

\* A delete takes an object with a finalizer only to the deletion.
LEMMA DeleteStep ==
  ASSUME WellFormed, PlatformInv, NEW o \in Objects, Delete(o)
  PROVE  PlatformInv'
<1>1. /\ ~obj[o].deleting
      /\ obj' = [obj EXCEPT ![o] = IF obj[o].fin THEN [obj[o] EXCEPT !.deleting = TRUE] ELSE Absent]
      /\ UNCHANGED <<cache, env, envCache, target, queue, pass, moved>>
  BY Zenon DEF Delete, controller
<1>2. /\ DOMAIN obj[o] = {"there", "deleting", "fin", "spec", "status"}
      /\ Shape(obj[o]) /\ moved \in BOOLEAN /\ env \subseteq Inputs /\ EnvOK
  BY Zenon DEF PlatformInv, ShapesOK, Shape
<1>3. EnvOK' /\ env' \subseteq Inputs /\ moved' \in BOOLEAN /\ (moved => moved')
  BY Zenon, <1>1, <1>2 DEF EnvOK
<1>4. CASE obj[o].fin
  <2>1. PICK x : x = [obj[o] EXCEPT !.deleting = TRUE]
    BY Zenon
  <2>2. obj' = [obj EXCEPT ![o] = x]
    BY Zenon, <1>1, <1>4, <2>1
  <2>3. /\ DOMAIN x = DOMAIN obj[o] /\ x.there = obj[o].there /\ x.spec = obj[o].spec
        /\ x.deleting = TRUE /\ x.fin = obj[o].fin
    BY Zenon, <1>2, <2>1, EditedFields
  <2>4. Shape(x) /\ Alike(obj[o], x)
    BY Zenon, <1>2, <1>4, <2>3 DEF Shape, Alike, Leaves
  <2>5. ~cache[o].deleting
    BY Zenon, <1>1, <1>4 DEF PlatformInv, CacheOK
  <2> QED
    BY Zenon, <1>1, <1>3, <2>2, <2>3, <2>4, <2>5, ObjectStep
<1>5. CASE ~obj[o].fin
  <2>1. obj' = [obj EXCEPT ![o] = Absent]
    BY Zenon, <1>1, <1>5
  <2>2. Absent.fin = obj[o].fin
    BY Zenon, <1>2, <1>5, AbsentShape DEF Shape
  <2> QED
    BY Zenon, <1>1, <1>3, <1>5, <2>1, <2>2, AbsentShape, ObjectStep
<1> QED
  BY <1>4, <1>5

\* A step that leaves the objects, the requests and the pass alone: the world
\* around the controller, and a CRD that goes with its objects.
LEMMA AroundStep ==
  ASSUME WellFormed, PlatformInv, UNCHANGED <<obj, cache, envCache, queue>>,
         ShapesOK', EnvOK', moved => moved', target' \subseteq target,
         \/ UNCHANGED pass
         \/ pass # Idle /\ \E b : pass' = [pass EXCEPT !.missed = b]
  PROVE  PlatformInv'
<1>1. pass # Idle =>
        /\ pass'.at = pass.at /\ pass'.copy = pass.copy /\ pass'.steps = pass.steps
        /\ pass'.env = pass.env /\ pass'.todo = pass.todo /\ DOMAIN pass' = DOMAIN pass
  <2>1. CASE UNCHANGED pass
    BY <2>1
  <2>2. CASE pass # Idle /\ \E b : pass' = [pass EXCEPT !.missed = b]
    <3>1. DOMAIN pass = {"at", "steps", "copy", "env", "todo", "missed"}
      BY Zenon, <2>2 DEF PlatformInv, PassOK
    <3> QED
      BY <2>2, <3>1
  <2> QED
    BY <2>1, <2>2
<1>2. pass' # Idle => pass # Idle
  OBVIOUS
<1>3. PassOK'
  BY Zenon, <1>1, <1>2 DEF PlatformInv, PassOK
<1>4. CacheOK'
  BY Zenon DEF PlatformInv, CacheOK
<1>5. WorkOK'
  BY Zenon, <1>1, <1>2 DEF PlatformInv, WorkOK
<1>6. TargetsOK'
  BY Zenon DEF PlatformInv, TargetsOK, Held
<1>7. CleanupOK'
  <2>1. SUFFICES ASSUME pass' # Idle, ~moved', pass'.copy.deleting, obj[pass'.at].fin,
                        NEW t \in target', t.owner = pass'.at
                 PROVE  Waits(t)'
    BY Zenon DEF CleanupOK
  <2>2. t \in target /\ ~moved
    BY <2>1
  <2>3. Waits(t)
    BY Zenon, <1>1, <1>2, <2>1, <2>2 DEF PlatformInv, CleanupOK
  <2> QED
    BY Zenon, <1>1, <1>2, <2>1, <2>3 DEF Waits
<1>8. PendingOK'
  <2>1. pass # Idle => pass' # Idle
    <3>1. SUFFICES ASSUME pass # Idle, pass' = Idle PROVE FALSE
      OBVIOUS
    <3>2. Len(pass.steps) > 0 /\ pass.steps = Idle.steps
      BY Zenon, <1>1, <3>1 DEF PlatformInv, PassOK, StepsOK
    <3>3. Len(Idle.steps) = 0
      BY DEF Idle
    <3> QED
      BY <3>2, <3>3
  <2> QED
    BY Zenon, <1>1, <2>1 DEF PlatformInv, PendingOK
<1> QED
  BY <1>3, <1>4, <1>5, <1>6, <1>7, <1>8 DEF PlatformInv

\* The informer delivers an object, and with it a request.
LEMMA CacheStep ==
  ASSUME WellFormed, PlatformInv, NEW o \in Objects, CacheSync(o)
  PROVE  PlatformInv'
<1>1. /\ cache' = [cache EXCEPT ![o] = obj[o]] /\ queue' = queue \cup {o}
      /\ UNCHANGED <<obj, env, envCache, target, pass, moved>>
  BY Zenon DEF CacheSync
<1>2. /\ DOMAIN cache' = Objects /\ cache'[o] = obj[o]
      /\ \A p \in Objects : p # o => cache'[p] = cache[p]
  BY <1>1 DEF PlatformInv, ShapesOK
<1>3. ShapesOK' /\ EnvOK'
  BY Zenon, <1>1, <1>2 DEF PlatformInv, ShapesOK, EnvOK
<1>4. PassOK' /\ TargetsOK' /\ CleanupOK'
  BY Zenon, <1>1 DEF PlatformInv, PassOK, TargetsOK, Held, CleanupOK, Waits
<1>5. CacheOK'
  <2>1. SUFFICES ASSUME NEW p \in Objects
                 PROVE  /\ cache'[p].fin /\ ~cache'[p].deleting => obj[p].fin
                        /\ cache'[p].deleting /\ obj[p].fin => obj[p].deleting
                        /\ ~moved /\ obj[p].fin /\ cache'[p].fin => Alike(cache'[p], obj[p])
    BY Zenon, <1>1 DEF CacheOK
  <2>2. CASE p = o
    BY Zenon, <1>2, <2>2, AlikeTwice
  <2>3. CASE p # o
    BY Zenon, <1>2, <2>3 DEF PlatformInv, CacheOK
  <2> QED
    BY <2>2, <2>3
<1>6. WorkOK'
  <2>1. SUFFICES ASSUME pass # Idle
                 PROVE  /\ ~pass.copy.deleting => obj[pass.at].fin
                        /\ ~pass.copy.deleting /\ cache'[pass.at].deleting => pass.at \in queue'
                        /\ pass.copy.deleting /\ obj[pass.at].fin =>
                             obj[pass.at].deleting /\ cache'[pass.at].deleting
                        /\ ~moved /\ obj[pass.at].fin => Alike(pass.copy, obj[pass.at])
                        /\ ~moved /\ Kind = "InterfaceConfig" =>
                             pass.todo \subseteq matchingNodes(pass.copy, envCache)
    BY Zenon, <1>1 DEF WorkOK
  <2>2. pass.at \in Objects
    BY Zenon, <2>1 DEF PlatformInv, PassOK
  <2>3. CASE pass.at = o
    BY Zenon, <1>1, <1>2, <2>1, <2>3 DEF PlatformInv, WorkOK
  <2>4. CASE pass.at # o
    BY Zenon, <1>1, <1>2, <2>1, <2>2, <2>4 DEF PlatformInv, WorkOK
  <2> QED
    BY <2>3, <2>4
<1>7. PendingOK'
  <2>1. SUFFICES ASSUME NEW p \in Objects, obj[p].deleting
                 PROVE  \/ cache'[p] # obj[p] \/ p \in queue'
                        \/ pass # Idle /\ pass.at = p /\ pass.copy.deleting
    BY Zenon, <1>1 DEF PendingOK
  <2>2. CASE p = o
    BY <1>1, <2>2
  <2>3. CASE p # o
    BY Zenon, <1>1, <1>2, <2>1, <2>3 DEF PlatformInv, PendingOK
  <2> QED
    BY <2>2, <2>3
<1> QED
  BY <1>3, <1>4, <1>5, <1>6, <1>7 DEF PlatformInv

\* The informer delivers the inputs.
LEMMA InputStep ==
  ASSUME WellFormed, PlatformInv, InputSync
  PROVE  PlatformInv'
<1>1. /\ envCache' = env /\ queue \subseteq queue'
      /\ UNCHANGED <<obj, cache, env, target, pass, moved>>
  BY Zenon DEF InputSync
<1>2. ShapesOK' /\ EnvOK'
  BY Zenon, <1>1 DEF PlatformInv, ShapesOK, EnvOK
<1>3. PassOK' /\ CleanupOK' /\ CacheOK'
  BY Zenon, <1>1 DEF PlatformInv, PassOK, CleanupOK, Waits, CacheOK
<1>4. ~moved /\ Kind = "InterfaceConfig" => envCache \subseteq env
  BY Zenon DEF PlatformInv, EnvOK
<1>5. ASSUME NEW t, Traceable(t), NEW x, ~moved, Named(t, x, matchingNodes(x, envCache))
      PROVE  Named(t, x, matchingNodes(x, env))
  <2>1. CASE Kind = "InterfaceConfig"
    <3>1. Alike(x, x)
      BY Zenon, AlikeTwice
    <3> QED
      BY Zenon, <1>4, <1>5, <2>1, <3>1, AlikeNames
  <2>2. CASE Kind # "InterfaceConfig"
    <3>1. t.kind # "NodeNetplanConfig"
      BY <1>5, <2>2 DEF Traceable, KindsOf, WellFormed
    <3> QED
      BY Zenon, <1>5, <3>1 DEF Named
  <2> QED
    BY <2>1, <2>2
<1>6. TargetsOK'
  BY Zenon, <1>1, <1>5 DEF PlatformInv, TargetsOK, Held
<1>7. WorkOK'
  <2>1. ASSUME pass # Idle, ~moved, Kind = "InterfaceConfig"
        PROVE  pass.todo \subseteq matchingNodes(pass.copy, env)
    <3>1. pass.todo \subseteq matchingNodes(pass.copy, envCache)
      BY Zenon, <2>1 DEF PlatformInv, WorkOK
    <3>2. envCache \subseteq env
      BY <1>4, <2>1
    <3> QED
      BY <3>1, <3>2 DEF matchingNodes
  <2> QED
    BY Zenon, <1>1, <2>1 DEF PlatformInv, WorkOK
<1>8. PendingOK'
  BY Zenon, <1>1 DEF PlatformInv, PendingOK
<1> QED
  BY <1>2, <1>3, <1>6, <1>7, <1>8 DEF PlatformInv

\* A restart forgets the pass and asks for every object there is.
LEMMA RestartStep ==
  ASSUME WellFormed, PlatformInv, Restart
  PROVE  PlatformInv'
<1>1. /\ cache' = obj /\ envCache' = env /\ pass' = Idle
      /\ queue' = {o \in Objects : obj[o].there} /\ UNCHANGED <<obj, env, target, moved>>
  BY Zenon DEF Restart
<1>2. ShapesOK' /\ EnvOK'
  BY Zenon, <1>1 DEF PlatformInv, ShapesOK, EnvOK
<1>3. PassOK' /\ WorkOK' /\ CleanupOK'
  BY Zenon, <1>1 DEF PassOK, WorkOK, CleanupOK
<1>4. CacheOK'
  BY Zenon, <1>1, AlikeTwice DEF CacheOK
<1>5. ASSUME NEW t \in target, ~moved
      PROVE  Named(t, obj[t.owner], matchingNodes(obj[t.owner], env))
  <2>1. Traceable(t) /\ Named(t, obj[t.owner], matchingNodes(obj[t.owner], envCache))
    BY Zenon, <1>5 DEF PlatformInv, TargetsOK, Held
  <2>2. CASE Kind = "InterfaceConfig"
    <3>1. envCache \subseteq env /\ Alike(obj[t.owner], obj[t.owner])
      BY Zenon, <1>5, <2>2, AlikeTwice DEF PlatformInv, EnvOK
    <3> QED
      BY Zenon, <2>1, <3>1, AlikeNames
  <2>3. CASE Kind # "InterfaceConfig"
    <3>1. t.kind # "NodeNetplanConfig"
      BY <2>1, <2>3 DEF Traceable, KindsOf, WellFormed
    <3> QED
      BY Zenon, <2>1, <3>1 DEF Named
  <2> QED
    BY <2>2, <2>3
<1>6. TargetsOK'
  BY Zenon, <1>1, <1>5 DEF PlatformInv, TargetsOK, Held
<1>7. PendingOK'
  <2>1. \A o \in Objects : obj[o].deleting => obj[o].there
    BY Zenon DEF PlatformInv, ShapesOK, Shape
  <2> QED
    BY Zenon, <1>1, <2>1 DEF PendingOK
<1> QED
  BY <1>2, <1>3, <1>4, <1>6, <1>7 DEF PlatformInv

\* Inputs that change, CRDs that come and go, and what the cache shows of the
\* derived objects.
LEMMA WorldStep ==
  ASSUME WellFormed, PlatformInv,
         \/ \E i \in Inputs : InputChanges(i)
         \/ CRDGoes \/ CRDArrives \/ SeenSync \/ UNCHANGED vars
  PROVE  PlatformInv'
<1>1. ShapesOK /\ EnvOK /\ moved \in BOOLEAN /\ env \subseteq Inputs
  BY Zenon DEF PlatformInv, ShapesOK
<1>2. CASE \E i \in Inputs : InputChanges(i)
  <2>1. PICK i \in Inputs :
          /\ env' = IF i \in env THEN env \ {i} ELSE env \cup {i}
          /\ moved' = (moved \/ (Kind = "InterfaceConfig" /\ i \in env))
          /\ UNCHANGED <<obj, cache, envCache, queue, target, pass>>
    BY Zenon, <1>2 DEF InputChanges, controller
  <2>2. env' \subseteq Inputs /\ moved' \in BOOLEAN /\ (moved => moved')
    BY <1>1, <2>1
  <2>3. EnvOK'
    <3>1. SUFFICES ASSUME ~moved', Kind = "InterfaceConfig" PROVE envCache \subseteq env'
      BY Zenon, <2>1 DEF EnvOK
    <3>2. envCache \subseteq env /\ i \notin env
      BY Zenon, <1>1, <2>1, <2>2, <3>1 DEF EnvOK
    <3> QED
      BY <2>1, <3>2
  <2>4. ShapesOK'
    BY Zenon, <1>1, <2>1, <2>2 DEF ShapesOK
  <2>5. target' \subseteq target
    BY <2>1
  <2> QED
    BY Zenon, <2>1, <2>2, <2>3, <2>4, <2>5, AroundStep
<1>3. CASE CRDGoes
  <2>1. /\ target' \subseteq target /\ UNCHANGED <<obj, cache, env, envCache, queue, moved>>
        /\ \/ UNCHANGED pass
           \/ pass # Idle /\ \E b : pass' = [pass EXCEPT !.missed = b]
    BY Zenon, <1>3 DEF CRDGoes
  <2>2. ShapesOK' /\ EnvOK'
    BY Zenon, <1>1, <2>1 DEF ShapesOK, EnvOK
  <2> QED
    BY Zenon, <2>1, <2>2, AroundStep
<1>4. CASE CRDArrives \/ SeenSync \/ UNCHANGED vars
  <2>1. UNCHANGED <<obj, cache, env, envCache, queue, moved, target, pass>>
    BY Zenon, <1>4 DEF CRDArrives, SeenSync, vars
  <2>2. ShapesOK' /\ EnvOK' /\ target' \subseteq target /\ (moved => moved')
    BY Zenon, <1>1, <2>1 DEF ShapesOK, EnvOK
  <2> QED
    BY Zenon, <2>1, <2>2, AroundStep
<1> QED
  BY <1>2, <1>3, <1>4

\* Nothing exists at the start but the inputs.
LEMMA InitPlatformInv == ASSUME Init PROVE PlatformInv
<1>1. /\ DOMAIN obj = Objects /\ \A o \in Objects : obj[o] = Absent
      /\ cache = obj /\ env \subseteq Inputs /\ envCache = env /\ target = {} /\ pass = Idle
      /\ moved = FALSE
  BY DEF Init
<1>2. ShapesOK
  BY Zenon, <1>1, AbsentShape DEF ShapesOK
<1>3. PassOK /\ WorkOK /\ CleanupOK /\ EnvOK
  BY Zenon, <1>1 DEF PassOK, WorkOK, CleanupOK, EnvOK
<1>4. CacheOK /\ PendingOK
  BY Zenon, <1>1, AbsentShape DEF CacheOK, PendingOK
<1>5. TargetsOK
  BY <1>1 DEF TargetsOK
<1> QED
  BY <1>2, <1>3, <1>4, <1>5 DEF PlatformInv

\* Every step of the world, of the informers and of the worker keeps the
\* invariant.
LEMMA NextPlatformInv == ASSUME WellFormed, PlatformInv, [Next]_vars PROVE PlatformInv'
<1>1. CASE World
  <2>1. CASE Fail
    BY Zenon, <2>1, Requeue DEF Fail
  <2> QED
    BY Zenon, <1>1, <2>1, ApplyStep, AllocateStep, DeleteStep, WorldStep, RestartStep DEF World
<1>2. CASE Call
  BY Zenon, <1>2, OutboundStep, PodNetworkStep, InboundStep, LastStep, NodeStep, DeletionStep,
     ReleaseStep DEF Call
<1>3. CASE CRDArrives \/ SeenSync \/ UNCHANGED vars
  BY Zenon, <1>3, WorldStep
<1>4. CASE InputSync
  BY Zenon, <1>4, InputStep
<1>5. CASE \E o \in Objects : CacheSync(o) \/ StartPass(o)
  BY Zenon, <1>5, CacheStep, StartStep
<1> QED
  BY Zenon, <1>1, <1>2, <1>3, <1>4, <1>5 DEF Next

-----------------------------------------------------------------------------
\* The finalizer goes on before the first derived object is written and off
\* after the last is deleted (coil_controller.go:506-554, and the same skeleton
\* in the other three reconcilers): no derived object is without its owner,
\* whatever conflicts, failed calls, restarts and stale caches a pass meets.
THEOREM PlatformLeavesNothing ==
  ASSUME WellFormed
  PROVE  Spec => []NothingOutlives
<1>1. Init => PlatformInv
  BY InitPlatformInv
<1>2. PlatformInv /\ [Next]_vars => PlatformInv'
  BY NextPlatformInv
<1>3. PlatformInv => NothingOutlives
  <2>1. SUFFICES ASSUME PlatformInv, NEW o \in Objects, ~obj[o].there, ~moved,
                        NEW t \in target
                 PROVE  t.owner # o
    BY Zenon DEF NothingOutlives
  <2>2. obj[t.owner].fin /\ t.owner \in Objects
    BY Zenon, <2>1 DEF PlatformInv, TargetsOK, Held, Traceable
  <2> QED
    BY Zenon, <2>1, <2>2 DEF PlatformInv, ShapesOK, Shape
<1> QED
  BY <1>1, <1>2, <1>3, PTL DEF Spec

\* While an object is being deleted, an event, a request or a pass exists that
\* will finish its cleanup: the deletion is seen, queued again when a call of
\* it fails, and found again after a restart.
THEOREM PlatformRemembersDeletions ==
  ASSUME WellFormed
  PROVE  Spec => []DeletionPending
<1>1. Init => PlatformInv
  BY InitPlatformInv
<1>2. PlatformInv /\ [Next]_vars => PlatformInv'
  BY NextPlatformInv
<1>3. PlatformInv => DeletionPending
  BY Zenon DEF PlatformInv, PendingOK, DeletionPending
<1> QED
  BY <1>1, <1>2, <1>3, PTL DEF Spec
=============================================================================
