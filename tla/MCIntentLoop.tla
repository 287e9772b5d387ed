---------------------------- MODULE MCIntentLoop ----------------------------
(* Two parts of the intent reconciler, one per behaviour: the writing of the *)
(* nodes' configurations, and the finalizers of objects in use.  Node n1 has *)
(* a configuration of the classic operator; version 2 of the intents cannot  *)
(* be built, version 1 has a VRF name that is refused on node n2.            *)
EXTENDS IntentLoop, InUse

VARIABLE which    \* the part that runs

MCUnnameable == {<<1, "n2">>}

\* A Destination d of VRF v, and an object a that uses d and a Collector c.
MCKindOf == [v |-> "VRF", d |-> "Destination", a |-> "user", c |-> "Collector"]
MCRefs == [v |-> {}, d |-> {"v"}, a |-> {"d", "c"}, c |-> {}]

ASSUME RefsOfListedKinds == RefsAreListed

MCInit == which \in {"loop", "finalizers"} /\ Init /\ UseInit

MCNext ==
  \/ which = "loop" /\ Next /\ UNCHANGED <<which, useVars>>
  \/ which = "finalizers" /\ UseNext /\ UNCHANGED <<which, vars>>

MCSpec ==
  /\ MCInit /\ [][MCNext]_<<which, vars, useVars>>
  /\ which = "loop" => Fairness
  /\ which = "finalizers" => UseFairness

\* See IntentLoop.
LoopConverges == which = "loop" => NodesConverge
\* See InUse.
UnusedGoes == which = "finalizers" => DeletedGoes
=============================================================================
