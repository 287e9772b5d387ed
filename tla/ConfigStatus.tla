---------------------------- MODULE ConfigStatus ----------------------------
(***************************************************************************)
(* What the status of a NodeNetworkConfig promises to those who read it    *)
(* (pkg/reconciler/common/nodenetworkconfig.go writes it, the rollout of   *)
(* pkg/reconciler/operator reads it).                                      *)
(*                                                                         *)
(* This is the abstract specification of a node agent: it sees only the    *)
(* object, not what the agent does to the node.  A status update carries   *)
(* the resourceVersion that was read, so it lands on an object nobody      *)
(* changed since: each report is one atomic step.                          *)
(***************************************************************************)
EXTENDS NodeConfigObject

VARIABLE nnc   \* the NodeNetworkConfig of one node

ContractInit == nnc = Absent

-----------------------------------------------------------------------------
\* The operator creates the object, moves it to a revision (which leaves the
\* status alone: it is a subresource), or deletes it.
OperatorCreates(r) == ~nnc.exists /\ nnc' = Created(r)
OperatorMoves(r) == nnc.exists /\ nnc' = [nnc EXCEPT !.revision = r]
OperatorDeletes == nnc.exists /\ nnc' = Absent

\* The agent starts on the revision, but never on one it found invalid.
AgentStarts ==
    /\ nnc.exists
    /\ ~(nnc.status = "invalid" /\ nnc.lastApplied = nnc.revision)
    /\ nnc' = WithStatus(nnc, "provisioning")

\* The agent finishes, or finds that it already runs this revision.
AgentProvisions ==
    /\ nnc.exists
    /\ nnc' = WithStatus(nnc, "provisioned")

\* Only a revision the agent had started on is found invalid.
AgentInvalidates ==
    /\ nnc.exists
    /\ nnc.status = "provisioning"
    /\ nnc' = WithStatus(nnc, "invalid")

ContractNext ==
    \/ \E r \in Revisions : OperatorCreates(r) \/ OperatorMoves(r)
    \/ OperatorDeletes
    \/ AgentStarts
    \/ AgentProvisions
    \/ AgentInvalidates

ContractSpec == ContractInit /\ [][ContractNext]_nnc
=============================================================================
