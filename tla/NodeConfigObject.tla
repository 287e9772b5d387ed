--------------------------- MODULE NodeConfigObject ---------------------------
(***************************************************************************)
(* The NodeNetworkConfig object as its writers and readers see it: the     *)
(* operator writes spec.revision, the agent of the node writes the status. *)
(***************************************************************************)
CONSTANTS Revisions,   \* values of spec.revision
          NoRevision   \* the empty string of a status never written

ASSUME NoRevisionAssumption == NoRevision \notin Revisions

Statuses == {"", "provisioning", "provisioned", "invalid"}

Object == [exists : BOOLEAN,
           revision : Revisions \union {NoRevision},
           status : Statuses,
           lastApplied : Revisions \union {NoRevision}]

Absent == [exists |-> FALSE, revision |-> NoRevision,
           status |-> "", lastApplied |-> NoRevision]

Created(r) == [exists |-> TRUE, revision |-> r,
               status |-> "", lastApplied |-> NoRevision]

\* The agent reported the outcome of revision obj.revision.
Reported(obj) ==
    /\ obj.lastApplied = obj.revision
    /\ obj.status \in {"provisioned", "invalid"}

\* SetStatusWithError: lastAppliedRevision follows the final states only.
WithStatus(obj, s) ==
    [obj EXCEPT !.status = s,
                !.lastApplied = IF s \in {"provisioned", "invalid"}
                                THEN obj.revision ELSE obj.lastApplied]
=============================================================================
