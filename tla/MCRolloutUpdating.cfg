CONSTANTS
    Revisions = {r1, r2}
    NoRevision = none
    Nodes = {n1, n2}
    Threads = {t1}
    Broken = {}
    MaxUpdating = 1
    MaxChanges = 1
    MaxCreated = 2
    MaxFaults = 0
SPECIFICATION Spec
INVARIANTS UpdatingIsBounded
