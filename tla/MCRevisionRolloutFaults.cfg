CONSTANTS
    Revisions = {r1, r2}
    NoRevision = none
    Nodes = {n1}
    Threads = {t1}
    Broken = {r1}
    MaxUpdating = 1
    MaxChanges = 2
    MaxCreated = 3
    MaxFaults = 1
SPECIFICATION FairSpec
PROPERTIES
    NodesKeepContract
    
