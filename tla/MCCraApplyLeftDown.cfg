CONSTANTS
    VRFs = {v1}
    VNIs = {n1}
    Local = local
    None = none
    Requests <- MCRequests
    Tables = 1
    MaxFaults = 1
SPECIFICATION Spec
INVARIANT AnswerMeansUp
