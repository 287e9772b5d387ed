CONSTANTS
    VRFs = {v1, v2, v3}
    VNIs = {n1, n2}
    Local = local
    None = none
    Requests <- MCRequests
    Tables = 2
    MaxFaults = 1
SPECIFICATION Spec
INVARIANTS
    TablesDistinct
    AnswerMeansConfigured
PROPERTIES
    UpAfterReload
    FailureHasCause
SYMMETRY NameSymmetry
