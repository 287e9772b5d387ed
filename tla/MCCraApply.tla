----------------------------- MODULE MCCraApply -----------------------------
(* Every configuration in which no two VRFs share a VNI and one is local. *)
EXTENDS CraApply, TLC

MCRequests ==
    {c \in [VRFs -> VNIs \union {Local, None}] :
        \A v, w \in VRFs : c[v] = c[w] /\ c[v] # None => v = w}

NameSymmetry == Permutations(VRFs) \union Permutations(VNIs)
=============================================================================
