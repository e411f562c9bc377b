---------------------------- MODULE MCTokenGate ----------------------------
(***************************************************************************)
(* Instances of TokenGate for TLC.  Every timeout is one tick, the least    *)
(* that has a before and an after.                                         *)
(***************************************************************************)
EXTENDS TokenGate, TLC

CONSTANTS t1, t2, k1, k2

MCKidOf == t1 :> k1 @@ t2 :> k2

=============================================================================
