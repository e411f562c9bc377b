---------------------------- MODULE MCMembership ----------------------------
(***************************************************************************)
(* One person, two projects, and dumps older and newer than what the other *)
(* writers record.                                                         *)
(***************************************************************************)
EXTENDS Membership

CONSTANTS u1, g1, g2

On(from, to) == [from |-> from, to |-> to]
Dump(one, two) == [k \in {<<u1, g1>>, <<u1, g2>>} |-> IF k[2] = g1 THEN one ELSE two]

MCFile == {Dump(On(-1, 1), Null), Dump(On(0, 0), On(1, 1))}

=============================================================================
