----------------------------- MODULE MCRowLocks -----------------------------
(***************************************************************************)
(* A person credited on both rows of one publication and on the first of a *)
(* second; both lists are in key order.                                    *)
(***************************************************************************)
EXTENDS RowLocks

MCList == <<<<1, 2>>, <<3, 4>>>>
MCAccount == <<{1, 2, 3}>>

=============================================================================
