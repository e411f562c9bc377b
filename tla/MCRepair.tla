--------------------------- MODULE MCRepair ----------------------------
(***************************************************************************)
(* Instances of Repair for TLC.                                            *)
(***************************************************************************)
EXTENDS Repair

\* People, bylines, publications and rows are interchangeable: no definition names
\* one, and what is checked under these symmetries is safety.
ListSymmetry   == Permutations(Row) \cup Permutations(Pub) \cup Permutations(Name)
RequestSymmetry == ListSymmetry \cup Permutations(Edit) \cup Permutations(Person)

\* `recorded` only describes the step just taken.  No guard and no unprimed part of a
\* property reads it, so two states that differ in it alone have the same future.
Tables == <<authors, author, claim, edit, queue, scorer>>

=============================================================================
