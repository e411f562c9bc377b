--------------------------- MODULE MCAttribution ---------------------------
(***************************************************************************)
(* Instances of Attribution for TLC.                                       *)
(***************************************************************************)
EXTENDS Attribution

\* People, bylines, publications and rows are interchangeable: no definition names
\* one, and what is checked under these symmetries is safety.
PeopleAreAlike == Permutations(Person) \cup Permutations(Name) \cup Permutations(Pub)
ListSymmetry   == Permutations(Row) \cup Permutations(Pub) \cup Permutations(Name)
RequestSymmetry == ListSymmetry \cup Permutations(Edit) \cup Permutations(Person)

\* `recorded` only describes the step just taken.  No guard and no unprimed part of a
\* property reads it, so two states that differ in it alone have the same future.
\* What a torn page shows of its row is never asked.
Pages == [q \in Queue |-> IF Shown(q) /\ queue[q].torn THEN [queue[q] EXCEPT !.seen = Null]
                          ELSE queue[q]]
Tables == <<authors, author, claim, edit, Pages, scorer>>

=============================================================================
