--------------------------- MODULE MCDisplayNames ---------------------------
(***************************************************************************)
(* Instances of DisplayNames for TLC.                                      *)
(***************************************************************************)
EXTENDS DisplayNames, TLC

\* People, requests, name changes and spellings are interchangeable; the runs that use
\* the symmetry check safety only.
RequestsAreAlike == Permutations(Person) \cup Permutations(Writer) \cup Permutations(Renamer)
                    \cup Permutations(Spelling) \cup Permutations(Row)

=============================================================================
