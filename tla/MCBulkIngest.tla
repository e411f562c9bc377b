---------------------------- MODULE MCBulkIngest ----------------------------
(***************************************************************************)
(* Two uploads that overlap each other and a single create, of documents   *)
(* with a duplicate inside, unreadable items and items passed over, an     *)
(* invalid record, one project named rightly, wrongly and not at all, and  *)
(* self-made lines; and of BibTeX that does not parse.                     *)
(***************************************************************************)
EXTENDS BulkIngest, SequencesExt

CONSTANTS a, b, t1, t2, l1, p1, n1, n2

K1 == [title |-> t1, link |-> Null]
K2 == [title |-> t2, link |-> l1]

Bad  == [kind |-> "unreadable"]
Over == [kind |-> "passed over"]
Rec(k, p, n) == [kind |-> "record", valid |-> TRUE, key |-> k, project |-> p, name |-> n,
                 line |-> Null]
Plain(k) == Rec(k, Null, Null)
Invalid == [Plain(K1) EXCEPT !.valid = FALSE]
Doc(shape, items) == [shape |-> shape, parses |-> TRUE, items |-> items]
Unparsed(shape, items) == [Doc(shape, items) EXCEPT !.parses = FALSE]

MCDocument == {
  Doc("jsonl", <<Plain(K1), Over, Bad, Plain(K1)>>),
  Doc("bibtex", <<Bad, Over, Plain(K2), Invalid>>),
  Unparsed("bibtex", <<Plain(K1), Plain(K2)>>),
  Unparsed("json", << >>),
  Doc("json", <<Rec(K1, p1, Null), Rec(K2, p1, n1)>>),
  Doc("json", <<Plain(K1), [Plain(K2) EXCEPT !.line = Text]>>),
  Doc("json", <<[Plain(K2) EXCEPT !.line = 7], Plain(K1)>>),
  Doc("jsonl", <<Plain(K1), Plain(K1), Plain(K2), Plain(K2)>>)}

\* The order of the model is the order of a sort.
ASSUME ArrangedSorts == \A S \in SUBSET (0 .. 3) : InSequence(S) = SetToSortSeq(S, <)

UploadsAlike == Permutations({a, b})

=============================================================================
