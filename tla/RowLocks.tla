------------------------------ MODULE RowLocks ------------------------------
(***************************************************************************)
(* The row locks of the writers that hold several Author rows at once, one *)
(* by one: a statement over many rows locks them in its order, and every   *)
(* lock is kept until the transaction ends.  What the transactions write   *)
(* is left to the other modules; rows are their primary keys.              *)
(***************************************************************************)
EXTENDS Naturals, Sequences, SequencesExt

CONSTANTS
  Transaction,
  Person, Publication, Author, \* primary keys
  List,     \* List[p]: Publication.authors as rows, none of them twice
  Account   \* Account[u]: the rows credited to u that show the account name

VARIABLES
  want, \* want[t]: the rows transaction t has still to lock, in order
  held  \* held[t]: the rows it has locked

vars == <<want, held>>

Row == ({"person"} \X Person) \cup ({"publication"} \X Publication)
         \cup ({"author"} \X Author)

Init ==
  /\ want = [t \in Transaction |-> << >>]
  /\ held = [t \in Transaction |-> {}]

-----------------------------------------------------------------------------
(* The lock order of each writer *)

Of(kind, pks) == [n \in DOMAIN pks |-> <<kind, pks[n]>>]
ByKey(pks)    == SetToSortSeq(pks, <)
Listed(p)     == {List[p][n] : n \in DOMAIN List[p]}

\* mutate_author without a move: the publication, the row, then _save_membership updates
\* the rows of the list one by one, in list order.
Edits(p, a) == <<<<"publication", p>>, <<"author", a>>>> \o Of("author", List[p])

\* With a move: both publications, the row, the list it leaves, the list it joins.
Moves(p, q, a) ==
  Of("publication", ByKey({p, q})) \o <<<<"author", a>>>>
    \o Of("author", Remove(List[p], a)) \o Of("author", Append(List[q], a))

\* _sync_authors and delete_publication.
WritesAll(p) == <<<<"publication", p>>>> \o Of("author", ByKey(Listed(p)))

\* The sync's save or save_refreshed_user, then follow_account_name_change.
Renames(u) == <<<<"person", u>>>> \o Of("author", ByKey(Account[u]))

\* repair_author_records: the publications of the plan, then all their rows.
Repairs(P) == Of("publication", ByKey(P)) \o Of("author", ByKey(UNION {Listed(p) : p \in P}))

\* _recheck, once a credit of the row has committed.
Rechecks(u, a) == <<<<"person", u>>, <<"author", a>>>>

\* sync_author_display_names --apply.
CatchesUp == Of("person", ByKey({u \in Person : Account[u] # {}}))
               \o Of("author", ByKey(UNION {Account[u] : u \in Person}))

Orders ==
  {Edits(p, a) : <<p, a>> \in {x \in Publication \X Author : x[2] \in Listed(x[1])}}
  \cup {Moves(x[1], x[2], x[3]) :
          x \in {y \in Publication \X Publication \X Author :
                   y[1] # y[2] /\ y[3] \in Listed(y[1])}}
  \cup {WritesAll(p) : p \in Publication}
  \cup {Repairs(P) : P \in (SUBSET Publication) \ {{}}}
  \cup {Renames(u) : u \in Person}
  \cup {Rechecks(x[1], x[2]) : x \in {y \in Person \X Author : y[2] \in Account[y[1]]}}
  \cup {CatchesUp}

-----------------------------------------------------------------------------
Idle(t) == want[t] = << >> /\ held[t] = {}

Begins(t, order) ==
  /\ Idle(t)
  /\ want' = [want EXCEPT ![t] = order]
  /\ UNCHANGED held

\* A row that is free, or locked by this transaction already.
Locks(t) ==
  /\ want[t] # << >>
  /\ \A s \in Transaction \ {t} : Head(want[t]) \notin held[s]
  /\ held' = [held EXCEPT ![t] = held[t] \cup {Head(want[t])}]
  /\ want' = [want EXCEPT ![t] = Tail(want[t])]

\* Commit, or any failure.
Ends(t) ==
  /\ held[t] # {}
  /\ held' = [held EXCEPT ![t] = {}]
  /\ want' = [want EXCEPT ![t] = << >>]

Next == \E t \in Transaction :
  \/ \E order \in Orders : Begins(t, order)
  \/ Locks(t)
  \/ Ends(t)

Spec == Init /\ [][Next]_vars

-----------------------------------------------------------------------------
(* Properties *)

Waits(t, s) == s # t /\ want[t] # << >> /\ Head(want[t]) \in held[s]

\* "Lock publications in primary-key order, then authors" (author_mutations.py:3), and a
\* name change locks its rows "in primary-key order -- the order every other author
\* writer uses" (display_names.py:14-15): transactions never wait for each other in a
\* circle.  An edit locks the row it is about before the rest of its list, though, and
\* that is not key order however the list is ordered.
NoWaitCycle ==
  ~\E ring \in SUBSET Transaction :
     /\ ring # {}
     /\ \A t \in ring : \E s \in ring : Waits(t, s)

=============================================================================
