---------------------------- MODULE Attribution ----------------------------
(***************************************************************************)
(* Who a paper's author rows are credited to, and the ledger that accounts *)
(* for it: Publication.authors, the Author rows, the AuthorClaim rows and  *)
(* the AuthorCorrection snapshots, under every writer of the application.  *)
(*                                                                         *)
(* One action is one database transaction.  Every transaction that writes  *)
(* an Author row or decides one of its claims holds that row's lock (and   *)
(* the publication's, when the author list changes), so transactions on    *)
(* the same data are serial.  What is NOT atomic is what the code reads    *)
(* before it locks, and each such reader is a process with its own state:  *)
(*   - an author edit reads the row's publication, then locks (Edit);      *)
(*   - the claim queue reads authors, then their suggestions, renders the  *)
(*     page, and somebody decides from it (Queue);                         *)
(*   - the nightly scorer reads authors, then claims, then persists one    *)
(*     pair per transaction, then withdraws what it did not see (Scorer).  *)
(***************************************************************************)
EXTENDS Integers, FiniteSets, SequencesExt

CONSTANTS
  Pub,            \* publications
  Row,            \* primary keys of Author rows
  Person,         \* ApiUser rows; the directory never deletes one
  Name,           \* bylines
  ClaimId,        \* primary keys of AuthorClaim rows
  Edit,           \* author edit requests that can be in flight at once
  Queue,          \* claim queue requests that can be in flight at once
  Scorer,         \* score_author_claims processes
  Unclaimed,      \* the values of fabric_uuid that credit nobody
  MaxAuthors,     \* bound on an author list
  MaxSuggestions, \* MAX_SUGGESTIONS_PER_AUTHOR
  Null,           \* SQL NULL
  NoRow,          \* no Author row, no publication, no claim, no request
  NoPub,
  NoClaim,
  Idle

VARIABLES
  authors,   \* authors[p]: Publication.authors, or NoPub
  author,    \* author[r]: the Author row, or NoRow
  claim,     \* claim[<<r, u>>]: the AuthorClaim of that pair, or NoClaim
  recorded,  \* the AuthorCorrection rows the last transaction inserted
  edit,      \* edit[e]: an author edit between its first read and its locks
  queue,     \* queue[q]: a claim queue page, half read or about to be decided from
  scorer     \* scorer[s]: what a scoring run has read and still has to do

vars == <<authors, author, claim, recorded, edit, queue, scorer>>

-----------------------------------------------------------------------------
(* Types *)

Basis    == [name : Name, pub : Pub]
Credit   == Person \cup Unclaimed
Status   == {"suggested", "approved", "rejected", "self_asserted"}
Crediting == {"approved", "self_asserted"}
Decided  == Status \ {"suggested"}
AuthorRow == [name : Name, pub : Pub, credit : Credit, order : Nat]

\* `basis` stands for score and signals: the byline and the publication they were
\* computed from.  It is dropped on a decision, after which nothing reads it.
ClaimRow == [id : ClaimId, status : Status, source : {"machine", "self", "admin"},
             basis : Basis \cup {Null}]

Snapshot == [row : Row, credit : Credit, status : [Person -> Status \cup {"none"}]]

\* A page once its authors are read, and with a suggestion once those are read too:
\* `seen` is the byline and publication it shows, `scored` the basis of the score and
\* the reasons it shows, and `torn` notes that the row was another in between.
HalfPage == [row : Row, seen : Basis, person : {Null}, id : {Null}, scored : {Null},
             torn : {FALSE}]
FullPage == [row : Row, seen : Basis, person : Person, id : ClaimId,
             scored : Basis \cup {Null}, torn : BOOLEAN]

ScorerState == [phase : {"idle", "authors", "claims"},
                snap  : [Row -> Basis \cup {Null}],
                todo  : SUBSET (Row \X Person),
                stale : SUBSET ClaimId]

Resting == [phase |-> "idle", snap |-> [r \in Row |-> Null], todo |-> {}, stale |-> {}]

ASSUME Constants ==
  /\ ClaimId \subseteq Nat
  /\ MaxAuthors \in Nat /\ MaxSuggestions \in Nat
  /\ Null \in Unclaimed /\ Person \cap Unclaimed = {}

\* The values that stand for "no row" are none of the rows.
ASSUME Absences ==
  /\ NoRow \notin AuthorRow
  /\ NoClaim \notin ClaimRow
  /\ NoPub \notin Seq(Row)
  /\ Null \notin Basis
  /\ Idle \notin [row : Row, pub : Pub]
  /\ Idle \notin HalfPage \cup FullPage

TypeOK ==
  /\ authors \in [Pub -> Seq(Row) \cup {NoPub}]
  /\ author \in [Row -> AuthorRow \cup {NoRow}]
  /\ claim \in [Row \X Person -> ClaimRow \cup {NoClaim}]
  /\ recorded \subseteq Snapshot
  /\ edit \in [Edit -> [row : Row, pub : Pub] \cup {Idle}]
  /\ queue \in [Queue -> HalfPage \cup FullPage \cup {Idle}]
  /\ scorer \in [Scorer -> ScorerState]

Init ==
  /\ authors = [p \in Pub |-> NoPub]
  /\ author = [r \in Row |-> NoRow]
  /\ claim = [k \in Row \X Person |-> NoClaim]
  /\ recorded = {}
  /\ edit = [e \in Edit |-> Idle]
  /\ queue = [q \in Queue |-> Idle]
  /\ scorer = [s \in Scorer |-> Resting]

-----------------------------------------------------------------------------
(* State functions *)

LivePub == {p \in Pub : authors[p] # NoPub}
Live    == {r \in Row : author[r] # NoRow}
BasisOf(r) == [name |-> author[r].name, pub |-> author[r].pub]

StatusOf(r, u) == IF claim[<<r, u>>] = NoClaim THEN "none" ELSE claim[<<r, u>>].status
Suggested(k)   == claim[k] # NoClaim /\ claim[k].status = "suggested"
HasDecision(r) == \E u \in Person : StatusOf(r, u) \in Decided
HasHistoryByCredit(r) == author[r].credit \in Person  \* slip: decisions forgotten
HasHistory(r)  == author[r].credit \in Person \/ HasDecision(r)

SnapshotOf(r) == [row |-> r, credit |-> author[r].credit,
                  status |-> [u \in Person |-> StatusOf(r, u)]]

\* The page has a suggestion to decide.
Shown(q) == queue[q] # Idle /\ queue[q].person # Null

\* A primary key is fresh while no row has it and no process still holds it: a deleted
\* key that nobody holds is as good as one never used.  The least fresh claim key is
\* taken, the database's sequence up to renaming.
HeldRows == {edit[e].row : e \in {x \in Edit : edit[x] # Idle}}
            \cup {queue[q].row : q \in {x \in Queue : queue[x] # Idle}}
            \cup {r \in Row : \E s \in Scorer : scorer[s].snap[r] # Null}
FreshRow == Row \ (Live \cup HeldRows)

UsedIds == {claim[k].id : k \in {x \in Row \X Person : claim[x] # NoClaim}}
           \cup {queue[q].id : q \in {x \in Queue : Shown(x)}}
           \cup UNION {scorer[s].stale : s \in Scorer}
FreshId(id) == /\ id \in ClaimId \ UsedIds
               /\ \A other \in ClaimId \ UsedIds : id <= other

-----------------------------------------------------------------------------
(* The claim ledger's verbs, as functions of the claims table *)

\* withdraw_suggestions: the standing suggestions of the rows in R go, but for
\* those of the people in keep.
Withdraw(cl, R, keep) ==
  [k \in Row \X Person |->
     IF k[1] \in R /\ k[2] \notin keep /\ cl[k] # NoClaim /\ cl[k].status = "suggested"
     THEN NoClaim ELSE cl[k]]

\* Slip: any decided claim stands, a rejected one included.
RecordKeepsDecided(cl, r, u, status, source, id) ==
  IF cl[<<r, u>>] # NoClaim /\ cl[<<r, u>>].status \in Decided
  THEN cl
  ELSE [cl EXCEPT ![<<r, u>>] =
          [id |-> IF cl[<<r, u>>] = NoClaim THEN id ELSE cl[<<r, u>>].id,
           status |-> status, source |-> source, basis |-> Null]]

\* _record: an approved or self-asserted claim stands; any other is promoted in
\* place, and a missing one is inserted with key id.
Record(cl, r, u, status, source, id) ==
  IF cl[<<r, u>>] # NoClaim /\ cl[<<r, u>>].status \in Crediting
  THEN cl
  ELSE [cl EXCEPT ![<<r, u>>] =
          [id |-> IF cl[<<r, u>>] = NoClaim THEN id ELSE cl[<<r, u>>].id,
           status |-> status, source |-> source, basis |-> Null]]

\* Deleting an Author row takes its claims with it (on_delete=CASCADE).
Cascade(cl, R) ==
  [k \in Row \X Person |-> IF k[1] \in R THEN NoClaim ELSE cl[k]]

-----------------------------------------------------------------------------
(* Author lists *)

Listed(s)     == {s[i] : i \in DOMAIN s}
IndexIn(s, r) == CHOOSE i \in DOMAIN s : s[i] = r
Without(s, r) == IF r \in Listed(s) THEN RemoveAt(s, IndexIn(s, r)) ELSE s
Placed(s, r, position) == InsertAt(s, position + 1, r)

\* Slip: author_order is counted from one past the first author.
RenumberOffByOne(au, s) ==
  [r \in Row |-> IF r \in Listed(s) THEN [au[r] EXCEPT !.order = IndexIn(s, r) - 2]
                 ELSE au[r]]

\* _save_membership writes each listed row's position into its author_order.
Renumber(au, s) ==
  [r \in Row |-> IF r \in Listed(s) THEN [au[r] EXCEPT !.order = IndexIn(s, r) - 1]
                 ELSE au[r]]

\* _sync_authors pairs the positions of a new list of names with the positions of the
\* stored list: first the n-th use of a name with the n-th row bearing it, then what
\* is left over on each side, in order.
Bylines(s) == [i \in DOMAIN s |-> author[s[i]].name]
Occurrence(s, i) == Cardinality({j \in DOMAIN s : j <= i /\ s[j] = s[i]})
Rank(S, i) == Cardinality({j \in S : j <= i})

\* Slip: the rows bearing a name are taken from the end of the list (pop, not popleft).
ExactMatchPops(names, s) ==
  {m \in (DOMAIN names) \X (DOMAIN s) :
     /\ names[m[1]] = Bylines(s)[m[2]]
     /\ Occurrence(names, m[1]) = Occurrence(Reverse(Bylines(s)), Len(s) + 1 - m[2])}

ExactMatch(names, s) ==
  {m \in (DOMAIN names) \X (DOMAIN s) :
     /\ names[m[1]] = Bylines(s)[m[2]]
     /\ Occurrence(names, m[1]) = Occurrence(Bylines(s), m[2])}
OpenSlots(names, s) == (DOMAIN names) \ {m[1] : m \in ExactMatch(names, s)}
LeftOver(names, s)  == (DOMAIN s) \ {m[2] : m \in ExactMatch(names, s)}
Reused(names, s) ==
  {m \in OpenSlots(names, s) \X LeftOver(names, s) :
     Rank(OpenSlots(names, s), m[1]) = Rank(LeftOver(names, s), m[2])}

\* slots is an author list that keeps the paired rows of s, and takes a fresh row for
\* every other position.
FillsSlots(slots, s, kept) ==
  /\ \A i, j \in DOMAIN slots : slots[i] = slots[j] => i = j
  /\ \A m \in kept : slots[m[1]] = s[m[2]]
  /\ \A i \in (DOMAIN slots) \ {m[1] : m \in kept} : slots[i] \in FreshRow

\* Slip: every row of the list is written anew.
ListWrittenAnew(p, slots, names, before) ==
  [r \in Row |->
     IF r \in Listed(slots)
     THEN [name |-> names[IndexIn(slots, r)], pub |-> p, order |-> IndexIn(slots, r) - 1,
           credit |-> Null]
     ELSE IF r \in before THEN NoRow ELSE author[r]]

\* The Author table once p lists slots under names; the rows p listed before and
\* lists no more are deleted.
ListWritten(p, slots, names, before) ==
  [r \in Row |->
     IF r \in Listed(slots)
     THEN LET i == IndexIn(slots, r)
          IN [name |-> names[i], pub |-> p, order |-> i - 1,
              credit |-> IF r \in before THEN author[r].credit ELSE Null]
     ELSE IF r \in before THEN NoRow ELSE author[r]]

NameList == UNION {[1..n -> Name] : n \in 1..MaxAuthors}


-----------------------------------------------------------------------------
(* Publications *)

CreatePublication(p, names) ==
  /\ p \notin LivePub
  /\ \E slots \in [DOMAIN names -> FreshRow] :
       /\ FillsSlots(slots, <<>>, {})
       /\ authors' = [authors EXCEPT ![p] = slots]
       /\ author' = ListWritten(p, slots, names, {})
  /\ recorded' = {}
  /\ UNCHANGED <<claim, edit, queue, scorer>>

\* A new list of names for p.  A row that no name matches exactly must have no
\* history: it is renamed, losing its suggestions, or deleted.
UpdatePublication(p, names) ==
  LET before == authors[p]
      reused == Reused(names, before)
      kept   == ExactMatch(names, before) \cup reused
  IN /\ p \in LivePub
     /\ \A j \in LeftOver(names, before) : ~HasHistory(before[j])
     /\ \E slots \in [DOMAIN names -> FreshRow \cup Listed(before)] :
          /\ FillsSlots(slots, before, kept)
          /\ authors' = [authors EXCEPT ![p] = slots]
          /\ author' = ListWritten(p, slots, names, Listed(before))
          /\ claim' = Cascade(Withdraw(claim, {before[m[2]] : m \in reused}, {}),
                              Listed(before) \ Listed(slots))
     /\ recorded' = {}
     /\ UNCHANGED <<edit, queue, scorer>>

\* Deleting a publication deletes its authors; each one with history needs an
\* admin's reason, and leaves a snapshot behind.
DeletePublication(p) ==
  LET rows == {r \in Live : author[r].pub = p}
  IN /\ p \in LivePub
     /\ recorded' = {SnapshotOf(r) : r \in {x \in rows : HasHistory(x)}}
     /\ authors' = [authors EXCEPT ![p] = NoPub]
     /\ author' = [r \in Row |-> IF r \in rows THEN NoRow ELSE author[r]]
     /\ claim' = Cascade(claim, rows)
     /\ UNCHANGED <<edit, queue, scorer>>

-----------------------------------------------------------------------------
(* mutate_author *)

\* The request reads which publication the row is on, holding no lock yet.
EditStarts(e, r) ==
  /\ edit[e] = Idle /\ r \in Live
  /\ edit' = [edit EXCEPT ![e] = [row |-> r, pub |-> author[r].pub]]
  /\ recorded' = {}
  /\ UNCHANGED <<authors, author, claim, queue, scorer>>

\* Slip: the publication read before the locks is trusted.
RelockedUnmoved(e) ==
  /\ edit[e] # Idle
  /\ edit[e].row \in Live
  /\ edit[e].pub \in LivePub

\* With its locks held the request finds the row where it first read it; otherwise
\* "This author moved during the edit".
Relocked(e) ==
  /\ edit[e] # Idle
  /\ edit[e].row \in Live
  /\ edit[e].pub \in LivePub
  /\ author[edit[e].row].pub = edit[e].pub

EditDone(e) == edit' = [edit EXCEPT ![e] = Idle]

Credited(c) == IF c \in Person THEN c ELSE Null
Attributes(r, credit) == Credited(credit) # Credited(author[r].credit)
Moves(r, name, pub) == name # author[r].name \/ pub # author[r].pub

\* Slip: only a credit that stands is worth a snapshot when it changes.
CorrectsStandingCredit(r, name, pub, credit) ==
  \/ HasHistory(r) /\ Moves(r, name, pub)
  \/ author[r].credit \in Person /\ Attributes(r, credit)

\* Slip: only a change of byline or publication is a correction.
CorrectsIdentity(r, name, pub, credit) == HasHistory(r) /\ Moves(r, name, pub)

\* requires_correction, or the automatic snapshot of a decision this credit may
\* supersede.
Corrects(r, name, pub, credit) ==
  HasHistory(r) /\ (Moves(r, name, pub) \/ Attributes(r, credit))

\* Save r as `new` at `position` of new.pub's list, and off old's list.
SaveAuthor(r, new, old, position) ==
  LET left == [authors EXCEPT ![old] = Without(@, r)]
      list == [left EXCEPT ![new.pub] = Placed(Without(@, r), r, position)]
  IN /\ authors' = list
     /\ author' = Renumber(Renumber([author EXCEPT ![r] = new], list[old]), list[new.pub])

Room(r, pub) == Len(Without(authors[pub], r))

\* An admin's edit: any of byline, publication, credit and position.  The position is
\* the one asked for, the one the row has, or the end of the list.
AdminEdits(e, name, pub, credit) ==
  /\ Relocked(e)
  /\ pub \in LivePub
  /\ LET r == edit[e].row
     IN /\ Room(r, pub) < MaxAuthors
        /\ \E position \in 0..Room(r, pub) :
             SaveAuthor(r, [author[r] EXCEPT !.name = name, !.pub = pub, !.credit = credit],
                        edit[e].pub, position)
        /\ \E id \in ClaimId :
             LET moved == IF Moves(r, name, pub) THEN Withdraw(claim, {r}, {}) ELSE claim
             IN /\ FreshId(id)
                /\ claim' = IF ~Attributes(r, credit) THEN moved
                            ELSE Withdraw(IF credit \in Person
                                          THEN Record(moved, r, credit, "approved", "admin", id)
                                          ELSE moved, {r}, {})
        /\ recorded' = IF Corrects(r, name, pub, credit) THEN {SnapshotOf(r)} ELSE {}
  /\ EditDone(e)
  /\ UNCHANGED <<queue, scorer>>

\* A user credits the row to themselves: immediate, unless somebody else holds it.
SelfClaims(e, u) ==
  /\ Relocked(e)
  /\ LET r == edit[e].row
         list == authors[author[r].pub]
         position == IF r \in Listed(list) THEN IndexIn(list, r) - 1 ELSE Len(list)
     IN /\ author[r].credit \in Unclaimed \cup {u}
        /\ SaveAuthor(r, [author[r] EXCEPT !.credit = u], edit[e].pub, position)
        /\ \E id \in ClaimId :
             /\ FreshId(id)
             /\ claim' = Withdraw(Record(claim, r, u, "self_asserted", "self", id), {r}, {u})
        /\ recorded' = IF Corrects(r, author[r].name, author[r].pub, u)
                       THEN {SnapshotOf(r)} ELSE {}
  /\ EditDone(e)
  /\ UNCHANGED <<queue, scorer>>

AdminDeletes(e) ==
  /\ Relocked(e)
  /\ LET r == edit[e].row
         list == Without(authors[edit[e].pub], r)
     IN /\ authors' = [authors EXCEPT ![edit[e].pub] = list]
        /\ author' = Renumber([author EXCEPT ![r] = NoRow], list)
        /\ claim' = Cascade(claim, {r})
        /\ recorded' = IF HasHistory(r) THEN {SnapshotOf(r)} ELSE {}
  /\ EditDone(e)
  /\ UNCHANGED <<queue, scorer>>

\* A new author row on an existing publication.
AdminCreates(r, name, pub, credit) ==
  /\ r \in FreshRow /\ pub \in LivePub
  /\ Room(r, pub) < MaxAuthors
  /\ \E position \in 0..Room(r, pub) :
       SaveAuthor(r, [name |-> name, pub |-> pub, credit |-> credit, order |-> 0],
                  pub, position)
  /\ \E id \in ClaimId :
       /\ FreshId(id)
       /\ claim' = IF credit \in Person
                   THEN Record(claim, r, credit, "approved", "admin", id) ELSE claim
  /\ recorded' = {}
  /\ UNCHANGED <<edit, queue, scorer>>

\* Any refusal, error or lost connection: the whole transaction is rolled back.
EditEnds(e) ==
  /\ edit[e] # Idle
  /\ EditDone(e)
  /\ recorded' = {}
  /\ UNCHANGED <<authors, author, claim, queue, scorer>>

-----------------------------------------------------------------------------
(* The claim queue *)

\* The first query of a page: an author with a suggestion, as it is now.
QueueReads(q, r) ==
  /\ queue[q] = Idle /\ r \in Live
  /\ \E u \in Person : Suggested(<<r, u>>)
  /\ queue' = [queue EXCEPT ![q] = [row |-> r, seen |-> BasisOf(r), person |-> Null,
                                    id |-> Null, scored |-> Null, torn |-> FALSE]]
  /\ recorded' = {}
  /\ UNCHANGED <<authors, author, claim, edit, scorer>>

\* The second query, in no transaction with the first: a suggestion the author has by
\* now.  (The third looks the publication up by the uuid that the first one read.)
QueueShows(q, u) ==
  /\ queue[q] # Idle /\ ~Shown(q)
  /\ Suggested(<<queue[q].row, u>>)
  /\ LET c == claim[<<queue[q].row, u>>]
     IN queue' = [queue EXCEPT ![q] = [row |-> queue[q].row, seen |-> queue[q].seen,
                                       person |-> u, id |-> c.id, scored |-> c.basis,
                                       torn |-> BasisOf(queue[q].row) # queue[q].seen]]
  /\ recorded' = {}
  /\ UNCHANGED <<authors, author, claim, edit, scorer>>

\* Slip: the suggestion is found again by author and person, not by its key.
DecidableByPair(q) ==
  /\ Shown(q)
  /\ queue[q].row \in Live
  /\ Suggested(<<queue[q].row, queue[q].person>>)

\* _lock_current_suggestion, and the is_decided check both decisions make under it.
Decidable(q) ==
  /\ Shown(q)
  /\ queue[q].row \in Live
  /\ Suggested(<<queue[q].row, queue[q].person>>)
  /\ claim[<<queue[q].row, queue[q].person>>].id = queue[q].id

Decide(cl, r, u, status) ==
  [cl EXCEPT ![<<r, u>>] = [id |-> cl[<<r, u>>].id, status |-> status,
                        source |-> cl[<<r, u>>].source, basis |-> Null]]

ApproveSuggestion(q) ==
  /\ Decidable(q)
  /\ LET r == queue[q].row
         u == queue[q].person
     IN /\ author[r].credit \in Unclaimed \cup {u}
        /\ author' = [author EXCEPT ![r].credit = u]
        /\ claim' = Withdraw(Decide(claim, r, u, "approved"), {r}, {u})
  /\ queue' = [queue EXCEPT ![q] = Idle]
  /\ recorded' = {}
  /\ UNCHANGED <<authors, edit, scorer>>

RejectSuggestion(q) ==
  /\ Decidable(q)
  /\ claim' = Decide(claim, queue[q].row, queue[q].person, "rejected")
  /\ queue' = [queue EXCEPT ![q] = Idle]
  /\ recorded' = {}
  /\ UNCHANGED <<authors, author, edit, scorer>>

\* The page has no suggestion to show any more or is closed, or the decision refused.
QueueEnds(q) ==
  /\ queue[q] # Idle
  /\ queue' = [queue EXCEPT ![q] = Idle]
  /\ recorded' = {}
  /\ UNCHANGED <<authors, author, claim, edit, scorer>>

-----------------------------------------------------------------------------
(* The nightly scorer, without --full *)

\* Under the advisory lock: read the authors whose fabric_uuid is NULL.
ScoreReadsAuthors(s) ==
  /\ \A other \in Scorer : scorer[other].phase = "idle"
  /\ scorer' = [scorer EXCEPT ![s] =
       [phase |-> "authors", todo |-> {}, stale |-> {},
        snap |-> [r \in Row |-> IF r \in Live /\ author[r].credit = Null
                                THEN BasisOf(r) ELSE Null]]]
  /\ recorded' = {}
  /\ UNCHANGED <<authors, author, claim, edit, queue>>

\* Read the claims.  Which people score is taken as given: any at all, at most
\* MaxSuggestions for an author.  Decided pairs are skipped; a suggestion that
\* does not score is to be withdrawn.
ScoreReadsClaims(s, ranked) ==
  /\ scorer[s].phase = "authors"
  /\ \A k \in ranked : scorer[s].snap[k[1]] # Null
  /\ \A r \in Row : Cardinality({k \in ranked : k[1] = r}) <= MaxSuggestions
  /\ scorer' = [scorer EXCEPT ![s] =
       [phase |-> "claims", snap |-> scorer[s].snap,
        todo |-> {k \in ranked : StatusOf(k[1], k[2]) \notin Decided},
        stale |-> {claim[k].id : k \in {x \in (Row \X Person) \ ranked : Suggested(x)}}]]
  /\ recorded' = {}
  /\ UNCHANGED <<authors, author, claim, edit, queue>>

\* Slips: the credit, or the byline and the publication, are not read again.
UnchangedButCredit(s, r) == r \in Live /\ BasisOf(r) = scorer[s].snap[r]
UnchangedButBasis(s, r)  == r \in Live /\ author[r].credit = Null

\* persist_suggestion: the author and the claim are read again under the author's
\* lock, and a row that changed or a pair decided meanwhile is left alone.
Unchanged(s, r) == r \in Live /\ author[r].credit = Null /\ BasisOf(r) = scorer[s].snap[r]

ScorePersists(s, k) ==
  /\ scorer[s].phase = "claims" /\ k \in scorer[s].todo
  /\ IF Unchanged(s, k[1]) /\ StatusOf(k[1], k[2]) \notin Decided
     THEN \E id \in ClaimId :
            /\ IF claim[k] = NoClaim THEN FreshId(id) ELSE id = claim[k].id
            /\ claim' = [claim EXCEPT ![k] = [id |-> id, status |-> "suggested",
                                              source |-> "machine",
                                              basis |-> scorer[s].snap[k[1]]]]
     ELSE claim' = claim
  /\ scorer' = [scorer EXCEPT ![s].todo = @ \ {k}]
  /\ recorded' = {}
  /\ UNCHANGED <<authors, author, edit, queue>>

\* Stale suggestions are deleted by key, and only while still suggestions.
ScoreWithdraws(s) ==
  /\ scorer[s].phase = "claims" /\ scorer[s].todo = {}
  /\ claim' = [k \in Row \X Person |->
                 IF Suggested(k) /\ claim[k].id \in scorer[s].stale THEN NoClaim ELSE claim[k]]
  /\ scorer' = [scorer EXCEPT ![s] = Resting]
  /\ recorded' = {}
  /\ UNCHANGED <<authors, author, edit, queue>>

\* The run is killed; what it committed stays, and its advisory lock goes.
ScoreDies(s) ==
  /\ scorer[s].phase # "idle"
  /\ scorer' = [scorer EXCEPT ![s] = Resting]
  /\ recorded' = {}
  /\ UNCHANGED <<authors, author, claim, edit, queue>>

-----------------------------------------------------------------------------

Next ==
  \/ \E p \in Pub, names \in NameList : CreatePublication(p, names)
  \/ \E p \in Pub, names \in NameList : UpdatePublication(p, names)
  \/ \E p \in Pub : DeletePublication(p)
  \/ \E e \in Edit, r \in Row : EditStarts(e, r)
  \/ \E e \in Edit, name \in Name, pub \in Pub, credit \in Credit :
       AdminEdits(e, name, pub, credit)
  \/ \E e \in Edit, u \in Person : SelfClaims(e, u)
  \/ \E e \in Edit : AdminDeletes(e)
  \/ \E r \in Row, name \in Name, pub \in Pub, credit \in Credit :
       AdminCreates(r, name, pub, credit)
  \/ \E e \in Edit : EditEnds(e)
  \/ \E q \in Queue, r \in Row : QueueReads(q, r)
  \/ \E q \in Queue, u \in Person : QueueShows(q, u)
  \/ \E q \in Queue : ApproveSuggestion(q)
  \/ \E q \in Queue : RejectSuggestion(q)
  \/ \E q \in Queue : QueueEnds(q)
  \/ \E s \in Scorer : ScoreReadsAuthors(s)
  \/ \E s \in Scorer, ranked \in SUBSET (Row \X Person) : ScoreReadsClaims(s, ranked)
  \/ \E s \in Scorer, k \in Row \X Person : ScorePersists(s, k)
  \/ \E s \in Scorer : ScoreWithdraws(s)
  \/ \E s \in Scorer : ScoreDies(s)

Spec == Init /\ [][Next]_vars


-----------------------------------------------------------------------------
(* Safety *)

\* Every credit is accounted for: the person in Author.fabric_uuid has an approved or
\* self-asserted claim on that row.  The credit and the claim are written by different
\* functions, in an order that differs by path (claim_ledger.py, author_mutations.py).
AttributionAccounted ==
  \A r \in Live : author[r].credit \in Person
                  => StatusOf(r, author[r].credit) \in Crediting

\* A credited row has no standing suggestion: deciding an author withdraws the others,
\* and a scoring run that began before the decision does not bring one back.
CreditSettlesQueue ==
  \A r \in Live, u \in Person : author[r].credit \in Person => ~Suggested(<<r, u>>)

\* A standing suggestion was computed from the byline and the publication its row has
\* now: renames and moves withdraw it, and the scorer does not write from a stale read.
SuggestionsDescribeRow ==
  \A k \in Row \X Person : Suggested(k) => /\ k[1] \in Live
                                           /\ claim[k].basis = BasisOf(k[1])

\* A decision that the queue would still accept is about the byline and publication its
\* row has now: the score and the reasons on the page were computed from them, even when
\* the suggestion was withdrawn and scored again meanwhile, and they are the ones the
\* page shows - unless the row was renamed or moved between the page's own two queries,
\* whereupon an old byline stands beside the score of the new one.
QueuePageHolds ==
  \A q \in Queue : Decidable(q) =>
    /\ queue[q].scored = BasisOf(queue[q].row)
    /\ queue[q].torn \/ queue[q].seen = BasisOf(queue[q].row)

\* Publication.authors and the Author rows agree: a list names live rows of its own
\* publication, at their author_order, and every row is on its publication's list.
MembershipConsistent ==
  /\ \A p \in LivePub : \A i \in DOMAIN authors[p] :
       /\ authors[p][i] \in Live
       /\ author[authors[p][i]].pub = p
       /\ author[authors[p][i]].order = i - 1
  /\ \A r \in Live : /\ author[r].pub \in LivePub
                     /\ r \in Listed(authors[author[r].pub])

\* The decision on a pair stands as it is, or the step records the row with it.
DecisionKept(r, u) ==
  \/ StatusOf(r, u)' = StatusOf(r, u) /\ claim'[<<r, u>>].source = claim[<<r, u>>].source
  \/ \E c \in recorded' : c.row = r /\ c.status[u] = StatusOf(r, u)

\* A decision is never lost: one that changes or disappears is in a correction snapshot
\* that the same transaction records.  Re-scoring, list edits and withdrawal never do it.
DecisionsKept ==
  [][\A r \in Row, u \in Person : StatusOf(r, u) \in Decided => DecisionKept(r, u)]_vars

\* Nobody loses a credit but through a correction that names them: not by approving
\* another suggestion, claiming the row, editing the list or deleting the publication.
CreditLeavesByCorrection ==
  [][\A r \in Live : author[r].credit \in Person =>
       \/ r \in Live' /\ author'[r].credit = author[r].credit
       \/ \E c \in recorded' : c.row = r /\ c.credit = author[r].credit]_vars

\* Two authors of one publication who print the same name are told apart by their order
\* alone: whatever a new list, or a repair, inserts, drops, reorders or renames around
\* them, the earlier row stays the earlier, and with it its credit and its decisions.
\* Only an author edit, which asks for a position, lets one pass the other.
Namesakes(r, s) == /\ author[r].pub = author[s].pub
                   /\ author[r].name = author[s].name
                   /\ author[r].order < author[s].order
NamesakesKeepOrder ==
  [][edit' = edit =>
       \A r, s \in Live :
         /\ Namesakes(r, s)
         /\ {r, s} \subseteq Live'
         /\ \A x \in {r, s} : author'[x].name = author[x].name /\ author'[x].pub = author[x].pub
         => Namesakes(r, s)']_vars

\* The ledger this module implements: a row's credit when it names a person, its decided
\* claims without the suggestions, and the corrections just recorded.
DecisionOf(status) == IF status = "suggested" THEN "none" ELSE status
CreditOf == [r \in Row |-> IF author[r] = NoRow THEN Null ELSE Credited(author[r].credit)]
DecisionsOf == [k \in Row \X Person |-> DecisionOf(StatusOf(k[1], k[2]))]
CorrectionsOf == {[row |-> c.row, credit |-> Credited(c.credit),
                   decision |-> [u \in Person |-> DecisionOf(c.status[u])]] : c \in recorded}

L == INSTANCE Ledger WITH Nobody <- Null, credit <- CreditOf, decision <- DecisionsOf,
                          recorded <- CorrectionsOf

\* Attribution implements Ledger: whatever writer takes a step, list edits, deletions,
\* re-scoring and stale queue pages included, each row's credit and decisions either
\* only grow or are replaced with the old ones on record.
LedgerKept == L!Spec

=============================================================================
