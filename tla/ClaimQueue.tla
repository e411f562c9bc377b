----------------------------- MODULE ClaimQueue -----------------------------
(***************************************************************************)
(* What a scoring run puts in the claim queue as the evidence changes:     *)
(* people join and leave projects and go inactive, rows are credited and   *)
(* decided, and score_author_claims runs in between.                       *)
(*                                                                         *)
(* A run is one action here.  Attribution lets the other writers interleave *)
(* with it and takes the scores as given; this module takes the            *)
(* interleavings as settled and computes the scores.                       *)
(***************************************************************************)
EXTENDS ClaimScoring

CONSTANTS
  Author,          \* Author rows
  Paper,           \* publications
  Person,          \* ApiUser rows
  Project,
  PaperOf,         \* PaperOf[a]: the publication of row a
  Byline,          \* Byline[a]: the name printed for row a
  ProjectOf,       \* ProjectOf[p]: the project of publication p, or Null
  NameOf,          \* NameOf[u]: the name of person u in the directory
  Cited,           \* the people with a Google Scholar or Scopus identifier
  Later,           \* Later[u]: the people whose uuid sorts after u's
  MaxDecided,      \* bound on the decided pairs
  MaxSuggestions,  \* MAX_SUGGESTIONS_PER_AUTHOR
  Null

VARIABLES
  person,  \* person[u]: the ApiUser row and its membership history
  credit,  \* credit[a]: Author.fabric_uuid
  claim,   \* claim[<<a, u>>]: status and score of the pair's AuthorClaim, or Null
  last     \* the kind of the last run, or "changed" when something else came after

vars == <<person, credit, claim, last>>

Token == Seq(STRING) \ {<<>>}

ASSUME Names ==
  NameOf \in [Person -> [given : Seq(Token), family : Seq(Token), suffix : Seq(Token)]]

\* Uuids are ordered, and only so many people are on record.
ASSUME Uuids ==
  /\ IsFiniteSet(Person) /\ MaxSuggestions \in Nat
  /\ \A u \in Person : u \notin Later[u] /\ \A v \in Later[u] : Later[v] \subseteq Later[u]

ASSUME Absence == Null \notin [status : {"suggested", "credited", "rejected"}, score : Int]

Pair == Author \X Person
Decided == {"credited", "rejected"}   \* approved and self_asserted are one here

\* The directory has been synced; nobody has left a project yet, nobody has claimed
\* anything.
Init ==
  /\ \E on \in [Person -> SUBSET Project] :
       person = [u \in Person |-> [active |-> TRUE, projects |-> on[u], ever |-> on[u]]]
  /\ credit = [a \in Author |-> Null]
  /\ claim = [k \in Pair |-> Null]
  /\ last = "changed"

IsDecided(k)   == claim[k] # Null /\ claim[k].status \in Decided
IsSuggested(k) == claim[k] # Null /\ claim[k].status = "suggested"
RoomToDecide(k) == IsDecided(k) \/ Cardinality({x \in Pair : IsDecided(x)}) < MaxDecided

\* The directory writes given names first.
Account == [u \in Person |-> DirectOrder(NameOf[u])]

\* What the names alone say of each pair.
NamePoints == [a \in Author |-> [u \in Person |-> NameCompatibility(Byline[a], Account[u])]]

-----------------------------------------------------------------------------
(* The evidence *)

PersonBecomes(u, row) ==
  /\ row # person[u]
  /\ person' = [person EXCEPT ![u] = row]
  /\ last' = "changed"
  /\ UNCHANGED <<credit, claim>>

\* Slip: the history follows the current list.
ObserveCurrentOnly(u, on) ==
  PersonBecomes(u, [person[u] EXCEPT !.projects = on, !.ever = on])

\* A sync or a login writes the person's current projects and records them all in
\* the membership history.
Observe(u, on) ==
  PersonBecomes(u, [person[u] EXCEPT !.projects = on, !.ever = @ \cup on])

\* The directory says the person is gone, or back.
SetActive(u, active) == PersonBecomes(u, [person[u] EXCEPT !.active = active])

-----------------------------------------------------------------------------
(* Decisions, as Attribution has them *)

\* The suggestions of row a go, but for person u's.
Settled(cl, a, u) ==
  [k \in Pair |-> IF k[1] = a /\ k[2] # u /\ IsSuggested(k) THEN Null ELSE cl[k]]
Decide(a, u, status) == [claim EXCEPT ![<<a, u>>] = [status |-> status, score |-> 0]]

\* A suggestion approved, a row claimed by its author, or credited by an admin.
Claim(a, u) ==
  /\ credit[a] = Null /\ RoomToDecide(<<a, u>>)
  /\ credit' = [credit EXCEPT ![a] = u]
  /\ claim' = Settled(Decide(a, u, "credited"), a, u)
  /\ last' = "changed"
  /\ UNCHANGED person

Reject(a, u) ==
  /\ IsSuggested(<<a, u>>) /\ RoomToDecide(<<a, u>>)
  /\ claim' = Decide(a, u, "rejected")
  /\ last' = "changed"
  /\ UNCHANGED <<person, credit>>

\* An admin clears a credit; the decision stays.
Release(a) ==
  /\ credit[a] # Null
  /\ credit' = [credit EXCEPT ![a] = Null]
  /\ claim' = Settled(claim, a, Null)
  /\ last' = "changed"
  /\ UNCHANGED person

-----------------------------------------------------------------------------
(* A scoring run *)

\* Slip: what a machine suggested spreads like what a person decided.
CreditsAndGuesses == {<<k[2], PaperOf[k[1]]>> : k \in {x \in Pair :
                         x[2] = credit[x[1]] \/ IsSuggested(x)}}

\* The source of the co-authorship graph: the rows with a fabric_uuid.
Credits == {<<credit[a], PaperOf[a]>> : a \in {x \in Author : credit[x] # Null}}

ScoreOf(a, u) ==
  LET paper == PaperOf[a]
  IN ScorePair(NamePoints[a][u], ProjectOf[paper], person[u].projects, person[u].ever,
               u \in Reach(Credits, paper), u \in Cited)

\* candidates_for_author, best first: the score, then the uuid.  The list is cut before
\* decided pairs are skipped, so a rejected person keeps a place.
Ranked(a) ==
  LET score == [u \in Person |-> ScoreOf(a, u)]
      candidates == {u \in Person : person[u].active /\ score[u] >= MinScore}
      Ahead(u) == {v \in candidates : \/ score[v] > score[u]
                                      \/ score[v] = score[u] /\ u \in Later[v]}
  IN {u \in candidates : Cardinality(Ahead(u)) < MaxSuggestions}

\* The claims once the authors in `scored` have been scored: decided pairs stand, a
\* suggestion that does not score, or whose author is not scored, is withdrawn.
QueueAfter(scored) ==
  LET ranked == [a \in scored |-> Ranked(a)]
  IN [k \in Pair |->
        IF IsDecided(k) THEN claim[k]
        ELSE IF k[1] \in scored /\ k[2] \in ranked[k[1]]
        THEN [status |-> "suggested", score |-> ScoreOf(k[1], k[2])] ELSE Null]

\* --full scores every author, otherwise those nobody is credited with.
Run(kind) ==
  /\ claim' = QueueAfter(IF kind = "full" THEN Author
                         ELSE {a \in Author : credit[a] = Null})
  /\ last' = kind
  /\ UNCHANGED <<person, credit>>

-----------------------------------------------------------------------------

Next ==
  \/ \E u \in Person, on \in SUBSET Project : Observe(u, on)
  \/ \E u \in Person, active \in BOOLEAN : SetActive(u, active)
  \/ \E a \in Author, u \in Person : Claim(a, u)
  \/ \E a \in Author, u \in Person : Reject(a, u)
  \/ \E a \in Author : Release(a)
  \/ \E kind \in {"run", "full"} : Run(kind)

Spec == Init /\ [][Next]_vars

-----------------------------------------------------------------------------
(* Properties *)

\* A second run with nothing changed in between writes nothing: the scorer does not
\* feed on its own suggestions, and the queue does not churn every night.
QuietRerun == [][last # "changed" /\ last' = last => claim' = claim]_vars

\* Leaving a project lowers no score: a step that changes only what people are
\* observed on leaves every pair at least where it was.  The sync that applies a removal
\* keeps the evidence in the same transaction.
LeavingLowersNothing ==
  [][credit' = credit /\ person' # person
     => \A u \in Person : person'[u] # person[u] =>
          \A a \in Author : ScoreOf(a, u)' >= ScoreOf(a, u)]_vars

\* Papers in common and a Scholar identifier do not queue a person whose given name
\* contradicts the byline: that takes the paper's project.
ConflictNeedsProject ==
  \A a \in Author, u \in Person :
    /\ last # "changed" /\ IsSuggested(<<a, u>>)
    /\ NamePoints[a][u] = GivenMismatch
    => ProjectOf[PaperOf[a]] \in person[u].ever

\* Both parts of a name are there, and its suffix, nothing else, reads as one.
FullName(n) ==
  /\ n.given # <<>> /\ n.family # <<>>
  /\ \A i \in DOMAIN n.given : ~IsOneOf(n.given[i], Suffix)
  /\ \A i \in DOMAIN n.family : ~IsOneOf(n.family[i], Suffix)
  /\ \A i \in DOMAIN n.suffix : IsOneOf(n.suffix[i], Suffix)

\* Nobody is missed under their own name: after a run, an unclaimed row printed with a
\* person's full name, in either order, is decided or queued for them, unless others took
\* the places.  Two names are the exception: a last given name that is also a surname
\* particle ("Wang, Di"), which the directory's order reads as part of the surname, and a
\* first given name the directory holds as an initial, which alone scores too little.
OwnNameQueued ==
  \A a \in Author, u \in Person :
    LET n == NameOf[u]
    IN /\ last = "run" /\ credit[a] = Null /\ person[u].active
       /\ FullName(n) /\ Byline[a] \in {CommaOrder(n), DirectOrder(n)}
       /\ ~IsOneOf(n.given[Len(n.given)], Particle) /\ ~IsOneOf(n.given[1], Initial)
       => \/ claim[<<a, u>>] # Null
          \/ Cardinality({v \in Person \ {u} : claim[<<a, v>>] # Null}) >= MaxSuggestions

=============================================================================
