-------------------------- MODULE ClaimQueueProofs --------------------------
(***************************************************************************)
(* Proofs about ClaimQueue: the scorer does not feed on its own            *)
(* suggestions, leaving a project lowers no score, and a given name that   *)
(* contradicts the byline takes the paper's project.                       *)
(***************************************************************************)
EXTENDS ClaimQueue, FiniteSetTheorems, SequenceTheorems, WellFoundedInduction, TLAPS

-----------------------------------------------------------------------------
(* Scores *)

LEMMA NamePointsInt ==
  ASSUME NEW a \in Author, NEW u \in Person
  PROVE  NamePoints[a][u] \in Int
<1>1. NamePoints[a][u] = NameCompatibility(Byline[a], Account[u])
  BY DEF NamePoints
<1>2. ASSUME NEW l, NEW r PROVE GivenNamePoints(l, r) \in Int
  BY DEF GivenNamePoints, GivenMissing, GivenMismatch, InitialVsInitial, ExactGiven,
         FullVsInitial
<1>3. ASSUME NEW l, NEW r PROVE NameCompatibility(l, r) \in Int
  BY <1>2 DEF NameCompatibility, NoCandidate
<1> QED
  BY <1>1, <1>3

\* score_pair takes the projects a person was on, the people reached and an identifier;
\* more projects never lower it.
LEMMA ScoreGrows ==
  ASSUME NEW name \in Int, NEW project, NEW reached \in BOOLEAN, NEW cited \in BOOLEAN,
         NEW current, NEW ever, NEW now, NEW since, current \cup ever \subseteq now \cup since
  PROVE  ScorePair(name, project, now, since, reached, cited)
           >= ScorePair(name, project, current, ever, reached, cited)
<1> DEFINE before == ProjectPoints(project, current, ever)
           after == ProjectPoints(project, now, since)
           rest == (IF reached THEN WeightPropagation ELSE 0) + ScholarPoints(cited)
<1>1. before \in Int /\ after \in Int /\ after >= before
  BY DEF ProjectPoints, WeightProject
<1>2. (IF reached THEN WeightPropagation ELSE 0) \in Int /\ ScholarPoints(cited) \in Int
  BY DEF WeightPropagation, ScholarPoints, WeightScholar
<1>3. CASE name = NoCandidate
  BY <1>3 DEF ScorePair, NoCandidate
<1>4. CASE name # NoCandidate
  <2>1. /\ ScorePair(name, project, now, since, reached, cited)
             = name + after + (IF reached THEN WeightPropagation ELSE 0) + ScholarPoints(cited)
        /\ ScorePair(name, project, current, ever, reached, cited)
             = name + before + (IF reached THEN WeightPropagation ELSE 0) + ScholarPoints(cited)
    BY <1>4 DEF ScorePair
  <2> HIDE DEF before, after
  <2> QED
    BY <2>1, <1>1, <1>2
<1> QED
  BY <1>3, <1>4

\* Without the project, the other signals do not reach the threshold on their own.
LEMMA ConflictBelowThreshold ==
  ASSUME NEW project, NEW current, NEW ever, NEW reached, NEW cited,
         ScorePair(GivenMismatch, project, current, ever, reached, cited) >= MinScore
  PROVE  project \in current \cup ever
<1> SUFFICES ASSUME project \notin current \cup ever PROVE FALSE
  OBVIOUS
<1>1. ProjectPoints(project, current, ever) = 0
  BY DEF ProjectPoints
<1>2. (IF reached THEN WeightPropagation ELSE 0) \in {0, 1500} /\ ScholarPoints(cited) \in {0, 500}
  BY DEF WeightPropagation, ScholarPoints, WeightScholar
<1>3. ScorePair(GivenMismatch, project, current, ever, reached, cited)
        = 0 + 0 + (IF reached THEN WeightPropagation ELSE 0) + ScholarPoints(cited)
  BY <1>1 DEF ScorePair, GivenMismatch, NoCandidate
<1> HIDE DEF MinScore
<1>4. MinScore = 2400
  BY DEF MinScore
<1> QED
  BY <1>2, <1>3, <1>4

LEMMA ScoreOfInt ==
  ASSUME NEW a \in Author, NEW u \in Person
  PROVE  ScoreOf(a, u) \in Int
<1>1. NamePoints[a][u] \in Int
  BY NamePointsInt
<1>2. ASSUME NEW n \in Int, NEW project, NEW current, NEW ever, NEW reached, NEW cited
      PROVE  ScorePair(n, project, current, ever, reached, cited) \in Int
  <2>1. /\ ProjectPoints(project, current, ever) \in Int
        /\ (IF reached THEN WeightPropagation ELSE 0) \in Int
        /\ ScholarPoints(cited) \in Int
    BY DEF ProjectPoints, WeightProject, WeightPropagation, ScholarPoints, WeightScholar
  <2> QED
    BY <2>1 DEF ScorePair, NoCandidate
<1> QED
  BY <1>1, <1>2 DEF ScoreOf

-----------------------------------------------------------------------------
(* The invariant *)

Rows   == [active : BOOLEAN, projects : SUBSET Project, ever : SUBSET Project]
Claims == [status : {"suggested"} \cup Decided, score : Int]

TypeOK ==
  /\ person \in [Person -> Rows]
  /\ credit \in [Author -> {Null} \cup Person]
  /\ claim \in [Pair -> {Null} \cup Claims]
  /\ last \in {"changed", "run", "full"}

\* What a person is on is in what they were ever on.
HistoryCovers == \A u \in Person : person[u].projects \subseteq person[u].ever

Scored(kind) == IF kind = "full" THEN Author ELSE {a \in Author : credit[a] = Null}

\* Nothing changed since the run: the queue is what the run would make of it again.
Settles == last # "changed" => claim = QueueAfter(Scored(last))

QueueInv == TypeOK /\ HistoryCovers /\ Settles

-----------------------------------------------------------------------------
(* The evidence *)

LEMMA ObservedRow ==
  ASSUME NEW r \in Rows, NEW on \in SUBSET Project
  PROVE  LET new == [r EXCEPT !.projects = on, !.ever = @ \cup on]
         IN new \in Rows /\ new.projects = on /\ new.ever = r.ever \cup on
<1>1. PICK act \in BOOLEAN, pr \in SUBSET Project, ev \in SUBSET Project :
        r = [active |-> act, projects |-> pr, ever |-> ev]
  BY DEF Rows
<1>2. r.ever = ev
  BY <1>1
<1> DEFINE one == [r EXCEPT !.projects = on]
<1>3. one = [active |-> act, projects |-> on, ever |-> ev]
  BY <1>1
<1>4. [r EXCEPT !.projects = on, !.ever = @ \cup on] = [one EXCEPT !.ever = ev \cup on]
  BY <1>2
<1> HIDE DEF one
<1>5. [one EXCEPT !.ever = ev \cup on] = [active |-> act, projects |-> on, ever |-> ev \cup on]
  BY <1>3
<1>6. [active |-> act, projects |-> on, ever |-> ev \cup on] \in Rows
  BY DEF Rows
<1> QED
  BY <1>2, <1>4, <1>5, <1>6

LEMMA ActiveRow ==
  ASSUME NEW r \in Rows, NEW active \in BOOLEAN
  PROVE  LET new == [r EXCEPT !.active = active]
         IN new \in Rows /\ new.projects = r.projects /\ new.ever = r.ever
<1>1. PICK act \in BOOLEAN, pr \in SUBSET Project, ev \in SUBSET Project :
        r = [active |-> act, projects |-> pr, ever |-> ev]
  BY DEF Rows
<1>2. [r EXCEPT !.active = active] = [active |-> active, projects |-> pr, ever |-> ev]
  BY <1>1
<1>3. [active |-> active, projects |-> pr, ever |-> ev] \in Rows
  BY DEF Rows
<1> QED
  BY <1>1, <1>2, <1>3

\* The directory's steps change one person's row, whose history only grows.
LEMMA EvidenceGrows ==
  ASSUME person \in [Person -> Rows], HistoryCovers,
         \/ \E u \in Person, on \in SUBSET Project : Observe(u, on)
         \/ \E u \in Person, active \in BOOLEAN : SetActive(u, active)
  PROVE  /\ person' \in [Person -> Rows]
         /\ HistoryCovers'
         /\ \A v \in Person : person[v].ever \subseteq person'[v].ever
<1>1. ASSUME NEW u \in Person, NEW row \in Rows, PersonBecomes(u, row),
             row.projects \subseteq row.ever, person[u].ever \subseteq row.ever
      PROVE  /\ person' \in [Person -> Rows]
             /\ HistoryCovers'
             /\ \A v \in Person : person[v].ever \subseteq person'[v].ever
  <2>1. /\ person' \in [Person -> Rows] /\ person'[u] = row
        /\ \A v \in Person \ {u} : person'[v] = person[v]
    BY <1>1 DEF PersonBecomes
  <2> QED
    BY <2>1, <1>1 DEF HistoryCovers
<1>2. ASSUME NEW u \in Person, NEW on \in SUBSET Project, Observe(u, on)
      PROVE  /\ person' \in [Person -> Rows]
             /\ HistoryCovers'
             /\ \A v \in Person : person[v].ever \subseteq person'[v].ever
  <2> DEFINE row == [person[u] EXCEPT !.projects = on, !.ever = @ \cup on]
  <2>1. person[u] \in Rows
    OBVIOUS
  <2>2. row \in Rows /\ row.projects = on /\ row.ever = person[u].ever \cup on
    BY <2>1, ObservedRow
  <2>3. PersonBecomes(u, row)
    BY <1>2 DEF Observe
  <2> HIDE DEF row
  <2>4. row.projects \subseteq row.ever /\ person[u].ever \subseteq row.ever
    BY <2>2
  <2> QED
    BY <2>2, <2>3, <2>4, <1>1
<1>3. ASSUME NEW u \in Person, NEW active \in BOOLEAN, SetActive(u, active)
      PROVE  /\ person' \in [Person -> Rows]
             /\ HistoryCovers'
             /\ \A v \in Person : person[v].ever \subseteq person'[v].ever
  <2> DEFINE row == [person[u] EXCEPT !.active = active]
  <2>1. person[u] \in Rows
    OBVIOUS
  <2>2. row \in Rows /\ row.projects = person[u].projects /\ row.ever = person[u].ever
    BY <2>1, ActiveRow
  <2>3. PersonBecomes(u, row)
    BY <1>3 DEF SetActive
  <2> HIDE DEF row
  <2>4. row.projects \subseteq row.ever /\ person[u].ever \subseteq row.ever
    BY <2>2 DEF HistoryCovers
  <2> QED
    BY <2>2, <2>3, <2>4, <1>1
<1> QED
  BY <1>2, <1>3

-----------------------------------------------------------------------------
(* The run *)

LEMMA QueueTyped ==
  ASSUME claim \in [Pair -> {Null} \cup Claims], NEW scored \in SUBSET Author
  PROVE  QueueAfter(scored) \in [Pair -> {Null} \cup Claims]
<1>1. ASSUME NEW k \in Pair
      PROVE  [status |-> "suggested", score |-> ScoreOf(k[1], k[2])] \in Claims
  <2>1. k[1] \in Author /\ k[2] \in Person
    BY DEF Pair
  <2>2. ScoreOf(k[1], k[2]) \in Int
    BY <2>1, ScoreOfInt
  <2> QED
    BY <2>2 DEF Claims
<1> QED
  BY <1>1 DEF QueueAfter

\* A run decides nothing, so a second one sees what the first saw.
LEMMA RunSettles ==
  ASSUME NEW scored \in SUBSET Author, claim' = QueueAfter(scored),
         person' = person, credit' = credit
  PROVE  claim' = QueueAfter(scored)'
<1>1. \A a \in Author, u \in Person : ScoreOf(a, u)' = ScoreOf(a, u)
  BY DEF ScoreOf, Credits
<1>2. \A a \in Author : Ranked(a)' = Ranked(a)
  BY DEF Ranked, ScoreOf, Credits
<1>3. ASSUME NEW k \in Pair
      PROVE  claim'[k] = IF IsDecided(k) THEN claim[k]
                         ELSE IF k[1] \in scored /\ k[2] \in Ranked(k[1])
                         THEN [status |-> "suggested", score |-> ScoreOf(k[1], k[2])]
                         ELSE Null
  BY DEF QueueAfter
<1>4. ASSUME NEW k \in Pair PROVE IsDecided(k)' <=> IsDecided(k)
  <2>1. CASE IsDecided(k)
    BY <2>1, <1>3 DEF IsDecided
  <2>2. CASE ~IsDecided(k)
    <3>1. \/ claim'[k] = Null
          \/ claim'[k] = [status |-> "suggested", score |-> ScoreOf(k[1], k[2])]
      BY <2>2, <1>3
    <3>2. "suggested" \notin Decided
      BY DEF Decided
    <3>3. ~IsDecided(k)'
      BY <3>1, <3>2 DEF IsDecided
    <3> QED
      BY <2>2, <3>3
  <2> QED
    BY <2>1, <2>2
<1>5. ASSUME NEW k \in Pair
      PROVE  claim'[k] = IF IsDecided(k)' THEN claim'[k]
                         ELSE IF k[1] \in scored /\ k[2] \in Ranked(k[1])'
                         THEN [status |-> "suggested", score |-> ScoreOf(k[1], k[2])']
                         ELSE Null
  <2>1. k[1] \in Author /\ k[2] \in Person
    BY DEF Pair
  <2> QED
    BY <2>1, <1>1, <1>2, <1>3, <1>4
<1>6. claim' = [k \in Pair |-> claim'[k]]
  BY DEF QueueAfter
<1>7. QueueAfter(scored)'
        = [k \in Pair |-> IF IsDecided(k)' THEN claim'[k]
                          ELSE IF k[1] \in scored /\ k[2] \in Ranked(k[1])'
                          THEN [status |-> "suggested", score |-> ScoreOf(k[1], k[2])']
                          ELSE Null]
  BY DEF QueueAfter
<1> QED
  BY <1>5, <1>6, <1>7

-----------------------------------------------------------------------------
(* The theorems *)

\* A decision writes claims that are claims.
LEMMA DecisionTyped ==
  ASSUME TypeOK, NEW a \in Author, NEW u \in Person, NEW status \in Decided
  PROVE  /\ Decide(a, u, status) \in [Pair -> {Null} \cup Claims]
         /\ Settled(Decide(a, u, status), a, u) \in [Pair -> {Null} \cup Claims]
<1>1. [status |-> status, score |-> 0] \in Claims
  BY DEF Claims
<1>2. claim \in [Pair -> {Null} \cup Claims] /\ <<a, u>> \in Pair
  BY DEF TypeOK, Pair
<1>3. Decide(a, u, status) \in [Pair -> {Null} \cup Claims]
  BY <1>1, <1>2 DEF Decide
<1>4. ASSUME NEW cl \in [Pair -> {Null} \cup Claims]
      PROVE  Settled(cl, a, u) \in [Pair -> {Null} \cup Claims]
  BY DEF Settled
<1> QED
  BY <1>3, <1>4

LEMMA QueueInit == Init => QueueInv
<1> SUFFICES ASSUME Init PROVE QueueInv
  OBVIOUS
<1>1. PICK on \in [Person -> SUBSET Project] :
        person = [u \in Person |-> [active |-> TRUE, projects |-> on[u], ever |-> on[u]]]
  BY DEF Init
<1>2. person \in [Person -> Rows]
  BY <1>1 DEF Rows
<1>3. HistoryCovers
  BY <1>1 DEF HistoryCovers
<1> QED
  BY <1>2, <1>3 DEF Init, QueueInv, TypeOK, Settles

LEMMA QueueStep == QueueInv /\ [Next]_vars => QueueInv'
<1> SUFFICES ASSUME QueueInv, [Next]_vars PROVE QueueInv'
  OBVIOUS
<1>1. TypeOK /\ HistoryCovers /\ Settles
  BY DEF QueueInv
<1>2. CASE vars' = vars
  <2>1. person' = person /\ credit' = credit /\ claim' = claim /\ last' = last
    BY <1>2 DEF vars
  <2>2. TypeOK' /\ HistoryCovers'
    BY <1>1, <2>1 DEF TypeOK, HistoryCovers
  <2>3. QueueAfter(Scored(last))' = QueueAfter(Scored(last))
    BY <2>1 DEF QueueAfter, Scored, Ranked, ScoreOf, Credits, IsDecided
  <2>4. Settles'
    BY <1>1, <2>1, <2>3 DEF Settles
  <2> QED
    BY <2>2, <2>4 DEF QueueInv
<1>3. CASE \/ \E u \in Person, on \in SUBSET Project : Observe(u, on)
           \/ \E u \in Person, active \in BOOLEAN : SetActive(u, active)
  <2>1. credit' = credit /\ claim' = claim /\ last' = "changed"
    BY <1>3 DEF Observe, SetActive, PersonBecomes
  <2>2. person' \in [Person -> Rows] /\ HistoryCovers'
    BY <1>1, <1>3, EvidenceGrows DEF TypeOK
  <2> QED
    BY <1>1, <2>1, <2>2 DEF QueueInv, TypeOK, Settles
<1>4. ASSUME NEW a \in Author, NEW u \in Person, Claim(a, u) PROVE QueueInv'
  <2>1. /\ credit' = [credit EXCEPT ![a] = u]
        /\ claim' = Settled(Decide(a, u, "credited"), a, u)
        /\ last' = "changed" /\ person' = person
    BY <1>4 DEF Claim
  <2>2. "credited" \in Decided
    BY DEF Decided
  <2>3. claim' \in [Pair -> {Null} \cup Claims]
    BY <1>1, <2>1, <2>2, DecisionTyped
  <2>4. TypeOK'
    BY <1>1, <2>1, <2>3 DEF TypeOK
  <2> QED
    BY <1>1, <2>1, <2>4 DEF QueueInv, HistoryCovers, Settles
<1>5. ASSUME NEW a \in Author, NEW u \in Person, Reject(a, u) PROVE QueueInv'
  <2>1. /\ credit' = credit /\ claim' = Decide(a, u, "rejected")
        /\ last' = "changed" /\ person' = person
    BY <1>5 DEF Reject
  <2>2. "rejected" \in Decided
    BY DEF Decided
  <2>3. claim' \in [Pair -> {Null} \cup Claims]
    BY <1>1, <2>1, <2>2, DecisionTyped
  <2>4. TypeOK'
    BY <1>1, <2>1, <2>3 DEF TypeOK
  <2> QED
    BY <1>1, <2>1, <2>4 DEF QueueInv, HistoryCovers, Settles
<1>6. ASSUME NEW a \in Author, Release(a) PROVE QueueInv'
  <2>1. /\ credit' = [credit EXCEPT ![a] = Null] /\ claim' = Settled(claim, a, Null)
        /\ last' = "changed" /\ person' = person
    BY <1>6 DEF Release
  <2>2. claim' \in [Pair -> {Null} \cup Claims]
    BY <1>1, <2>1 DEF Settled, TypeOK
  <2>3. TypeOK'
    BY <1>1, <2>1, <2>2 DEF TypeOK
  <2> QED
    BY <1>1, <2>1, <2>3 DEF QueueInv, HistoryCovers, Settles
<1>7. ASSUME NEW kind \in {"run", "full"}, Run(kind) PROVE QueueInv'
  <2>1. /\ claim' = QueueAfter(Scored(kind))
        /\ last' = kind /\ person' = person /\ credit' = credit
    BY <1>7 DEF Run, Scored
  <2>2. Scored(kind) \in SUBSET Author
    BY DEF Scored
  <2>3. claim' \in [Pair -> {Null} \cup Claims]
    BY <1>1, <2>1, <2>2, QueueTyped DEF TypeOK
  <2>4. TypeOK' /\ HistoryCovers'
    BY <1>1, <2>1, <2>3 DEF TypeOK, HistoryCovers
  <2>5. claim' = QueueAfter(Scored(last))'
    <3> DEFINE scored == Scored(kind)
    <3>1. claim' = QueueAfter(scored) /\ scored \in SUBSET Author
      BY <2>1, <2>2
    <3>2. Scored(last)' = scored
      BY <2>1 DEF Scored
    <3>3. QueueAfter(Scored(last))'
            = [k \in Pair |-> IF IsDecided(k)' THEN claim'[k]
                              ELSE IF k[1] \in Scored(last)' /\ k[2] \in Ranked(k[1])'
                              THEN [status |-> "suggested", score |-> ScoreOf(k[1], k[2])']
                              ELSE Null]
      BY DEF QueueAfter
    <3> HIDE DEF scored
    <3>4. ASSUME NEW S \in SUBSET Author, claim' = QueueAfter(S)
          PROVE  claim' = [k \in Pair |->
                             IF IsDecided(k)' THEN claim'[k]
                             ELSE IF k[1] \in S /\ k[2] \in Ranked(k[1])'
                             THEN [status |-> "suggested", score |-> ScoreOf(k[1], k[2])']
                             ELSE Null]
      <4>1. claim' = QueueAfter(S)'
        BY <2>1, <3>4, RunSettles
      <4> QED
        BY <4>1 DEF QueueAfter
    <3> QED
      BY <3>1, <3>2, <3>3, <3>4
  <2>6. Settles'
    BY <2>1, <2>5 DEF Settles
  <2> QED
    BY <2>4, <2>6 DEF QueueInv
<1> QED
  BY <1>2, <1>3, <1>4, <1>5, <1>6, <1>7 DEF Next

\* What score_author_claims leaves and what the evidence says agree until something else
\* is written.
THEOREM QueueInvariant == Spec => []QueueInv
BY QueueInit, QueueStep, PTL DEF Spec

\* A second run with nothing changed in between writes nothing.
THEOREM RerunIsQuiet == Spec => QuietRerun
<1>1. QueueInv /\ [Next]_vars => [last # "changed" /\ last' = last => claim' = claim]_vars
  <2> SUFFICES ASSUME QueueInv, [Next]_vars, last # "changed", last' = last
               PROVE  claim' = claim
    BY DEF vars
  <2>1. CASE vars' = vars
    BY <2>1 DEF vars
  <2>2. ASSUME NEW kind \in {"run", "full"}, Run(kind) PROVE claim' = claim
    <3>1. kind = last /\ claim' = QueueAfter(Scored(kind))
      BY <2>2 DEF Run, Scored
    <3>2. claim = QueueAfter(Scored(last))
      BY DEF QueueInv, Settles
    <3> QED
      BY <3>1, <3>2
  <2>3. ASSUME Next, ~ \E kind \in {"run", "full"} : Run(kind) PROVE last' = "changed"
    BY <2>3 DEF Next, Observe, SetActive, PersonBecomes, Claim, Reject, Release
  <2> QED
    BY <2>1, <2>2, <2>3
<1> QED
  BY <1>1, QueueInvariant, PTL DEF Spec, QuietRerun

\* A step that changes only what people are observed on lowers no score.
THEOREM LeavingIsFree == Spec => LeavingLowersNothing
<1> DEFINE NoLower ==
      credit' = credit /\ person' # person
      => \A u \in Person : person'[u] # person[u] =>
           \A a \in Author : ScoreOf(a, u)' >= ScoreOf(a, u)
<1>1. QueueInv /\ [Next]_vars => [NoLower]_vars
  <2> SUFFICES ASSUME QueueInv, [Next]_vars, credit' = credit, person' # person,
                      NEW u \in Person, NEW a \in Author
               PROVE  ScoreOf(a, u)' >= ScoreOf(a, u)
    BY DEF vars
  <2>1. \/ \E v \in Person, on \in SUBSET Project : Observe(v, on)
        \/ \E v \in Person, active \in BOOLEAN : SetActive(v, active)
    BY DEF Next, vars, Claim, Reject, Release, Run
  <2>2. /\ person \in [Person -> Rows] /\ HistoryCovers
        /\ HistoryCovers' /\ person[u].ever \subseteq person'[u].ever
    BY <2>1, EvidenceGrows DEF QueueInv, TypeOK
  <2>3. person[u].projects \cup person[u].ever \subseteq person'[u].projects \cup person'[u].ever
    BY <2>2 DEF HistoryCovers
  <2> DEFINE reached == u \in Reach(Credits, PaperOf[a])
             cited == u \in Cited
  <2>4. Credits' = Credits
    BY DEF Credits
  <2>5. reached \in BOOLEAN /\ cited \in BOOLEAN /\ NamePoints[a][u] \in Int
    BY NamePointsInt
  <2>6. /\ ScoreOf(a, u) = ScorePair(NamePoints[a][u], ProjectOf[PaperOf[a]],
                                     person[u].projects, person[u].ever, reached, cited)
        /\ ScoreOf(a, u)' = ScorePair(NamePoints[a][u], ProjectOf[PaperOf[a]],
                                      person'[u].projects, person'[u].ever, reached, cited)
    BY <2>4 DEF ScoreOf
  <2> HIDE DEF reached, cited
  <2> QED
    BY <2>3, <2>5, <2>6, ScoreGrows
<1> QED
  BY <1>1, QueueInvariant, PTL DEF Spec, LeavingLowersNothing

\* A person whose given name contradicts the byline is queued for a row only when they
\* were on the paper's project.
THEOREM ConflictsNeedProject == Spec => []ConflictNeedsProject
<1>1. QueueInv => ConflictNeedsProject
  <2> SUFFICES ASSUME QueueInv, NEW a \in Author, NEW u \in Person, last # "changed",
                      IsSuggested(<<a, u>>), NamePoints[a][u] = GivenMismatch
               PROVE  ProjectOf[PaperOf[a]] \in person[u].ever
    BY DEF ConflictNeedsProject
  <2> DEFINE k == <<a, u>>
  <2>1. k \in Pair /\ k[1] = a /\ k[2] = u
    BY DEF Pair
  <2>2. claim = QueueAfter(Scored(last)) /\ person[u].projects \subseteq person[u].ever
    BY DEF QueueInv, Settles, HistoryCovers
  <2>3. claim[k] # Null /\ claim[k].status = "suggested"
    BY DEF IsSuggested
  <2>4. ~IsDecided(k)
    BY <2>3 DEF IsDecided, Decided
  <2>5. claim[k] = IF IsDecided(k) THEN claim[k]
                   ELSE IF k[1] \in Scored(last) /\ k[2] \in Ranked(k[1])
                   THEN [status |-> "suggested", score |-> ScoreOf(k[1], k[2])] ELSE Null
    <3> HIDE DEF k
    <3> QED
      BY <2>1, <2>2 DEF QueueAfter
  <2>6. u \in Ranked(a)
    BY <2>1, <2>3, <2>4, <2>5
  <2>7. ScoreOf(a, u) >= MinScore
    BY <2>6 DEF Ranked
  <2>8. ProjectOf[PaperOf[a]] \in person[u].projects \cup person[u].ever
    BY <2>7, ConflictBelowThreshold DEF ScoreOf
  <2> QED
    BY <2>2, <2>8
<1> QED
  BY <1>1, QueueInvariant, PTL

-----------------------------------------------------------------------------
(* A name against itself in the other order *)

LEMMA LeastNumber ==
  ASSUME NEW S, S # {}, NEW f, \A x \in S : f[x] \in Nat
  PROVE  \E m \in S : \A x \in S : f[m] <= f[x]
<1> DEFINE Less == OpToRel(<, Nat)
           T    == {f[x] : x \in S}
<1>1. IsWellFoundedOn(Less, Nat)
  BY NatLessThanWellFounded
<1>2. T \subseteq Nat /\ T # {}
  <2>1. PICK x : x \in S
    OBVIOUS
  <2>2. f[x] \in T
    BY <2>1
  <2> QED
    BY <2>2
<1>3. \A a, b \in Nat : <<b, a>> \in Less <=> b < a
  BY DEF OpToRel
<1> HIDE DEF Less
<1>4. PICK a \in T : \A b \in T : ~ (<<b, a>> \in Less)
  <2> HIDE DEF T
  <2> QED
    BY <1>1, <1>2, WFMin
<1>5. PICK m \in S : a = f[m]
  OBVIOUS
<1>6. ASSUME NEW x \in S PROVE f[m] <= f[x]
  <2>1. f[x] \in T /\ f[x] \in Nat /\ a \in Nat
    BY <1>2
  <2>2. ~(f[x] < a)
    BY <1>3, <1>4, <2>1
  <2> QED
    BY <1>5, <2>1, <2>2
<1> QED
  BY <1>6

\* Suffixes at the end are dropped, and nothing else.
LEMMA IdentityOfPrefix ==
  ASSUME NEW s, NEW m \in Nat, NEW k \in Nat, m <= k, DOMAIN s = 1..k,
         \A i \in 1..m : ~IsOneOf(s[i], Suffix),
         \A i \in 1..k : i > m => IsOneOf(s[i], Suffix)
  PROVE  Identity(s) = [i \in 1..m |-> s[i]]
<1> DEFINE kept == {i \in DOMAIN s : ~IsOneOf(s[i], Suffix)}
<1>1. kept = 1..m
  <2>1. \A i \in 1..m : i \in 1..k
    BY SMT
  <2>2. \A i \in 1..k : i <= m => i \in 1..m
    BY SMT
  <2> QED
    BY <2>1, <2>2
<1>2. Cardinality(1..m) = m
  BY FS_Interval
<1>3. ASSUME NEW n \in 1..m
      PROVE  (CHOOSE i \in 1..m : Cardinality({j \in 1..m : j <= i}) = n) = n
  <2>1. ASSUME NEW i \in 1..m PROVE Cardinality({j \in 1..m : j <= i}) = i
    <3>1. {j \in 1..m : j <= i} = 1..i
      OBVIOUS
    <3>2. Cardinality(1..i) = i
      BY FS_Interval
    <3> QED
      BY <3>1, <3>2
  <2> QED
    BY <2>1
<1>4. Identity(s) = Kept(s, 1..m)
  BY <1>1 DEF Identity
<1>5. Kept(s, 1..m) = [n \in 1..m |-> s[n]]
  <2> DEFINE at(n) == CHOOSE i \in 1..m : Cardinality({j \in 1..m : j <= i}) = n
  <2>1. Kept(s, 1..m) = [n \in 1..Cardinality(1..m) |-> s[at(n)]]
    BY DEF Kept
  <2>2. \A n \in 1..m : at(n) = n
    BY <1>3
  <2> HIDE DEF at
  <2> QED
    BY <1>2, <2>1, <2>2
<1> QED
  BY <1>4, <1>5

Written(n) ==
  /\ n.given \in Seq(Token) /\ n.family \in Seq(Token) /\ n.suffix \in Seq(Token)
  /\ FullName(n)

LEMMA Joined ==
  ASSUME NEW p \in Seq(Token), NEW q \in Seq(Token)
  PROVE  /\ p \o q \in Seq(Token) /\ Len(p \o q) = Len(p) + Len(q)
         /\ \A i \in 1..Len(p \o q) : /\ i <= Len(p) => (p \o q)[i] = p[i]
                                      /\ i > Len(p) => (p \o q)[i] = q[i - Len(p)]
<1>1. /\ p \o q \in Seq(Token) /\ Len(p \o q) = Len(p) + Len(q)
      /\ \A i \in 1..(Len(p) + Len(q)) :
           (p \o q)[i] = IF i <= Len(p) THEN p[i] ELSE q[i - Len(p)]
  BY ConcatProperties
<1>2. Len(p) \in Nat /\ Len(q) \in Nat
  BY LenProperties
<1> QED
  BY <1>1, <1>2

\* Given names, family names and suffix in a row, as the directory writes them.
LEMMA DirectTokens ==
  ASSUME NEW n, Written(n)
  PROVE  LET g == Len(n.given)
             f == Len(n.family)
             t == Identity(DirectOrder(n).before)
         IN /\ g \in Nat \ {0} /\ f \in Nat \ {0} /\ t \in [1..(g + f) -> Token]
            /\ \A i \in 1..g : t[i] = n.given[i]
            /\ t[g + f] = n.family[f]
<1> DEFINE g == Len(n.given)
           f == Len(n.family)
           x == Len(n.suffix)
           b == (n.given \o n.family) \o n.suffix
           t == Identity(b)
<1>1. /\ g \in Nat \ {0} /\ f \in Nat \ {0} /\ x \in Nat
      /\ n.given \in [1..g -> Token] /\ n.family \in [1..f -> Token]
      /\ n.suffix \in [1..x -> Token]
  <2>1. n.given # <<>> /\ n.family # <<>>
    BY DEF Written, FullName
  <2>2. g # 0 /\ f # 0
    BY <2>1, EmptySeq DEF Written
  <2> QED
    BY <2>2, LenProperties DEF Written
<1>2. /\ \A i \in 1..g : ~IsOneOf(n.given[i], Suffix)
      /\ \A i \in 1..f : ~IsOneOf(n.family[i], Suffix)
      /\ \A i \in 1..x : IsOneOf(n.suffix[i], Suffix)
  BY <1>1 DEF Written, FullName
<1> DEFINE both == n.given \o n.family
<1>3. /\ both \in Seq(Token) /\ Len(both) = g + f
      /\ \A i \in 1..Len(both) : /\ i <= g => both[i] = n.given[i]
                                 /\ i > g => both[i] = n.family[i - g]
  <2>1. n.given \in Seq(Token) /\ n.family \in Seq(Token)
    BY DEF Written
  <2> QED
    BY <2>1, Joined
<1>4. /\ b \in Seq(Token) /\ Len(b) = Len(both) + x
      /\ \A i \in 1..Len(b) : /\ i <= Len(both) => b[i] = both[i]
                              /\ i > Len(both) => b[i] = n.suffix[i - Len(both)]
  <2>1. n.suffix \in Seq(Token)
    BY DEF Written
  <2>2. both \in Seq(Token)
    BY <1>3
  <2> HIDE DEF both
  <2>3. /\ both \o n.suffix \in Seq(Token)
        /\ Len(both \o n.suffix) = Len(both) + Len(n.suffix)
        /\ \A i \in 1..Len(both \o n.suffix) :
             /\ i <= Len(both) => (both \o n.suffix)[i] = both[i]
             /\ i > Len(both) => (both \o n.suffix)[i] = n.suffix[i - Len(both)]
    BY <2>1, <2>2, Joined
  <2> QED
    BY <2>3 DEF both
<1> HIDE DEF b, both, g, f, x
<1>5. /\ Len(b) = (g + f) + x /\ DOMAIN b = 1..((g + f) + x)
      /\ g + f \in Nat /\ (g + f) + x \in Nat /\ g + f <= (g + f) + x
  <2>1. Len(b) = (g + f) + x
    BY <1>3, <1>4
  <2>2. DOMAIN b = 1..Len(b)
    BY <1>4, LenProperties
  <2>3. g + f \in Nat /\ (g + f) + x \in Nat /\ g + f <= (g + f) + x
    BY <1>1
  <2> QED
    BY <2>1, <2>2, <2>3
<1>6. ASSUME NEW i \in 1..(g + f)
      PROVE  /\ b[i] \in Token /\ ~IsOneOf(b[i], Suffix)
             /\ i <= g => b[i] = n.given[i]
             /\ i > g => b[i] = n.family[i - g]
  <2>1. i \in 1..Len(b) /\ i \in 1..Len(both) /\ i <= Len(both)
    <3>1. i \in 1..((g + f) + x)
      BY <1>1
    <3> QED
      BY <1>3, <1>5, <3>1
  <2>2. b[i] = both[i]
    BY <1>4, <2>1
  <2>3. /\ i <= g => b[i] = n.given[i]
        /\ i > g => b[i] = n.family[i - g]
    BY <1>3, <2>1, <2>2
  <2>4. CASE i <= g
    <3>1. i \in 1..g
      BY <1>1, <2>4
    <3>2. n.given[i] \in Token /\ ~IsOneOf(n.given[i], Suffix)
      BY <1>1, <1>2, <3>1
    <3> QED
      BY <2>3, <2>4, <3>2
  <2>5. CASE i > g
    <3>1. i - g \in 1..f
      BY <1>1, <2>5
    <3>2. n.family[i - g] \in Token /\ ~IsOneOf(n.family[i - g], Suffix)
      BY <1>1, <1>2, <3>1
    <3> QED
      BY <2>3, <2>5, <3>2
  <2> QED
    BY <1>1, <2>3, <2>4, <2>5
<1>7. ASSUME NEW i \in 1..((g + f) + x), i > g + f PROVE IsOneOf(b[i], Suffix)
  <2>1. i \in 1..Len(b) /\ i > Len(both)
    BY <1>3, <1>5, <1>7
  <2>2. b[i] = n.suffix[i - Len(both)]
    BY <1>4, <2>1
  <2>3. i - (g + f) \in 1..x
    BY <1>1, <1>7
  <2>4. IsOneOf(n.suffix[i - (g + f)], Suffix)
    BY <1>2, <2>3
  <2> QED
    BY <1>3, <2>2, <2>4
<1>8. t = [i \in 1..(g + f) |-> b[i]]
  BY <1>5, <1>6, <1>7, IdentityOfPrefix
<1> HIDE DEF t
<1>9. t \in [1..(g + f) -> Token]
  BY <1>6, <1>8
<1>10. \A i \in 1..g : t[i] = n.given[i]
  <2> SUFFICES ASSUME NEW i \in 1..g PROVE t[i] = n.given[i]
    OBVIOUS
  <2>1. i \in 1..(g + f) /\ i <= g
    BY <1>1
  <2> QED
    BY <1>6, <1>8, <2>1
<1>11. t[g + f] = n.family[f]
  <2>1. g + f \in 1..(g + f) /\ g + f > g /\ (g + f) - g = f
    BY <1>1
  <2> QED
    BY <1>6, <1>8, <2>1
<1>12. DirectOrder(n).before = b
  BY DEF DirectOrder, b
<1> QED
  BY <1>1, <1>9, <1>10, <1>11, <1>12 DEF g, f, t

\* The particles before the surname do not run into a given name that is not one.
LEMMA SurnameAfterGiven ==
  ASSUME NEW g \in Nat \ {0}, NEW f \in Nat \ {0}, NEW t \in [1..(g + f) -> Token],
         ~IsOneOf(t[g], Particle)
  PROVE  Len(t) = g + f /\ SurnameStart(t) \in (g + 1)..(g + f)
<1> DEFINE L == g + f
           Joining(i) == \A j \in i..(L - 1) : IsOneOf(t[j], Particle)
           Starts(i) == Joining(i) /\ (i = 1 \/ ~IsOneOf(t[i - 1], Particle))
<1>1. L \in Nat /\ L >= 2 /\ L > g
  OBVIOUS
<1>2. Len(t) = L
  OBVIOUS
<1> HIDE DEF L
<1>3. \E i \in 1..L : Starts(i)
  <2> DEFINE S == {i \in 1..L : Joining(i)}
  <2>1. L \in S
    BY <1>1
  <2>2. \E m \in S : \A i \in S : m <= i
    <3> DEFINE id == [i \in S |-> i]
    <3>3. S \subseteq Nat
      BY <1>1
    <3>4. S # {}
      BY <2>1
    <3>1. S # {} /\ \A i \in S : id[i] \in Nat
      <4> HIDE DEF S
      <4> QED
        BY <3>3, <3>4
    <3>2. \E m \in S : \A i \in S : id[m] <= id[i]
      <4> HIDE DEF id, S
      <4> QED
        BY <3>1, LeastNumber
    <3> QED
      BY <3>2
  <2>3. PICK m \in S : \A i \in S : m <= i
    BY <2>2
  <2>4. m \in 1..L /\ Joining(m)
    OBVIOUS
  <2>5. m = 1 \/ ~IsOneOf(t[m - 1], Particle)
    <3> SUFFICES ASSUME m # 1, IsOneOf(t[m - 1], Particle) PROVE FALSE
      OBVIOUS
    <3>1. m - 1 \in 1..L /\ ~(m <= m - 1)
      BY <1>1, <2>4
    <3>2. ASSUME NEW j \in (m - 1)..(L - 1) PROVE IsOneOf(t[j], Particle)
      <4>1. j = m - 1 \/ j \in m..(L - 1)
        BY <1>1, <2>4
      <4> QED
        BY <2>4, <4>1
    <3>3. m - 1 \in S
      BY <3>1, <3>2
    <3> QED
      BY <2>3, <3>1, <3>3
  <2> QED
    BY <2>4, <2>5
<1> DEFINE s == CHOOSE i \in 1..L : Starts(i)
<1>4. s \in 1..L /\ Starts(s)
  <2> HIDE DEF Starts
  <2> QED
    BY <1>3
<1>5. SurnameStart(t) = s
  BY <1>2 DEF SurnameStart
<1> HIDE DEF s
<1>6. ~(s <= g)
  <2> SUFFICES ASSUME s <= g PROVE FALSE
    OBVIOUS
  <2>1. g \in s..(L - 1)
    BY <1>1, <1>4
  <2> QED
    BY <1>4, <2>1
<1>7. s \in (g + 1)..L
  BY <1>1, <1>4, <1>6
<1> QED
  BY <1>2, <1>5, <1>7 DEF L

\* In either order a name reads as the given name it starts with and the family name
\* it ends with.
LEMMA NameRead ==
  ASSUME NEW n, Written(n), ~IsOneOf(n.given[Len(n.given)], Particle),
         NEW b \in {CommaOrder(n), DirectOrder(n)}
  PROVE  /\ GivenTokens(b) # <<>> /\ GivenTokens(b)[1] = n.given[1]
         /\ \E j \in DOMAIN SurnameTokens(b) : SurnameTokens(b)[j] = n.family[Len(n.family)]
<1> DEFINE g == Len(n.given)
           f == Len(n.family)
<1>1. CASE b = DirectOrder(n)
  <2> DEFINE t == Identity(b.before)
             s == SurnameStart(t)
  <2>1. /\ g \in Nat \ {0} /\ f \in Nat \ {0} /\ t \in [1..(g + f) -> Token]
        /\ \A i \in 1..g : t[i] = n.given[i]
        /\ t[g + f] = n.family[f]
    BY <1>1, DirectTokens
  <2>2. b.comma = FALSE
    BY <1>1 DEF DirectOrder
  <2>3. t[g] = n.given[g] /\ t[1] = n.given[1]
    BY <2>1
  <2>4. Len(t) = g + f /\ s \in (g + 1)..(g + f)
    <3> HIDE DEF g, f, t
    <3>1. ~IsOneOf(t[g], Particle)
      BY <2>3 DEF g
    <3> QED
      BY <2>1, <3>1, SurnameAfterGiven
  <2>5. t # <<>>
    <3> HIDE DEF g, f, t
    <3> SUFFICES ASSUME t = <<>> PROVE FALSE
      OBVIOUS
    <3>1. Len(t) = 0
      OBVIOUS
    <3> QED
      BY <2>1, <2>4, <3>1
  <2>6. /\ SurnameTokens(b) = SubSeq(t, s, Len(t))
        /\ GivenTokens(b) = SubSeq(t, 1, s - 1)
    BY <2>2, <2>5 DEF SurnameTokens, GivenTokens
  <2> HIDE DEF t, s, g, f
  <2>7. SubSeq(t, s, Len(t)) = [i \in 1..((g + f) - s + 1) |-> t[i + s - 1]]
    BY <2>1, <2>4
  <2>8. SubSeq(t, 1, s - 1) = [i \in 1..(s - 1) |-> t[i]]
    BY <2>1, <2>4
  <2>9. GivenTokens(b) # <<>> /\ GivenTokens(b)[1] = n.given[1]
    <3>1. 1 \in 1..(s - 1)
      BY <2>1, <2>4
    <3>5. GivenTokens(b) = [i \in 1..(s - 1) |-> t[i]]
      BY <2>6, <2>8
    <3>2. 1 \in DOMAIN GivenTokens(b) /\ GivenTokens(b)[1] = t[1]
      BY <3>1, <3>5
    <3>3. DOMAIN <<>> = {}
      OBVIOUS
    <3>4. GivenTokens(b) # <<>>
      BY <3>2, <3>3
    <3> QED
      BY <2>3, <3>2, <3>4
  <2>10. (g + f) - s + 1 \in DOMAIN SurnameTokens(b)
    BY <2>1, <2>4, <2>6, <2>7
  <2>11. SurnameTokens(b)[(g + f) - s + 1] = n.family[f]
    <3>1. ((g + f) - s + 1) + s - 1 = g + f
      BY <2>1, <2>4
    <3> QED
      BY <2>1, <2>6, <2>7, <2>10, <3>1
  <2> QED
    BY <2>9, <2>10, <2>11 DEF f
<1>2. CASE b = CommaOrder(n)
  <2> DEFINE r == n.given \o n.suffix
             x == Len(n.suffix)
  <2>1. /\ n.given \in Seq(Token) /\ n.suffix \in Seq(Token) /\ n.family \in Seq(Token)
        /\ g \in Nat \ {0} /\ f \in Nat \ {0} /\ x \in Nat
    <3>1. n.given # <<>> /\ n.family # <<>>
      BY DEF Written, FullName
    <3>2. g # 0 /\ f # 0
      BY <3>1, EmptySeq DEF Written
    <3> QED
      BY <3>2, LenProperties DEF Written
  <2>2. /\ r \in Seq(Token) /\ Len(r) = g + x
        /\ \A i \in 1..Len(r) : /\ i <= g => r[i] = n.given[i]
                                /\ i > g => r[i] = n.suffix[i - g]
    BY <2>1, Joined
  <2>3. /\ \A i \in 1..g : ~IsOneOf(n.given[i], Suffix)
        /\ \A i \in 1..x : IsOneOf(n.suffix[i], Suffix)
    BY <2>1, LenProperties DEF Written, FullName
  <2> HIDE DEF r, g, f, x
  <2>4. DOMAIN r = 1..(g + x) /\ g + x \in Nat /\ g <= g + x
    BY <2>1, <2>2, LenProperties
  <2>5. ASSUME NEW i \in 1..g PROVE ~IsOneOf(r[i], Suffix)
    <3>1. i \in 1..Len(r) /\ i <= g
      BY <2>1, <2>2
    <3> QED
      BY <2>2, <2>3, <3>1
  <2>6. ASSUME NEW i \in 1..(g + x), i > g PROVE IsOneOf(r[i], Suffix)
    <3>1. i \in 1..Len(r) /\ i - g \in 1..x
      BY <2>1, <2>2, <2>6
    <3> QED
      BY <2>2, <2>3, <2>6, <3>1
  <2>7. Identity(r) = [i \in 1..g |-> r[i]]
    BY <2>1, <2>4, <2>5, <2>6, IdentityOfPrefix
  <2>8. b.comma = TRUE /\ b.before = n.family /\ b.after = r
    BY <1>2 DEF CommaOrder, r
  <2>9. SurnameTokens(b) = n.family /\ GivenTokens(b) = Identity(r)
    BY <2>8 DEF SurnameTokens, GivenTokens
  <2>10. 1 \in 1..g /\ 1 \in 1..Len(r) /\ 1 <= g
    BY <2>1, <2>2
  <2>11. GivenTokens(b) # <<>> /\ GivenTokens(b)[1] = n.given[1]
    BY <2>2, <2>7, <2>9, <2>10
  <2>12. f \in DOMAIN SurnameTokens(b)
    BY <2>1, <2>9, LenProperties DEF f
  <2> QED
    BY <2>9, <2>11, <2>12 DEF f
<1> QED
  BY <1>1, <1>2

\* A full name scores enough for the queue on its own.
LEMMA OwnNameScores ==
  ASSUME NEW n, Written(n), ~IsOneOf(n.given[Len(n.given)], Particle),
         ~IsOneOf(n.given[1], Initial), NEW b \in {CommaOrder(n), DirectOrder(n)}
  PROVE  NameCompatibility(b, DirectOrder(n)) = ExactGiven
<1> DEFINE d == DirectOrder(n)
           e == n.family[Len(n.family)]
<1>1. /\ GivenTokens(b) # <<>> /\ GivenTokens(b)[1] = n.given[1]
      /\ GivenTokens(d) # <<>> /\ GivenTokens(d)[1] = n.given[1]
  BY NameRead
<1>2. \E j \in DOMAIN SurnameTokens(b) : SurnameTokens(b)[j] = e
  BY NameRead
<1>3. \E j \in DOMAIN SurnameTokens(d) : SurnameTokens(d)[j] = e
  BY NameRead
<1>4. 1 \in DOMAIN e
  <2>1. n.family \in Seq(Token) /\ n.family # <<>>
    BY DEF Written, FullName
  <2>2. Len(n.family) \in DOMAIN n.family
    BY <2>1, EmptySeq, LenProperties
  <2>3. e \in Token
    BY <2>1, <2>2, ElementOfSeq, LenProperties
  <2>4. e \in Seq(STRING) /\ e # <<>>
    BY <2>3 DEF Token
  <2> QED
    BY <2>4, EmptySeq, LenProperties
<1> HIDE DEF e, d
<1>5. ASSUME NEW c, \E j \in DOMAIN SurnameTokens(c) : SurnameTokens(c)[j] = e
      PROVE  e[1] \in Components(c)
  BY <1>4, <1>5 DEF Components
<1>6. SurnamesMatch(b, d)
  BY <1>2, <1>3, <1>5 DEF SurnamesMatch
<1>7. GivenNamePoints(b, d) = ExactGiven
  BY <1>1 DEF GivenNamePoints
<1> QED
  BY <1>6, <1>7 DEF NameCompatibility, d

LEMMA OwnScoreReaches ==
  ASSUME NEW a \in Author, NEW u \in Person, FullName(NameOf[u]),
         Byline[a] \in {CommaOrder(NameOf[u]), DirectOrder(NameOf[u])},
         ~IsOneOf(NameOf[u].given[Len(NameOf[u].given)], Particle),
         ~IsOneOf(NameOf[u].given[1], Initial)
  PROVE  ScoreOf(a, u) >= MinScore
<1> DEFINE n == NameOf[u]
<1>1. Written(n)
  BY Names DEF Written
<1>2. NameCompatibility(Byline[a], DirectOrder(n)) = ExactGiven
  <2> HIDE DEF n
  <2>1. /\ Byline[a] \in {CommaOrder(n), DirectOrder(n)}
        /\ ~IsOneOf(n.given[Len(n.given)], Particle) /\ ~IsOneOf(n.given[1], Initial)
    BY DEF n
  <2> QED
    BY <1>1, <2>1, OwnNameScores
<1>3. NamePoints[a][u] = ExactGiven
  BY <1>2 DEF NamePoints, Account
<1>4. ASSUME NEW project, NEW current, NEW ever, NEW reached, NEW cited
      PROVE  ScorePair(ExactGiven, project, current, ever, reached, cited) >= MinScore
  <2>1. /\ ProjectPoints(project, current, ever) \in Nat
        /\ (IF reached THEN WeightPropagation ELSE 0) \in Nat
        /\ ScholarPoints(cited) \in Nat
    BY DEF ProjectPoints, WeightProject, WeightPropagation, ScholarPoints, WeightScholar
  <2> QED
    BY <2>1 DEF ScorePair, ExactGiven, NoCandidate, MinScore
<1> QED
  BY <1>3, <1>4 DEF ScoreOf

\* A candidate who is not on the list is behind as many as it takes.
LEMMA ListIsFull ==
  ASSUME TypeOK, NEW a \in Author, NEW u \in Person, person[u].active,
         ScoreOf(a, u) >= MinScore, u \notin Ranked(a)
  PROVE  /\ Ranked(a) \subseteq Person \ {u} /\ IsFiniteSet(Ranked(a))
         /\ Cardinality(Ranked(a)) >= MaxSuggestions
<1> DEFINE score == [v \in Person |-> ScoreOf(a, v)]
           cs == {v \in Person : person[v].active /\ score[v] >= MinScore}
           Ahead(v) == {w \in cs : score[w] > score[v] \/ (score[w] = score[v] /\ v \in Later[w])}
           missing == cs \ Ranked(a)
           size == [v \in missing |-> Cardinality(Ahead(v))]
<1>1. Ranked(a) = {v \in cs : Cardinality(Ahead(v)) < MaxSuggestions}
  BY DEF Ranked
<1>2. \A v \in Person : score[v] \in Int
  BY ScoreOfInt
<1>3. u \in missing /\ cs \subseteq Person
  OBVIOUS
<1>4. ASSUME NEW v \in cs PROVE IsFiniteSet(Ahead(v)) /\ Cardinality(Ahead(v)) \in Nat
  <2>1. Ahead(v) \subseteq Person
    OBVIOUS
  <2> HIDE DEF Ahead
  <2> QED
    BY <2>1, Uuids, FS_Subset, FS_CardinalityType
<1>5. ASSUME NEW v \in cs, NEW m \in cs, v \in Ahead(m)
      PROVE  Cardinality(Ahead(v)) < Cardinality(Ahead(m))
  <2>1. ASSUME NEW w \in Ahead(v) PROVE w \in Ahead(m)
    <3>1. /\ w \in cs /\ score[w] \in Int /\ score[v] \in Int /\ score[m] \in Int
          /\ w \in Person /\ v \in Person /\ m \in Person
      BY <1>2, <1>3
    <3>2. /\ score[w] > score[v] \/ (score[w] = score[v] /\ v \in Later[w])
          /\ score[v] > score[m] \/ (score[v] = score[m] /\ m \in Later[v])
      BY <1>5, <2>1
    <3>3. v \in Later[w] => Later[v] \subseteq Later[w]
      BY <3>1, Uuids
    <3> HIDE DEF score, cs
    <3>4. score[w] > score[m] \/ (score[w] = score[m] /\ m \in Later[w])
      BY <3>1, <3>2, <3>3
    <3> QED
      BY <3>1, <3>4
  <2>2. v \notin Ahead(v)
    BY <1>2, <1>3, Uuids
  <2> HIDE DEF Ahead, cs
  <2>3. Ahead(v) \subseteq Ahead(m) /\ Ahead(v) # Ahead(m)
    BY <1>5, <2>1, <2>2
  <2> QED
    BY <1>4, <2>3, FS_Subset, FS_CardinalityType
<1>6. PICK m \in missing : \A v \in missing : size[m] <= size[v]
  <2>1. missing # {} /\ \A v \in missing : size[v] \in Nat
    BY <1>3, <1>4
  <2> HIDE DEF missing, size
  <2> QED
    BY <2>1, LeastNumber
<1> HIDE DEF Ahead, cs
<1>7. Ahead(m) \subseteq Ranked(a)
  <2> SUFFICES ASSUME NEW v \in Ahead(m), v \notin Ranked(a) PROVE FALSE
    OBVIOUS
  <2>1. v \in cs /\ m \in cs
    BY DEF Ahead
  <2>2. v \in missing
    BY <2>1
  <2>3. Cardinality(Ahead(v)) < Cardinality(Ahead(m))
    BY <1>5, <2>1
  <2>4. Cardinality(Ahead(m)) <= Cardinality(Ahead(v))
    BY <1>6, <2>2
  <2> QED
    BY <1>4, <2>1, <2>3, <2>4
<1>8. m \in cs /\ ~(Cardinality(Ahead(m)) < MaxSuggestions)
  BY <1>1, <1>6
<1>9. Ranked(a) \subseteq Person \ {u}
  BY <1>1, <1>3
<1>10. IsFiniteSet(Ranked(a))
  BY <1>9, Uuids, FS_Subset
<1>11. Cardinality(Ahead(m)) <= Cardinality(Ranked(a))
  BY <1>7, <1>10, FS_Subset
<1>12. Cardinality(Ranked(a)) \in Nat /\ Cardinality(Ahead(m)) \in Nat
  BY <1>4, <1>8, <1>10, FS_CardinalityType
<1> QED
  BY <1>8, <1>9, <1>10, <1>11, <1>12, Uuids

\* After a run, an unclaimed row printed with a person's full name is decided or queued
\* for them, unless others took the places.
THEOREM OwnNameAlwaysQueued == Spec => []OwnNameQueued
<1>1. QueueInv => OwnNameQueued
  <2> SUFFICES ASSUME QueueInv, NEW a \in Author, NEW u \in Person,
                      last = "run", credit[a] = Null, person[u].active,
                      FullName(NameOf[u]),
                      Byline[a] \in {CommaOrder(NameOf[u]), DirectOrder(NameOf[u])},
                      ~IsOneOf(NameOf[u].given[Len(NameOf[u].given)], Particle),
                      ~IsOneOf(NameOf[u].given[1], Initial),
                      claim[<<a, u>>] = Null
               PROVE  Cardinality({v \in Person \ {u} : claim[<<a, v>>] # Null}) >= MaxSuggestions
    BY DEF OwnNameQueued
  <2>1. TypeOK /\ claim = QueueAfter(Scored("run")) /\ a \in Scored("run")
    BY DEF QueueInv, Settles, Scored
  <2>2. ASSUME NEW v \in Ranked(a) PROVE v \in Person /\ claim[<<a, v>>] # Null
    <3>1. v \in Person /\ <<a, v>> \in Pair
      BY DEF Ranked, Pair
    <3> DEFINE k == <<a, v>>
    <3>2. k \in Pair /\ k[1] = a /\ k[2] = v
      BY <3>1
    <3> HIDE DEF k
    <3>3. claim[k] = IF IsDecided(k) THEN claim[k]
                     ELSE IF k[1] \in Scored("run") /\ k[2] \in Ranked(k[1])
                     THEN [status |-> "suggested", score |-> ScoreOf(k[1], k[2])] ELSE Null
      BY <2>1, <3>2 DEF QueueAfter
    <3>4. ASSUME NEW i \in Int PROVE [status |-> "suggested", score |-> i] # Null
      BY Absence
    <3>5. ScoreOf(a, v) \in Int
      BY <3>1, ScoreOfInt
    <3>6. CASE IsDecided(k)
      BY <3>1, <3>6 DEF IsDecided, k
    <3>7. CASE ~IsDecided(k)
      <4>1. claim[k] = [status |-> "suggested", score |-> ScoreOf(a, v)]
        BY <2>1, <2>2, <3>2, <3>3, <3>7
      <4>2. claim[k] # Null
        BY <3>4, <3>5, <4>1
      <4> QED
        BY <3>1, <4>2 DEF k
    <3> QED
      BY <3>6, <3>7
  <2>3. u \notin Ranked(a)
    BY <2>2
  <2>4. ScoreOf(a, u) >= MinScore
    BY OwnScoreReaches
  <2>5. /\ Ranked(a) \subseteq Person \ {u} /\ IsFiniteSet(Ranked(a))
        /\ Cardinality(Ranked(a)) >= MaxSuggestions
    BY <2>1, <2>3, <2>4, ListIsFull
  <2> DEFINE taken == {v \in Person \ {u} : claim[<<a, v>>] # Null}
  <2>6. Ranked(a) \subseteq taken /\ taken \subseteq Person
    BY <2>2, <2>5
  <2> HIDE DEF taken
  <2>7. IsFiniteSet(taken)
    BY <2>6, Uuids, FS_Subset
  <2>8. Cardinality(Ranked(a)) <= Cardinality(taken)
    BY <2>6, <2>7, FS_Subset
  <2>9. Cardinality(Ranked(a)) \in Nat /\ Cardinality(taken) \in Nat
    BY <2>5, <2>7, FS_CardinalityType
  <2>10. Cardinality(taken) >= MaxSuggestions
    BY <2>5, <2>8, <2>9, Uuids
  <2> QED
    BY <2>10 DEF taken
<1> QED
  BY <1>1, QueueInvariant, PTL

=============================================================================
