---------------------------- MODULE ClaimScoring ----------------------------
(***************************************************************************)
(* How one pair of an author row and a person is scored: parsing the two   *)
(* names, the surname gate, and the four weighted signals                  *)
(* (name_matching.py and claim_scoring.py).                                *)
(*                                                                         *)
(* A written name is a record of tokens; a token is the sequence of words  *)
(* that hyphens join in it.  Folding case, accents and punctuation is      *)
(* already done: two words are equal when the code finds them equal.       *)
(* Scores are integers in units of 1/10000, the precision the code rounds  *)
(* to.                                                                     *)
(***************************************************************************)
EXTENDS Integers, Sequences, FiniteSets

CONSTANTS
  Particle,     \* PARTICLES: words that go with the surname after them
  Suffix,       \* SUFFIXES: words that carry no identity
  Initial,      \* words of one letter
  FirstLetter   \* FirstLetter[w]: the initial of each word w

-----------------------------------------------------------------------------
(* parse_name *)

\* "Last, First M." is [comma |-> TRUE, before |-> ..., after |-> ...]; the part
\* before the comma is the surname whole, suffix and all.  "First M. Last" has all
\* its tokens in `before`.
CommaOrder(n)  == [comma |-> TRUE, before |-> n.family, after |-> n.given \o n.suffix]
DirectOrder(n) == [comma |-> FALSE, before |-> n.given \o n.family \o n.suffix,
                   after |-> <<>>]

IsOneOf(token, words) == Len(token) = 1 /\ token[1] \in words

\* The elements at the positions in kept, in their order.
Kept(tokens, kept) ==
  [n \in 1..Cardinality(kept) |->
     tokens[CHOOSE i \in kept : Cardinality({j \in kept : j <= i}) = n]]

\* Slip: suffixes are taken for names.
EveryToken(tokens) == tokens
Identity(tokens) == Kept(tokens, {i \in DOMAIN tokens : ~IsOneOf(tokens[i], Suffix)})

\* Where the surname starts among the tokens of "First M. Last": the last token and
\* the particles right before it.
SurnameStart(tokens) ==
  CHOOSE i \in 1..Len(tokens) :
    /\ \A j \in i..(Len(tokens) - 1) : IsOneOf(tokens[j], Particle)
    /\ i = 1 \/ ~IsOneOf(tokens[i - 1], Particle)

SurnameTokens(name) ==
  LET tokens == Identity(name.before)
  IN IF name.comma THEN name.before
     ELSE IF tokens = <<>> THEN <<>>
     ELSE SubSeq(tokens, SurnameStart(tokens), Len(tokens))

GivenTokens(name) ==
  LET tokens == Identity(name.before)
  IN IF name.comma THEN Identity(name.after)
     ELSE IF tokens = <<>> THEN <<>>
     ELSE SubSeq(tokens, 1, SurnameStart(tokens) - 1)

\* The components of a surname: its tokens are joined with hyphens too.
Components(name) == UNION {{t[i] : i \in DOMAIN t} : t \in {SurnameTokens(name)[j] :
                                                        j \in DOMAIN SurnameTokens(name)}}

\* surnames_match: equal surnames, or a whole component in common.
SurnamesMatch(left, right) == Components(left) \cap Components(right) # {}

-----------------------------------------------------------------------------
(* given_name_score, times WEIGHT_NAME *)

ExactGiven       == 3600
FullVsInitial    == 2520
InitialVsInitial == 1620
GivenMissing     == 1260
GivenMismatch    == 0

GivenNamePoints(left, right) ==
  LET a == GivenTokens(left)
      b == GivenTokens(right)
      IsInitial(s) == IsOneOf(s[1], Initial)
      Consistent(full, initial) == FirstLetter[full[1][1]] = initial[1][1]
  IN IF a = <<>> \/ b = <<>> THEN GivenMissing
     ELSE IF IsInitial(a) = IsInitial(b)
     THEN IF a[1] # b[1] THEN GivenMismatch
          ELSE IF IsInitial(a) THEN InitialVsInitial ELSE ExactGiven
     ELSE IF IF IsInitial(a) THEN Consistent(b, a) ELSE Consistent(a, b)
     THEN FullVsInitial ELSE GivenMismatch

-----------------------------------------------------------------------------
(* The signals about papers *)

\* Slip: a weight nobody checked against the threshold.
HeavyPropagation == 2000

WeightProject     == 4400
WeightPropagation == 1500
WeightScholar     == 500
MinScore          == 2400

\* project_signal with FORMER_MEMBER_VALUE = 1: a membership that ended counts in
\* full.  A paper without a project is no signal.
ProjectPoints(project, current, ever) ==
  IF project \in current \cup ever THEN WeightProject ELSE 0

\* build_coauthorship_graph: the people credited on another paper that shares a
\* person with paper p, and not on p itself.  `credits` holds the <<person, paper>>
\* pairs of the Author rows with a fabric_uuid.
PeopleOf(credits, p) == {c[1] : c \in {x \in credits : x[2] = p}}
Reach(credits, p) ==
  {c[1] : c \in {x \in credits :
     x[2] # p /\ PeopleOf(credits, x[2]) \cap PeopleOf(credits, p) # {}}}
  \ PeopleOf(credits, p)

\* scholar_signal: a Scholar or Scopus identifier is on record.
ScholarPoints(hasIdentifier) == IF hasIdentifier THEN WeightScholar ELSE 0

\* name_compatibility; NoCandidate when the surname gate is shut.
NoCandidate == -1
NameCompatibility(byline, account) ==
  IF SurnamesMatch(byline, account) THEN GivenNamePoints(byline, account) ELSE NoCandidate

\* score_pair, from what name_compatibility returned.
ScorePair(name, project, current, ever, reached, hasIdentifier) ==
  IF name = NoCandidate THEN NoCandidate
  ELSE name + ProjectPoints(project, current, ever)
       + (IF reached THEN WeightPropagation ELSE 0) + ScholarPoints(hasIdentifier)

=============================================================================
