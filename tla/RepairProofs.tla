--------------------------- MODULE RepairProofs ---------------------------
(***************************************************************************)
(* Proofs about Repair: a repair beside every other writer leaves author   *)
(* lists and rows in agreement, takes no person off a publication, and     *)
(* changes no credit or decision that it does not record.                  *)
(***************************************************************************)
EXTENDS Repair, AttributionProofs, FiniteSetTheorems, WellFoundedInduction

-----------------------------------------------------------------------------
(* The choices a repair makes are defined: the least and the greatest of   *)
(* numbers exist.                                                          *)

LEMMA LeastOf ==
  ASSUME NEW S, S # {}, NEW f, \A x \in S : f[x] \in Nat
  PROVE  \E m \in S : \A x \in S : f[m] <= f[x]
<1> DEFINE Less == OpToRel(<, Nat)
           T    == {f[x] : x \in S}
<1>1. IsWellFoundedOn(Less, Nat)
  BY NatLessThanWellFounded
<1>2. T \subseteq Nat /\ T # {}
  <2>1. PICK x : x \in S
    OBVIOUS
  <2>2. f[x] \in T
    BY <2>1
  <2> QED
    BY <2>2
<1>3. \A a, b \in Nat : <<b, a>> \in Less <=> b < a
  BY DEF OpToRel
<1> HIDE DEF Less
<1>4. PICK a \in T : \A b \in T : ~ (<<b, a>> \in Less)
  <2> HIDE DEF T
  <2> QED
    BY <1>1, <1>2, WFMin
<1>5. PICK m \in S : a = f[m]
  OBVIOUS
<1>6. ASSUME NEW x \in S PROVE f[m] <= f[x]
  <2>1. f[x] \in T /\ f[x] \in Nat /\ a \in Nat
    BY <1>2
  <2>2. ~(f[x] < a)
    BY <1>3, <1>4, <2>1
  <2> QED
    BY <1>5, <2>1, <2>2
<1> QED
  BY <1>6

LEMMA LastOf ==
  ASSUME NEW n \in Nat, NEW S, S \subseteq 1..n, S # {}
  PROVE  \E m \in S : \A i \in S : i <= m
<1> DEFINE f == [i \in S |-> n - i]
<1>1. \A i \in S : f[i] = n - i /\ f[i] \in Nat /\ i \in Nat
  OBVIOUS
<1> HIDE DEF f
<1>2. PICK m \in S : \A i \in S : f[m] <= f[i]
  BY <1>1, LeastOf
<1>3. \A i \in S : i <= m
  BY <1>1, <1>2
<1> QED
  BY <1>3

\* A person who is credited in a list has a slot in it.
LEMMA SlotOfCredited ==
  ASSUME NEW n \in Nat, NEW credits, DOMAIN credits = 1..n, NEW u \in PeopleIn(credits)
  PROVE  SlotIn(credits, u) \in 1..n /\ credits[SlotIn(credits, u)] = u
<1> DEFINE S == {i \in 1..n : credits[i] = u}
<1>1. S \subseteq 1..n /\ S # {}
  BY DEF PeopleIn
<1>2. PICK m \in S : \A i \in S : i <= m
  <2> HIDE DEF S
  <2> QED
    BY <1>1, LastOf
<1>3. m \in DOMAIN credits /\ credits[m] = u /\ \A j \in DOMAIN credits : credits[j] = u => j <= m
  BY <1>2
<1> QED
  BY <1>3 DEF SlotIn

-----------------------------------------------------------------------------
(* What a relocation does to the claims table *)

LEMMA RelocatedClaims ==
  ASSUME NEW cl \in ClaimTable, NEW s \in Row, NEW d \in Row, NEW u \in Person, NEW k \in Row \X Person
  PROVE  /\ Relocated(cl, s, d, u)[k] \in ClaimRow \cup {NoClaim}
         /\ k # <<s, u>> /\ k # <<d, u>> => Relocated(cl, s, d, u)[k] = cl[k]
         /\ k # <<d, u>> /\ cl[k] = NoClaim => Relocated(cl, s, d, u)[k] = NoClaim
<1> DEFINE a     == <<s, u>>
           b     == <<d, u>>
           moved == IF cl[<<s, u>>] # NoClaim THEN cl[<<s, u>>]
                    ELSE IF IsDecidedIn(cl, <<d, u>>) THEN cl[<<d, u>>] ELSE NoClaim
           less  == [cl EXCEPT ![a] = NoClaim]
<1>1. a \in Row \X Person /\ b \in Row \X Person
  OBVIOUS
<1>2. moved \in ClaimRow \cup {NoClaim}
  BY <1>1 DEF ClaimTable
<1>3. Relocated(cl, s, d, u) = [less EXCEPT ![b] = moved]
  BY DEF Relocated
<1> HIDE DEF a, b, moved
<1>4. less \in ClaimTable /\ less[k] = IF k = a THEN NoClaim ELSE cl[k]
  BY <1>1 DEF ClaimTable
<1> HIDE DEF less
<1>5. [less EXCEPT ![b] = moved][k] = IF k = b THEN moved ELSE less[k]
  BY <1>4 DEF ClaimTable
<1>6. cl[k] \in ClaimRow \cup {NoClaim}
  BY DEF ClaimTable
<1> QED
  BY <1>2, <1>3, <1>4, <1>5, <1>6 DEF a, b

-----------------------------------------------------------------------------
(* A plan that fits the stored list *)

Fits(p, names, target) == /\ p \in LivePub /\ names \in NameList /\ target \in Plan(names)
                          /\ SamePeople(authors[p], target)

LEMMA FittingPlan ==
  ASSUME ListInv, NEW p, NEW names, NEW target, Fits(p, names, target),
         NEW list, list = authors[p]
  PROVE  /\ p \in Pub /\ list \in Seq(Row) /\ DOMAIN list = 1..Len(list) /\ Len(list) \in Nat
         /\ Listed(list) = RowsOf(p) /\ Listed(list) \subseteq Row /\ Distinct(list)
         /\ \E n \in Nat : DOMAIN names = 1..n /\ DOMAIN target = 1..n
         /\ \A i \in DOMAIN names : names[i] \in Name /\ target[i] \in Person \cup {Null}
         /\ \A u \in PeopleIn(target) :
              /\ u \in Person /\ SlotIn(target, u) \in DOMAIN names
              /\ target[SlotIn(target, u)] = u
         /\ \A u \in Moving(list, target) : u \in Person /\ Leaves(list, target, u) \in Listed(list)
         /\ \A u \in Ahead(list, target) : u \in Person /\ Lands(list, target, u) \in Listed(list)
<1>1. /\ p \in Pub /\ list \in Seq(Row) /\ Listed(list) = RowsOf(p) /\ Distinct(list)
  BY LiveList DEF Fits, LivePub
<1>2. DOMAIN list = 1..Len(list) /\ Len(list) \in Nat /\ Listed(list) \subseteq Row
  BY <1>1, LenProperties DEF RowsOf, Live
<1>3. PICK n \in Nat : names \in [1..n -> Name]
  BY Constants DEF Fits, NameList
<1>4. target \in [1..n -> Person \cup {Null}] /\ DOMAIN names = 1..n
  BY <1>3 DEF Fits, Plan
<1>5. ASSUME NEW u \in PeopleIn(target)
      PROVE  /\ u \in Person /\ SlotIn(target, u) \in 1..n
             /\ target[SlotIn(target, u)] = u
  BY <1>4, SlotOfCredited DEF PeopleIn
<1>6. ASSUME NEW u \in Moving(list, target)
      PROVE  u \in Person /\ Leaves(list, target, u) \in Listed(list)
  <2> DEFINE credits == CreditsOf(author, list)
  <2>1. DOMAIN credits = 1..Len(list)
    BY <1>2 DEF CreditsOf
  <2>2. u \in PeopleIn(credits) /\ u \in Person
    BY <1>6 DEF Moving, Fits, SamePeople, PeopleIn
  <2> HIDE DEF credits
  <2>3. SlotIn(credits, u) \in 1..Len(list)
    BY <1>2, <2>1, <2>2, SlotOfCredited
  <2> QED
    BY <1>2, <2>2, <2>3 DEF credits, Leaves, Listed
<1>7. ASSUME NEW u \in Ahead(list, target)
      PROVE  u \in Person /\ Lands(list, target, u) \in Listed(list)
  BY <1>6, <1>7 DEF Ahead, Lands, Listed
<1> QED
  BY <1>1, <1>2, <1>3, <1>4, <1>5, <1>6, <1>7

\* Carrying claims ahead touches rows of the list only.
LEMMA CarriedClaims ==
  ASSUME ListInv, NEW p, NEW names, NEW target, Fits(p, names, target),
         NEW list, list = authors[p]
  PROVE  /\ Carried(list, target) \in ClaimTable
         /\ \A x \in Row, u \in Person :
              x \notin Listed(list) => Carried(list, target)[<<x, u>>] = claim[<<x, u>>]
<1>1. /\ Listed(list) \subseteq Row
      /\ \A u \in Moving(list, target) : u \in Person /\ Leaves(list, target, u) \in Listed(list)
      /\ \A u \in Ahead(list, target) : u \in Person /\ Lands(list, target, u) \in Listed(list)
  BY FittingPlan
<1>2. claim \in ClaimTable
  BY ListTables
<1>3. ASSUME NEW x \in Row, NEW u \in Person
      PROVE  /\ Carried(list, target)[<<x, u>>] \in ClaimRow \cup {NoClaim}
             /\ x \notin Listed(list) => Carried(list, target)[<<x, u>>] = claim[<<x, u>>]
  <2>1. CASE u \in Ahead(list, target)
    <3> DEFINE from == Leaves(list, target, u)
               to   == Lands(list, target, u)
    <3>1. u \in Moving(list, target)
      BY <2>1 DEF Ahead
    <3>2. from \in Listed(list) /\ to \in Listed(list) /\ from \in Row /\ to \in Row
      BY <1>1, <2>1, <3>1
    <3>3. Carried(list, target)[<<x, u>>] = Relocated(claim, from, to, u)[<<x, u>>]
      BY <2>1 DEF Carried
    <3> HIDE DEF from, to
    <3>4. /\ Relocated(claim, from, to, u)[<<x, u>>] \in ClaimRow \cup {NoClaim}
          /\ <<x, u>> # <<from, u>> /\ <<x, u>> # <<to, u>>
             => Relocated(claim, from, to, u)[<<x, u>>] = claim[<<x, u>>]
      BY <1>2, <3>2, RelocatedClaims
    <3> QED
      BY <3>2, <3>3, <3>4
  <2>2. CASE u \notin Ahead(list, target)
    BY <1>2, <2>2 DEF Carried, ClaimTable
  <2> QED
    BY <2>1, <2>2
<1>4. Carried(list, target) \in ClaimTable
  <2>1. \A k \in Row \X Person : Carried(list, target)[k] \in ClaimRow \cup {NoClaim}
    BY <1>3
  <2>2. Carried(list, target) = [k \in Row \X Person |-> Carried(list, target)[k]]
    BY DEF Carried
  <2> QED
    BY <2>1, <2>2 DEF ClaimTable
<1> QED
  BY <1>3, <1>4

\* Gathering strays touches rows of the new list only.
LEMMA GatheredClaims ==
  ASSUME NEW cl \in ClaimTable, NEW slots, NEW target, Listed(slots) \subseteq Row,
         \A u \in PeopleIn(target) : u \in Person /\ slots[SlotIn(target, u)] \in Listed(slots)
  PROVE  /\ Gathered(cl, slots, target) \in ClaimTable
         /\ \A x \in Row, u \in Person :
              x \notin Listed(slots) => Gathered(cl, slots, target)[<<x, u>>] = cl[<<x, u>>]
<1>1. ASSUME NEW u \in Strayed(cl, slots, target)
      PROVE  /\ u \in Person /\ slots[SlotIn(target, u)] \in Listed(slots)
             /\ Stray(cl, slots, target, u) \in Listed(slots)
  <2> DEFINE S == Strays(cl, slots, target, u)
             f == [x \in S |-> cl[<<x, u>>].id]
  <2>1. S # {} /\ u \in PeopleIn(target)
    BY <1>1 DEF Strayed
  <2>2. \A x \in S : x \in Listed(slots) /\ cl[<<x, u>>] # NoClaim
    BY DEF Strays, IsDecidedIn
  <2>3. \A x \in S : cl[<<x, u>>].id \in Nat
    <3>1. ASSUME NEW x \in S PROVE cl[<<x, u>>].id \in Nat
      <4>1. cl[<<x, u>>] \in ClaimRow
        BY <2>1, <2>2 DEF ClaimTable
      <4> QED
        BY <4>1, Constants DEF ClaimRow
    <3> QED
      BY <3>1
  <2>4. \A x \in S : f[x] = cl[<<x, u>>].id
    OBVIOUS
  <2> HIDE DEF f, S
  <2>5. PICK m \in S : \A x \in S : f[m] <= f[x]
    BY <2>1, <2>3, <2>4, LeastOf
  <2>6. m \in S /\ \A x \in S : cl[<<m, u>>].id <= cl[<<x, u>>].id
    BY <2>4, <2>5
  <2>7. Stray(cl, slots, target, u) \in S
    BY <2>6 DEF Stray, S
  <2> QED
    BY <2>1, <2>2, <2>7
<1>2. ASSUME NEW x \in Row, NEW u \in Person
      PROVE  /\ Gathered(cl, slots, target)[<<x, u>>] \in ClaimRow \cup {NoClaim}
             /\ x \notin Listed(slots) => Gathered(cl, slots, target)[<<x, u>>] = cl[<<x, u>>]
  <2>1. CASE u \in Strayed(cl, slots, target)
    <3> DEFINE from == Stray(cl, slots, target, u)
               to   == slots[SlotIn(target, u)]
    <3>1. from \in Listed(slots) /\ to \in Listed(slots) /\ from \in Row /\ to \in Row
      BY <1>1, <2>1
    <3>2. Gathered(cl, slots, target)[<<x, u>>] = Relocated(cl, from, to, u)[<<x, u>>]
      BY <2>1 DEF Gathered
    <3> HIDE DEF from, to
    <3>3. /\ Relocated(cl, from, to, u)[<<x, u>>] \in ClaimRow \cup {NoClaim}
          /\ <<x, u>> # <<from, u>> /\ <<x, u>> # <<to, u>>
             => Relocated(cl, from, to, u)[<<x, u>>] = cl[<<x, u>>]
      BY <3>1, RelocatedClaims
    <3> QED
      BY <3>1, <3>2, <3>3
  <2>2. CASE u \notin Strayed(cl, slots, target)
    BY <2>2 DEF Gathered, ClaimTable
  <2> QED
    BY <2>1, <2>2
<1>3. Gathered(cl, slots, target) \in ClaimTable
  <2>1. \A k \in Row \X Person : Gathered(cl, slots, target)[k] \in ClaimRow \cup {NoClaim}
    BY <1>2
  <2>2. Gathered(cl, slots, target) = [k \in Row \X Person |-> Gathered(cl, slots, target)[k]]
    BY DEF Gathered
  <2> QED
    BY <2>1, <2>2 DEF ClaimTable
<1> QED
  BY <1>2, <1>3

-----------------------------------------------------------------------------
(* What a repair leaves in the tables *)

\* The claims once the list is written: step 4 withdraws the suggestions of the rows it
\* renames, and the surplus rows go with theirs.
ClaimsListed(p, names, target) ==
  Cascade(Withdraw(Carried(authors[p], target), Renamed(authors[p], names), {}),
          Surplus(authors[p], names))

\* The assignments of a repair, for the rows it chose.
Repairs(p, names, target, slots) ==
  /\ slots \in [DOMAIN names -> FreshRow \cup Listed(authors[p])]
  /\ FillsSlots(slots, authors[p], KeptSlots(authors[p], names))
  /\ CreditsOf(author', slots) = target
  /\ authors' = [authors EXCEPT ![p] = slots]
  /\ author' = ListRepaired(p, slots, names, target)
  /\ claim' = Gathered(ClaimsListed(p, names, target), slots, target)
  /\ recorded' =
       {MidSnapshot(Carried(authors[p], target), Detached(authors[p], target), r) : r \in
          {x \in Renamed(authors[p], names) :
             ~Disposable(Carried(authors[p], target), Detached(authors[p], target), x)}}
       \cup {SnapshotOf(r) : r \in {x \in Listed(authors[p]) : Changed(claim', author', x)}}
  /\ UNCHANGED <<edit, queue, scorer>>

LEMMA RepairChooses ==
  ASSUME NEW p \in Pub, NEW names \in NameList, NEW target \in Plan(names),
         RepairPublication(p, names, target)
  PROVE  Fits(p, names, target) /\ \E slots : Repairs(p, names, target, slots)
<1>1. Fits(p, names, target)
  BY DEF RepairPublication, Fits
<1>2. \E slots \in [DOMAIN names -> FreshRow \cup Listed(authors[p])] :
        Repairs(p, names, target, slots)
  BY DEF RepairPublication, Repairs, ClaimsListed
<1> QED
  BY <1>1, <1>2

\* The rows a repair chose: the list's own slots, then fresh rows.
LEMMA ChosenRows ==
  ASSUME ListInv, NEW p, NEW names, NEW target, Fits(p, names, target),
         NEW slots, Repairs(p, names, target, slots)
  PROVE  /\ DOMAIN slots = DOMAIN names /\ DOMAIN slots = DOMAIN target
         /\ Distinct(slots) /\ Listed(slots) \subseteq Row
         /\ \A x \in Live : x \in Listed(slots) => x \in Listed(authors[p])
         /\ \A x \in Listed(authors[p]) : x \notin Listed(slots) => x \in Surplus(authors[p], names)
         /\ Renamed(authors[p], names) \subseteq Listed(authors[p])
         /\ Surplus(authors[p], names) \subseteq Listed(authors[p])
         /\ \A u \in PeopleIn(target) : u \in Person /\ slots[SlotIn(target, u)] \in Listed(slots)
<1> DEFINE list == authors[p]
<1>1. /\ Listed(list) \subseteq Row
      /\ \E n \in Nat : DOMAIN names = 1..n /\ DOMAIN target = 1..n
      /\ \A u \in PeopleIn(target) : u \in Person /\ SlotIn(target, u) \in DOMAIN names
  BY FittingPlan
<1>2. /\ slots \in [DOMAIN names -> FreshRow \cup Listed(list)]
      /\ FillsSlots(slots, list, KeptSlots(list, names))
  BY DEF Repairs
<1>3. DOMAIN slots = DOMAIN names /\ Distinct(slots)
  BY <1>2 DEF FillsSlots, Distinct
<1>4. Listed(slots) \subseteq FreshRow \cup Listed(list)
  BY <1>2 DEF Listed
<1>5. Listed(slots) \subseteq Row /\ \A x \in Live : x \in Listed(slots) => x \in Listed(list)
  BY <1>1, <1>4 DEF FreshRow
<1>6. ASSUME NEW x \in Listed(list), x \notin Listed(slots) PROVE x \in Surplus(list, names)
  <2>1. PICK i \in DOMAIN list : x = list[i]
    BY DEF Listed
  <2>2. ASSUME i \in DOMAIN names PROVE FALSE
    <3> DEFINE m == <<i, i>>
    <3>1. m \in KeptSlots(list, names) /\ m[1] = i /\ m[2] = i
      BY <2>1, <2>2 DEF KeptSlots
    <3> HIDE DEF m
    <3>2. slots[i] = list[i]
      BY <1>2, <3>1 DEF FillsSlots
    <3> QED
      BY <1>3, <1>6, <2>1, <2>2, <3>2 DEF Listed
  <2> QED
    BY <2>1, <2>2 DEF Surplus
<1>7. Renamed(list, names) \subseteq Listed(list) /\ Surplus(list, names) \subseteq Listed(list)
  BY DEF Renamed, Surplus, Listed
<1>8. \A u \in PeopleIn(target) : u \in Person /\ slots[SlotIn(target, u)] \in Listed(slots)
  BY <1>1, <1>3 DEF Listed
<1>9. DOMAIN slots = DOMAIN target
  BY <1>1, <1>3
<1> QED
  BY <1>3, <1>5, <1>6, <1>7, <1>8, <1>9

\* The rows of the list as steps 1 and 2 leave them.
LEMMA DetachedRows ==
  ASSUME ListInv, NEW p, NEW names, NEW target, Fits(p, names, target),
         NEW x \in Listed(authors[p])
  PROVE  x \in Live /\ Detached(authors[p], target)[x].credit \in Credit
<1>1. x \in Live
  BY FittingPlan DEF RowsOf
<1>2. author[x] \in AuthorRow /\ author[x].credit \in Credit /\ x \in Row
  BY <1>1, LiveRow
<1> DEFINE d == Detached(authors[p], target)[x]
<1>3. d = author[x] \/ d = [author[x] EXCEPT !.credit = Null]
  BY <1>2 DEF Detached
<1> HIDE DEF d
<1>4. d.credit \in Credit
  BY <1>2, <1>3, Constants DEF AuthorRow, Credit
<1> QED
  BY <1>1, <1>4 DEF d

LEMMA RepairedLists ==
  ASSUME ListInv, NEW p, NEW names, NEW target, Fits(p, names, target),
         NEW slots, Repairs(p, names, target, slots)
  PROVE  /\ authors' \in ListTable /\ author' \in AuthorTable /\ ListsAgree(authors', author')
         /\ \A x \in Listed(slots) : author'[x] # NoRow /\ author'[x].pub = p
         /\ \A x \in Row : x \notin Listed(slots) /\ x \notin Listed(authors[p])
                           => author'[x] = author[x]
<1> DEFINE before == Listed(authors[p])
           credit == [r \in Row |-> IF r \in Listed(slots) THEN CreditAt(p, slots, target, r)
                                    ELSE Null]
<1>1. /\ p \in Pub /\ names \in NameList /\ before = RowsOf(p) /\ DOMAIN slots = DOMAIN target
      /\ \A i \in DOMAIN target : target[i] \in Person \cup {Null}
      /\ Distinct(slots) /\ Listed(slots) \subseteq Row
  <2>1. \A i \in DOMAIN target : target[i] \in Person \cup {Null}
    BY FittingPlan
  <2> QED
    BY <2>1, FittingPlan, ChosenRows DEF Fits
<1>2. ASSUME NEW r \in Listed(slots) PROVE CreditAt(p, slots, target, r) \in Credit
  <2>1. IndexIn(slots, r) \in DOMAIN target
    BY <1>1, IndexOfListed
  <2>2. target[IndexIn(slots, r)] \in Person => target[IndexIn(slots, r)] \in Credit
    BY DEF Credit
  <2>3. r \in Listed(authors[p]) => Detached(authors[p], target)[r].credit \in Credit
    BY DetachedRows
  <2>4. Null \in Credit
    BY Constants DEF Credit
  <2> QED
    BY <2>2, <2>3, <2>4 DEF CreditAt
<1>3. credit \in [Row -> Credit]
  BY <1>2, Constants DEF Credit
<1>4. author' = [x \in Row |->
        IF x \in Listed(slots)
        THEN [name |-> names[IndexIn(slots, x)], pub |-> p, order |-> IndexIn(slots, x) - 1,
              credit |-> CreditAt(p, slots, target, x)]
        ELSE IF x \in before THEN NoRow ELSE author[x]]
  BY DEF Repairs, ListRepaired
<1>5. WritesCredits(p, slots, names, before, credit)
  <2>1. \A x \in Row : x \in Listed(slots) => credit[x] = CreditAt(p, slots, target, x)
    OBVIOUS
  <2>2. authors' = [authors EXCEPT ![p] = slots]
    BY DEF Repairs
  <2> HIDE DEF credit, before
  <2> QED
    BY <1>4, <2>1, <2>2 DEF WritesCredits
<1>6. slots \in [DOMAIN names -> FreshRow \cup before]
  BY DEF Repairs
<1> HIDE DEF credit, before
<1>7. authors' \in ListTable /\ author' \in AuthorTable /\ ListsAgree(authors', author')
  BY <1>1, <1>3, <1>5, <1>6, WrittenCredits DEF ListInv
<1>8. ASSUME NEW x \in Listed(slots) PROVE author'[x] # NoRow /\ author'[x].pub = p
  <2>1. authors'[p] = slots /\ slots # NoPub
    <3>1. authors \in ListTable /\ authors' \in ListTable
      BY <1>7, ListTables
    <3>2. authors'[p] = slots
      BY <1>1, <3>1 DEF ListTable, Repairs
    <3>3. slots \in Seq(Row)
      <4>1. PICK n \in Nat : DOMAIN names = 1..n
        BY FittingPlan
      <4>2. slots \in [1..n -> Row]
        BY <1>1, <1>6, <4>1 DEF Listed
      <4> QED
        BY <4>2
    <3> QED
      BY <3>2, <3>3, Absences
  <2>2. Listed(slots) = {y \in Row : author'[y] # NoRow /\ author'[y].pub = p}
    BY <1>1, <1>7, <2>1 DEF ListsAgree
  <2> QED
    BY <2>2
<1>9. \A x \in Row : x \notin Listed(slots) /\ x \notin before => author'[x] = author[x]
  BY <1>4
<1> QED
  BY <1>7, <1>8, <1>9 DEF before

LEMMA RepairedClaims ==
  ASSUME ListInv, NEW p, NEW names, NEW target, Fits(p, names, target),
         NEW slots, Repairs(p, names, target, slots)
  PROVE  /\ claim' \in ClaimTable
         /\ \A x \in Row, u \in Person : x \notin Listed(slots) =>
              claim'[<<x, u>>] = IF x \in Listed(authors[p]) THEN NoClaim ELSE claim[<<x, u>>]
<1> DEFINE carried == Carried(authors[p], target)
           renamed == Renamed(authors[p], names)
           surplus == Surplus(authors[p], names)
           left    == Withdraw(carried, renamed, {})
           listed  == Cascade(left, surplus)
<1>1. /\ carried \in ClaimTable
      /\ \A x \in Row, u \in Person :
           x \notin Listed(authors[p]) => carried[<<x, u>>] = claim[<<x, u>>]
  BY CarriedClaims
<1>2. /\ claim' = Gathered(listed, slots, target)
      /\ Listed(slots) \subseteq Row
      /\ \A x \in Listed(authors[p]) : x \notin Listed(slots) => x \in surplus
      /\ renamed \subseteq Listed(authors[p]) /\ surplus \subseteq Listed(authors[p])
      /\ \A u \in PeopleIn(target) : u \in Person /\ slots[SlotIn(target, u)] \in Listed(slots)
  BY ChosenRows DEF Repairs, ClaimsListed
<1> HIDE DEF carried, renamed, surplus
<1>3. left \in ClaimTable
  BY <1>1, WithdrawnTable
<1>4. \A x \in Row, u \in Person : x \notin renamed => left[<<x, u>>] = carried[<<x, u>>]
  BY WithdrawnClaims
<1> HIDE DEF left
<1>5. listed \in ClaimTable
  BY <1>3, CascadedTable
<1>6. \A x \in Row, u \in Person :
        listed[<<x, u>>] = IF x \in surplus THEN NoClaim ELSE left[<<x, u>>]
  <2> SUFFICES ASSUME NEW x \in Row, NEW u \in Person
               PROVE  listed[<<x, u>>] = IF x \in surplus THEN NoClaim ELSE left[<<x, u>>]
    OBVIOUS
  <2>1. Cascade(left, surplus)[<<x, u>>] = IF x \in surplus THEN NoClaim ELSE left[<<x, u>>]
    BY CascadedClaims
  <2> QED
    BY <2>1
<1> HIDE DEF listed
<1>7. /\ claim' \in ClaimTable
      /\ \A x \in Row, u \in Person :
           x \notin Listed(slots) => claim'[<<x, u>>] = listed[<<x, u>>]
  BY <1>2, <1>5, GatheredClaims
<1> QED
  BY <1>1, <1>2, <1>4, <1>6, <1>7

\* What a repair records is a snapshot of a row that was there.
LEMMA RepairRecords ==
  ASSUME ListInv, NEW p, NEW names, NEW target, Fits(p, names, target),
         NEW slots, Repairs(p, names, target, slots)
  PROVE  recorded' \subseteq Snapshot
<1> DEFINE list == authors[p]
<1>1. ASSUME NEW x \in Listed(list) PROVE SnapshotOf(x) \in Snapshot
  BY DetachedRows, SnapshotTyped DEF ListInv
<1>2. ASSUME NEW x \in Listed(list)
      PROVE  MidSnapshot(Carried(list, target), Detached(list, target), x) \in Snapshot
  <2> DEFINE cl == Carried(list, target)
             au == Detached(list, target)
  <2>1. cl \in ClaimTable
    BY CarriedClaims
  <2>2. x \in Row /\ au[x].credit \in Credit
    BY DetachedRows DEF Live
  <2> HIDE DEF cl, au, list
  <2>3. ASSUME NEW u \in Person, cl[<<x, u>>] # NoClaim
        PROVE  cl[<<x, u>>].status \in Status
    BY <2>1, <2>2, <2>3 DEF ClaimTable, ClaimRow
  <2>4. MidSnapshot(cl, au, x) \in Snapshot
    BY <2>2, <2>3 DEF MidSnapshot, Snapshot
  <2> QED
    BY <2>4 DEF cl, au, list
<1>3. Renamed(list, names) \subseteq Listed(list)
  BY ChosenRows
<1> QED
  BY <1>1, <1>2, <1>3 DEF Repairs

-----------------------------------------------------------------------------
(* The invariant *)

LEMMA RepairKeepsInv ==
  ASSUME ListInv, NEW p \in Pub, NEW names \in NameList, NEW target \in Plan(names),
         RepairPublication(p, names, target)
  PROVE  ListInv'
<1>1. Fits(p, names, target)
  BY RepairChooses
<1>2. PICK slots : Repairs(p, names, target, slots)
  BY RepairChooses
<1>3. /\ authors' \in ListTable /\ author' \in AuthorTable /\ ListsAgree(authors', author')
      /\ \A x \in Listed(slots) : author'[x] # NoRow
      /\ \A x \in Row : x \notin Listed(slots) /\ x \notin Listed(authors[p])
                        => author'[x] = author[x]
  BY <1>1, <1>2, RepairedLists
<1>4. /\ claim' \in ClaimTable
      /\ \A x \in Row, u \in Person : x \notin Listed(slots) =>
           claim'[<<x, u>>] = IF x \in Listed(authors[p]) THEN NoClaim ELSE claim[<<x, u>>]
  BY <1>1, <1>2, RepairedClaims
<1>5. RequestsTyped'
  <2>1. recorded' \subseteq Snapshot
    BY <1>1, <1>2, RepairRecords
  <2> QED
    BY <1>2, <2>1 DEF Repairs, ListInv, TypeOK, RequestsTyped
<1>6. ClaimsHaveRows(claim', author')
  <2>1. ASSUME NEW x \in Row, NEW u \in Person, claim'[<<x, u>>] # NoClaim
        PROVE  author'[x] # NoRow
    BY <1>3, <1>4, <2>1, ListTables
  <2> QED
    BY <2>1 DEF ClaimsHaveRows
<1> QED
  BY <1>3, <1>4, <1>5, <1>6, InvAfter

LEMMA RepairInvKept == ListInv /\ [RepairNext]_vars => ListInv'
BY InvKept, RepairKeepsInv DEF RepairNext

LEMMA RepairInvAlways == RepairSpec => []ListInv
BY InvInitially, RepairInvKept, PTL DEF RepairSpec

-----------------------------------------------------------------------------
(* One row over a repair *)

\* A row of the list that a repair changes is in the correction it records; every other
\* row is left alone.
LEMMA RepairKeepsRows ==
  ASSUME ListInv, NEW p \in Pub, NEW names \in NameList, NEW target \in Plan(names),
         RepairPublication(p, names, target), NEW x \in Row
  PROVE  Kept(x)
<1>1. Fits(p, names, target)
  BY RepairChooses
<1>2. PICK slots : Repairs(p, names, target, slots)
  BY RepairChooses
<1>3. CASE x \notin Live
  BY <1>3, AbsentGrows DEF Kept, Live
<1>4. CASE x \in Live /\ x \notin Listed(authors[p])
  <2>1. x \notin Listed(slots)
    BY <1>1, <1>2, <1>4, ChosenRows
  <2>2. author'[x] = author[x]
    BY <1>1, <1>2, <1>4, <2>1, RepairedLists
  <2>3. \A u \in Person : claim'[<<x, u>>] = claim[<<x, u>>]
    BY <1>1, <1>2, <1>4, <2>1, RepairedClaims
  <2> QED
    BY <2>2, <2>3 DEF Kept, Grown
<1>5. CASE x \in Live /\ x \in Listed(authors[p]) /\ Changed(claim', author', x)
  BY <1>2, <1>5 DEF Repairs, Kept
<1>6. CASE x \in Live /\ ~Changed(claim', author', x)
  BY <1>6 DEF Kept, Grown, Changed
<1> QED
  BY <1>3, <1>4, <1>5, <1>6

LEMMA EveryStepKeepsRows ==
  ASSUME ListInv, [RepairNext]_vars, NEW x \in Row
  PROVE  Kept(x)
BY StepKeepsRows, RepairKeepsRows DEF RepairNext

LEMMA DoubtIsContradiction ==
  ASSUME NEW x \in Row, NEW u \in Person, Doubtful(x, u)
  PROVE  Contradicted(x, u)
BY DEF Doubtful, Contradicted, Firm, Holds, StatusOf, Live, Decided, Crediting, Status

-----------------------------------------------------------------------------
(* Who is credited on a publication *)

\* A step after which every credited row is where it was, or its publication is gone.
Settled ==
  \A x \in Live : author[x].credit \in Person =>
    \/ author'[x] # NoRow /\ author'[x].pub = author[x].pub /\ author'[x].credit = author[x].credit
    \/ authors'[author[x].pub] = NoPub

LEMMA SettledKeepsPeople ==
  ASSUME Settled, NEW p \in LivePub, p \in LivePub'
  PROVE  CreditedOn(p) \subseteq CreditedOn(p)'
<1>1. ASSUME NEW u \in CreditedOn(p) PROVE u \in CreditedOn(p)'
  <2>1. PICK x \in Live : author[x].pub = p /\ u = author[x].credit /\ u \in Person
    BY DEF CreditedOn
  <2>2. x \in Row /\ author'[x] # NoRow /\ author'[x].pub = p /\ author'[x].credit = u
    BY <2>1 DEF Settled, LivePub, Live
  <2> QED
    BY <2>1, <2>2 DEF CreditedOn, Live
<1> QED
  BY <1>1

\* Steps that record no correction and move no row.
LEMMA UnrecordedSettles ==
  ASSUME ListInv, [Next]_vars, recorded' = {},
         \A x \in Live : author'[x] # NoRow => author'[x].pub = author[x].pub
  PROVE  Settled
<1>1. ASSUME NEW x \in Live, author[x].credit \in Person
      PROVE  author'[x] # NoRow /\ author'[x].credit = author[x].credit
  <2>1. x \in Row /\ author[x] # NoRow
    BY DEF Live
  <2>2. Kept(x)
    BY <2>1, StepKeepsRows
  <2> QED
    BY <1>1, <2>1, <2>2 DEF Kept, Grown
<1> QED
  BY <1>1 DEF Settled

LEMMA PublicationSettles ==
  ASSUME ListInv, NEW p \in Pub, NEW names \in NameList,
         CreatePublication(p, names) \/ UpdatePublication(p, names)
  PROVE  Settled
<1>1. CASE CreatePublication(p, names)
  <2>1. PICK slots \in [DOMAIN names -> FreshRow] : author' = ListWritten(p, slots, names, {})
    BY <1>1 DEF CreatePublication
  <2>2. ASSUME NEW x \in Live PROVE author'[x] = author[x]
    <3>1. x \notin Listed(slots) /\ x \in Row
      BY DEF Listed, FreshRow, Live
    <3> QED
      BY <2>1, <3>1 DEF ListWritten
  <2> QED
    BY <2>2 DEF Settled, Live
<1>2. CASE UpdatePublication(p, names)
  <2>1. p \in LivePub /\ recorded' = {}
    BY <1>2 DEF UpdatePublication
  <2>2. Listed(authors[p]) = RowsOf(p)
    BY <2>1, LiveList
  <2>3. PICK slots \in [DOMAIN names -> FreshRow \cup Listed(authors[p])] :
          author' = ListWritten(p, slots, names, Listed(authors[p]))
    BY <1>2 DEF UpdatePublication
  <2>4. ASSUME NEW x \in Live, author'[x] # NoRow PROVE author'[x].pub = author[x].pub
    <3>1. x \in Row
      BY DEF Live
    <3>2. CASE x \in Listed(slots)
      <4>1. x \in RowsOf(p)
        BY <2>2, <2>3, <3>2 DEF Listed, FreshRow
      <4>2. author'[x].pub = p
        BY <2>3, <3>1, <3>2 DEF ListWritten
      <4> QED
        BY <4>1, <4>2 DEF RowsOf
    <3>3. CASE x \notin Listed(slots)
      BY <2>3, <2>4, <3>1, <3>3 DEF ListWritten
    <3> QED
      BY <3>2, <3>3
  <2>5. [Next]_vars
    BY <1>2 DEF Next
  <2> QED
    BY <2>1, <2>4, <2>5, UnrecordedSettles
<1> QED
  BY <1>1, <1>2

LEMMA AdminCreateSettles ==
  ASSUME ListInv, NEW r \in Row, NEW name \in Name, NEW pub \in Pub, NEW credit \in Credit,
         AdminCreates(r, name, pub, credit)
  PROVE  Settled
<1> DEFINE new == [name |-> name, pub |-> pub, credit |-> credit, order |-> 0]
<1>1. /\ r \notin Live /\ pub \in LivePub /\ new \in AuthorRow /\ new.pub = pub
      /\ TypeOK /\ MembershipConsistent
  BY DEF AdminCreates, FreshRow, AuthorRow, ListInv
<1>2. PICK position \in 0..Room(r, pub) : SaveAuthor(r, new, pub, position)
  BY DEF AdminCreates
<1> HIDE DEF new
<1>3. AlikeButOrder(author', [author EXCEPT ![r] = new])
  BY <1>1, <1>2, SavedRow
<1>4. ASSUME NEW x \in Live
      PROVE  /\ author'[x] # NoRow /\ author'[x].pub = author[x].pub
             /\ author'[x].credit = author[x].credit
  <2>1. x \in Row /\ x # r /\ author[x] # NoRow
    BY <1>1 DEF Live
  <2>2. [author EXCEPT ![r] = new][x] = author[x]
    BY <2>1, ListTables DEF AuthorTable
  <2> QED
    BY <1>3, <2>1, <2>2 DEF AlikeButOrder
<1> QED
  BY <1>4 DEF Settled

LEMMA QueueSettles ==
  ASSUME ListInv, NEW q \in Queue,
         \/ \E r \in Row : QueueReads(q, r)
         \/ \E u \in Person : QueueShows(q, u)
         \/ ApproveSuggestion(q)
         \/ RejectSuggestion(q)
         \/ QueueEnds(q)
  PROVE  Settled
<1>1. CASE ApproveSuggestion(q)
  <2> DEFINE r == queue[q].row
             u == queue[q].person
  <2>1. /\ author[r].credit \in Unclaimed \cup {u} /\ r \in Live
        /\ author' = [author EXCEPT ![r].credit = u]
    BY <1>1 DEF ApproveSuggestion, Decidable
  <2> HIDE DEF r, u
  <2>2. ASSUME NEW x \in Live, author[x].credit \in Person
        PROVE  /\ author'[x] # NoRow /\ author'[x].pub = author[x].pub
               /\ author'[x].credit = author[x].credit
    <3>1. x \in Row /\ author[x] \in AuthorRow
      BY LiveRow
    <3>2. CASE x = r
      <4>1. author[x].credit = u
        BY <2>1, <2>2, <3>2, Constants
      <4>2. author'[x] = [author[x] EXCEPT !.credit = u]
        BY <2>1, <3>1, <3>2, ListTables DEF AuthorTable
      <4>3. author'[x] = author[x]
        BY <3>1, <4>1, <4>2 DEF AuthorRow
      <4> QED
        BY <3>1, <4>3, Absences
    <3>3. CASE x # r
      <4>1. author'[x] = author[x]
        BY <2>1, <3>1, <3>3, ListTables DEF AuthorTable
      <4> QED
        BY <3>1, <4>1, Absences
    <3> QED
      BY <3>2, <3>3
  <2> QED
    BY <2>2 DEF Settled
<1>2. CASE \/ \E r \in Row : QueueReads(q, r)
           \/ \E u \in Person : QueueShows(q, u)
           \/ RejectSuggestion(q)
           \/ QueueEnds(q)
  BY <1>2 DEF QueueReads, QueueShows, RejectSuggestion, QueueEnds, Settled, Live
<1> QED
  BY <1>1, <1>2

\* An author edit is one of the steps that begin or end a request.
LEMMA EditsShow ==
  ASSUME ListInv, edit' = edit, NEW e \in Edit,
         \/ \E r \in Row : EditStarts(e, r)
         \/ \E name \in Name, pub \in Pub, credit \in Credit : AdminEdits(e, name, pub, credit)
         \/ \E u \in Person : SelfClaims(e, u)
         \/ AdminDeletes(e)
         \/ EditEnds(e)
  PROVE  FALSE
<1>1. edit \in [Edit -> [row : Row, pub : Pub] \cup {Idle}]
  BY DEF ListInv, TypeOK
<1>2. ASSUME NEW r \in Row, EditStarts(e, r) PROVE FALSE
  <2>1. edit[e] = Idle /\ r \in Live
    BY <1>2 DEF EditStarts
  <2> DEFINE begun == [row |-> r, pub |-> author[r].pub]
  <2>2. edit' = [edit EXCEPT ![e] = begun]
    BY <1>2 DEF EditStarts
  <2>3. begun \in [row : Row, pub : Pub]
    BY <2>1, LiveRow DEF LivePub
  <2> HIDE DEF begun
  <2>4. edit'[e] = begun
    BY <1>1, <2>2
  <2> QED
    BY <2>1, <2>3, <2>4, Absences
<1>3. CASE ~\E r \in Row : EditStarts(e, r)
  <2>1. edit[e] # Idle /\ EditDone(e)
    BY <1>3 DEF AdminEdits, SelfClaims, AdminDeletes, EditEnds, Relocked
  <2>2. edit'[e] = Idle
    BY <1>1, <2>1 DEF EditDone
  <2> QED
    BY <2>1, <2>2
<1> QED
  BY <1>2, <1>3

LEMMA OtherStepsSettle ==
  ASSUME ListInv, [Next]_vars, edit' = edit
  PROVE  Settled
<1>1. ASSUME NEW p \in Pub, NEW names \in NameList,
             CreatePublication(p, names) \/ UpdatePublication(p, names)
      PROVE  Settled
  BY <1>1, PublicationSettles
<1>2. ASSUME NEW p \in Pub, DeletePublication(p) PROVE Settled
  <2>1. /\ author' = [r \in Row |-> IF r \in {y \in Live : author[y].pub = p} THEN NoRow
                                    ELSE author[r]]
        /\ authors' = [authors EXCEPT ![p] = NoPub]
    BY <1>2 DEF DeletePublication
  <2>2. authors'[p] = NoPub
    BY <2>1, ListTables DEF ListTable
  <2> QED
    BY <2>1, <2>2 DEF Settled, Live
<1>3. ASSUME NEW e \in Edit,
             \/ \E r \in Row : EditStarts(e, r)
             \/ \E name \in Name, pub \in Pub, credit \in Credit :
                  AdminEdits(e, name, pub, credit)
             \/ \E u \in Person : SelfClaims(e, u)
             \/ AdminDeletes(e)
             \/ EditEnds(e)
      PROVE  Settled
  BY <1>3, EditsShow
<1>4. ASSUME NEW r \in Row, NEW name \in Name, NEW pub \in Pub, NEW credit \in Credit,
             AdminCreates(r, name, pub, credit)
      PROVE  Settled
  BY <1>4, AdminCreateSettles
<1>5. ASSUME NEW q \in Queue,
             \/ \E r \in Row : QueueReads(q, r)
             \/ \E u \in Person : QueueShows(q, u)
             \/ ApproveSuggestion(q)
             \/ RejectSuggestion(q)
             \/ QueueEnds(q)
      PROVE  Settled
  BY <1>5, QueueSettles
<1>6. ASSUME NEW s \in Scorer,
             \/ ScoreReadsAuthors(s)
             \/ \E ranked \in SUBSET (Row \X Person) : ScoreReadsClaims(s, ranked)
             \/ \E k \in Row \X Person : ScorePersists(s, k)
             \/ ScoreWithdraws(s)
             \/ ScoreDies(s)
      PROVE  Settled
  <2>1. UNCHANGED <<authors, author>>
    BY <1>6 DEF ScoreReadsAuthors, ScoreReadsClaims, ScorePersists, ScoreWithdraws, ScoreDies
  <2> QED
    BY <2>1 DEF Settled, Live
<1>7. CASE UNCHANGED vars
  BY <1>7 DEF vars, Settled, Live
<1> QED
  BY <1>1, <1>2, <1>3, <1>4, <1>5, <1>6, <1>7 DEF Next

\* A repair credits on its publication whom it found credited there, on other rows; it
\* verifies so before it commits (_verify).
LEMMA RepairKeepsPeople ==
  ASSUME ListInv, NEW p \in Pub, NEW names \in NameList, NEW target \in Plan(names),
         RepairPublication(p, names, target), NEW q \in LivePub
  PROVE  CreditedOn(q) \subseteq CreditedOn(q)'
<1>1. Fits(p, names, target)
  BY RepairChooses
<1>2. PICK slots : Repairs(p, names, target, slots)
  BY RepairChooses
<1>3. /\ \A x \in Listed(slots) : author'[x] # NoRow /\ author'[x].pub = p
      /\ \A x \in Row : x \notin Listed(slots) /\ x \notin Listed(authors[p])
                        => author'[x] = author[x]
  BY <1>1, <1>2, RepairedLists
<1>4. /\ Listed(authors[p]) = RowsOf(p) /\ Listed(slots) \subseteq Row
      /\ DOMAIN slots = DOMAIN target
      /\ \A x \in Live : x \in Listed(slots) => x \in Listed(authors[p])
  BY <1>1, <1>2, ChosenRows, FittingPlan
<1>5. ASSUME NEW u \in CreditedOn(q) PROVE u \in CreditedOn(q)'
  <2>1. PICK x \in Live : author[x].pub = q /\ u = author[x].credit /\ u \in Person
    BY <1>5 DEF CreditedOn
  <2>2. CASE q = p
    <3>1. x \in Listed(authors[p])
      BY <1>4, <2>1, <2>2 DEF RowsOf
    <3>2. PICK i \in DOMAIN authors[p] : x = authors[p][i]
      BY <3>1 DEF Listed
    <3>3. u \in PeopleIn(CreditsOf(author, authors[p]))
      BY <2>1, <3>2 DEF PeopleIn, CreditsOf, Credited
    <3>4. PICK j \in DOMAIN target : target[j] = u
      BY <1>1, <3>3 DEF Fits, SamePeople, PeopleIn
    <3>5. slots[j] \in Listed(slots) /\ j \in DOMAIN slots
      BY <1>4 DEF Listed
    <3>6. Credited(author'[slots[j]].credit) = u
      <4>1. CreditsOf(author', slots) = target
        BY <1>2 DEF Repairs
      <4> QED
        BY <3>4, <3>5, <4>1 DEF CreditsOf
    <3>7. author'[slots[j]].credit = u
      BY <2>1, <3>6, Constants DEF Credited
    <3> QED
      BY <1>3, <1>4, <2>1, <2>2, <3>5, <3>7 DEF CreditedOn, Live
  <2>3. CASE q # p
    <3>1. x \in Row /\ x \notin Listed(authors[p]) /\ x \notin Listed(slots)
      BY <1>4, <2>1, <2>3 DEF RowsOf, Live
    <3>2. author'[x] = author[x]
      BY <1>3, <3>1
    <3> QED
      BY <2>1, <3>1, <3>2 DEF CreditedOn, Live
  <2> QED
    BY <2>2, <2>3
<1> QED
  BY <1>5

-----------------------------------------------------------------------------
(* Two authors of the same name *)

\* The uses of the name at position i, up to i.
Uses(f, i) == {j \in DOMAIN f : j <= i /\ f[j] = f[i]}

LEMMA UsesCount ==
  ASSUME NEW n \in Nat, NEW f, DOMAIN f = 1..n, NEW i \in 1..n
  PROVE  /\ IsFiniteSet(Uses(f, i)) /\ i \in Uses(f, i) /\ Uses(f, i) \subseteq 1..n
         /\ Occurrence(f, i) = Cardinality(Uses(f, i)) /\ Occurrence(f, i) \in Nat
         /\ Occurrence(f, i) >= 1
<1>1. Uses(f, i) \in SUBSET (1..n) /\ i \in Uses(f, i)
  BY DEF Uses
<1>2. IsFiniteSet(1..n)
  BY FS_Interval
<1>3. IsFiniteSet(Uses(f, i))
  BY <1>1, <1>2, FS_Subset
<1>4. Cardinality(Uses(f, i)) \in Nat /\ Cardinality(Uses(f, i)) # 0
  BY <1>1, <1>3, FS_CardinalityType, FS_EmptySet
<1>5. Occurrence(f, i) = Cardinality(Uses(f, i))
  BY DEF Occurrence, Uses
<1> QED
  BY <1>1, <1>3, <1>4, <1>5

\* Of two uses of a name the later one has the higher number.
LEMMA LaterUse ==
  ASSUME NEW n \in Nat, NEW f, DOMAIN f = 1..n, NEW i \in 1..n, NEW j \in 1..n,
         f[i] = f[j], i < j
  PROVE  Occurrence(f, i) < Occurrence(f, j)
<1>1. Uses(f, i) \in SUBSET Uses(f, j) /\ j \notin Uses(f, i)
  BY DEF Uses
<1>2. /\ IsFiniteSet(Uses(f, j)) /\ j \in Uses(f, j)
      /\ Occurrence(f, j) = Cardinality(Uses(f, j)) /\ Occurrence(f, j) \in Nat
  BY UsesCount
<1>3. Occurrence(f, i) = Cardinality(Uses(f, i)) /\ Occurrence(f, i) \in Nat
  BY UsesCount
<1>4. /\ Cardinality(Uses(f, i)) <= Cardinality(Uses(f, j))
      /\ Cardinality(Uses(f, j)) = Cardinality(Uses(f, i)) => Uses(f, j) = Uses(f, i)
  BY <1>1, <1>2, FS_Subset
<1>5. Cardinality(Uses(f, j)) # Cardinality(Uses(f, i))
  BY <1>1, <1>2, <1>4
<1> QED
  BY <1>2, <1>3, <1>4, <1>5

\* A name used k times has a k-th use.
LEMMA NthUse ==
  ASSUME NEW n \in Nat, NEW f, DOMAIN f = 1..n, NEW i \in 1..n,
         NEW k \in Nat, 1 <= k, k <= Occurrence(f, i)
  PROVE  \E h \in 1..n : f[h] = f[i] /\ Occurrence(f, h) = k
<1> DEFINE S  == {h \in 1..n : f[h] = f[i] /\ k <= Occurrence(f, h)}
           id == [h \in S |-> h]
<1>1. S # {} /\ S \subseteq 1..n /\ \A h \in S : id[h] = h /\ h \in Nat
  OBVIOUS
<1>2. PICK h \in S : \A x \in S : h <= x
  <2> HIDE DEF S, id
  <2>1. \A x \in S : id[x] \in Nat
    BY <1>1
  <2>2. PICK m \in S : \A x \in S : id[m] <= id[x]
    BY <1>1, <2>1, LeastOf
  <2> QED
    BY <1>1, <2>2
<1>3. h \in 1..n /\ f[h] = f[i] /\ k <= Occurrence(f, h) /\ Occurrence(f, h) \in Nat
  BY <1>2, UsesCount
<1>4. ASSUME k < Occurrence(f, h) PROVE FALSE
  <2> DEFINE P == Uses(f, h) \ {h}
  <2>1. IsFiniteSet(Uses(f, h)) /\ h \in Uses(f, h) /\ Occurrence(f, h) = Cardinality(Uses(f, h))
    BY <1>3, UsesCount
  <2>2. IsFiniteSet(P) /\ Cardinality(P) = Cardinality(Uses(f, h)) - 1
    BY <2>1, FS_RemoveElement
  <2>3. P \subseteq 1..n /\ \A x \in P : x < h /\ f[x] = f[h]
    BY <1>3 DEF Uses
  <2>4. \A x \in 1..n : x < h /\ f[x] = f[h] => x \in P
    BY <1>3 DEF Uses
  <2> HIDE DEF P
  <2>5. P # {}
    BY <1>3, <1>4, <2>1, <2>2, FS_EmptySet
  <2>6. PICK g \in P : \A x \in P : x <= g
    BY <2>3, <2>5, LastOf
  <2>7. Uses(f, g) = P
    <3>1. ASSUME NEW x \in Uses(f, g) PROVE x \in P
      BY <2>3, <2>4, <2>6, <3>1, <1>3 DEF Uses
    <3>2. ASSUME NEW x \in P PROVE x \in Uses(f, g)
      BY <2>3, <2>6, <3>2 DEF Uses
    <3> QED
      BY <3>1, <3>2
  <2>8. g \in 1..n /\ g < h /\ f[g] = f[i]
    BY <1>3, <2>3, <2>6
  <2>9. Occurrence(f, g) = Occurrence(f, h) - 1
    <3>1. Occurrence(f, g) = Cardinality(Uses(f, g))
      BY <2>8, UsesCount
    <3> QED
      BY <2>1, <2>2, <2>7, <3>1
  <2>10. k <= Occurrence(f, g)
    BY <1>3, <1>4, <2>9
  <2>11. g \in S
    BY <2>8, <2>10
  <2> HIDE DEF S
  <2> QED
    BY <1>2, <1>3, <2>8, <2>11
<1>5. Occurrence(f, h) = k
  BY <1>3, <1>4
<1> QED
  BY <1>3, <1>5

\* A list of names and the bylines of the list it replaces, with their positions.
ListsOf(names, s, m, n) == /\ m \in Nat /\ DOMAIN names = 1..m
                           /\ n \in Nat /\ DOMAIN s = 1..n

\* Rows that a new list matches by name keep their order among those of the same name.
LEMMA MatchedInOrder ==
  ASSUME NEW m, NEW n, NEW names, NEW s, ListsOf(names, s, m, n),
         NEW i \in 1..m, NEW j \in 1..m, NEW a \in 1..n, NEW b \in 1..n,
         <<i, a>> \in ExactMatch(names, s), <<j, b>> \in ExactMatch(names, s),
         Bylines(s)[a] = Bylines(s)[b], a < b
  PROVE  i < j
<1>1. DOMAIN Bylines(s) = 1..n /\ n \in Nat /\ m \in Nat /\ DOMAIN names = 1..m
  BY DEF Bylines, ListsOf
<1>2. /\ names[i] = Bylines(s)[a] /\ Occurrence(names, i) = Occurrence(Bylines(s), a)
      /\ names[j] = Bylines(s)[b] /\ Occurrence(names, j) = Occurrence(Bylines(s), b)
  BY DEF ExactMatch
<1>3. Occurrence(Bylines(s), a) < Occurrence(Bylines(s), b)
  BY <1>1, LaterUse
<1>4. Occurrence(names, i) < Occurrence(names, j) /\ names[i] = names[j]
  BY <1>2, <1>3
<1>5. Occurrence(names, i) \in Nat /\ Occurrence(names, j) \in Nat
  BY <1>1, UsesCount
<1>6. i # j
  BY <1>4, <1>5
<1>7. ASSUME j < i PROVE FALSE
  <2>1. Occurrence(names, j) < Occurrence(names, i)
    BY <1>1, <1>4, <1>7, LaterUse
  <2> QED
    BY <1>4, <1>5, <2>1
<1> QED
  BY <1>1, <1>6, <1>7

\* A left-over row is never re-used under the name it has: with the name on both sides,
\* one of the two would have matched.
LEMMA ReusedRenames ==
  ASSUME NEW m, NEW n, NEW names, NEW s, ListsOf(names, s, m, n),
         NEW i \in 1..m, NEW a \in 1..n, <<i, a>> \in Reused(names, s)
  PROVE  names[i] # Bylines(s)[a]
<1> SUFFICES ASSUME names[i] = Bylines(s)[a] PROVE FALSE
  OBVIOUS
<1> DEFINE k == Occurrence(names, i)
           l == Occurrence(Bylines(s), a)
<1>1. DOMAIN Bylines(s) = 1..n /\ DOMAIN s = 1..n /\ n \in Nat /\ m \in Nat /\ DOMAIN names = 1..m
  BY DEF Bylines, ListsOf
<1>2. k \in Nat /\ 1 <= k /\ l \in Nat /\ 1 <= l
  BY <1>1, UsesCount
<1>3. /\ \A x \in ExactMatch(names, s) : x[1] # i
      /\ \A x \in ExactMatch(names, s) : x[2] # a
  BY DEF Reused, OpenSlots, LeftOver
<1>4. CASE k <= l
  <2>1. PICK h \in 1..n : Bylines(s)[h] = Bylines(s)[a] /\ Occurrence(Bylines(s), h) = k
    <3> HIDE DEF k
    <3> QED
      BY <1>1, <1>2, <1>4, NthUse
  <2> DEFINE x == <<i, h>>
  <2>2. x \in ExactMatch(names, s) /\ x[1] = i
    BY <1>1, <2>1 DEF ExactMatch
  <2> QED
    BY <1>3, <2>2
<1>5. CASE l <= k
  <2>1. PICK h \in 1..m : names[h] = names[i] /\ Occurrence(names, h) = l
    <3> HIDE DEF l
    <3> QED
      BY <1>1, <1>2, <1>5, NthUse
  <2> DEFINE x == <<h, a>>
  <2>2. x \in ExactMatch(names, s) /\ x[2] = a
    BY <1>1, <2>1 DEF ExactMatch
  <2> QED
    BY <1>3, <2>2
<1> QED
  BY <1>2, <1>4, <1>5

\* The place of a row in its list is its author_order.
LEMMA PlaceOf ==
  ASSUME NEW as \in ListTable, NEW au \in AuthorTable, ListsAgree(as, au),
         NEW x \in Row, au[x] # NoRow
  PROVE  /\ au[x].pub \in Pub /\ as[au[x].pub] \in Seq(Row) /\ Distinct(as[au[x].pub])
         /\ \E a \in DOMAIN as[au[x].pub] : /\ as[au[x].pub][a] = x /\ a \in Nat
                                            /\ au[x].order = a - 1
<1> DEFINE list == as[au[x].pub]
<1>1. au[x].pub \in Pub /\ list # NoPub /\ list \in Seq(Row)
  BY DEF ListTable, AuthorTable, AuthorRow, ListsAgree
<1>2. Distinct(list) /\ x \in Listed(list) /\ au[x].order = IndexIn(list, x) - 1
  BY <1>1 DEF ListsAgree
<1>3. IndexIn(list, x) \in DOMAIN list /\ list[IndexIn(list, x)] = x
  BY <1>2, IndexOfListed
<1>4. IndexIn(list, x) \in Nat
  <2> HIDE DEF list
  <2>1. Len(list) \in Nat /\ DOMAIN list = 1..Len(list)
    BY <1>1, LenProperties
  <2> QED
    BY <1>3, <2>1
<1> QED
  BY <1>1, <1>2, <1>3, <1>4

\* What NamesakesKeepOrder says of a step, and the same of the list of one publication.
OrderKept ==
  \A r, s \in Live :
    /\ Namesakes(r, s)
    /\ {r, s} \subseteq Live'
    /\ \A x \in {r, s} : author'[x].name = author[x].name /\ author'[x].pub = author[x].pub
    => Namesakes(r, s)'

Bears(x) == author'[x].name = author[x].name

InOrder(q) ==
  \A a, b \in DOMAIN authors[q], i, j \in DOMAIN authors'[q] :
    /\ a < b
    /\ authors'[q][i] = authors[q][a] /\ authors'[q][j] = authors[q][b]
    /\ author[authors[q][a]].name = author[authors[q][b]].name
    /\ Bears(authors[q][a]) /\ Bears(authors[q][b])
    => i < j

Agreed == ListsAgree(authors, author)

LEMMA AgreementNow == ListInv' => ListsAgree(authors', author')
<1>1. ListInv => Agreed
  BY MembershipMeansAgreement DEF ListInv, Agreed
<1>2. ListInv' => Agreed'
  BY <1>1, PTL
<1> QED
  BY <1>2 DEF Agreed

LEMMA ListsKeepOrder ==
  ASSUME ListInv, ListInv', \A q \in LivePub : authors'[q] # NoPub => InOrder(q)
  PROVE  OrderKept
<1> SUFFICES ASSUME NEW x \in Live, NEW y \in Live, Namesakes(x, y), {x, y} \subseteq Live',
                    \A z \in {x, y} : /\ author'[z].name = author[z].name
                                      /\ author'[z].pub = author[z].pub
             PROVE  Namesakes(x, y)'
  BY DEF OrderKept
<1> DEFINE q == author[x].pub
<1>1. /\ authors \in ListTable /\ author \in AuthorTable /\ ListsAgree(authors, author)
      /\ x \in Row /\ y \in Row /\ author[x] # NoRow /\ author[y] # NoRow
  BY MembershipMeansAgreement DEF ListInv, TypeOK, ListTable, AuthorTable, Live
<1>2. /\ authors' \in ListTable /\ author' \in AuthorTable /\ ListsAgree(authors', author')
      /\ author'[x] # NoRow /\ author'[y] # NoRow
  <2>1. TypeOK'
    BY DEF ListInv
  <2>2. ListsAgree(authors', author')
    BY AgreementNow
  <2> QED
    BY <2>1, <2>2 DEF TypeOK, ListTable, AuthorTable, Live
<1>3. author[y].pub = q /\ author'[x].pub = q /\ author'[y].pub = q
      /\ author[x].name = author[y].name /\ author[x].order < author[y].order
  BY DEF Namesakes
<1>4. PICK a \in DOMAIN authors[q] : authors[q][a] = x /\ a \in Nat /\ author[x].order = a - 1
  BY <1>1, PlaceOf
<1>5. PICK b \in DOMAIN authors[q] : authors[q][b] = y /\ b \in Nat /\ author[y].order = b - 1
  <2>1. PICK b \in DOMAIN authors[author[y].pub] :
          authors[author[y].pub][b] = y /\ b \in Nat /\ author[y].order = b - 1
    BY <1>1, PlaceOf
  <2> QED
    BY <1>3, <2>1
<1>6. PICK i \in DOMAIN authors'[q] : authors'[q][i] = x /\ i \in Nat /\ author'[x].order = i - 1
  <2>1. PICK i \in DOMAIN authors'[author'[x].pub] :
          authors'[author'[x].pub][i] = x /\ i \in Nat /\ author'[x].order = i - 1
    BY <1>1, <1>2, PlaceOf
  <2> QED
    BY <1>3, <2>1
<1>7. PICK j \in DOMAIN authors'[q] : authors'[q][j] = y /\ j \in Nat /\ author'[y].order = j - 1
  <2>1. PICK j \in DOMAIN authors'[author'[y].pub] :
          authors'[author'[y].pub][j] = y /\ j \in Nat /\ author'[y].order = j - 1
    BY <1>1, <1>2, PlaceOf
  <2> QED
    BY <1>3, <2>1
<1>8. q \in LivePub /\ authors'[q] # NoPub
  BY <1>1, <1>2, <1>3 DEF ListsAgree, LivePub, AuthorTable, AuthorRow
<1>9. InOrder(q)
  BY <1>8
<1> HIDE DEF q
<1>10. a < b
  BY <1>3, <1>4, <1>5
<1>11. i < j
  BY <1>3, <1>4, <1>5, <1>6, <1>7, <1>9, <1>10 DEF InOrder, Bears
<1>12. author'[x].order < author'[y].order
  BY <1>6, <1>7, <1>11
<1>13. author'[x].name = author'[y].name
  BY <1>3
<1> QED
  BY <1>3, <1>12, <1>13 DEF Namesakes

\* A list that a step leaves alone.
LEMMA SameListInOrder ==
  ASSUME ListInv, NEW q \in LivePub, authors'[q] = authors[q]
  PROVE  InOrder(q)
<1>1. Distinct(authors[q])
  BY LiveList
<1> QED
  BY <1>1 DEF InOrder, Distinct

\* The writers of one list: every other list stays as it is.
LEMMA OneListWritten ==
  ASSUME ListInv, NEW p \in Pub, NEW list, authors' = [authors EXCEPT ![p] = list],
         p \in LivePub /\ list # NoPub => InOrder(p)
  PROVE  \A q \in LivePub : authors'[q] # NoPub => InOrder(q)
<1>1. authors'[p] = list /\ \A q \in Pub \ {p} : authors'[q] = authors[q]
  BY ListTables DEF ListTable
<1>2. ASSUME NEW q \in LivePub, authors'[q] # NoPub PROVE InOrder(q)
  <2>1. CASE q = p
    BY <1>1, <1>2, <2>1
  <2>2. CASE q # p
    BY <1>1, <2>2, SameListInOrder DEF LivePub
  <2> QED
    BY <2>1, <2>2
<1> QED
  BY <1>2

\* A row that a new list keeps has the slot it was paired with.
LEMMA PairedSlot ==
  ASSUME NEW slots, NEW s, NEW kept, FillsSlots(slots, s, kept), Distinct(s),
         kept \subseteq (DOMAIN slots) \X (DOMAIN s),
         NEW i \in DOMAIN slots, NEW a \in DOMAIN s, slots[i] = s[a], s[a] \in Live
  PROVE  <<i, a>> \in kept
<1>1. slots[i] \notin FreshRow
  BY DEF FreshRow
<1>2. PICK m \in kept : m[1] = i
  BY <1>1 DEF FillsSlots
<1>3. slots[m[1]] = s[m[2]] /\ m[2] \in DOMAIN s /\ m = <<m[1], m[2]>>
  BY <1>2 DEF FillsSlots
<1>4. m[2] = a
  BY <1>2, <1>3 DEF Distinct
<1> QED
  BY <1>2, <1>3, <1>4

LEMMA UpdateInOrder ==
  ASSUME ListInv, NEW p \in Pub, NEW names \in NameList, UpdatePublication(p, names)
  PROVE  \A q \in LivePub : authors'[q] # NoPub => InOrder(q)
<1> DEFINE list == authors[p]
           kept == ExactMatch(names, list) \cup Reused(names, list)
<1>1. p \in LivePub
  BY DEF UpdatePublication
<1>2. PICK slots \in [DOMAIN names -> FreshRow \cup Listed(list)] :
        /\ FillsSlots(slots, list, kept)
        /\ authors' = [authors EXCEPT ![p] = slots]
        /\ author' = ListWritten(p, slots, names, Listed(list))
  BY DEF UpdatePublication
<1>3. list \in Seq(Row) /\ Distinct(list) /\ Listed(list) = RowsOf(p)
  BY <1>1, LiveList
<1>4. PICK m \in Nat : names \in [1..m -> Name]
  BY Constants DEF NameList
<1> DEFINE n == Len(list)
<1>5. n \in Nat /\ DOMAIN list = 1..n /\ DOMAIN names = 1..m /\ DOMAIN slots = 1..m
  <2> HIDE DEF list
  <2> QED
    BY <1>2, <1>3, <1>4, LenProperties
<1>6. Distinct(slots) /\ authors'[p] = slots
  BY <1>2, ListTables DEF FillsSlots, Distinct, ListTable
<1>7. kept \subseteq (DOMAIN slots) \X (DOMAIN list)
  BY <1>5 DEF ExactMatch, Reused, OpenSlots, LeftOver
<1>8. ListsOf(names, list, m, n)
  BY <1>5 DEF ListsOf
<1> HIDE DEF n
<1>9. ASSUME NEW i \in 1..m, NEW a \in 1..n, slots[i] = list[a], Bears(list[a])
      PROVE  <<i, a>> \in ExactMatch(names, list)
  <2>1. list[a] \in RowsOf(p)
    BY <1>3, <1>5 DEF Listed
  <2>2. list[a] \in Live /\ list[a] \in Row
    BY <2>1 DEF RowsOf, Live
  <2>3. <<i, a>> \in kept
    <3> HIDE DEF list, kept
    <3> QED
      BY <1>2, <1>3, <1>5, <1>7, <1>9, <2>2, PairedSlot
  <2>4. author'[list[a]].name = names[i]
    <3>1. list[a] \in Listed(slots) /\ IndexIn(slots, list[a]) = i
      BY <1>5, <1>6, <1>9, IndexIsUnique
    <3> HIDE DEF list
    <3> QED
      BY <1>2, <2>2, <3>1 DEF ListWritten
  <2>5. Bylines(list)[a] = names[i]
    BY <1>5, <1>9, <2>4 DEF Bylines, Bears
  <2>6. <<i, a>> \notin Reused(names, list)
    <3> HIDE DEF list
    <3> QED
      BY <1>8, <2>5, ReusedRenames
  <2> QED
    BY <2>3, <2>6
<1>10. InOrder(p)
  <2> SUFFICES ASSUME NEW a \in 1..n, NEW b \in 1..n, NEW i \in 1..m, NEW j \in 1..m, a < b,
                      slots[i] = list[a], slots[j] = list[b],
                      author[list[a]].name = author[list[b]].name,
                      Bears(list[a]), Bears(list[b])
               PROVE  i < j
    BY <1>5, <1>6 DEF InOrder
  <2>1. <<i, a>> \in ExactMatch(names, list) /\ <<j, b>> \in ExactMatch(names, list)
    BY <1>9
  <2>2. Bylines(list)[a] = Bylines(list)[b]
    BY <1>5 DEF Bylines
  <2> HIDE DEF list
  <2> QED
    BY <1>8, <2>1, <2>2, MatchedInOrder
<1> HIDE DEF list
<1> QED
  BY <1>2, <1>10, OneListWritten

\* An explicit mapping of slots leaves the rows of the list where they are.
LEMMA RepairInOrder ==
  ASSUME ListInv, NEW p \in Pub, NEW names \in NameList, NEW target \in Plan(names),
         RepairPublication(p, names, target)
  PROVE  \A q \in LivePub : authors'[q] # NoPub => InOrder(q)
<1> DEFINE list == authors[p]
<1>1. p \in LivePub /\ Fits(p, names, target)
  BY RepairChooses DEF Fits
<1>2. PICK slots : Repairs(p, names, target, slots)
  BY RepairChooses
<1>3. /\ FillsSlots(slots, list, KeptSlots(list, names))
      /\ authors' = [authors EXCEPT ![p] = slots] /\ DOMAIN slots = DOMAIN names
  BY <1>2 DEF Repairs
<1>4. Distinct(list) /\ Listed(list) = RowsOf(p) /\ list \in Seq(Row)
  BY <1>1, LiveList
<1>5. authors'[p] = slots
  BY <1>3, ListTables DEF ListTable
<1>6. KeptSlots(list, names) \subseteq (DOMAIN slots) \X (DOMAIN list)
  BY <1>3 DEF KeptSlots
<1>7. ASSUME NEW i \in DOMAIN slots, NEW a \in DOMAIN list, slots[i] = list[a]
      PROVE  i = a
  <2>1. list[a] \in Live
    BY <1>4 DEF Listed, RowsOf
  <2> HIDE DEF list
  <2>2. <<i, a>> \in KeptSlots(list, names)
    BY <1>3, <1>4, <1>6, <1>7, <2>1, PairedSlot
  <2> QED
    BY <2>2 DEF KeptSlots
<1>8. InOrder(p)
  <2> SUFFICES ASSUME NEW a \in DOMAIN list, NEW b \in DOMAIN list,
                      NEW i \in DOMAIN slots, NEW j \in DOMAIN slots, a < b,
                      slots[i] = list[a], slots[j] = list[b]
               PROVE  i < j
    BY <1>5 DEF InOrder
  <2>1. i = a /\ j = b
    BY <1>7
  <2> QED
    BY <2>1
<1> QED
  BY <1>3, <1>8, OneListWritten

\* An author created in front of others moves them all by one.
LEMMA AdminCreateInOrder ==
  ASSUME ListInv, NEW r \in Row, NEW name \in Name, NEW pub \in Pub, NEW credit \in Credit,
         AdminCreates(r, name, pub, credit)
  PROVE  \A q \in LivePub : authors'[q] # NoPub => InOrder(q)
<1> DEFINE list == authors[pub]
<1>1. r \notin Live /\ pub \in LivePub
  BY DEF AdminCreates, FreshRow
<1>2. list \in Seq(Row) /\ Distinct(list) /\ Listed(list) = RowsOf(pub)
  BY <1>1, LiveList
<1>3. r \notin Listed(list)
  BY <1>1, <1>2 DEF RowsOf
<1>4. Without(list, r) = list
  BY <1>3 DEF Without
<1>5. PICK position \in 0..Len(list) :
        authors' = [[authors EXCEPT ![pub] = Without(@, r)]
                      EXCEPT ![pub] = Placed(Without(@, r), r, position)]
  BY <1>4 DEF AdminCreates, SaveAuthor, Room
<1> DEFINE w == Placed(list, r, position)
           left == [authors EXCEPT ![pub] = list]
<1>6. authors' = [authors EXCEPT ![pub] = w]
  <2>1. left = authors /\ left[pub] = list
    BY ListTables DEF ListTable
  <2>2. authors' = [left EXCEPT ![pub] = Placed(Without(left[pub], r), r, position)]
    BY <1>4, <1>5
  <2> HIDE DEF left
  <2> QED
    BY <1>4, <2>1, <2>2
<1>7. authors'[pub] = w
  BY <1>6, ListTables DEF ListTable
<1>8. \A i \in DOMAIN w : \A a \in DOMAIN list :
        w[i] = list[a] => i = IF a <= position THEN a ELSE a + 1
  <2> HIDE DEF list
  <2> QED
    BY <1>2, <1>3, PlacedRow
<1>9. DOMAIN list = 1..Len(list) /\ Len(list) \in Nat
  <2> HIDE DEF list
  <2> QED
    BY <1>2, LenProperties
<1>10. InOrder(pub)
  <2> HIDE DEF w
  <2> SUFFICES ASSUME NEW a \in DOMAIN list, NEW b \in DOMAIN list,
                      NEW i \in DOMAIN w, NEW j \in DOMAIN w, a < b,
                      w[i] = list[a], w[j] = list[b]
               PROVE  i < j
    BY <1>7 DEF InOrder
  <2>1. /\ i = IF a <= position THEN a ELSE a + 1
        /\ j = IF b <= position THEN b ELSE b + 1
    BY <1>8
  <2>2. a \in Nat /\ b \in Nat /\ position \in Nat
    BY <1>9
  <2> QED
    BY <2>1, <2>2
<1> HIDE DEF w
<1> QED
  BY <1>6, <1>10, OneListWritten

LEMMA OtherStepsInOrder ==
  ASSUME ListInv, [Next]_vars, edit' = edit
  PROVE  \A q \in LivePub : authors'[q] # NoPub => InOrder(q)
<1> DEFINE AllInOrder == \A q \in LivePub : authors'[q] # NoPub => InOrder(q)
<1>1. ASSUME NEW p \in Pub, NEW names \in NameList,
             CreatePublication(p, names) \/ UpdatePublication(p, names)
      PROVE  AllInOrder
  <2>1. CASE CreatePublication(p, names)
    <3>1. PICK slots : authors' = [authors EXCEPT ![p] = slots]
      BY <2>1 DEF CreatePublication
    <3>2. p \notin LivePub
      BY <2>1 DEF CreatePublication
    <3> QED
      BY <3>1, <3>2, OneListWritten
  <2>2. CASE UpdatePublication(p, names)
    BY <2>2, UpdateInOrder
  <2> QED
    BY <1>1, <2>1, <2>2
<1>2. ASSUME NEW p \in Pub, DeletePublication(p) PROVE AllInOrder
  <2>1. authors' = [authors EXCEPT ![p] = NoPub]
    BY <1>2 DEF DeletePublication
  <2> QED
    BY <2>1, OneListWritten
<1>3. ASSUME NEW e \in Edit,
             \/ \E r \in Row : EditStarts(e, r)
             \/ \E name \in Name, pub \in Pub, credit \in Credit :
                  AdminEdits(e, name, pub, credit)
             \/ \E u \in Person : SelfClaims(e, u)
             \/ AdminDeletes(e)
             \/ EditEnds(e)
      PROVE  AllInOrder
  BY <1>3, EditsShow
<1>4. ASSUME NEW r \in Row, NEW name \in Name, NEW pub \in Pub, NEW credit \in Credit,
             AdminCreates(r, name, pub, credit)
      PROVE  AllInOrder
  BY <1>4, AdminCreateInOrder
<1>5. ASSUME authors' = authors PROVE AllInOrder
  BY <1>5, SameListInOrder
<1>6. ASSUME NEW q \in Queue,
             \/ \E r \in Row : QueueReads(q, r)
             \/ \E u \in Person : QueueShows(q, u)
             \/ ApproveSuggestion(q)
             \/ RejectSuggestion(q)
             \/ QueueEnds(q)
      PROVE  authors' = authors
  BY <1>6 DEF QueueReads, QueueShows, ApproveSuggestion, RejectSuggestion, QueueEnds
<1>7. ASSUME NEW s \in Scorer,
             \/ ScoreReadsAuthors(s)
             \/ \E ranked \in SUBSET (Row \X Person) : ScoreReadsClaims(s, ranked)
             \/ \E k \in Row \X Person : ScorePersists(s, k)
             \/ ScoreWithdraws(s)
             \/ ScoreDies(s)
      PROVE  authors' = authors
  BY <1>7 DEF ScoreReadsAuthors, ScoreReadsClaims, ScorePersists, ScoreWithdraws, ScoreDies
<1>8. ASSUME UNCHANGED vars PROVE AllInOrder
  BY <1>5, <1>8 DEF vars
<1> HIDE DEF AllInOrder
<1>9. ASSUME Next PROVE AllInOrder
  BY <1>1, <1>2, <1>3, <1>4, <1>5, <1>6, <1>7, <1>9 DEF Next
<1>10. AllInOrder
  BY <1>8, <1>9
<1> QED
  BY <1>10 DEF AllInOrder

-----------------------------------------------------------------------------
(* The theorems *)

\* A repair, which renames, adds and deletes the rows of a list in one transaction, and
\* every other writer leave author lists and rows in agreement (_repair_publication
\* through update_publication and _sync_authors).
THEOREM RepairedListsConsistent == RepairSpec => []MembershipConsistent
<1>1. ListInv => MembershipConsistent
  BY DEF ListInv
<1> QED
  BY <1>1, RepairInvAlways, PTL

\* Beside repairs too no decision is lost unrecorded, but for a rejection of the very
\* person its row is credited to, which record_self_claim replaces without a correction.
THEOREM OtherDecisionsAlwaysKept == RepairSpec => OtherDecisionsKept
<1>1. ListInv /\ [RepairNext]_vars =>
        \A r \in Row, u \in Person :
          StatusOf(r, u) \in Decided /\ ~Contradicted(r, u) => DecisionKept(r, u)
  BY EveryStepKeepsRows, KeptDecision, DoubtIsContradiction
<1> QED
  BY <1>1, RepairInvAlways, PTL DEF RepairSpec, OtherDecisionsKept

\* Beside repairs too a row's credit is taken away only in a transaction that records
\* the row with it (_repair_publication compares each row with what it was).
THEOREM RepairedCreditLeavesByCorrection == RepairSpec => CreditLeavesByCorrection
<1>1. ListInv /\ [RepairNext]_vars =>
        \A r \in Live : author[r].credit \in Person =>
          \/ r \in Live' /\ author'[r].credit = author[r].credit
          \/ \E c \in recorded' : c.row = r /\ c.credit = author[r].credit
  BY EveryStepKeepsRows, KeptCredit DEF Live
<1> QED
  BY <1>1, RepairInvAlways, PTL DEF RepairSpec, CreditLeavesByCorrection

\* No list of names and no repair takes a person off a publication: only an author edit
\* does, or deleting the publication (the `dropped` refusal, _verify, _sync_authors).
THEOREM PeopleAlwaysCarried == RepairSpec => PeopleCarried
<1>1. ListInv /\ [RepairNext]_vars =>
        (edit' = edit => \A p \in LivePub : p \in LivePub' => CreditedOn(p) \subseteq CreditedOn(p)')
  <2> SUFFICES ASSUME ListInv, [RepairNext]_vars, edit' = edit,
                      NEW p \in LivePub, p \in LivePub'
               PROVE  CreditedOn(p) \subseteq CreditedOn(p)'
    OBVIOUS
  <2>1. CASE [Next]_vars
    BY <2>1, OtherStepsSettle, SettledKeepsPeople
  <2>2. ASSUME NEW q \in Pub, NEW names \in NameList, NEW target \in Plan(names),
               RepairPublication(q, names, target)
        PROVE  CreditedOn(p) \subseteq CreditedOn(p)'
    BY <2>2, RepairKeepsPeople
  <2> QED
    BY <2>1, <2>2 DEF RepairNext
<1> QED
  BY <1>1, RepairInvAlways, PTL DEF RepairSpec, PeopleCarried

\* Two rows of one publication with the same byline are told apart by their order alone;
\* neither a new list of names, which pairs the n-th use of a name with the n-th row that
\* bears it, nor a repair, which names its slots, lets one pass the other (_sync_authors).
THEOREM NamesakesAlwaysKeepOrder == RepairSpec => NamesakesKeepOrder
<1>1. ListInv /\ ListInv' /\ [RepairNext]_vars => (edit' = edit => OrderKept)
  <2> SUFFICES ASSUME ListInv, ListInv', [RepairNext]_vars, edit' = edit
               PROVE  OrderKept
    OBVIOUS
  <2>1. CASE [Next]_vars
    BY <2>1, OtherStepsInOrder, ListsKeepOrder
  <2>2. ASSUME NEW q \in Pub, NEW names \in NameList, NEW target \in Plan(names),
               RepairPublication(q, names, target)
        PROVE  OrderKept
    BY <2>2, RepairInOrder, ListsKeepOrder
  <2> QED
    BY <2>1, <2>2 DEF RepairNext
<1> QED
  BY <1>1, RepairInvAlways, PTL DEF RepairSpec, NamesakesKeepOrder, OrderKept

=============================================================================
