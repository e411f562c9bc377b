------------------------------- MODULE Repair -------------------------------
(***************************************************************************)
(* repair_author_records beside the writers of Attribution: a reviewed     *)
(* plan gives one publication its whole author list, byline by byline,     *)
(* with the person each slot is credited to.  The command locks the        *)
(* publication and its rows first and does everything in one transaction;  *)
(* any refusal, a unique violation included, rolls all of it back.         *)
(***************************************************************************)
EXTENDS Attribution

\* A plan for a list of bylines: the person, or Null, of every slot.  A reviewed plan
\* gives a person one slot.
Plan(names) ==
  {target \in [DOMAIN names -> Person \cup {Null}] :
     \A i, j \in DOMAIN names : target[i] = target[j] /\ target[i] \in Person => i = j}

PeopleIn(credits)  == {credits[i] : i \in DOMAIN credits} \cap Person
CreditsOf(au, list) == [i \in DOMAIN list |-> Credited(au[list[i]].credit)]

\* Where a person is credited in a list: the last slot, as a dict keeps it.
SlotIn(credits, u) == CHOOSE i \in DOMAIN credits :
                        credits[i] = u /\ \A j \in DOMAIN credits : credits[j] = u => j <= i

IsDecidedIn(cl, k) == cl[k] # NoClaim /\ cl[k].status \in Decided

\* relocate_claims: the person's suggestion on the destination goes, and the claim of
\* the source, whatever its status, takes its place.
CanRelocate(cl, source, dest, u) ==
  cl[<<source, u>>] # NoClaim => ~IsDecidedIn(cl, <<dest, u>>)

Relocated(cl, source, dest, u) ==
  [cl EXCEPT ![<<source, u>>] = NoClaim,
             ![<<dest, u>>] = IF cl[<<source, u>>] # NoClaim THEN cl[<<source, u>>]
                              ELSE IF IsDecidedIn(cl, <<dest, u>>) THEN cl[<<dest, u>>]
                              ELSE NoClaim]

\* Steps 1 and 2: everyone who changes slot is detached, and their claim goes to the
\* slot the plan gives them, when the list has it already.
Moving(list, target) ==
  {u \in PeopleIn(target) : SlotIn(CreditsOf(author, list), u) # SlotIn(target, u)}
Leaves(list, target, u)  == list[SlotIn(CreditsOf(author, list), u)]
Lands(list, target, u)   == list[SlotIn(target, u)]
Ahead(list, target)      == {u \in Moving(list, target) : SlotIn(target, u) \in DOMAIN list}

Detached(list, target) ==
  [r \in Row |-> IF \E u \in Moving(list, target) : r = Leaves(list, target, u)
                 THEN [author[r] EXCEPT !.credit = Null] ELSE author[r]]

\* Each person's claims are their own keys of the table, so the order does not matter.
Carried(list, target) ==
  [k \in Row \X Person |->
     IF k[2] \in Ahead(list, target)
     THEN Relocated(claim, Leaves(list, target, k[2]), Lands(list, target, k[2]), k[2])[k]
     ELSE claim[k]]

\* Steps 3 and 4: surplus rows may hold nothing decided; the rest are renamed slot by
\* slot, losing their suggestions where the byline changes, and new rows are added.
KeptSlots(list, names) == {<<i, i>> : i \in (DOMAIN list) \cap (DOMAIN names)}
Surplus(list, names)   == {list[i] : i \in (DOMAIN list) \ (DOMAIN names)}
Renamed(list, names)   == {list[i] : i \in {j \in (DOMAIN list) \cap (DOMAIN names) :
                                              author[list[j]].name # names[j]}}
Disposable(cl, au, r) == /\ au[r].credit \in Unclaimed
                         /\ \A u \in Person : ~IsDecidedIn(cl, <<r, u>>)

\* Step 6: a person's decided claim still on another row of the publication, the oldest
\* one, is carried to the slot they are credited in.
Strays(cl, slots, target, u) ==
  {r \in Listed(slots) \ {slots[SlotIn(target, u)]} : IsDecidedIn(cl, <<r, u>>)}
Stray(cl, slots, target, u) ==
  CHOOSE r \in Strays(cl, slots, target, u) :
    \A x \in Strays(cl, slots, target, u) : cl[<<r, u>>].id <= cl[<<x, u>>].id
Strayed(cl, slots, target) == {u \in PeopleIn(target) : Strays(cl, slots, target, u) # {}}
Gathered(cl, slots, target) ==
  [k \in Row \X Person |->
     IF k[2] \in Strayed(cl, slots, target)
     THEN Relocated(cl, Stray(cl, slots, target, k[2]), slots[SlotIn(target, k[2])], k[2])[k]
     ELSE cl[k]]

\* The Author table after steps 4 and 6: each row of the list at its slot, credited to
\* the person the plan has there and otherwise as steps 1 and 4 left it.
CreditAt(p, slots, target, r) ==
  LET i == IndexIn(slots, r)
  IN IF target[i] \in Person /\ i = SlotIn(target, target[i]) THEN target[i]
     ELSE IF r \in Listed(authors[p]) THEN Detached(authors[p], target)[r].credit
     ELSE Null

ListRepaired(p, slots, names, target) ==
  [r \in Row |->
     IF r \in Listed(slots)
     THEN [name |-> names[IndexIn(slots, r)], pub |-> p, order |-> IndexIn(slots, r) - 1,
           credit |-> CreditAt(p, slots, target, r)]
     ELSE IF r \in Listed(authors[p]) THEN NoRow ELSE author[r]]

\* The row as step 4 finds it, for the correction a rename of history records.
MidSnapshot(cl, au, r) ==
  [row |-> r, credit |-> au[r].credit,
   status |-> [u \in Person |-> IF cl[<<r, u>>] = NoClaim THEN "none" ELSE cl[<<r, u>>].status]]
Changed(cl, au, r) == \/ au[r] # author[r]
                      \/ \E u \in Person : cl[<<r, u>>] # claim[<<r, u>>]

\* "The plan would leave ... attributed to nothing", "the plan attributes ... who is not
\* attributed on this publication today".
SamePeople(list, target) == PeopleIn(CreditsOf(author, list)) = PeopleIn(target)

AlreadyApplied(list, names, target) ==
  Bylines(list) = names /\ CreditsOf(author, list) = target

RepairPublication(p, names, target) ==
  LET list     == authors[p]
      detached == Detached(list, target)
      carried  == Carried(list, target)
      renamed  == Renamed(list, names)
      listed   == Cascade(Withdraw(carried, renamed, {}), Surplus(list, names))
  IN /\ p \in LivePub
     /\ ~AlreadyApplied(list, names, target)
     /\ SamePeople(list, target)
     /\ \A u \in Ahead(list, target) :
          CanRelocate(claim, Leaves(list, target, u), Lands(list, target, u), u)
     /\ \A r \in Surplus(list, names) : Disposable(carried, detached, r)
     /\ \E slots \in [DOMAIN names -> FreshRow \cup Listed(list)] :
          /\ FillsSlots(slots, list, KeptSlots(list, names))
          /\ \A u \in Strayed(listed, slots, target) :
               CanRelocate(listed, Stray(listed, slots, target, u), slots[SlotIn(target, u)], u)
          /\ LET written == ListRepaired(p, slots, names, target)
                 final   == Gathered(listed, slots, target)
             IN /\ CreditsOf(written, slots) = target
                /\ authors' = [authors EXCEPT ![p] = slots]
                /\ author' = written
                /\ claim' = final
                /\ recorded' =
                     {MidSnapshot(carried, detached, r) : r \in
                        {x \in renamed : ~Disposable(carried, detached, x)}}
                     \cup {SnapshotOf(r) : r \in {x \in Listed(list) : Changed(final, written, x)}}
     /\ UNCHANGED <<edit, queue, scorer>>

RepairNext ==
  \/ Next
  \/ \E p \in Pub, names \in NameList : \E target \in Plan(names) :
       RepairPublication(p, names, target)

RepairSpec == Init /\ [][RepairNext]_vars

-----------------------------------------------------------------------------
(* Properties *)

CreditedOn(p) == {author[r].credit : r \in {x \in Live : author[x].pub = p}} \cap Person

\* Nobody loses the credit for a publication but by an author edit, or with the
\* publication: not by a new list of names, and not by a repair, which moves credits
\* between rows, renames the rows and deletes some.
PeopleCarried ==
  [][edit' = edit =>
       \A p \in LivePub : p \in LivePub' => CreditedOn(p) \subseteq CreditedOn(p)']_vars

\* A decision a repair can leave: a rejection of the very person the row is credited to,
\* when the oldest decision it gathers is a rejection.
Contradicted(r, u) == r \in Live /\ author[r].credit = u /\ StatusOf(r, u) = "rejected"

\* Of any other decision nobody loses one unrecorded, a repair included, whose claims
\* change rows: what leaves or reaches a row is in the snapshot of what it was.
OtherDecisionsKept ==
  [][\A r \in Row, u \in Person :
       StatusOf(r, u) \in Decided /\ ~Contradicted(r, u) => DecisionKept(r, u)]_vars

=============================================================================
