---------------------------- MODULE MCClaimQueue ----------------------------
(***************************************************************************)
(* Two papers with two author rows each, and two people; the first paper   *)
(* has a project.  That is the least in which a person is reached through  *)
(* a co-author.                                                            *)
(***************************************************************************)
EXTENDS ClaimQueue, TLC

CONSTANTS a1, a2, b1, b2, p1, p2, u1, u2, g1

W(w) == <<w>>
Name(given, family, suffix) == [given |-> given, family |-> family, suffix |-> suffix]

MCParticle == {"van", "der", "da", "di"}
MCSuffix   == {"jr"}
MCInitial  == {"j", "d"}
MCLetter   == [w \in {"jane", "john", "joao", "j"} |-> "j"] @@ [w \in {"di", "d"} |-> "d"]

JaneSmith   == Name(<<W("jane")>>, <<W("smith")>>, <<>>)
MarriedJane == Name(<<W("jane"), W("j")>>, << <<"smith", "okonkwo">> >>, <<>>)
JohnSmith   == Name(<<W("john")>>, <<W("smith")>>, <<W("jr")>>)
JSmith      == Name(<<W("j")>>, <<W("smith")>>, <<>>)
JaneBerg    == Name(<<W("jane")>>, <<W("van"), W("der"), W("berg")>>, <<>>)

MCPaperOf   == (a1 :> p1) @@ (a2 :> p1) @@ (b1 :> p2) @@ (b2 :> p2)
MCProjectOf == (p1 :> g1) @@ (p2 :> Null)
MCLater     == (u1 :> {u2}) @@ (u2 :> {})

\* Two Smiths, and a byline that is nobody's.
SmithLine == (a1 :> CommaOrder(JSmith)) @@ (a2 :> CommaOrder(JohnSmith))
             @@ (b1 :> DirectOrder(JaneSmith)) @@ (b2 :> DirectOrder(JaneBerg))
Smiths    == (u1 :> MarriedJane) @@ (u2 :> JohnSmith)

\* Keeping what passes a test is a selection.
ASSUME KeptSelects ==
  \A k \in 0..3 : \A s \in [1..k -> 1..3] :
    Kept(s, {i \in DOMAIN s : s[i] # 2}) = SelectSeq(s, LAMBDA x : x # 2)

=============================================================================
