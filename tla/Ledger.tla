------------------------------- MODULE Ledger -------------------------------
(***************************************************************************)
(* What the claim ledger promises about one author row, whoever writes it: *)
(* a credit has a decision behind it, decisions accumulate, and a credit   *)
(* or a decision goes away or is replaced only in a step that records what *)
(* the row was.  There are no publications, lists, suggestions, requests   *)
(* or runs here.  Attribution implements it.                               *)
(***************************************************************************)
CONSTANTS Row, Person, Nobody

VARIABLES
  credit,    \* credit[r]: the person row r is credited to, or Nobody
  decision,  \* decision[<<r, u>>]: what was decided of the pair, or "none"
  recorded   \* the corrections recorded by the step just taken

vars == <<credit, decision, recorded>>

Crediting == {"approved", "self_asserted"}

\* Every credit has a decision in its favour.
Accounted ==
  \A r \in Row : credit[r] # Nobody => decision[<<r, credit[r]>>] \in Crediting

Init ==
  /\ credit = [r \in Row |-> Nobody]
  /\ decision = [k \in Row \X Person |-> "none"]
  /\ recorded = {}

\* The row as it was, credit and decisions, is in a correction: anything may follow.
Corrected(r) ==
  \E c \in recorded' : /\ c.row = r
                       /\ c.credit = credit[r]
                       /\ \A u \in Person : c.decision[u] = decision[<<r, u>>]

\* Otherwise decisions only accumulate, and only an uncredited row is credited.
Grows(r) ==
  /\ \A u \in Person :
       decision[<<r, u>>] # "none" => decision'[<<r, u>>] = decision[<<r, u>>]
  /\ credit[r] # Nobody => credit'[r] = credit[r]

Next == Accounted' /\ \A r \in Row : Grows(r) \/ Corrected(r)

Spec == Init /\ [][Next]_vars

=============================================================================
