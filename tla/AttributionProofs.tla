------------------------- MODULE AttributionProofs -------------------------
(***************************************************************************)
(* Proofs about Attribution, in three parts: the author lists and the      *)
(* types; what the claims say of the rows they are on; and what a step may *)
(* do to the credit and the decisions of a row, which is the refinement of *)
(* Ledger.                                                                 *)
(***************************************************************************)
EXTENDS Attribution, SequenceTheorems, TLAPS

-----------------------------------------------------------------------------
(* Author lists *)

Distinct(s) == \A i, j \in DOMAIN s : s[i] = s[j] => i = j

\* A listed row has an index, and only one in a list without repetition.
LEMMA IndexOfListed ==
  ASSUME NEW s, NEW r \in Listed(s)
  PROVE  IndexIn(s, r) \in DOMAIN s /\ s[IndexIn(s, r)] = r
BY DEF Listed, IndexIn

LEMMA IndexIsUnique ==
  ASSUME NEW s, Distinct(s), NEW i \in DOMAIN s
  PROVE  s[i] \in Listed(s) /\ IndexIn(s, s[i]) = i
BY DEF Distinct, Listed, IndexIn

\* Taking a row off a list leaves exactly the others, in a list without repetition.
LEMMA WithoutRow ==
  ASSUME NEW s \in Seq(Row), NEW r \in Row, Distinct(s)
  PROVE  /\ Without(s, r) \in Seq(Row)
         /\ Distinct(Without(s, r))
         /\ Listed(Without(s, r)) = Listed(s) \ {r}
         /\ Len(Without(s, r)) = IF r \in Listed(s) THEN Len(s) - 1 ELSE Len(s)
<1>1. CASE r \notin Listed(s)
  BY <1>1 DEF Without
<1>2. CASE r \in Listed(s)
  <2> DEFINE k == IndexIn(s, r)
             w == Without(s, r)
             a == SubSeq(s, 1, k - 1)
             b == SubSeq(s, k + 1, Len(s))
  <2>1. k \in 1..Len(s) /\ s[k] = r /\ Len(s) \in Nat
    BY <1>2, IndexOfListed, LenProperties
  <2>2. w = a \o b
    BY <1>2 DEF Without, RemoveAt
  <2>3. \A i \in 1..Len(s) : s[i] \in Row
    BY ElementOfSeq
  <2>4. /\ a \in Seq(Row) /\ Len(a) = k - 1
        /\ \A i \in 1..k-1 : a[i] = s[i]
    <3>1. \A i \in 1..k-1 : s[i] \in Row
      BY <2>1, <2>3
    <3> QED
      BY <2>1, <3>1, SubSeqProperties
  <2>5. /\ b \in Seq(Row) /\ Len(b) = Len(s) - k
        /\ \A i \in 1..Len(s)-k : b[i] = s[k+i]
    <3>1. \A i \in k+1..Len(s) : s[i] \in Row
      BY <2>1, <2>3
    <3>2. /\ b \in Seq(Row) /\ Len(b) = IF k+1 <= Len(s) THEN Len(s)-(k+1)+1 ELSE 0
          /\ \A i \in 1..Len(s)-(k+1)+1 : b[i] = s[(k+1)+i-1]
      BY <2>1, <3>1, SubSeqProperties
    <3> QED
      BY <2>1, <3>2
  <2> HIDE DEF k, w, a, b
  <2>6. /\ w \in Seq(Row) /\ Len(w) = Len(s) - 1
        /\ \A i \in 1..Len(s)-1 : w[i] = IF i < k THEN s[i] ELSE s[i+1]
    <3>1. /\ w \in Seq(Row) /\ Len(w) = Len(a) + Len(b)
          /\ \A i \in 1..Len(a)+Len(b) : w[i] = IF i <= Len(a) THEN a[i] ELSE b[i - Len(a)]
      BY <2>2, <2>4, <2>5, ConcatProperties
    <3>2. ASSUME NEW i \in 1..Len(s)-1
          PROVE  w[i] = IF i < k THEN s[i] ELSE s[i+1]
      <4>1. CASE i < k
        <5>1. i \in 1..k-1 /\ i <= Len(a) /\ i \in 1..Len(a)+Len(b)
          BY <4>1, <2>1, <2>4, <2>5
        <5> QED
          BY <4>1, <5>1, <2>4, <3>1
      <4>2. CASE i >= k
        <5>1. w[i] = b[i - (k-1)]
          <6>1. /\ i \in 1..Len(a)+Len(b) /\ ~(i <= Len(a)) /\ i - Len(a) = i - (k-1)
            BY <4>2, <2>1, <2>4, <2>5
          <6> QED
            BY <3>1, <6>1
        <5>2. i - (k-1) \in 1..Len(s)-k /\ k + (i - (k-1)) = i + 1
          BY <4>2, <2>1
        <5> QED
          BY <4>2, <2>1, <2>5, <5>1, <5>2
      <4> QED
        BY <4>1, <4>2, <2>1
    <3> QED
      BY <2>1, <2>4, <2>5, <3>1, <3>2
  <2>7. DOMAIN w = 1..Len(s)-1 /\ DOMAIN s = 1..Len(s)
    BY <2>6, LenProperties
  <2>8. Distinct(w)
    <3>1. ASSUME NEW i \in 1..Len(s)-1, NEW j \in 1..Len(s)-1, w[i] = w[j] PROVE i = j
      <4>1. \A m, n \in 1..Len(s) : s[m] = s[n] => m = n
        BY <2>7 DEF Distinct
      <4>2. /\ i \in 1..Len(s) /\ i+1 \in 1..Len(s) /\ j \in 1..Len(s) /\ j+1 \in 1..Len(s)
        BY <2>1
      <4>3. w[i] = (IF i < k THEN s[i] ELSE s[i+1]) /\ w[j] = IF j < k THEN s[j] ELSE s[j+1]
        BY <2>6
      <4> DEFINE m == IF i < k THEN i ELSE i+1
                 n == IF j < k THEN j ELSE j+1
      <4>4. m \in 1..Len(s) /\ n \in 1..Len(s) /\ w[i] = s[m] /\ w[j] = s[n]
        BY <4>2, <4>3
      <4>5. m = n => i = j
        BY <2>1
      <4> HIDE DEF m, n
      <4> QED
        BY <3>1, <4>1, <4>4, <4>5
    <3> QED
      BY <2>7, <3>1 DEF Distinct
  <2>9. ASSUME NEW x PROVE x \in Listed(w) <=> x \in Listed(s) /\ x # r
    <3>1. ASSUME NEW i \in 1..Len(s)-1, x = w[i]
          PROVE  x \in Listed(s) /\ x # r
      BY <2>1, <2>6, <2>7, <3>1 DEF Listed, Distinct
    <3>2. ASSUME NEW j \in 1..Len(s), x = s[j], x # r
          PROVE  x \in Listed(w)
      <4>1. CASE j < k
        BY <4>1, <3>2, <2>1, <2>6, <2>7 DEF Listed
      <4>2. CASE j > k
        <5>1. j - 1 \in 1..Len(s)-1 /\ ~(j - 1 < k) /\ (j - 1) + 1 = j
          BY <4>2, <2>1
        <5> QED
          BY <5>1, <3>2, <2>6, <2>7 DEF Listed
      <4> QED
        BY <4>1, <4>2, <3>2, <2>1
    <3> QED
      BY <3>1, <3>2, <2>7 DEF Listed
  <2> QED
    BY <1>2, <2>6, <2>8, <2>9 DEF w
<1> QED
  BY <1>1, <1>2

\* Inserting a row that was not on the list puts it, once, at its position.
LEMMA PlacedRow ==
  ASSUME NEW s \in Seq(Row), NEW r \in Row, Distinct(s), r \notin Listed(s),
         NEW position \in 0..Len(s)
  PROVE  /\ Placed(s, r, position) \in Seq(Row)
         /\ Distinct(Placed(s, r, position))
         /\ Listed(Placed(s, r, position)) = Listed(s) \cup {r}
         /\ \A i \in DOMAIN Placed(s, r, position) : \A a \in DOMAIN s :
              Placed(s, r, position)[i] = s[a] => i = IF a <= position THEN a ELSE a + 1
<1> DEFINE k == position + 1
           w == Placed(s, r, position)
           a == SubSeq(s, 1, k - 1)
           b == SubSeq(s, k, Len(s))
<1>1. Len(s) \in Nat /\ k \in 1..Len(s)+1 /\ DOMAIN s = 1..Len(s)
  BY LenProperties
<1>2. w = (a \o <<r>>) \o b
  BY DEF Placed, InsertAt
<1>3. \A i \in 1..Len(s) : s[i] \in Row
  BY ElementOfSeq
<1>4. /\ a \in Seq(Row) /\ Len(a) = k - 1
      /\ \A i \in 1..k-1 : a[i] = s[i]
  <2>1. \A i \in 1..k-1 : s[i] \in Row
    BY <1>1, <1>3
  <2>2. /\ a \in Seq(Row) /\ Len(a) = IF 1 <= k-1 THEN (k-1)-1+1 ELSE 0
        /\ \A i \in 1..(k-1)-1+1 : a[i] = s[1+i-1]
    BY <1>1, <2>1, SubSeqProperties
  <2> QED
    BY <1>1, <2>2
<1>5. /\ b \in Seq(Row) /\ Len(b) = Len(s) - k + 1
      /\ \A i \in 1..Len(s)-k+1 : b[i] = s[k+i-1]
  <2>1. \A i \in k..Len(s) : s[i] \in Row
    BY <1>1, <1>3
  <2>2. /\ b \in Seq(Row) /\ Len(b) = IF k <= Len(s) THEN Len(s)-k+1 ELSE 0
        /\ \A i \in 1..Len(s)-k+1 : b[i] = s[k+i-1]
    BY <1>1, <2>1, SubSeqProperties
  <2>3. (IF k <= Len(s) THEN Len(s)-k+1 ELSE 0) = Len(s) - k + 1
    <3> HIDE DEF k
    <3> QED
      BY <1>1
  <2> QED
    BY <2>2, <2>3
<1>6. <<r>> \in Seq(Row) /\ Len(<<r>>) = 1 /\ <<r>>[1] = r
  OBVIOUS
<1> DEFINE c == a \o <<r>>
<1>7. /\ c \in Seq(Row) /\ Len(c) = k
      /\ \A i \in 1..k : c[i] = IF i < k THEN s[i] ELSE r
  <2>1. /\ c \in Seq(Row) /\ Len(c) = Len(a) + 1
        /\ \A i \in 1..Len(a)+1 : c[i] = IF i <= Len(a) THEN a[i] ELSE <<r>>[i - Len(a)]
    BY <1>4, <1>6, ConcatProperties
  <2> HIDE DEF k, a, c
  <2>2. ASSUME NEW i \in 1..k
        PROVE  c[i] = IF i < k THEN s[i] ELSE r
    <3>1. CASE i < k
      <4>1. i \in 1..k-1 /\ i <= Len(a) /\ i \in 1..Len(a)+1
        BY <3>1, <1>1, <1>4
      <4> QED
        BY <3>1, <4>1, <1>4, <2>1
    <3>2. CASE i = k
      <4>1. ~(i <= Len(a)) /\ i \in 1..Len(a)+1 /\ i - Len(a) = 1
        BY <3>2, <1>1, <1>4
      <4> QED
        BY <3>2, <4>1, <1>1, <1>6, <2>1
    <3> QED
      BY <3>1, <3>2, <1>1
  <2> QED
    BY <1>1, <1>4, <2>1, <2>2
<1>8. w = c \o b
  BY <1>2
<1> HIDE DEF k, w, a, b, c
<1>9. /\ w \in Seq(Row) /\ Len(w) = Len(s) + 1
      /\ \A i \in 1..Len(s)+1 : w[i] = IF i < k THEN s[i] ELSE IF i = k THEN r ELSE s[i-1]
  <2>1. /\ w \in Seq(Row) /\ Len(w) = Len(c) + Len(b)
        /\ \A i \in 1..Len(c)+Len(b) : w[i] = IF i <= Len(c) THEN c[i] ELSE b[i - Len(c)]
    BY <1>8, <1>5, <1>7, ConcatProperties
  <2>2. ASSUME NEW i \in 1..Len(s)+1
        PROVE  w[i] = IF i < k THEN s[i] ELSE IF i = k THEN r ELSE s[i-1]
    <3>1. CASE i <= k
      <4>1. i \in 1..k /\ i <= Len(c) /\ i \in 1..Len(c)+Len(b) /\ (~(i < k) => i = k)
        BY <3>1, <1>1, <1>5, <1>7
      <4>2. w[i] = c[i] /\ c[i] = IF i < k THEN s[i] ELSE r
        BY <4>1, <1>7, <2>1
      <4> QED
        BY <4>1, <4>2
    <3>2. CASE i > k
      <4>1. i - k \in 1..Len(s)-k+1 /\ k + (i - k) - 1 = i - 1
        BY <3>2, <1>1
      <4>2. ~(i <= Len(c)) /\ i \in 1..Len(c)+Len(b) /\ Len(c) = k
        BY <3>2, <1>1, <1>5, <1>7
      <4>3. w[i] = b[i - k]
        BY <4>2, <2>1
      <4>4. b[i - k] = s[i - 1]
        BY <4>1, <1>5
      <4>5. ~(i < k) /\ i # k
        BY <3>2, <1>1
      <4> QED
        BY <4>3, <4>4, <4>5
    <3> QED
      BY <3>1, <3>2, <1>1
  <2> QED
    BY <1>1, <1>5, <1>7, <2>1, <2>2
<1>10. DOMAIN w = 1..Len(s)+1
  BY <1>9, LenProperties
<1>11. Distinct(w)
  <2> SUFFICES ASSUME NEW i \in 1..Len(s)+1, NEW j \in 1..Len(s)+1, w[i] = w[j], i < j
               PROVE  FALSE
    BY <1>1, <1>10 DEF Distinct
  <2> DEFINE from(n) == IF n < k THEN n ELSE n - 1
  <2>1. ASSUME NEW n \in 1..Len(s)+1, n # k
        PROVE  from(n) \in 1..Len(s) /\ w[n] = s[from(n)]
    BY <2>1, <1>1, <1>9
  <2>2. ASSUME NEW n \in 1..Len(s)+1, n # k
        PROVE  w[n] \in Listed(s)
    BY <2>1, <2>2, <1>1 DEF Listed
  <2>3. w[k] = r
    BY <1>1, <1>9
  <2>4. i # k /\ j # k
    BY <2>2, <2>3
  <2>5. from(i) # from(j)
    BY <2>4, <1>1
  <2> QED
    BY <2>1, <2>4, <2>5, <1>1 DEF Distinct
<1>12. ASSUME NEW x PROVE x \in Listed(w) <=> x \in Listed(s) \/ x = r
  <2>1. ASSUME NEW i \in 1..Len(s)+1, x = w[i]
        PROVE  x \in Listed(s) \/ x = r
    BY <2>1, <1>1, <1>9 DEF Listed
  <2>2. ASSUME NEW j \in 1..Len(s), x = s[j]
        PROVE  x \in Listed(w)
    <3>1. CASE j < k
      BY <3>1, <2>2, <1>1, <1>9, <1>10 DEF Listed
    <3>2. CASE j >= k
      <4>1. j + 1 \in 1..Len(s)+1 /\ j + 1 > k /\ (j + 1) - 1 = j
        BY <3>2, <1>1
      <4>2. ~(j + 1 < k) /\ j + 1 # k
        BY <4>1, <1>1
      <4>3. w[j + 1] = s[j]
        BY <4>1, <4>2, <1>9
      <4> QED
        BY <4>1, <4>3, <2>2, <1>10 DEF Listed
    <3> QED
      BY <3>1, <3>2, <1>1
  <2>3. r \in Listed(w)
    BY <1>1, <1>9, <1>10 DEF Listed
  <2> QED
    BY <2>1, <2>2, <2>3, <1>1, <1>10 DEF Listed
<1>13. ASSUME NEW i \in 1..Len(s)+1, NEW at \in 1..Len(s), w[i] = s[at]
       PROVE  i = IF at < k THEN at ELSE at + 1
  <2> DEFINE to == IF at < k THEN at ELSE at + 1
  <2>1. to \in 1..Len(s)+1 /\ w[to] = s[at]
    <3>1. CASE at < k
      BY <3>1, <1>1, <1>9
    <3>2. CASE at >= k
      <4>1. ~(at + 1 < k) /\ at + 1 # k /\ (at + 1) - 1 = at /\ at + 1 \in 1..Len(s)+1
        BY <3>2, <1>1
      <4>2. to = at + 1
        BY <3>2, <1>1
      <4>3. w[at + 1] = s[(at + 1) - 1]
        BY <4>1, <1>9
      <4> QED
        BY <4>1, <4>2, <4>3
    <3> QED
      BY <3>1, <3>2, <1>1
  <2> HIDE DEF to
  <2>2. i = to
    BY <2>1, <1>10, <1>11, <1>13 DEF Distinct
  <2> QED
    BY <2>2 DEF to
<1>14. \A at \in 1..Len(s) : at < k <=> at <= position
  BY <1>1 DEF k
<1> QED
  BY <1>1, <1>9, <1>10, <1>11, <1>12, <1>13, <1>14 DEF w

-----------------------------------------------------------------------------
(* Tables *)

AuthorTable == [Row -> AuthorRow \cup {NoRow}]
ClaimTable  == [Row \X Person -> ClaimRow \cup {NoClaim}]

\* au and bu have the same rows, with the same byline, publication and credit.
AlikeButOrder(au, bu) ==
  \A x \in Row : /\ (au[x] = NoRow) <=> (bu[x] = NoRow)
                 /\ bu[x] # NoRow => /\ au[x].name = bu[x].name
                                     /\ au[x].pub = bu[x].pub
                                     /\ au[x].credit = bu[x].credit

\* Renumbering a list of existing rows writes author_order and nothing else.
LEMMA RenumberedRows ==
  ASSUME NEW au \in AuthorTable, NEW s \in Seq(Row), \A x \in Listed(s) : au[x] # NoRow
  PROVE  /\ Renumber(au, s) \in AuthorTable
         /\ AlikeButOrder(Renumber(au, s), au)
         /\ \A x \in Row \ Listed(s) : Renumber(au, s)[x] = au[x]
         /\ \A x \in Listed(s) : Renumber(au, s)[x].order = IndexIn(s, x) - 1
<1> DEFINE bu == Renumber(au, s)
<1>1. bu = [x \in Row |-> IF x \in Listed(s) THEN [au[x] EXCEPT !.order = IndexIn(s, x) - 1]
                          ELSE au[x]]
  BY DEF Renumber
<1>2. Listed(s) \subseteq Row
  BY ElementOfSeq, LenProperties DEF Listed
<1> HIDE DEF bu
<1>3. ASSUME NEW x \in Listed(s)
      PROVE  /\ bu[x] \in AuthorRow
             /\ bu[x].name = au[x].name /\ bu[x].pub = au[x].pub
             /\ bu[x].credit = au[x].credit /\ bu[x].order = IndexIn(s, x) - 1
  <2>1. au[x] \in AuthorRow
    BY <1>2 DEF AuthorTable
  <2>2. IndexIn(s, x) - 1 \in Nat
    BY IndexOfListed, LenProperties
  <2>3. bu[x] = [au[x] EXCEPT !.order = IndexIn(s, x) - 1]
    BY <1>1, <1>2
  <2> QED
    BY <2>1, <2>2, <2>3 DEF AuthorRow
<1>4. \A x \in Row \ Listed(s) : bu[x] = au[x]
  BY <1>1
<1>5. bu \in AuthorTable
  <2>1. \A x \in Row : bu[x] \in AuthorRow \cup {NoRow}
    BY <1>3, <1>4 DEF AuthorTable
  <2>2. bu = [x \in Row |-> bu[x]]
    BY <1>1
  <2> QED
    BY <2>1, <2>2 DEF AuthorTable
<1>6. AlikeButOrder(bu, au)
  BY <1>3, <1>4, Absences DEF AlikeButOrder
<1> QED
  BY <1>3, <1>4, <1>5, <1>6 DEF bu

\* Each verb of the ledger keeps the claims table a claims table.
LEMMA WithdrawnTable ==
  ASSUME NEW cl \in ClaimTable, NEW R, NEW keep
  PROVE  /\ Withdraw(cl, R, keep) \in ClaimTable
         /\ \A k \in Row \X Person : Withdraw(cl, R, keep)[k] # NoClaim => cl[k] # NoClaim
BY DEF Withdraw, ClaimTable

LEMMA CascadedTable ==
  ASSUME NEW cl \in ClaimTable, NEW R
  PROVE  /\ Cascade(cl, R) \in ClaimTable
         /\ \A k \in Row \X Person :
              Cascade(cl, R)[k] # NoClaim => cl[k] # NoClaim /\ k[1] \notin R
BY DEF Cascade, ClaimTable

LEMMA RecordedTable ==
  ASSUME NEW cl \in ClaimTable, NEW r \in Row, NEW u \in Person, NEW id \in ClaimId,
         NEW status \in Status, NEW source \in {"machine", "self", "admin"}
  PROVE  /\ Record(cl, r, u, status, source, id) \in ClaimTable
         /\ \A k \in Row \X Person :
              Record(cl, r, u, status, source, id)[k] # NoClaim
              => cl[k] # NoClaim \/ k = <<r, u>>
<1> DEFINE new == [id |-> IF cl[<<r, u>>] = NoClaim THEN id ELSE cl[<<r, u>>].id,
                   status |-> status, source |-> source, basis |-> Null]
<1>1. cl[<<r, u>>] \in ClaimRow \cup {NoClaim}
  BY DEF ClaimTable
<1>2. new \in ClaimRow
  BY <1>1 DEF ClaimRow
<1> HIDE DEF new
<1>3. /\ [cl EXCEPT ![<<r, u>>] = new] \in ClaimTable
      /\ \A k \in Row \X Person :
           k # <<r, u>> => [cl EXCEPT ![<<r, u>>] = new][k] = cl[k]
  BY <1>2 DEF ClaimTable
<1> QED
  BY <1>3 DEF Record, new

LEMMA DecidedTable ==
  ASSUME NEW cl \in ClaimTable, NEW r \in Row, NEW u \in Person, NEW status \in Status,
         cl[<<r, u>>] # NoClaim
  PROVE  /\ Decide(cl, r, u, status) \in ClaimTable
         /\ \A k \in Row \X Person : Decide(cl, r, u, status)[k] # NoClaim => cl[k] # NoClaim
<1> DEFINE new == [id |-> cl[<<r, u>>].id, status |-> status,
                   source |-> cl[<<r, u>>].source, basis |-> Null]
<1>1. new \in ClaimRow
  BY DEF ClaimRow, ClaimTable
<1> HIDE DEF new
<1>2. /\ [cl EXCEPT ![<<r, u>>] = new] \in ClaimTable
      /\ \A k \in Row \X Person :
           k # <<r, u>> => [cl EXCEPT ![<<r, u>>] = new][k] = cl[k]
  BY <1>1 DEF ClaimTable
<1> QED
  BY <1>2 DEF Decide, new

LEMMA SnapshotTyped ==
  ASSUME TypeOK, NEW r \in Live
  PROVE  SnapshotOf(r) \in Snapshot
<1>1. author[r] \in AuthorRow
  BY DEF TypeOK, Live
<1>2. \A u \in Person : StatusOf(r, u) \in Status \cup {"none"}
  BY DEF TypeOK, Live, StatusOf, ClaimRow
<1> QED
  BY <1>1, <1>2 DEF SnapshotOf, Snapshot, Live, AuthorRow

-----------------------------------------------------------------------------
(* Membership *)

ListTable == [Pub -> Seq(Row) \cup {NoPub}]

\* MembershipConsistent, of any two tables: each list names, once, the rows of its
\* publication, each at its author_order.
ListsAgree(as, au) ==
  /\ \A p \in Pub : as[p] # NoPub =>
       /\ Distinct(as[p])
       /\ Listed(as[p]) = {x \in Row : au[x] # NoRow /\ au[x].pub = p}
       /\ \A x \in Listed(as[p]) : au[x].order = IndexIn(as[p], x) - 1
  /\ \A x \in Row : au[x] # NoRow => as[au[x].pub] # NoPub

\* A list cannot repeat a row: the row has one author_order.
LEMMA MembershipMeansAgreement ==
  ASSUME TypeOK, MembershipConsistent
  PROVE  ListsAgree(authors, author)
<1>1. ASSUME NEW p \in LivePub
      PROVE  /\ Distinct(authors[p])
             /\ Listed(authors[p]) = {x \in Live : author[x].pub = p}
             /\ \A x \in Listed(authors[p]) : author[x].order = IndexIn(authors[p], x) - 1
  <2>1. authors[p] \in Seq(Row)
    BY DEF TypeOK, LivePub
  <2>2. \A i \in DOMAIN authors[p] : /\ i \in Nat /\ authors[p][i] \in Live
                                     /\ author[authors[p][i]].pub = p
                                     /\ author[authors[p][i]].order = i - 1
    BY <2>1, LenProperties DEF MembershipConsistent
  <2>3. Distinct(authors[p])
    BY <2>2 DEF Distinct
  <2>4. Listed(authors[p]) = {x \in Live : author[x].pub = p}
    BY <2>2 DEF Listed, MembershipConsistent
  <2>5. ASSUME NEW x \in Listed(authors[p])
        PROVE  author[x].order = IndexIn(authors[p], x) - 1
    BY <2>2, IndexOfListed
  <2> QED
    BY <2>3, <2>4, <2>5
<1>2. \A x \in Live : author[x].pub \in LivePub
  BY DEF MembershipConsistent
<1> QED
  BY <1>1, <1>2 DEF ListsAgree, Live, LivePub

LEMMA AgreementMeansMembership ==
  ASSUME NEW as \in ListTable, NEW au \in AuthorTable, ListsAgree(as, au)
  PROVE  /\ \A p \in {x \in Pub : as[x] # NoPub} : \A i \in DOMAIN as[p] :
              /\ as[p][i] \in Row /\ au[as[p][i]] # NoRow
              /\ au[as[p][i]].pub = p
              /\ au[as[p][i]].order = i - 1
         /\ \A r \in Row : au[r] # NoRow => /\ au[r].pub \in Pub /\ as[au[r].pub] # NoPub
                                            /\ r \in Listed(as[au[r].pub])
<1>1. ASSUME NEW p \in Pub, as[p] # NoPub, NEW i \in DOMAIN as[p]
      PROVE  /\ as[p][i] \in Row /\ au[as[p][i]] # NoRow
             /\ au[as[p][i]].pub = p
             /\ au[as[p][i]].order = i - 1
  <2>1. as[p][i] \in Listed(as[p]) /\ IndexIn(as[p], as[p][i]) = i
    BY <1>1, IndexIsUnique DEF ListsAgree
  <2> QED
    BY <1>1, <2>1 DEF ListsAgree
<1>2. \A r \in Row : au[r] # NoRow => au[r].pub \in Pub
  BY DEF AuthorTable, AuthorRow
<1> QED
  BY <1>1, <1>2 DEF ListsAgree

\* The same of the tables after a step.
LEMMA AgreementAfter ==
  ASSUME authors' \in ListTable, author' \in AuthorTable, ListsAgree(authors', author')
  PROVE  MembershipConsistent'
BY AgreementMeansMembership DEF MembershipConsistent, Live, LivePub

\* Saving a row keeps the tables and their agreement; of the rows it changes only
\* this one, but for author_order.
LEMMA SavedRow ==
  ASSUME TypeOK, MembershipConsistent,
         NEW r \in Row, NEW new \in AuthorRow, NEW old \in LivePub,
         new.pub \in LivePub, NEW position \in 0..Room(r, new.pub),
         r \in Live => author[r].pub = old,
         r \notin Live => new.pub = old,
         SaveAuthor(r, new, old, position)
  PROVE  /\ authors' \in ListTable
         /\ author' \in AuthorTable
         /\ ListsAgree(authors', author')
         /\ AlikeButOrder(author', [author EXCEPT ![r] = new])
<1> DEFINE q  == new.pub
           s1 == Without(authors[old], r)
           t  == Without(authors[q], r)
           w  == Placed(t, r, position)
           a0 == [author EXCEPT ![r] = new]
           lo == IF q = old THEN w ELSE s1
           a1 == Renumber(a0, lo)
           Of(p) == {x \in Row : author[x] # NoRow /\ author[x].pub = p}
<1>1. /\ authors \in ListTable /\ author \in AuthorTable /\ ListsAgree(authors, author)
      /\ old \in Pub /\ q \in Pub /\ authors[old] # NoPub /\ authors[q] # NoPub
      /\ authors[old] \in Seq(Row) /\ authors[q] \in Seq(Row)
  BY MembershipMeansAgreement DEF TypeOK, LivePub, ListTable, AuthorTable
<1>2. /\ Distinct(authors[old]) /\ Listed(authors[old]) = Of(old)
      /\ Distinct(authors[q]) /\ Listed(authors[q]) = Of(q)
  BY <1>1 DEF ListsAgree
<1>3. /\ s1 \in Seq(Row) /\ Distinct(s1) /\ Listed(s1) = Of(old) \ {r}
      /\ t \in Seq(Row) /\ Distinct(t) /\ Listed(t) = Of(q) \ {r}
  BY <1>1, <1>2, WithoutRow
<1>4. Len(t) = Room(r, q)
  BY DEF Room
<1>5. w \in Seq(Row) /\ Distinct(w) /\ Listed(w) = Of(q) \cup {r}
  <2>1. r \notin Listed(t) /\ position \in 0..Len(t)
    BY <1>3, <1>4
  <2> HIDE DEF t
  <2>2. Placed(t, r, position) \in Seq(Row) /\ Distinct(Placed(t, r, position))
        /\ Listed(Placed(t, r, position)) = Listed(t) \cup {r}
    BY <1>3, <2>1, PlacedRow
  <2> QED
    BY <1>3, <2>2
<1>6. Without(s1, r) = s1
  BY <1>3 DEF Without
<1>7. /\ authors' = [[authors EXCEPT ![old] = s1] EXCEPT ![q] = w]
      /\ author' = Renumber(Renumber(a0, authors'[old]), authors'[q])
  <2> DEFINE left == [authors EXCEPT ![old] = s1]
  <2>1. Without(left[q], r) = t
    BY <1>1, <1>6 DEF ListTable
  <2>2. authors' = [left EXCEPT ![q] = Placed(Without(left[q], r), r, position)]
    BY DEF SaveAuthor
  <2>3. author' = Renumber(Renumber(a0, authors'[old]), authors'[q])
    BY DEF SaveAuthor
  <2> QED
    BY <2>1, <2>2, <2>3
<1>8. /\ authors'[q] = w /\ authors'[old] = lo
      /\ \A p \in Pub \ {q, old} : authors'[p] = authors[p]
      /\ authors' \in ListTable
  <2> HIDE DEF w, s1, t
  <2> QED
    BY <1>1, <1>3, <1>5, <1>7 DEF ListTable
<1>9. /\ a0 \in AuthorTable /\ a0[r] = new /\ new # NoRow
      /\ \A x \in Row \ {r} : a0[x] = author[x]
  BY <1>1, Absences DEF AuthorTable
<1>10. /\ lo \in Seq(Row) /\ Distinct(lo)
       /\ Listed(lo) = IF q = old THEN Of(q) \cup {r} ELSE Of(old) \ {r}
  BY <1>3, <1>5
<1>11. author' = Renumber(a1, w)
  BY <1>7, <1>8
<1> HIDE DEF s1, t, w, a0, lo, a1
<1>12. \A x \in Listed(lo) : a0[x] # NoRow
  BY <1>9, <1>10
<1>13. /\ a1 \in AuthorTable /\ AlikeButOrder(a1, a0)
       /\ \A x \in Row \ Listed(lo) : a1[x] = a0[x]
       /\ \A x \in Listed(lo) : a1[x].order = IndexIn(lo, x) - 1
  BY <1>9, <1>10, <1>12, RenumberedRows DEF a1
<1>14. \A x \in Listed(w) : x \in Row /\ a1[x] # NoRow
  BY <1>5, <1>9, <1>13 DEF AlikeButOrder
<1>15. /\ author' \in AuthorTable /\ AlikeButOrder(author', a1)
       /\ \A x \in Row \ Listed(w) : author'[x] = a1[x]
       /\ \A x \in Listed(w) : author'[x].order = IndexIn(w, x) - 1
  BY <1>5, <1>11, <1>13, <1>14, RenumberedRows
<1>16. AlikeButOrder(author', a0)
  BY <1>13, <1>15 DEF AlikeButOrder
<1>17. /\ author'[r] # NoRow /\ author'[r].pub = q
       /\ \A x \in Row \ {r} : /\ author'[x] # NoRow <=> author[x] # NoRow
                               /\ author[x] # NoRow => author'[x].pub = author[x].pub
  BY <1>9, <1>16 DEF AlikeButOrder
<1>18. \A x \in Row : author'[x] # NoRow => authors'[author'[x].pub] # NoPub
  <2>1. w # NoPub /\ lo # NoPub
    BY <1>5, <1>10, Absences
  <2>2. \A p \in Pub : authors[p] # NoPub => authors'[p] # NoPub
    BY <1>8, <2>1
  <2>3. \A x \in Row : author[x] # NoRow => authors[author[x].pub] # NoPub
                                             /\ author[x].pub \in Pub
    BY <1>1 DEF ListsAgree, AuthorTable, AuthorRow
  <2> QED
    BY <1>1, <1>17, <2>2, <2>3
<1>19. ASSUME NEW p \in Pub, authors'[p] # NoPub
       PROVE  /\ Distinct(authors'[p])
              /\ Listed(authors'[p]) = {x \in Row : author'[x] # NoRow /\ author'[x].pub = p}
              /\ \A x \in Listed(authors'[p]) : author'[x].order = IndexIn(authors'[p], x) - 1
  <2>1. CASE p = q
    <3>1. Listed(w) = {x \in Row : author'[x] # NoRow /\ author'[x].pub = q}
      BY <1>5, <1>17
    <3> QED
      BY <1>5, <1>8, <1>15, <2>1, <3>1
  <2>2. CASE p # q /\ p = old
    <3>1. lo \in Seq(Row) /\ Distinct(lo) /\ Listed(lo) = Of(old) \ {r} /\ authors'[p] = lo
      BY <1>8, <1>10, <2>2
    <3>2. Listed(lo) = {x \in Row : author'[x] # NoRow /\ author'[x].pub = old}
      BY <1>17, <2>2, <3>1
    <3>3. \A x \in Listed(lo) : x \in Row \ Listed(w)
      BY <1>5, <2>2, <3>1
    <3> QED
      BY <1>13, <1>15, <2>2, <3>1, <3>2, <3>3
  <2>3. CASE p # q /\ p # old
    <3>1. authors'[p] = authors[p] /\ authors[p] # NoPub
      BY <1>8, <1>19, <2>3
    <3>2. /\ Distinct(authors[p]) /\ Listed(authors[p]) = Of(p)
          /\ \A x \in Listed(authors[p]) : author[x].order = IndexIn(authors[p], x) - 1
      BY <1>1, <3>1 DEF ListsAgree
    <3>3. r \notin Of(p)
      BY <2>3 DEF Live
    <3>4. \A x \in Of(p) : x \in Row \ Listed(w) /\ x \in Row \ Listed(lo) /\ x # r
      BY <1>5, <1>10, <2>3, <3>3
    <3>5. \A x \in Of(p) : author'[x] = author[x]
      BY <1>9, <1>13, <1>15, <3>4
    <3>6. Of(p) = {x \in Row : author'[x] # NoRow /\ author'[x].pub = p}
      BY <1>17, <2>3, <3>3
    <3> QED
      BY <3>1, <3>2, <3>5, <3>6
  <2> QED
    BY <2>1, <2>2, <2>3
<1>20. ListsAgree(authors', author')
  BY <1>18, <1>19 DEF ListsAgree
<1> QED
  BY <1>8, <1>15, <1>16, <1>20 DEF a0

RowsOf(p) == {x \in Live : author[x].pub = p}

\* The two assignments of a list edit, of a row's deletion, of a publication's deletion.
WritesList(p, slots, names, before) ==
  /\ authors' = [authors EXCEPT ![p] = slots]
  /\ author' = ListWritten(p, slots, names, before)

DeletesRow(r, p, list) ==
  /\ authors' = [authors EXCEPT ![p] = list]
  /\ author' = Renumber([author EXCEPT ![r] = NoRow], list)

WritesCredits(p, slots, names, before, credit) ==
  /\ authors' = [authors EXCEPT ![p] = slots]
  /\ author' = [x \in Row |->
       IF x \in Listed(slots)
       THEN [name |-> names[IndexIn(slots, x)], pub |-> p, order |-> IndexIn(slots, x) - 1,
             credit |-> credit[x]]
       ELSE IF x \in before THEN NoRow ELSE author[x]]

\* Writing p's list anew keeps the tables and their agreement, whatever rows of its own
\* it keeps and whomever it credits.
LEMMA WrittenCredits ==
  ASSUME TypeOK, MembershipConsistent,
         NEW p \in Pub, NEW names \in NameList, NEW slots, NEW before,
         before = RowsOf(p),
         slots \in [DOMAIN names -> FreshRow \cup before], Distinct(slots),
         NEW credit \in [Row -> Credit],
         WritesCredits(p, slots, names, before, credit)
  PROVE  /\ authors' \in ListTable
         /\ author' \in AuthorTable
         /\ ListsAgree(authors', author')
         /\ \A x \in Row : author[x] # NoRow /\ x \notin before \ Listed(slots)
                          => author'[x] # NoRow
<1> DEFINE Of(q) == {x \in Row : author[x] # NoRow /\ author[x].pub = q}
<1>1. authors \in ListTable /\ author \in AuthorTable /\ ListsAgree(authors, author)
  BY MembershipMeansAgreement DEF TypeOK, ListTable, AuthorTable
<1>2. PICK n \in Nat : names \in [1..n -> Name]
  BY Constants DEF NameList
<1>3. /\ DOMAIN slots = 1..n /\ DOMAIN names = 1..n
      /\ slots \in Seq(Row) /\ Listed(slots) \subseteq Row
      /\ Listed(slots) \subseteq FreshRow \cup before
  <2>1. slots \in [1..n -> Row]
    BY <1>2 DEF FreshRow, RowsOf, Live
  <2>2. slots \in Seq(Row)
    BY <1>2, <2>1
  <2> QED
    BY <1>2, <2>1, <2>2 DEF Listed
<1>4. /\ before \subseteq Row
      /\ \A x \in Row : x \in before <=> author[x] # NoRow /\ author[x].pub = p
  BY DEF RowsOf, Live
<1>5. ASSUME NEW x \in Listed(slots)
      PROVE  /\ author'[x] \in AuthorRow /\ author'[x] # NoRow
             /\ author'[x].pub = p /\ author'[x].order = IndexIn(slots, x) - 1
  <2> DEFINE row == [name |-> names[IndexIn(slots, x)], pub |-> p,
                     order |-> IndexIn(slots, x) - 1,
                     credit |-> credit[x]]
  <2>1. author'[x] = row
    BY <1>3 DEF WritesCredits
  <2>2. IndexIn(slots, x) \in 1..n
    BY <1>3, IndexOfListed
  <2>3. names[IndexIn(slots, x)] \in Name /\ IndexIn(slots, x) - 1 \in Nat
    BY <1>2, <2>2
  <2>4. row \in AuthorRow
    BY <1>3, <2>3 DEF AuthorRow
  <2> QED
    BY <2>1, <2>4, Absences
<1>6. ASSUME NEW x \in Row, x \notin Listed(slots)
      PROVE  /\ x \in before => author'[x] = NoRow
             /\ x \notin before => author'[x] = author[x]
  BY <1>6 DEF WritesCredits
<1>7. author' \in AuthorTable
  <2>1. author' = [x \in Row |-> author'[x]]
    BY DEF WritesCredits
  <2>2. ASSUME NEW x \in Row
        PROVE  author'[x] \in AuthorRow \cup {NoRow}
    <3>1. CASE x \in Listed(slots)
      BY <3>1, <1>5
    <3>2. CASE x \notin Listed(slots)
      BY <3>2, <1>1, <1>6 DEF AuthorTable
    <3> QED
      BY <3>1, <3>2
  <2> QED
    BY <2>1, <2>2 DEF AuthorTable
<1>8. /\ authors' \in ListTable /\ authors'[p] = slots /\ slots # NoPub
      /\ \A q \in Pub \ {p} : authors'[q] = authors[q]
  BY <1>1, <1>3, Absences DEF ListTable, WritesCredits
<1>9. Listed(slots) = {x \in Row : author'[x] # NoRow /\ author'[x].pub = p}
  BY <1>3, <1>4, <1>5, <1>6
<1>10. \A x \in Row : author'[x] # NoRow => authors'[author'[x].pub] # NoPub
  BY <1>1, <1>5, <1>6, <1>8 DEF ListsAgree, AuthorTable, AuthorRow
<1>11. ASSUME NEW q \in Pub \ {p}, authors[q] # NoPub
       PROVE  /\ Distinct(authors[q])
              /\ Listed(authors[q]) = {x \in Row : author'[x] # NoRow /\ author'[x].pub = q}
              /\ \A x \in Listed(authors[q]) : author'[x].order = IndexIn(authors[q], x) - 1
  <2>1. /\ Distinct(authors[q]) /\ Listed(authors[q]) = Of(q)
        /\ \A x \in Listed(authors[q]) : author[x].order = IndexIn(authors[q], x) - 1
    BY <1>1, <1>11 DEF ListsAgree
  <2>2. \A x \in Of(q) : x \notin Listed(slots) /\ x \notin before
    BY <1>3, <1>4 DEF FreshRow, Live
  <2>3. \A x \in Of(q) : author'[x] = author[x]
    BY <1>6, <2>2
  <2>4. Of(q) = {x \in Row : author'[x] # NoRow /\ author'[x].pub = q}
    BY <1>5, <1>6, <2>3
  <2> QED
    BY <2>1, <2>3, <2>4
<1>12. ListsAgree(authors', author')
  <2>1. ASSUME NEW q \in Pub, authors'[q] # NoPub
        PROVE  /\ Distinct(authors'[q])
               /\ Listed(authors'[q]) = {x \in Row : author'[x] # NoRow /\ author'[x].pub = q}
               /\ \A x \in Listed(authors'[q]) :
                     author'[x].order = IndexIn(authors'[q], x) - 1
    <3>1. CASE q = p
      <4>1. \A x \in Listed(slots) : author'[x].order = IndexIn(slots, x) - 1
        BY <1>5
      <4> QED
        BY <3>1, <4>1, <1>8, <1>9
    <3>2. CASE q # p
      BY <2>1, <3>2, <1>8, <1>11
    <3> QED
      BY <3>1, <3>2
  <2> QED
    BY <2>1, <1>10 DEF ListsAgree
<1>13. \A x \in Row : author[x] # NoRow /\ x \notin before \ Listed(slots)
                      => author'[x] # NoRow
  BY <1>5, <1>6
<1> QED
  BY <1>7, <1>8, <1>12, <1>13

\* A new list of names keeps the credit of every row it keeps.
LEMMA WrittenList ==
  ASSUME TypeOK, MembershipConsistent,
         NEW p \in Pub, NEW names \in NameList, NEW slots, NEW before,
         before = RowsOf(p),
         slots \in [DOMAIN names -> FreshRow \cup before], Distinct(slots),
         WritesList(p, slots, names, before)
  PROVE  /\ authors' \in ListTable
         /\ author' \in AuthorTable
         /\ ListsAgree(authors', author')
         /\ \A x \in Row : author[x] # NoRow /\ x \notin before \ Listed(slots)
                          => author'[x] # NoRow
<1> DEFINE credit == [x \in Row |-> IF x \in before THEN author[x].credit ELSE Null]
<1>1. credit \in [Row -> Credit]
  <2>1. \A x \in before : author[x].credit \in Credit
    BY DEF RowsOf, Live, TypeOK, AuthorRow
  <2> QED
    BY <2>1, Constants DEF Credit
<1>2. WritesCredits(p, slots, names, before, credit)
  <2>1. \A x \in Row : credit[x] = IF x \in before THEN author[x].credit ELSE Null
    OBVIOUS
  <2> HIDE DEF credit
  <2> QED
    BY <2>1 DEF WritesCredits, WritesList, ListWritten
<1> HIDE DEF credit
<1> QED
  BY <1>1, <1>2, WrittenCredits

\* Deleting one row, or all the rows of a publication.
LEMMA DeletedRow ==
  ASSUME TypeOK, MembershipConsistent, NEW r \in Live,
         NEW p, p = author[r].pub, NEW list, list = Without(authors[p], r),
         DeletesRow(r, p, list)
  PROVE  /\ authors' \in ListTable
         /\ author' \in AuthorTable
         /\ ListsAgree(authors', author')
         /\ AlikeButOrder(author', [author EXCEPT ![r] = NoRow])
<1> DEFINE a0 == [author EXCEPT ![r] = NoRow]
           Of(q) == {x \in Row : author[x] # NoRow /\ author[x].pub = q}
<1>1. /\ authors \in ListTable /\ author \in AuthorTable /\ ListsAgree(authors, author)
      /\ r \in Row /\ author[r] # NoRow
      /\ p \in Pub /\ authors[p] # NoPub /\ authors[p] \in Seq(Row)
  BY MembershipMeansAgreement
  DEF TypeOK, MembershipConsistent, LivePub, Live, ListTable, AuthorTable
<1>2. /\ list \in Seq(Row) /\ Distinct(list) /\ Listed(list) = Of(p) \ {r}
  BY <1>1, WithoutRow DEF ListsAgree
<1>3. /\ a0 \in AuthorTable /\ a0[r] = NoRow
      /\ \A x \in Row \ {r} : a0[x] = author[x]
  BY <1>1 DEF AuthorTable
<1> HIDE DEF a0
<1>4. /\ author' \in AuthorTable /\ AlikeButOrder(author', a0)
      /\ \A x \in Row \ Listed(list) : author'[x] = a0[x]
      /\ \A x \in Listed(list) : author'[x].order = IndexIn(list, x) - 1
  <2>1. \A x \in Listed(list) : a0[x] # NoRow
    BY <1>2, <1>3
  <2>2. author' = Renumber(a0, list)
    BY DEF a0, DeletesRow
  <2> QED
    BY <1>2, <1>3, <2>1, <2>2, RenumberedRows
<1>5. /\ authors' \in ListTable /\ authors'[p] = list /\ list # NoPub
      /\ \A q \in Pub \ {p} : authors'[q] = authors[q]
  BY <1>1, <1>2, Absences DEF ListTable, DeletesRow
<1>6. /\ author'[r] = NoRow
      /\ \A x \in Row \ {r} : /\ author'[x] # NoRow <=> author[x] # NoRow
                              /\ author[x] # NoRow => author'[x].pub = author[x].pub
  BY <1>1, <1>3, <1>4 DEF AlikeButOrder
<1>7. \A x \in Row : author'[x] # NoRow => authors'[author'[x].pub] # NoPub
  BY <1>1, <1>5, <1>6 DEF ListsAgree, AuthorTable, AuthorRow
<1>8. ASSUME NEW q \in Pub, authors'[q] # NoPub
      PROVE  /\ Distinct(authors'[q])
             /\ Listed(authors'[q]) = {x \in Row : author'[x] # NoRow /\ author'[x].pub = q}
             /\ \A x \in Listed(authors'[q]) : author'[x].order = IndexIn(authors'[q], x) - 1
  <2>1. CASE q = p
    <3>1. Listed(list) = {x \in Row : author'[x] # NoRow /\ author'[x].pub = p}
      BY <1>2, <1>6
    <3> QED
      BY <1>2, <1>4, <1>5, <2>1, <3>1
  <2>2. CASE q # p
    <3>1. /\ authors'[q] = authors[q]
          /\ Distinct(authors[q]) /\ Listed(authors[q]) = Of(q)
          /\ \A x \in Listed(authors[q]) : author[x].order = IndexIn(authors[q], x) - 1
      BY <1>1, <1>5, <1>8, <2>2 DEF ListsAgree
    <3>2. \A x \in Of(q) : x # r /\ x \notin Listed(list)
      BY <1>2, <2>2
    <3>3. \A x \in Of(q) : author'[x] = author[x]
      BY <1>3, <1>4, <3>2
    <3>4. Of(q) = {x \in Row : author'[x] # NoRow /\ author'[x].pub = q}
      BY <1>6, <2>2, <3>2
    <3> QED
      BY <3>1, <3>3, <3>4
  <2> QED
    BY <2>1, <2>2
<1>9. ListsAgree(authors', author')
  BY <1>7, <1>8 DEF ListsAgree
<1> QED
  BY <1>4, <1>5, <1>9 DEF a0

LEMMA DeletedRows ==
  ASSUME TypeOK, MembershipConsistent, NEW p \in LivePub,
         authors' = [authors EXCEPT ![p] = NoPub],
         author' = [r \in Row |-> IF r \in Live /\ author[r].pub = p THEN NoRow ELSE author[r]]
  PROVE  /\ authors' \in ListTable
         /\ author' \in AuthorTable
         /\ ListsAgree(authors', author')
<1>1. authors \in ListTable /\ author \in AuthorTable /\ ListsAgree(authors, author)
  BY MembershipMeansAgreement DEF TypeOK, ListTable, AuthorTable
<1>2. /\ authors' \in ListTable /\ authors'[p] = NoPub
      /\ \A q \in Pub \ {p} : authors'[q] = authors[q]
  BY <1>1 DEF ListTable, LivePub
<1>3. author' \in AuthorTable
  BY <1>1 DEF AuthorTable
<1>4. \A x \in Row : IF author[x] # NoRow /\ author[x].pub = p THEN author'[x] = NoRow
                     ELSE author'[x] = author[x]
  BY DEF Live
<1>5. \A q \in Pub \ {p} : {x \in Row : author[x] # NoRow /\ author[x].pub = q}
                           = {x \in Row : author'[x] # NoRow /\ author'[x].pub = q}
  BY <1>4
<1>6. \A q \in Pub \ {p} : authors'[q] # NoPub =>
        /\ Distinct(authors'[q])
        /\ Listed(authors'[q]) = {x \in Row : author'[x] # NoRow /\ author'[x].pub = q}
        /\ \A x \in Listed(authors'[q]) : author'[x].order = IndexIn(authors'[q], x) - 1
  BY <1>1, <1>2, <1>4, <1>5 DEF ListsAgree
<1>7. \A x \in Row : author'[x] # NoRow => authors'[author'[x].pub] # NoPub
  BY <1>1, <1>2, <1>4 DEF ListsAgree, AuthorTable, AuthorRow
<1>8. ListsAgree(authors', author')
  BY <1>2, <1>6, <1>7 DEF ListsAgree
<1> QED
  BY <1>2, <1>3, <1>8

-----------------------------------------------------------------------------
(* Type correctness and membership: one lemma for each kind of step *)

\* Every claim's row exists (the foreign key and its cascade).
ClaimsHaveRows(cl, au) == \A k \in Row \X Person : cl[k] # NoClaim => au[k[1]] # NoRow

\* What TypeOK needs to be inductive: an edit numbers the rows a list names, and the
\* queue shows the row of a claim, so those rows have to exist.
ListInv == TypeOK /\ MembershipConsistent /\ ClaimsHaveRows(claim, author)

\* What the requests and the scorer keep of a row they read.
RequestsTyped ==
  /\ recorded \subseteq Snapshot
  /\ edit \in [Edit -> [row : Row, pub : Pub] \cup {Idle}]
  /\ queue \in [Queue -> HalfPage \cup FullPage \cup {Idle}]
  /\ scorer \in [Scorer -> ScorerState]

LEMMA TypeByParts ==
  TypeOK <=> /\ authors \in ListTable /\ author \in AuthorTable /\ claim \in ClaimTable
             /\ RequestsTyped
BY DEF TypeOK, ListTable, AuthorTable, ClaimTable, RequestsTyped

\* The invariant after a step, from what the step leaves in the tables.
LEMMA InvAfter ==
  ASSUME authors' \in ListTable, author' \in AuthorTable, ListsAgree(authors', author'),
         claim' \in ClaimTable, ClaimsHaveRows(claim', author'), RequestsTyped'
  PROVE  ListInv'
BY AgreementAfter, TypeByParts DEF ListInv, TypeOK, ListTable, AuthorTable, ClaimTable,
   RequestsTyped

LEMMA InvSteady ==
  ASSUME ListInv, UNCHANGED <<authors, author>>, claim' \in ClaimTable,
         ClaimsHaveRows(claim', author), RequestsTyped'
  PROVE  ListInv'
BY DEF ListInv, TypeOK, MembershipConsistent, Live, LivePub, ClaimTable, ClaimsHaveRows,
   RequestsTyped

LEMMA LiveRow ==
  ASSUME ListInv, NEW r \in Live
  PROVE  /\ r \in Row /\ author[r] \in AuthorRow
         /\ author[r].name \in Name /\ author[r].pub \in LivePub /\ author[r].credit \in Credit
         /\ BasisOf(r) \in Basis
BY DEF ListInv, TypeOK, MembershipConsistent, Live, LivePub, AuthorRow, BasisOf, Basis

LEMMA LiveList ==
  ASSUME ListInv, NEW p \in LivePub
  PROVE  /\ authors[p] \in Seq(Row) /\ Distinct(authors[p])
         /\ Listed(authors[p]) = RowsOf(p)
<1>1. ListsAgree(authors, author)
  BY MembershipMeansAgreement DEF ListInv
<1>2. authors[p] \in Seq(Row)
  BY DEF ListInv, TypeOK, LivePub
<1> QED
  BY <1>1, <1>2 DEF ListsAgree, LivePub, Live, RowsOf

LEMMA CreateKeepsInv ==
  ASSUME ListInv, NEW p \in Pub, NEW names \in NameList, CreatePublication(p, names)
  PROVE  ListInv'
<1>1. PICK slots \in [DOMAIN names -> FreshRow] :
        FillsSlots(slots, <<>>, {}) /\ WritesList(p, slots, names, {})
  BY DEF CreatePublication, WritesList
<1>2. RowsOf(p) = {} /\ p \notin LivePub
  BY DEF CreatePublication, RowsOf, ListInv, MembershipConsistent
<1>3. slots \in [DOMAIN names -> FreshRow \cup {}] /\ Distinct(slots)
  BY <1>1 DEF FillsSlots, Distinct
<1>4. /\ authors' \in ListTable /\ author' \in AuthorTable /\ ListsAgree(authors', author')
      /\ \A x \in Row : author[x] # NoRow => author'[x] # NoRow
  BY <1>1, <1>2, <1>3, WrittenList DEF ListInv
<1>5. claim' \in ClaimTable /\ RequestsTyped'
  BY DEF CreatePublication, ListInv, TypeOK, ClaimTable, RequestsTyped
<1>6. ClaimsHaveRows(claim', author')
  BY <1>4 DEF ClaimsHaveRows, ListInv, CreatePublication
<1> QED
  BY <1>4, <1>5, <1>6, InvAfter

LEMMA UpdateKeepsInv ==
  ASSUME ListInv, NEW p \in Pub, NEW names \in NameList, UpdatePublication(p, names)
  PROVE  ListInv'
<1> DEFINE before == authors[p]
           reused == Reused(names, before)
           kept   == ExactMatch(names, before) \cup reused
<1>1. p \in LivePub
  BY DEF UpdatePublication
<1>2. PICK slots \in [DOMAIN names -> FreshRow \cup Listed(before)] :
        /\ FillsSlots(slots, before, kept)
        /\ WritesList(p, slots, names, Listed(before))
        /\ claim' = Cascade(Withdraw(claim, {before[m[2]] : m \in reused}, {}),
                            Listed(before) \ Listed(slots))
  BY DEF UpdatePublication, WritesList
<1>3. Distinct(slots)
  BY <1>2 DEF FillsSlots, Distinct
<1>4. Listed(before) = RowsOf(p)
  BY <1>1, LiveList
<1>5. /\ authors' \in ListTable /\ author' \in AuthorTable /\ ListsAgree(authors', author')
      /\ \A x \in Row : author[x] # NoRow /\ x \notin Listed(before) \ Listed(slots)
                       => author'[x] # NoRow
  <2> HIDE DEF before
  <2> QED
    BY <1>2, <1>3, <1>4, WrittenList DEF ListInv
<1>6. /\ claim' \in ClaimTable
      /\ \A k \in Row \X Person : claim'[k] # NoClaim =>
           claim[k] # NoClaim /\ k[1] \notin Listed(before) \ Listed(slots)
  <2>1. claim \in ClaimTable
    BY DEF ListInv, TypeOK, ClaimTable
  <2> DEFINE left == Withdraw(claim, {before[m[2]] : m \in reused}, {})
  <2>2. /\ left \in ClaimTable
        /\ \A k \in Row \X Person : left[k] # NoClaim => claim[k] # NoClaim
    BY <2>1, WithdrawnTable
  <2>3. claim' = Cascade(left, Listed(before) \ Listed(slots))
    BY <1>2
  <2> HIDE DEF left, before
  <2> QED
    BY <2>2, <2>3, CascadedTable
<1>7. RequestsTyped'
  BY DEF UpdatePublication, ListInv, TypeOK, RequestsTyped
<1> HIDE DEF before
<1>8. ClaimsHaveRows(claim', author')
  BY <1>5, <1>6 DEF ClaimsHaveRows, ListInv
<1> QED
  BY <1>5, <1>6, <1>7, <1>8, InvAfter

LEMMA DeleteKeepsInv ==
  ASSUME ListInv, NEW p \in Pub, DeletePublication(p)
  PROVE  ListInv'
<1> DEFINE rows == {r \in Live : author[r].pub = p}
<1>1. p \in LivePub
  BY DEF DeletePublication
<1>2. /\ authors' = [authors EXCEPT ![p] = NoPub]
      /\ author' = [r \in Row |-> IF r \in Live /\ author[r].pub = p THEN NoRow ELSE author[r]]
  BY DEF DeletePublication
<1>3. authors' \in ListTable /\ author' \in AuthorTable /\ ListsAgree(authors', author')
  BY <1>1, <1>2, DeletedRows DEF ListInv
<1>4. /\ claim' \in ClaimTable
      /\ \A k \in Row \X Person : claim'[k] # NoClaim => claim[k] # NoClaim /\ k[1] \notin rows
  <2>1. claim \in ClaimTable /\ claim' = Cascade(claim, rows)
    BY DEF DeletePublication, ListInv, TypeOK, ClaimTable
  <2> HIDE DEF rows
  <2> QED
    BY <2>1, CascadedTable
<1>5. RequestsTyped'
  <2>1. recorded' = {SnapshotOf(r) : r \in {x \in rows : HasHistory(x)}}
    BY DEF DeletePublication
  <2>2. recorded' \subseteq Snapshot
    BY <2>1, SnapshotTyped DEF ListInv
  <2> QED
    BY <2>2 DEF DeletePublication, ListInv, TypeOK, RequestsTyped
<1>6. ClaimsHaveRows(claim', author')
  BY <1>2, <1>4 DEF ClaimsHaveRows, ListInv, Live
<1> QED
  BY <1>3, <1>4, <1>5, <1>6, InvAfter

\* With its locks held, an edit works on a live row of the publication it names.
LEMMA RelockedRow ==
  ASSUME ListInv, NEW e \in Edit, Relocked(e)
  PROVE  /\ edit[e].row \in Live /\ edit[e].pub \in LivePub
         /\ author[edit[e].row].pub = edit[e].pub
BY DEF Relocked

LEMMA EditDoneTyped ==
  ASSUME ListInv, NEW e \in Edit, EditDone(e), recorded' \subseteq Snapshot,
         UNCHANGED <<queue, scorer>>
  PROVE  RequestsTyped'
BY DEF EditDone, ListInv, TypeOK, RequestsTyped

\* What a save leaves of the invariant, for either user of it.
LEMMA SaveKeepsInv ==
  ASSUME ListInv, NEW r \in Row, NEW new \in AuthorRow, NEW old \in LivePub,
         new.pub \in LivePub, NEW position \in 0..Room(r, new.pub),
         r \in Live => author[r].pub = old,
         r \notin Live => new.pub = old,
         SaveAuthor(r, new, old, position),
         claim' \in ClaimTable, RequestsTyped',
         \A k \in Row \X Person : claim'[k] # NoClaim => claim[k] # NoClaim \/ k[1] = r
  PROVE  ListInv'
<1>1. /\ authors' \in ListTable /\ author' \in AuthorTable /\ ListsAgree(authors', author')
      /\ AlikeButOrder(author', [author EXCEPT ![r] = new])
  BY SavedRow DEF ListInv
<1>2. \A x \in Row : author[x] # NoRow \/ x = r => author'[x] # NoRow
  BY <1>1, Absences DEF AlikeButOrder, ListInv, TypeOK
<1>3. ClaimsHaveRows(claim', author')
  BY <1>2 DEF ClaimsHaveRows, ListInv
<1> QED
  BY <1>1, <1>3, InvAfter

LEMMA AdminEditKeepsInv ==
  ASSUME ListInv, NEW e \in Edit, NEW name \in Name, NEW pub \in Pub, NEW credit \in Credit,
         AdminEdits(e, name, pub, credit)
  PROVE  ListInv'
<1> DEFINE r     == edit[e].row
           new   == [author[r] EXCEPT !.name = name, !.pub = pub, !.credit = credit]
           moved == IF Moves(r, name, pub) THEN Withdraw(claim, {r}, {}) ELSE claim
<1>1. Relocked(e) /\ pub \in LivePub /\ EditDone(e) /\ UNCHANGED <<queue, scorer>>
  BY DEF AdminEdits
<1>2. r \in Live /\ edit[e].pub \in LivePub /\ author[r].pub = edit[e].pub
  BY <1>1, RelockedRow
<1>3. r \in Row /\ new \in AuthorRow /\ new.pub = pub
  BY <1>2, LiveRow DEF AuthorRow
<1>4. PICK position \in 0..Room(r, pub) : SaveAuthor(r, new, edit[e].pub, position)
  BY DEF AdminEdits
<1>5. /\ claim' \in ClaimTable
      /\ \A k \in Row \X Person : claim'[k] # NoClaim => claim[k] # NoClaim \/ k[1] = r
  <2>1. PICK id \in ClaimId :
          claim' = IF ~Attributes(r, credit) THEN moved
                   ELSE Withdraw(IF credit \in Person
                                 THEN Record(moved, r, credit, "approved", "admin", id)
                                 ELSE moved, {r}, {})
    BY DEF AdminEdits
  <2>2. /\ moved \in ClaimTable
        /\ \A k \in Row \X Person : moved[k] # NoClaim => claim[k] # NoClaim
    <3>1. claim \in ClaimTable
      BY DEF ListInv, TypeOK, ClaimTable
    <3> QED
      BY <3>1, WithdrawnTable
  <2> DEFINE noted == IF credit \in Person
                      THEN Record(moved, r, credit, "approved", "admin", id) ELSE moved
  <2> HIDE DEF moved
  <2>3. /\ noted \in ClaimTable
        /\ \A k \in Row \X Person : noted[k] # NoClaim => claim[k] # NoClaim \/ k[1] = r
    <3>1. CASE credit \in Person
      <4> DEFINE record == Record(moved, r, credit, "approved", "admin", id)
      <4>1. /\ record \in ClaimTable
            /\ \A k \in Row \X Person :
                 record[k] # NoClaim => moved[k] # NoClaim \/ k = <<r, credit>>
        BY <1>3, <2>2, <3>1, RecordedTable DEF Status
      <4>2. noted = record
        BY <3>1
      <4> HIDE DEF record, noted
      <4> QED
        BY <2>2, <4>1, <4>2
    <3>2. CASE credit \notin Person
      BY <2>2, <3>2
    <3> QED
      BY <3>1, <3>2
  <2>4. claim' = IF ~Attributes(r, credit) THEN moved ELSE Withdraw(noted, {r}, {})
    BY <2>1
  <2> HIDE DEF noted
  <2>5. /\ Withdraw(noted, {r}, {}) \in ClaimTable
        /\ \A k \in Row \X Person :
             Withdraw(noted, {r}, {})[k] # NoClaim => noted[k] # NoClaim
    BY <2>3, WithdrawnTable
  <2> QED
    BY <2>2, <2>3, <2>4, <2>5
<1>6. recorded' \subseteq Snapshot
  <2>1. recorded' = IF Corrects(r, name, pub, credit) THEN {SnapshotOf(r)} ELSE {}
    BY DEF AdminEdits
  <2> QED
    BY <1>2, <2>1, SnapshotTyped DEF ListInv
<1>7. RequestsTyped'
  BY <1>1, <1>6, EditDoneTyped
<1> HIDE DEF r, new, moved
<1> QED
  BY <1>1, <1>2, <1>3, <1>4, <1>5, <1>7, SaveKeepsInv

\* A self-claim keeps the row where it is.
LEMMA SelfClaimSaves ==
  ASSUME ListInv, NEW e \in Edit, NEW u \in Person, SelfClaims(e, u),
         NEW r, r = edit[e].row
  PROVE  /\ r \in Live /\ r \in Row /\ author[r].pub \in LivePub
         /\ author[r].pub = edit[e].pub
         /\ [author[r] EXCEPT !.credit = u] \in AuthorRow
         /\ [author[r] EXCEPT !.credit = u].pub = author[r].pub
         /\ \E position \in 0..Room(r, author[r].pub) :
              SaveAuthor(r, [author[r] EXCEPT !.credit = u], edit[e].pub, position)
<1> DEFINE list == authors[author[r].pub]
           position == IF r \in Listed(list) THEN IndexIn(list, r) - 1 ELSE Len(list)
<1>1. r \in Live /\ author[r].pub = edit[e].pub
  BY RelockedRow DEF SelfClaims
<1>2. /\ r \in Row /\ author[r].pub \in LivePub
      /\ [author[r] EXCEPT !.credit = u] \in AuthorRow
      /\ [author[r] EXCEPT !.credit = u].pub = author[r].pub
  BY <1>1, LiveRow DEF AuthorRow, Credit
<1>3. SaveAuthor(r, [author[r] EXCEPT !.credit = u], edit[e].pub, position)
  BY DEF SelfClaims
<1>4. list \in Seq(Row) /\ Distinct(list) /\ r \in Listed(list)
  BY <1>1, <1>2, LiveList DEF RowsOf
<1> HIDE DEF list
<1>5. Room(r, author[r].pub) = Len(list) - 1
  <2>1. Len(Without(list, r)) = Len(list) - 1
    BY <1>2, <1>4, WithoutRow
  <2> QED
    BY <2>1 DEF Room, list
<1>6. position \in 0..Room(r, author[r].pub)
  <2>1. position = IndexIn(list, r) - 1
    BY <1>4
  <2>2. IndexIn(list, r) \in 1..Len(list) /\ Len(list) \in Nat
    BY <1>4, IndexOfListed, LenProperties
  <2> HIDE DEF position
  <2> QED
    BY <1>5, <2>1, <2>2
<1> QED
  BY <1>1, <1>2, <1>3, <1>6

LEMMA SelfClaimKeepsInv ==
  ASSUME ListInv, NEW e \in Edit, NEW u \in Person, SelfClaims(e, u)
  PROVE  ListInv'
<1> DEFINE r   == edit[e].row
           new == [author[r] EXCEPT !.credit = u]
<1>1. /\ r \in Live /\ r \in Row /\ author[r].pub \in LivePub
      /\ author[r].pub = edit[e].pub /\ new \in AuthorRow /\ new.pub = author[r].pub
  BY SelfClaimSaves
<1>2. PICK position \in 0..Room(r, author[r].pub) : SaveAuthor(r, new, edit[e].pub, position)
  BY SelfClaimSaves
<1>3. /\ claim' \in ClaimTable
      /\ \A k \in Row \X Person : claim'[k] # NoClaim => claim[k] # NoClaim \/ k[1] = r
  <2>1. PICK id \in ClaimId :
          claim' = Withdraw(Record(claim, r, u, "self_asserted", "self", id), {r}, {u})
    BY DEF SelfClaims
  <2> DEFINE noted == Record(claim, r, u, "self_asserted", "self", id)
  <2>2. /\ noted \in ClaimTable
        /\ \A k \in Row \X Person : noted[k] # NoClaim => claim[k] # NoClaim \/ k = <<r, u>>
    <3>1. claim \in ClaimTable /\ "self_asserted" \in Status
      BY DEF ListInv, TypeOK, ClaimTable, Status
    <3> QED
      BY <1>1, <3>1, RecordedTable
  <2>3. claim' = Withdraw(noted, {r}, {u})
    BY <2>1
  <2> HIDE DEF noted
  <2> QED
    BY <2>2, <2>3, WithdrawnTable
<1>4. recorded' \subseteq Snapshot
  <2>1. recorded' = IF Corrects(r, author[r].name, author[r].pub, u)
                    THEN {SnapshotOf(r)} ELSE {}
    BY DEF SelfClaims
  <2> QED
    BY <1>1, <2>1, SnapshotTyped DEF ListInv
<1>5. RequestsTyped'
  BY <1>4, EditDoneTyped DEF SelfClaims
<1> HIDE DEF r, new
<1> QED
  BY <1>1, <1>2, <1>3, <1>5, SaveKeepsInv

LEMMA AdminDeleteKeepsInv ==
  ASSUME ListInv, NEW e \in Edit, AdminDeletes(e)
  PROVE  ListInv'
<1> DEFINE r == edit[e].row
           p == author[r].pub
           list == Without(authors[p], r)
<1>1. r \in Live /\ p = edit[e].pub
  BY RelockedRow DEF AdminDeletes
<1>2. DeletesRow(r, p, list)
  BY <1>1 DEF AdminDeletes, DeletesRow
<1>3. /\ authors' \in ListTable /\ author' \in AuthorTable /\ ListsAgree(authors', author')
      /\ AlikeButOrder(author', [author EXCEPT ![r] = NoRow])
  <2> HIDE DEF r, p, list
  <2>1. p = author[r].pub /\ list = Without(authors[p], r)
    BY DEF p, list
  <2> QED
    BY <1>1, <1>2, <2>1, DeletedRow DEF ListInv
<1>4. /\ claim' \in ClaimTable
      /\ \A k \in Row \X Person : claim'[k] # NoClaim => claim[k] # NoClaim /\ k[1] # r
  <2>1. claim' = Cascade(claim, {r}) /\ claim \in ClaimTable
    BY DEF AdminDeletes, ListInv, TypeOK, ClaimTable
  <2> HIDE DEF r
  <2> QED
    BY <2>1, CascadedTable
<1>5. recorded' \subseteq Snapshot
  BY <1>1, SnapshotTyped DEF AdminDeletes, ListInv
<1>6. RequestsTyped'
  BY <1>5, EditDoneTyped DEF AdminDeletes
<1>7. ClaimsHaveRows(claim', author')
  <2> HIDE DEF r
  <2>1. \A x \in Row : author[x] # NoRow /\ x # r => author'[x] # NoRow
    BY <1>3 DEF AlikeButOrder, ListInv, TypeOK
  <2> QED
    BY <1>4, <2>1 DEF ClaimsHaveRows, ListInv
<1> QED
  BY <1>3, <1>4, <1>6, <1>7, InvAfter

LEMMA AdminCreateKeepsInv ==
  ASSUME ListInv, NEW r \in Row, NEW name \in Name, NEW pub \in Pub, NEW credit \in Credit,
         AdminCreates(r, name, pub, credit)
  PROVE  ListInv'
<1> DEFINE new == [name |-> name, pub |-> pub, credit |-> credit, order |-> 0]
<1>1. r \notin Live /\ pub \in LivePub /\ new \in AuthorRow /\ new.pub = pub
  BY DEF AdminCreates, FreshRow, AuthorRow
<1>2. PICK position \in 0..Room(r, pub) : SaveAuthor(r, new, pub, position)
  BY DEF AdminCreates
<1>3. /\ claim' \in ClaimTable
      /\ \A k \in Row \X Person : claim'[k] # NoClaim => claim[k] # NoClaim \/ k[1] = r
  <2>1. PICK id \in ClaimId :
          claim' = IF credit \in Person
                   THEN Record(claim, r, credit, "approved", "admin", id) ELSE claim
    BY DEF AdminCreates
  <2>2. claim \in ClaimTable
    BY DEF ListInv, TypeOK, ClaimTable
  <2>3. CASE credit \in Person
    <3> DEFINE noted == Record(claim, r, credit, "approved", "admin", id)
    <3>1. /\ noted \in ClaimTable
          /\ \A k \in Row \X Person :
               noted[k] # NoClaim => claim[k] # NoClaim \/ k = <<r, credit>>
      BY <2>2, <2>3, RecordedTable DEF Status
    <3>2. claim' = noted
      BY <2>1, <2>3
    <3> HIDE DEF noted
    <3> QED
      BY <3>1, <3>2
  <2>4. CASE credit \notin Person
    BY <2>1, <2>2, <2>4
  <2> QED
    BY <2>3, <2>4
<1>4. RequestsTyped'
  BY DEF AdminCreates, ListInv, TypeOK, RequestsTyped
<1> HIDE DEF new
<1> QED
  BY <1>1, <1>2, <1>3, <1>4, SaveKeepsInv

LEMMA ShownPage ==
  ASSUME TypeOK, NEW q \in Queue, Shown(q)
  PROVE  queue[q] \in FullPage /\ queue[q].row \in Row /\ queue[q].person \in Person
<1>1. queue[q] \in HalfPage \cup FullPage
  BY DEF TypeOK, Shown
<1> QED
  BY <1>1 DEF Shown, HalfPage, FullPage

LEMMA QueueKeepsInv ==
  ASSUME ListInv, NEW q \in Queue,
         \/ \E r \in Row : QueueReads(q, r)
         \/ \E u \in Person : QueueShows(q, u)
         \/ ApproveSuggestion(q)
         \/ RejectSuggestion(q)
         \/ QueueEnds(q)
  PROVE  ListInv'
<1> DEFINE x == queue[q].row
           v == queue[q].person
<1>1. CASE (\E r \in Row : QueueReads(q, r)) \/ (\E u \in Person : QueueShows(q, u))
  <2>1. claim' = claim /\ UNCHANGED <<authors, author, edit, scorer>> /\ recorded' = {}
    BY <1>1 DEF QueueReads, QueueShows
  <2>2. RequestsTyped'
    <3>1. ASSUME NEW r \in Row, QueueReads(q, r)
          PROVE  queue' \in [Queue -> HalfPage \cup FullPage \cup {Idle}]
      <4>1. BasisOf(r) \in Basis
        BY <3>1, LiveRow DEF QueueReads
      <4> HIDE DEF BasisOf
      <4> QED
        BY <3>1, <4>1 DEF QueueReads, HalfPage, ListInv, TypeOK
    <3>2. ASSUME NEW u \in Person, QueueShows(q, u)
          PROVE  queue' \in [Queue -> HalfPage \cup FullPage \cup {Idle}]
      <4>1. queue[q] \in HalfPage \cup FullPage
        BY <3>2 DEF QueueShows, ListInv, TypeOK
      <4>2. x \in Row /\ queue[q].seen \in Basis
        BY <4>1 DEF HalfPage, FullPage
      <4>3. claim[<<x, u>>] \in ClaimRow
        BY <3>2, <4>2 DEF QueueShows, Suggested, ListInv, TypeOK
      <4>4. claim[<<x, u>>].id \in ClaimId /\ claim[<<x, u>>].basis \in Basis \cup {Null}
        BY <4>3 DEF ClaimRow
      <4>5. [row |-> x, seen |-> queue[q].seen, person |-> u, id |-> claim[<<x, u>>].id,
             scored |-> claim[<<x, u>>].basis,
             torn |-> BasisOf(x) # queue[q].seen] \in FullPage
        BY <4>2, <4>4 DEF FullPage
      <4> QED
        BY <3>2, <4>5 DEF QueueShows, ListInv, TypeOK
    <3> QED
      BY <1>1, <2>1, <3>1, <3>2 DEF ListInv, TypeOK, RequestsTyped
  <2>3. claim' \in ClaimTable /\ ClaimsHaveRows(claim', author)
    BY <2>1 DEF ListInv, TypeOK, ClaimTable, ClaimsHaveRows
  <2> QED
    BY <2>1, <2>2, <2>3, InvSteady
<1>2. ASSUME Decidable(q)
      PROVE  /\ x \in Live /\ x \in Row /\ v \in Person
             /\ claim[<<x, v>>] # NoClaim /\ claim[<<x, v>>].status = "suggested"
  <2>1. Shown(q) /\ x \in Live /\ Suggested(<<x, v>>)
    BY <1>2 DEF Decidable
  <2> HIDE DEF x, v
  <2>2. x \in Row /\ v \in Person
    BY <2>1, ShownPage DEF ListInv, x, v
  <2> QED
    BY <2>1, <2>2 DEF Suggested
<1>3. CASE ApproveSuggestion(q)
  <2>1. /\ Decidable(q)
        /\ author' = [author EXCEPT ![x].credit = v]
        /\ claim' = Withdraw(Decide(claim, x, v, "approved"), {x}, {v})
        /\ authors' = authors
    BY <1>3 DEF ApproveSuggestion
  <2>2. /\ claim' \in ClaimTable
        /\ \A k \in Row \X Person : claim'[k] # NoClaim => claim[k] # NoClaim
    <3> DEFINE decided == Decide(claim, x, v, "approved")
    <3>0. claim \in ClaimTable /\ "approved" \in Status
      BY DEF ListInv, TypeOK, ClaimTable, Status
    <3>1. /\ decided \in ClaimTable
          /\ \A k \in Row \X Person : decided[k] # NoClaim => claim[k] # NoClaim
      BY <1>2, <2>1, <3>0, DecidedTable
    <3>2. claim' = Withdraw(decided, {x}, {v})
      BY <2>1
    <3> HIDE DEF decided, x, v
    <3> QED
      BY <3>1, <3>2, WithdrawnTable
  <2>3. RequestsTyped'
    BY <1>3 DEF ApproveSuggestion, ListInv, TypeOK, RequestsTyped
  <2>4. author[x] \in AuthorRow /\ author \in AuthorTable /\ x \in Row /\ v \in Person
    BY <1>2, <2>1, LiveRow DEF ListInv, TypeOK, AuthorTable
  <2> HIDE DEF x, v
  <2>5. /\ author' \in AuthorTable
        /\ author'[x] # NoRow /\ author'[x].pub = author[x].pub
        /\ author'[x].order = author[x].order
        /\ \A y \in Row \ {x} : author'[y] = author[y]
    <3>1. author'[x] = [author[x] EXCEPT !.credit = v]
      BY <2>1, <2>4 DEF AuthorTable
    <3>2. author'[x] \in AuthorRow
      BY <2>4, <3>1 DEF AuthorRow, Credit
    <3>3. \A y \in Row \ {x} : author'[y] = author[y]
      BY <2>1, <2>4 DEF AuthorTable
    <3>4. author' \in AuthorTable
      BY <2>1, <2>4, <3>2 DEF AuthorTable
    <3>5. author'[x].pub = author[x].pub /\ author'[x].order = author[x].order
      BY <2>4, <3>1 DEF AuthorRow
    <3> QED
      BY <3>2, <3>3, <3>4, <3>5, Absences
  <2>6. authors' \in ListTable /\ ListsAgree(authors, author) /\ author[x] # NoRow
    BY <1>2, <2>1, MembershipMeansAgreement DEF ListInv, TypeOK, ListTable, Live, x, v
  <2>7. ListsAgree(authors', author')
    <3>1. \A p \in Pub : {y \in Row : author[y] # NoRow /\ author[y].pub = p}
                         = {y \in Row : author'[y] # NoRow /\ author'[y].pub = p}
      BY <2>5, <2>6
    <3>2. \A y \in Row : author[y] # NoRow => /\ author'[y].order = author[y].order
                                              /\ author'[y].pub = author[y].pub
      BY <2>5
    <3>3. \A y \in Row : author'[y] # NoRow => author[y] # NoRow
      BY <2>5, <2>6
    <3> QED
      BY <2>1, <2>6, <3>1, <3>2, <3>3 DEF ListsAgree
  <2>8. ClaimsHaveRows(claim', author')
    BY <2>2, <2>5 DEF ListInv, ClaimsHaveRows
  <2> QED
    BY <2>2, <2>3, <2>5, <2>6, <2>7, <2>8, InvAfter
<1>4. CASE RejectSuggestion(q)
  <2>1. Decidable(q) /\ claim' = Decide(claim, x, v, "rejected") /\ UNCHANGED <<authors, author>>
    BY <1>4 DEF RejectSuggestion
  <2>2. /\ claim' \in ClaimTable
        /\ \A k \in Row \X Person : claim'[k] # NoClaim => claim[k] # NoClaim
    <3> DEFINE decided == Decide(claim, x, v, "rejected")
    <3>0. claim \in ClaimTable /\ "rejected" \in Status
      BY DEF ListInv, TypeOK, ClaimTable, Status
    <3>1. /\ decided \in ClaimTable
          /\ \A k \in Row \X Person : decided[k] # NoClaim => claim[k] # NoClaim
      BY <1>2, <2>1, <3>0, DecidedTable
    <3>2. claim' = decided
      BY <2>1
    <3> HIDE DEF decided
    <3> QED
      BY <3>1, <3>2
  <2>3. RequestsTyped'
    BY <1>4 DEF RejectSuggestion, ListInv, TypeOK, RequestsTyped
  <2>4. ClaimsHaveRows(claim', author)
    BY <2>2 DEF ListInv, ClaimsHaveRows
  <2> QED
    BY <2>1, <2>2, <2>3, <2>4, InvSteady
<1>5. CASE QueueEnds(q)
  <2>1. /\ claim' \in ClaimTable /\ ClaimsHaveRows(claim', author)
        /\ UNCHANGED <<authors, author>> /\ RequestsTyped'
    BY <1>5 DEF QueueEnds, ListInv, TypeOK, ClaimTable, ClaimsHaveRows, RequestsTyped
  <2> QED
    BY <2>1, InvSteady
<1> QED
  BY <1>1, <1>3, <1>4, <1>5

LEMMA ScorerKeepsInv ==
  ASSUME ListInv, NEW s \in Scorer,
         \/ ScoreReadsAuthors(s)
         \/ \E ranked \in SUBSET (Row \X Person) : ScoreReadsClaims(s, ranked)
         \/ \E k \in Row \X Person : ScorePersists(s, k)
         \/ ScoreWithdraws(s)
         \/ ScoreDies(s)
  PROVE  ListInv'
<1>1. /\ claim \in ClaimTable /\ ClaimsHaveRows(claim, author)
      /\ scorer \in [Scorer -> ScorerState] /\ recorded' = {}
      /\ UNCHANGED <<authors, author, edit, queue>>
  BY DEF ListInv, TypeOK, ClaimTable, ScoreReadsAuthors, ScoreReadsClaims, ScorePersists,
     ScoreWithdraws, ScoreDies
<1>2. Resting \in ScorerState
  BY DEF Resting, ScorerState
<1>3. ASSUME scorer' \in [Scorer -> ScorerState] PROVE RequestsTyped'
  BY <1>1, <1>3 DEF ListInv, TypeOK, RequestsTyped
<1>4. CASE ScoreReadsAuthors(s)
  <2> DEFINE new == [phase |-> "authors", todo |-> {}, stale |-> {},
                     snap |-> [r \in Row |-> IF r \in Live /\ author[r].credit = Null
                                             THEN BasisOf(r) ELSE Null]]
  <2>1. new \in ScorerState
    BY LiveRow DEF ScorerState
  <2>2. scorer' = [scorer EXCEPT ![s] = new] /\ claim' = claim
    BY <1>4 DEF ScoreReadsAuthors
  <2> HIDE DEF new
  <2> QED
    BY <1>1, <1>3, <2>1, <2>2, InvSteady
<1>5. ASSUME NEW ranked \in SUBSET (Row \X Person), ScoreReadsClaims(s, ranked)
      PROVE  ListInv'
  <2> DEFINE new == [phase |-> "claims", snap |-> scorer[s].snap,
                     todo |-> {x \in ranked : StatusOf(x[1], x[2]) \notin Decided},
                     stale |-> {claim[x].id :
                                  x \in {y \in (Row \X Person) \ ranked : Suggested(y)}}]
  <2>1. \A x \in Row \X Person : Suggested(x) => claim[x].id \in ClaimId
    BY <1>1 DEF Suggested, ClaimTable, ClaimRow
  <2>2. new \in ScorerState
    BY <1>1, <2>1 DEF ScorerState
  <2>3. scorer' = [scorer EXCEPT ![s] = new] /\ claim' = claim
    BY <1>5 DEF ScoreReadsClaims
  <2> HIDE DEF new
  <2> QED
    BY <1>1, <1>3, <2>2, <2>3, InvSteady
<1>6. ASSUME NEW k \in Row \X Person, ScorePersists(s, k)
      PROVE  ListInv'
  <2>1. scorer' \in [Scorer -> ScorerState]
    <3>1. scorer[s] \in ScorerState
      BY <1>1
    <3>2. [scorer[s] EXCEPT !.todo = @ \ {k}] \in ScorerState
      BY <3>1 DEF ScorerState
    <3>3. scorer' = [scorer EXCEPT ![s].todo = @ \ {k}]
      BY <1>6 DEF ScorePersists
    <3> QED
      BY <1>1, <3>2, <3>3
  <2>2. claim' \in ClaimTable /\ ClaimsHaveRows(claim', author)
    <3>1. CASE Unchanged(s, k[1]) /\ StatusOf(k[1], k[2]) \notin Decided
      <4>1. PICK id \in ClaimId :
              claim' = [claim EXCEPT ![k] = [id |-> id, status |-> "suggested",
                                             source |-> "machine",
                                             basis |-> scorer[s].snap[k[1]]]]
        BY <1>6, <3>1 DEF ScorePersists
      <4>2. scorer[s].snap[k[1]] \in Basis
        BY <3>1, LiveRow DEF Unchanged
      <4>3. [id |-> id, status |-> "suggested", source |-> "machine",
             basis |-> scorer[s].snap[k[1]]] \in ClaimRow
        BY <4>2 DEF ClaimRow, Status
      <4>4. claim' \in ClaimTable /\ \A x \in Row \X Person : x # k => claim'[x] = claim[x]
        BY <1>1, <4>1, <4>3 DEF ClaimTable
      <4>5. author[k[1]] # NoRow
        BY <3>1 DEF Unchanged, Live
      <4> QED
        BY <1>1, <4>4, <4>5 DEF ClaimsHaveRows
    <3>2. CASE ~(Unchanged(s, k[1]) /\ StatusOf(k[1], k[2]) \notin Decided)
      BY <1>1, <1>6, <3>2 DEF ScorePersists
    <3> QED
      BY <3>1, <3>2
  <2> QED
    BY <1>1, <1>3, <2>1, <2>2, InvSteady
<1>7. CASE ScoreWithdraws(s)
  <2>1. claim' \in ClaimTable /\ ClaimsHaveRows(claim', author)
    BY <1>1, <1>7 DEF ScoreWithdraws, ClaimTable, ClaimsHaveRows
  <2>2. scorer' \in [Scorer -> ScorerState]
    BY <1>1, <1>2, <1>7 DEF ScoreWithdraws
  <2> QED
    BY <1>1, <1>3, <2>1, <2>2, InvSteady
<1>8. CASE ScoreDies(s)
  <2>1. scorer' \in [Scorer -> ScorerState] /\ claim' = claim
    BY <1>1, <1>2, <1>8 DEF ScoreDies
  <2> QED
    BY <1>1, <1>3, <2>1, InvSteady
<1> QED
  BY <1>4, <1>5, <1>6, <1>7, <1>8

LEMMA EditRequestKeepsInv ==
  ASSUME ListInv, NEW e \in Edit, NEW r \in Row, EditStarts(e, r) \/ EditEnds(e)
  PROVE  ListInv'
<1>1. /\ claim' \in ClaimTable /\ ClaimsHaveRows(claim', author)
      /\ UNCHANGED <<authors, author>>
  BY DEF EditStarts, EditEnds, ListInv, TypeOK, ClaimTable, ClaimsHaveRows
<1>2. CASE EditStarts(e, r)
  <2>1. author[r].pub \in Pub
    BY <1>2, LiveRow DEF EditStarts, LivePub
  <2>2. RequestsTyped'
    BY <1>2, <2>1 DEF EditStarts, ListInv, TypeOK, RequestsTyped
  <2> QED
    BY <1>1, <2>2, InvSteady
<1>3. CASE EditEnds(e)
  <2>1. RequestsTyped'
    BY <1>3 DEF EditEnds, EditDone, ListInv, TypeOK, RequestsTyped
  <2> QED
    BY <1>1, <2>1, InvSteady
<1> QED
  BY <1>2, <1>3

-----------------------------------------------------------------------------
(* The theorems *)

LEMMA InvInitially == Init => ListInv
<1> SUFFICES ASSUME Init PROVE ListInv
  OBVIOUS
<1>1. Resting \in ScorerState
  BY DEF Resting, ScorerState
<1>2. TypeOK
  BY <1>1 DEF Init, TypeOK
<1>3. MembershipConsistent
  BY DEF Init, MembershipConsistent, LivePub, Live
<1>4. ClaimsHaveRows(claim, author)
  BY DEF Init, ClaimsHaveRows
<1> QED
  BY <1>2, <1>3, <1>4 DEF ListInv

LEMMA InvKept == ListInv /\ [Next]_vars => ListInv'
<1> SUFFICES ASSUME ListInv, [Next]_vars PROVE ListInv'
  OBVIOUS
<1>1. ASSUME NEW p \in Pub, NEW names \in NameList,
             CreatePublication(p, names) \/ UpdatePublication(p, names)
      PROVE  ListInv'
  BY <1>1, CreateKeepsInv, UpdateKeepsInv
<1>2. ASSUME NEW p \in Pub, DeletePublication(p) PROVE ListInv'
  BY <1>2, DeleteKeepsInv
<1>3. ASSUME NEW e \in Edit, NEW r \in Row, EditStarts(e, r) PROVE ListInv'
  BY <1>3, EditRequestKeepsInv
<1>4. ASSUME NEW e \in Edit, EditEnds(e) PROVE ListInv'
  <2>1. edit[e].row \in Row
    BY <1>4 DEF EditEnds, ListInv, TypeOK
  <2> QED
    BY <1>4, <2>1, EditRequestKeepsInv
<1>5. ASSUME NEW e \in Edit, NEW name \in Name, NEW pub \in Pub, NEW credit \in Credit,
             AdminEdits(e, name, pub, credit)
      PROVE  ListInv'
  BY <1>5, AdminEditKeepsInv
<1>6. ASSUME NEW e \in Edit, NEW u \in Person, SelfClaims(e, u) PROVE ListInv'
  BY <1>6, SelfClaimKeepsInv
<1>7. ASSUME NEW e \in Edit, AdminDeletes(e) PROVE ListInv'
  BY <1>7, AdminDeleteKeepsInv
<1>8. ASSUME NEW r \in Row, NEW name \in Name, NEW pub \in Pub, NEW credit \in Credit,
             AdminCreates(r, name, pub, credit)
      PROVE  ListInv'
  BY <1>8, AdminCreateKeepsInv
<1>9. ASSUME NEW q \in Queue,
             \/ \E r \in Row : QueueReads(q, r)
             \/ \E u \in Person : QueueShows(q, u)
             \/ ApproveSuggestion(q)
             \/ RejectSuggestion(q)
             \/ QueueEnds(q)
      PROVE  ListInv'
  BY <1>9, QueueKeepsInv
<1>10. ASSUME NEW s \in Scorer,
              \/ ScoreReadsAuthors(s)
              \/ \E ranked \in SUBSET (Row \X Person) : ScoreReadsClaims(s, ranked)
              \/ \E k \in Row \X Person : ScorePersists(s, k)
              \/ ScoreWithdraws(s)
              \/ ScoreDies(s)
       PROVE  ListInv'
  BY <1>10, ScorerKeepsInv
<1>11. CASE UNCHANGED vars
  BY <1>11 DEF vars, ListInv, TypeOK, MembershipConsistent, ClaimsHaveRows, Live, LivePub
<1> QED
  BY <1>1, <1>2, <1>3, <1>4, <1>5, <1>6, <1>7, <1>8, <1>9, <1>10, <1>11
  DEF Next


\* Every variable keeps its type: in particular no edit numbers, and no queue page or
\* scoring run reads, a row that is not there.
THEOREM TypeCorrect == Spec => []TypeOK
<1>1. Spec => []ListInv
  BY InvInitially, InvKept, PTL DEF Spec
<1>2. ListInv => TypeOK
  BY DEF ListInv
<1> QED
  BY <1>1, <1>2, PTL

\* Publication.authors and the Author rows agree for ever, under concurrent list edits,
\* author edits, moves and deletions (_save_membership, _sync_authors).
THEOREM MembershipAlwaysConsistent == Spec => []MembershipConsistent
<1>1. Spec => []ListInv
  BY InvInitially, InvKept, PTL DEF Spec
<1>2. ListInv => MembershipConsistent
  BY DEF ListInv
<1> QED
  BY <1>1, <1>2, PTL

-----------------------------------------------------------------------------
(* One row and its claims *)

Standing(cl, k) == cl[k] # NoClaim /\ cl[k].status = "suggested"
Holds(cl, k)    == cl[k] # NoClaim /\ cl[k].status \in Crediting

\* A credited row has a crediting claim of that person and no suggestion, and a
\* suggestion was computed from the row as it is.
RowSound(au, cl, x) ==
  /\ au[x] # NoRow /\ au[x].credit \in Person =>
       /\ Holds(cl, <<x, au[x].credit>>)
       /\ \A u \in Person : ~Standing(cl, <<x, u>>)
  /\ \A u \in Person : Standing(cl, <<x, u>>) =>
       /\ au[x] # NoRow
       /\ cl[<<x, u>>].basis = [name |-> au[x].name, pub |-> au[x].pub]

LedgerSound(au, cl) == \A x \in Row : RowSound(au, cl, x)

LedgerInv == ListInv /\ LedgerSound(author, claim)

LEMMA SoundMeansProperties ==
  LedgerInv => AttributionAccounted /\ CreditSettlesQueue /\ SuggestionsDescribeRow
<1> SUFFICES ASSUME LedgerInv
             PROVE  AttributionAccounted /\ CreditSettlesQueue /\ SuggestionsDescribeRow
  OBVIOUS
<1>1. \A x \in Row : RowSound(author, claim, x)
  BY DEF LedgerInv, LedgerSound
<1>2. AttributionAccounted
  BY <1>1 DEF AttributionAccounted, RowSound, Holds, StatusOf, Live
<1>3. CreditSettlesQueue
  BY <1>1 DEF CreditSettlesQueue, RowSound, Standing, Suggested, Live
<1>4. ASSUME NEW k \in Row \X Person, Suggested(k)
      PROVE  k[1] \in Live /\ claim[k].basis = BasisOf(k[1])
  <2>1. PICK x \in Row, u \in Person : k = <<x, u>>
    OBVIOUS
  <2> QED
    BY <1>1, <1>4, <2>1 DEF RowSound, Standing, Suggested, BasisOf, Live
<1> QED
  BY <1>2, <1>3, <1>4 DEF SuggestionsDescribeRow

\* Three ways for a step to leave a row sound: the row and its credit stay, and of its
\* claims at most suggestions are withdrawn or decided against ...
LEMMA SoundIfKept ==
  ASSUME NEW x \in Row, RowSound(author, claim, x),
         author'[x] = NoRow <=> author[x] = NoRow,
         author[x] # NoRow =>
           /\ author'[x].name = author[x].name /\ author'[x].pub = author[x].pub
           /\ author'[x].credit \in Person \/ author[x].credit \in Person
              => author'[x].credit = author[x].credit,
         \A u \in Person : \/ claim'[<<x, u>>] = claim[<<x, u>>]
                           \/ Standing(claim, <<x, u>>) /\ ~Standing(claim', <<x, u>>)
  PROVE  RowSound(author', claim', x)
<1>1. ASSUME NEW u \in Person, Holds(claim, <<x, u>>) PROVE Holds(claim', <<x, u>>)
  BY <1>1 DEF Holds, Standing, Crediting
<1>2. ASSUME NEW u \in Person, Standing(claim', <<x, u>>)
      PROVE  Standing(claim, <<x, u>>) /\ claim'[<<x, u>>] = claim[<<x, u>>]
  BY <1>2 DEF Standing
<1> QED
  BY <1>1, <1>2 DEF RowSound

\* ... the row has no suggestion left and its credit, if any, has its claim ...
LEMMA SoundIfQuiet ==
  ASSUME NEW x \in Row, \A u \in Person : ~Standing(claim', <<x, u>>),
         author'[x] # NoRow /\ author'[x].credit \in Person
           => Holds(claim', <<x, author'[x].credit>>)
  PROVE  RowSound(author', claim', x)
BY DEF RowSound

\* ... or the row is gone with all its claims.
LEMMA SoundIfGone ==
  ASSUME NEW x \in Row, author'[x] = NoRow, \A u \in Person : claim'[<<x, u>>] = NoClaim
  PROVE  RowSound(author', claim', x)
BY DEF RowSound, Standing

-----------------------------------------------------------------------------
(* What the verbs of the ledger do, claim by claim *)

LEMMA WithdrawnClaims ==
  ASSUME NEW cl, NEW R, NEW keep, NEW x \in Row, NEW u \in Person
  PROVE  Withdraw(cl, R, keep)[<<x, u>>] =
           IF x \in R /\ u \notin keep /\ Standing(cl, <<x, u>>) THEN NoClaim ELSE cl[<<x, u>>]
<1> DEFINE k == <<x, u>>
<1>1. k \in Row \X Person /\ k[1] = x /\ k[2] = u
  OBVIOUS
<1> HIDE DEF k
<1>2. Withdraw(cl, R, keep)[k] =
        IF x \in R /\ u \notin keep /\ Standing(cl, k) THEN NoClaim ELSE cl[k]
  BY <1>1 DEF Withdraw, Standing
<1> QED
  BY <1>2 DEF k

LEMMA CascadedClaims ==
  ASSUME NEW cl, NEW R, NEW x \in Row, NEW u \in Person
  PROVE  Cascade(cl, R)[<<x, u>>] = IF x \in R THEN NoClaim ELSE cl[<<x, u>>]
BY DEF Cascade

LEMMA RecordedClaims ==
  ASSUME NEW cl \in ClaimTable, NEW r \in Row, NEW u \in Person, NEW id \in ClaimId,
         NEW status \in Crediting, NEW source \in {"machine", "self", "admin"}
  PROVE  /\ Holds(Record(cl, r, u, status, source, id), <<r, u>>)
         /\ \A k \in Row \X Person :
              k # <<r, u>> => Record(cl, r, u, status, source, id)[k] = cl[k]
<1> DEFINE new == [id |-> IF cl[<<r, u>>] = NoClaim THEN id ELSE cl[<<r, u>>].id,
                   status |-> status, source |-> source, basis |-> Null]
<1>1. cl[<<r, u>>] \in ClaimRow \cup {NoClaim}
  BY DEF ClaimTable
<1>2. new \in ClaimRow /\ new.status = status
  BY <1>1 DEF ClaimRow, Crediting, Status
<1>3. new # NoClaim
  BY <1>2, Absences
<1> HIDE DEF new
<1>4. CASE cl[<<r, u>>] # NoClaim /\ cl[<<r, u>>].status \in Crediting
  BY <1>4 DEF Record, Holds
<1>5. CASE ~(cl[<<r, u>>] # NoClaim /\ cl[<<r, u>>].status \in Crediting)
  <2>1. Record(cl, r, u, status, source, id) = [cl EXCEPT ![<<r, u>>] = new]
    BY <1>5 DEF Record, new
  <2>2. /\ [cl EXCEPT ![<<r, u>>] = new][<<r, u>>] = new
        /\ \A k \in Row \X Person : k # <<r, u>> => [cl EXCEPT ![<<r, u>>] = new][k] = cl[k]
    BY DEF ClaimTable
  <2> QED
    BY <1>2, <1>3, <2>1, <2>2 DEF Holds
<1> QED
  BY <1>4, <1>5

LEMMA DecidedClaims ==
  ASSUME NEW cl \in ClaimTable, NEW r \in Row, NEW u \in Person, NEW status \in Decided,
         cl[<<r, u>>] # NoClaim
  PROVE  /\ Decide(cl, r, u, status)[<<r, u>>] # NoClaim
         /\ Decide(cl, r, u, status)[<<r, u>>].status = status
         /\ \A k \in Row \X Person : k # <<r, u>> => Decide(cl, r, u, status)[k] = cl[k]
<1> DEFINE new == [id |-> cl[<<r, u>>].id, status |-> status,
                   source |-> cl[<<r, u>>].source, basis |-> Null]
<1>1. new \in ClaimRow /\ new.status = status
  BY DEF ClaimRow, ClaimTable, Decided
<1>2. new # NoClaim
  BY <1>1, Absences
<1> HIDE DEF new
<1>3. /\ [cl EXCEPT ![<<r, u>>] = new][<<r, u>>] = new
      /\ \A k \in Row \X Person : k # <<r, u>> => [cl EXCEPT ![<<r, u>>] = new][k] = cl[k]
  BY DEF ClaimTable
<1> QED
  BY <1>1, <1>2, <1>3 DEF Decide, new

-----------------------------------------------------------------------------
(* One lemma for each kind of step *)

LEMMA Tables ==
  ASSUME LedgerInv
  PROVE  /\ ListInv /\ authors \in ListTable /\ author \in AuthorTable /\ claim \in ClaimTable
         /\ \A x \in Row : RowSound(author, claim, x)
         /\ \A x \in Row, u \in Person : claim[<<x, u>>] # NoClaim => author[x] # NoRow
BY DEF LedgerInv, LedgerSound, ListInv, ClaimsHaveRows, TypeOK, ListTable, AuthorTable,
   ClaimTable

LEMMA SteadyKeepsLedger ==
  ASSUME LedgerInv, UNCHANGED <<author, claim>>
  PROVE  LedgerSound(author', claim')
BY DEF LedgerInv

LEMMA CreateKeepsLedger ==
  ASSUME LedgerInv, NEW p \in Pub, NEW names \in NameList, CreatePublication(p, names)
  PROVE  LedgerSound(author', claim')
<1>1. PICK slots \in [DOMAIN names -> FreshRow] : author' = ListWritten(p, slots, names, {})
  BY DEF CreatePublication
<1>2. claim' = claim
  BY DEF CreatePublication
<1>3. Listed(slots) \subseteq FreshRow
  BY DEF Listed
<1>4. ASSUME NEW x \in Row PROVE RowSound(author', claim', x)
  <2>1. CASE x \in Listed(slots)
    <3>1. author[x] = NoRow
      BY <1>3, <2>1 DEF FreshRow, Live
    <3>2. \A u \in Person : claim'[<<x, u>>] = NoClaim
      BY <1>2, <3>1, Tables
    <3>3. author'[x].credit = Null
      BY <1>1, <2>1 DEF ListWritten
    <3>4. Null \notin Person
      BY Constants
    <3> QED
      BY <3>2, <3>3, <3>4, SoundIfQuiet DEF Standing
  <2>2. CASE x \notin Listed(slots)
    <3>1. author'[x] = author[x]
      BY <1>1, <2>2 DEF ListWritten
    <3> QED
      BY <1>2, <3>1, SoundIfKept, Tables
  <2> QED
    BY <2>1, <2>2
<1> QED
  BY <1>4 DEF LedgerSound

\* A row the list keeps under its own name is paired exactly; any other kept row loses
\* its suggestions.
LEMMA UpdateKeepsLedger ==
  ASSUME LedgerInv, NEW p \in Pub, NEW names \in NameList, UpdatePublication(p, names)
  PROVE  LedgerSound(author', claim')
<1> DEFINE before == authors[p]
           reused == Reused(names, before)
           exact  == ExactMatch(names, before)
           kept   == exact \cup reused
           wiped  == {before[m[2]] : m \in reused}
<1>1. p \in LivePub
  BY DEF UpdatePublication
<1>2. PICK slots \in [DOMAIN names -> FreshRow \cup Listed(before)] :
        /\ FillsSlots(slots, before, kept)
        /\ WritesList(p, slots, names, Listed(before))
        /\ claim' = Cascade(Withdraw(claim, wiped, {}), Listed(before) \ Listed(slots))
  BY DEF UpdatePublication, WritesList
<1>3. Listed(before) = RowsOf(p)
  BY <1>1, LiveList, Tables
<1>4. ASSUME NEW x \in Row, NEW u \in Person
      PROVE  claim'[<<x, u>>] =
               IF x \in Listed(before) \ Listed(slots) THEN NoClaim
               ELSE IF x \in wiped /\ Standing(claim, <<x, u>>) THEN NoClaim
               ELSE claim[<<x, u>>]
  <2>1. Withdraw(claim, wiped, {})[<<x, u>>] =
          IF x \in wiped /\ Standing(claim, <<x, u>>) THEN NoClaim ELSE claim[<<x, u>>]
    BY WithdrawnClaims
  <2> HIDE DEF wiped, before
  <2> QED
    BY <1>2, <2>1, CascadedClaims
<1>5. ASSUME NEW x \in Row, x \notin Listed(slots)
      PROVE  author'[x] = IF x \in Listed(before) THEN NoRow ELSE author[x]
  BY <1>2, <1>5 DEF WritesList, ListWritten
<1>6. ASSUME NEW x \in Listed(slots), x \in Row
      PROVE  /\ author'[x].name = names[IndexIn(slots, x)] /\ author'[x].pub = p
             /\ author'[x].credit = IF x \in Listed(before) THEN author[x].credit ELSE Null
             /\ IndexIn(slots, x) \in DOMAIN names
             /\ slots[IndexIn(slots, x)] = x
  <2>1. author'[x] = [name |-> names[IndexIn(slots, x)], pub |-> p,
                      order |-> IndexIn(slots, x) - 1,
                      credit |-> IF x \in Listed(before) THEN author[x].credit ELSE Null]
    BY <1>2, <1>6 DEF WritesList, ListWritten
  <2>2. DOMAIN slots = DOMAIN names
    OBVIOUS
  <2> QED
    BY <2>1, <2>2, IndexOfListed
<1>7. ASSUME NEW x \in Row, x \in Listed(slots), x \in Listed(before)
      PROVE  x \in wiped \/ author'[x].name = author[x].name
  <2> DEFINE i == IndexIn(slots, x)
  <2>1. i \in DOMAIN slots /\ i \in DOMAIN names /\ slots[i] = x /\ author'[x].name = names[i]
    BY <1>6, <1>7
  <2>2. x \notin FreshRow
    BY <1>3, <1>7 DEF FreshRow, RowsOf
  <2> HIDE DEF i
  <2>3. PICK m \in kept : i = m[1]
    <3>1. \A j \in (DOMAIN slots) \ {m[1] : m \in kept} : slots[j] \in FreshRow
      BY <1>2 DEF FillsSlots
    <3> QED
      BY <2>1, <2>2, <3>1
  <2>4. x = before[m[2]]
    BY <1>2, <2>1, <2>3 DEF FillsSlots
  <2>5. CASE m \in reused
    BY <2>4, <2>5
  <2>6. CASE m \in exact
    <3>1. names[m[1]] = Bylines(before)[m[2]] /\ m[2] \in DOMAIN before
      BY <2>6 DEF ExactMatch
    <3>2. Bylines(before)[m[2]] = author[before[m[2]]].name
      BY <3>1 DEF Bylines
    <3> QED
      BY <2>1, <2>3, <2>4, <3>1, <3>2
  <2> QED
    BY <2>3, <2>5, <2>6
<1>8. wiped \subseteq Listed(before)
  BY DEF Reused, LeftOver, Listed
<1> HIDE DEF wiped, before
<1>9. ASSUME NEW x \in Row PROVE RowSound(author', claim', x)
  <2>1. CASE x \in Listed(before) \ Listed(slots)
    BY <2>1, <1>4, <1>5, SoundIfGone
  <2>2. CASE x \notin Listed(before) /\ x \notin Listed(slots)
    <3>1. author'[x] = author[x] /\ \A u \in Person : claim'[<<x, u>>] = claim[<<x, u>>]
      BY <2>2, <1>4, <1>5, <1>8
    <3> QED
      BY <3>1, SoundIfKept, Tables
  <2>3. CASE x \in Listed(slots) /\ x \notin Listed(before)
    <3>1. x \in FreshRow
      BY <2>3 DEF Listed
    <3>2. author[x] = NoRow
      BY <3>1 DEF FreshRow, Live
    <3>3. \A u \in Person : claim'[<<x, u>>] = NoClaim
      BY <2>3, <3>2, <1>4, <1>8, Tables
    <3>4. author'[x].credit = Null /\ Null \notin Person
      BY <2>3, <1>6, Constants
    <3> QED
      BY <3>3, <3>4, SoundIfQuiet DEF Standing
  <2>4. CASE x \in Listed(slots) /\ x \in Listed(before)
    <3>1. /\ author[x] # NoRow /\ author[x].pub = p
          /\ author'[x].pub = p /\ author'[x].credit = author[x].credit
      BY <2>4, <1>3, <1>6 DEF RowsOf, Live
    <3>2. \A u \in Person : claim'[<<x, u>>] =
            IF x \in wiped /\ Standing(claim, <<x, u>>) THEN NoClaim ELSE claim[<<x, u>>]
      BY <2>4, <1>4
    <3>3. CASE x \in wiped
      <4>1. \A u \in Person : ~Standing(claim', <<x, u>>)
        BY <3>2, <3>3 DEF Standing
      <4>2. \A u \in Person : Holds(claim, <<x, u>>) => Holds(claim', <<x, u>>)
        BY <3>2 DEF Holds, Standing, Crediting
      <4>3. author[x].credit \in Person => Holds(claim, <<x, author[x].credit>>)
        BY <3>1, Tables DEF RowSound
      <4> QED
        BY <3>1, <4>1, <4>2, <4>3, SoundIfQuiet
    <3>4. CASE x \notin wiped
      <4>1. author'[x].name = author[x].name
        BY <2>4, <3>4, <1>7
      <4>2. \A u \in Person : claim'[<<x, u>>] = claim[<<x, u>>]
        BY <3>2, <3>4
      <4>3. author'[x] # NoRow
        <5>1. Distinct(slots)
          BY <1>2 DEF FillsSlots, Distinct
        <5>2. TypeOK /\ MembershipConsistent
          BY Tables DEF ListInv
        <5> QED
          BY <2>4, <3>1, <1>2, <1>3, <5>1, <5>2, WrittenList
      <4> QED
        BY <3>1, <4>1, <4>2, <4>3, SoundIfKept, Tables
    <3> QED
      BY <3>3, <3>4
  <2> QED
    BY <2>1, <2>2, <2>3, <2>4
<1> QED
  BY <1>9 DEF LedgerSound

LEMMA DeleteKeepsLedger ==
  ASSUME LedgerInv, NEW p \in Pub, DeletePublication(p)
  PROVE  LedgerSound(author', claim')
<1> DEFINE rows == {r \in Live : author[r].pub = p}
<1>1. /\ author' = [r \in Row |-> IF r \in rows THEN NoRow ELSE author[r]]
      /\ claim' = Cascade(claim, rows)
  BY DEF DeletePublication
<1> HIDE DEF rows
<1>2. ASSUME NEW x \in Row, NEW u \in Person
      PROVE  claim'[<<x, u>>] = IF x \in rows THEN NoClaim ELSE claim[<<x, u>>]
  BY <1>1, CascadedClaims
<1>3. ASSUME NEW x \in Row PROVE RowSound(author', claim', x)
  <2>1. CASE x \in rows
    BY <1>1, <1>2, <2>1, SoundIfGone
  <2>2. CASE x \notin rows
    <3>1. author'[x] = author[x] /\ \A u \in Person : claim'[<<x, u>>] = claim[<<x, u>>]
      BY <1>1, <1>2, <2>2
    <3> QED
      BY <3>1, SoundIfKept, Tables
  <2> QED
    BY <2>1, <2>2
<1> QED
  BY <1>3 DEF LedgerSound

\* A save touches one row: every other row keeps its byline, publication and credit, and
\* if its claims are left alone it stays sound.
LEMMA OthersKept ==
  ASSUME LedgerInv, NEW r \in Row, NEW row, AlikeButOrder(author', [author EXCEPT ![r] = row]),
         NEW x \in Row, x # r, \A u \in Person : claim'[<<x, u>>] = claim[<<x, u>>]
  PROVE  RowSound(author', claim', x)
<1>1. [author EXCEPT ![r] = row][x] = author[x]
  BY Tables DEF AuthorTable
<1>2. /\ author'[x] = NoRow <=> author[x] = NoRow
      /\ author[x] # NoRow => /\ author'[x].name = author[x].name
                              /\ author'[x].pub = author[x].pub
                              /\ author'[x].credit = author[x].credit
  BY <1>1 DEF AlikeButOrder
<1> QED
  BY <1>2, SoundIfKept, Tables

LEMMA AdminEditKeepsLedger ==
  ASSUME LedgerInv, NEW e \in Edit, NEW name \in Name, NEW pub \in Pub, NEW credit \in Credit,
         AdminEdits(e, name, pub, credit)
  PROVE  LedgerSound(author', claim')
<1> DEFINE r     == edit[e].row
           new   == [author[r] EXCEPT !.name = name, !.pub = pub, !.credit = credit]
           moved == IF Moves(r, name, pub) THEN Withdraw(claim, {r}, {}) ELSE claim
<1>1. /\ r \in Live /\ edit[e].pub \in LivePub /\ author[r].pub = edit[e].pub
      /\ pub \in LivePub
  BY RelockedRow, Tables DEF AdminEdits
<1>2. /\ r \in Row /\ new \in AuthorRow /\ new.name = name /\ new.pub = pub
      /\ new.credit = credit /\ author[r] # NoRow
  BY <1>1, LiveRow, Tables DEF AuthorRow, Live
<1>3. PICK position \in 0..Room(r, pub) : SaveAuthor(r, new, edit[e].pub, position)
  BY DEF AdminEdits
<1>4. AlikeButOrder(author', [author EXCEPT ![r] = new])
  <2> HIDE DEF r, new
  <2> QED
    BY <1>1, <1>2, <1>3, SavedRow, Tables DEF ListInv
<1>5. author'[r] # NoRow /\ author'[r].name = name /\ author'[r].pub = pub
      /\ author'[r].credit = credit
  <2> HIDE DEF r, new
  <2>1. [author EXCEPT ![r] = new][r] = new
    BY <1>2, Tables DEF AuthorTable
  <2> QED
    BY <1>2, <1>4, <2>1, Absences DEF AlikeButOrder
<1>6. PICK id \in ClaimId :
        claim' = IF ~Attributes(r, credit) THEN moved
                 ELSE Withdraw(IF credit \in Person
                               THEN Record(moved, r, credit, "approved", "admin", id)
                               ELSE moved, {r}, {})
  BY DEF AdminEdits
<1>7. moved \in ClaimTable
  BY WithdrawnTable, Tables
<1>8. \A x \in Row, u \in Person : moved[<<x, u>>] =
        IF x = r /\ Moves(r, name, pub) /\ Standing(claim, <<x, u>>) THEN NoClaim
        ELSE claim[<<x, u>>]
  <2> DEFINE R        == {r}
             keep     == {}
             lessened == Withdraw(claim, R, keep)
  <2>1. moved = IF Moves(r, name, pub) THEN lessened ELSE claim
    OBVIOUS
  <2>2. ASSUME NEW x, NEW u PROVE (x \in R <=> x = r) /\ u \notin keep
    OBVIOUS
  <2> HIDE DEF moved, r, new, R, keep
  <2>3. ASSUME NEW x \in Row, NEW u \in Person
        PROVE  lessened[<<x, u>>] =
                 IF x \in R /\ u \notin keep /\ Standing(claim, <<x, u>>) THEN NoClaim
                 ELSE claim[<<x, u>>]
    BY WithdrawnClaims
  <2> HIDE DEF lessened
  <2>4. ASSUME NEW x \in Row, NEW u \in Person
        PROVE  moved[<<x, u>>] =
                 IF x = r /\ Moves(r, name, pub) /\ Standing(claim, <<x, u>>) THEN NoClaim
                 ELSE claim[<<x, u>>]
    BY <2>1, <2>2, <2>3
  <2> QED
    BY <2>4
<1> DEFINE noted == IF credit \in Person
                    THEN Record(moved, r, credit, "approved", "admin", id) ELSE moved
<1>9. /\ credit \in Person => Holds(noted, <<r, credit>>)
      /\ \A x \in Row \ {r}, u \in Person : noted[<<x, u>>] = moved[<<x, u>>]
  <2> HIDE DEF moved, r
  <2>1. CASE credit \in Person
    <3>1. /\ Holds(Record(moved, r, credit, "approved", "admin", id), <<r, credit>>)
          /\ \A k \in Row \X Person : k # <<r, credit>> =>
               Record(moved, r, credit, "approved", "admin", id)[k] = moved[k]
      BY <1>2, <1>7, <2>1, RecordedClaims DEF Crediting
    <3>2. noted = Record(moved, r, credit, "approved", "admin", id)
      BY <2>1
    <3> HIDE DEF noted
    <3> QED
      BY <3>1, <3>2
  <2>2. CASE credit \notin Person
    BY <2>2
  <2> QED
    BY <2>1, <2>2
<1>10. claim' = IF ~Attributes(r, credit) THEN moved ELSE Withdraw(noted, {r}, {})
  BY <1>6
<1> HIDE DEF moved, noted, r, new
<1>11. ASSUME NEW x \in Row, NEW u \in Person
       PROVE  Withdraw(noted, {r}, {})[<<x, u>>] =
                IF x = r /\ Standing(noted, <<x, u>>) THEN NoClaim ELSE noted[<<x, u>>]
  BY WithdrawnClaims
<1>12. RowSound(author, claim, r)
  BY <1>2, Tables
<1>13. ASSUME NEW x \in Row PROVE RowSound(author', claim', x)
  <2>1. CASE x # r
    <3>1. \A u \in Person : claim'[<<x, u>>] = claim[<<x, u>>]
      BY <2>1, <1>8, <1>9, <1>10, <1>11
    <3> QED
      BY <2>1, <3>1, <1>2, <1>4, OthersKept
  <2>2. CASE x = r /\ Attributes(r, credit)
    <3>1. claim' = Withdraw(noted, {r}, {})
      BY <2>2, <1>10
    <3>2. \A u \in Person : ~Standing(claim', <<r, u>>)
      BY <3>1, <1>2, <1>11 DEF Standing
    <3>3. \A u \in Person : Holds(noted, <<r, u>>) => Holds(claim', <<r, u>>)
      BY <3>1, <1>2, <1>11 DEF Holds, Standing, Crediting
    <3>4. credit \in Person => Holds(claim', <<r, credit>>)
      BY <3>3, <1>9
    <3> QED
      BY <2>2, <3>2, <3>4, <1>5, SoundIfQuiet
  <2>3. CASE x = r /\ ~Attributes(r, credit)
    <3>1. /\ claim' = moved
          /\ credit \in Person \/ author[r].credit \in Person => credit = author[r].credit
      BY <2>3, <1>10, Constants DEF Attributes, Credited
    <3>2. CASE Moves(r, name, pub)
      <4>1. \A u \in Person : claim'[<<r, u>>] =
              IF Standing(claim, <<r, u>>) THEN NoClaim ELSE claim[<<r, u>>]
        BY <3>1, <3>2, <1>2, <1>8
      <4>2. \A u \in Person : ~Standing(claim', <<r, u>>)
        BY <4>1 DEF Standing
      <4>3. \A u \in Person : Holds(claim, <<r, u>>) => Holds(claim', <<r, u>>)
        BY <4>1 DEF Holds, Standing, Crediting
      <4>4. credit \in Person => Holds(claim, <<r, credit>>)
        BY <3>1, <1>2, <1>12 DEF RowSound
      <4> QED
        BY <2>3, <4>2, <4>3, <4>4, <1>5, SoundIfQuiet
    <3>3. CASE ~Moves(r, name, pub)
      <4>1. /\ \A u \in Person : claim'[<<r, u>>] = claim[<<r, u>>]
            /\ name = author[r].name /\ pub = author[r].pub
        BY <3>1, <3>3, <1>2, <1>8 DEF Moves
      <4> QED
        BY <2>3, <3>1, <4>1, <1>2, <1>5, <1>12, SoundIfKept
    <3> QED
      BY <3>2, <3>3
  <2> QED
    BY <2>1, <2>2, <2>3
<1> QED
  BY <1>13 DEF LedgerSound

LEMMA SelfClaimKeepsLedger ==
  ASSUME LedgerInv, NEW e \in Edit, NEW u \in Person, SelfClaims(e, u)
  PROVE  LedgerSound(author', claim')
<1> DEFINE r   == edit[e].row
           new == [author[r] EXCEPT !.credit = u]
<1>1. /\ r \in Live /\ r \in Row /\ author[r].pub \in LivePub
      /\ author[r].pub = edit[e].pub /\ new \in AuthorRow /\ new.pub = author[r].pub
      /\ \E position \in 0..Room(r, author[r].pub) : SaveAuthor(r, new, edit[e].pub, position)
  BY SelfClaimSaves, Tables
<1>2. PICK id \in ClaimId :
        claim' = Withdraw(Record(claim, r, u, "self_asserted", "self", id), {r}, {u})
  BY DEF SelfClaims
<1>3. new.credit = u
  BY <1>1, Tables DEF AuthorRow, Live, AuthorTable
<1> DEFINE noted == Record(claim, r, u, "self_asserted", "self", id)
<1>4. /\ Holds(noted, <<r, u>>)
      /\ \A k \in Row \X Person : k # <<r, u>> => noted[k] = claim[k]
  BY <1>1, RecordedClaims, Tables DEF Crediting
<1> HIDE DEF noted, r, new
<1>5. ASSUME NEW x \in Row, NEW v \in Person
      PROVE  claim'[<<x, v>>] =
               IF x = r /\ v # u /\ Standing(noted, <<x, v>>) THEN NoClaim ELSE noted[<<x, v>>]
  <2>1. claim' = Withdraw(noted, {r}, {u})
    BY <1>2 DEF noted
  <2> QED
    BY <2>1, WithdrawnClaims
<1>6. AlikeButOrder(author', [author EXCEPT ![r] = new])
  BY <1>1, SavedRow, Tables DEF ListInv
<1>7. author'[r].credit = u
  <2>1. [author EXCEPT ![r] = new][r] = new /\ new # NoRow
    BY <1>1, Absences, Tables DEF AuthorTable
  <2> QED
    BY <1>1, <1>3, <1>6, <2>1 DEF AlikeButOrder
<1>8. ASSUME NEW x \in Row PROVE RowSound(author', claim', x)
  <2>1. CASE x # r
    <3>1. \A v \in Person : claim'[<<x, v>>] = claim[<<x, v>>]
      BY <2>1, <1>4, <1>5
    <3> QED
      BY <2>1, <3>1, <1>1, <1>6, OthersKept
  <2>2. CASE x = r
    <3>1. Holds(claim', <<r, u>>)
      BY <1>1, <1>4, <1>5 DEF Holds
    <3>2. \A v \in Person : ~Standing(claim', <<r, v>>)
      BY <1>1, <1>4, <1>5 DEF Holds, Standing, Crediting
    <3> QED
      BY <2>2, <3>1, <3>2, <1>7, SoundIfQuiet
  <2> QED
    BY <2>1, <2>2
<1> QED
  BY <1>8 DEF LedgerSound

LEMMA AdminDeleteKeepsLedger ==
  ASSUME LedgerInv, NEW e \in Edit, AdminDeletes(e)
  PROVE  LedgerSound(author', claim')
<1> DEFINE r == edit[e].row
           p == author[r].pub
           list == Without(authors[p], r)
<1>1. r \in Live /\ p = edit[e].pub
  BY RelockedRow, Tables DEF AdminDeletes
<1>2. DeletesRow(r, p, list)
  BY <1>1 DEF AdminDeletes, DeletesRow
<1>3. AlikeButOrder(author', [author EXCEPT ![r] = NoRow])
  <2> HIDE DEF r, p, list
  <2>1. p = author[r].pub /\ list = Without(authors[p], r)
    BY DEF p, list
  <2> QED
    BY <1>1, <1>2, <2>1, DeletedRow, Tables DEF ListInv
<1>4. claim' = Cascade(claim, {r}) /\ r \in Row
  BY <1>1 DEF AdminDeletes, Live
<1> HIDE DEF r, p, list
<1>5. ASSUME NEW x \in Row, NEW u \in Person
      PROVE  claim'[<<x, u>>] = IF x = r THEN NoClaim ELSE claim[<<x, u>>]
  <2>1. Cascade(claim, {r})[<<x, u>>] = IF x \in {r} THEN NoClaim ELSE claim[<<x, u>>]
    BY CascadedClaims
  <2> QED
    BY <1>4, <2>1
<1>6. author'[r] = NoRow
  <2>1. [author EXCEPT ![r] = NoRow][r] = NoRow
    BY <1>4, Tables DEF AuthorTable
  <2> QED
    BY <1>3, <1>4, <2>1 DEF AlikeButOrder
<1>7. ASSUME NEW x \in Row PROVE RowSound(author', claim', x)
  <2>1. CASE x # r
    BY <2>1, <1>3, <1>4, <1>5, OthersKept
  <2>2. CASE x = r
    BY <2>2, <1>5, <1>6, SoundIfGone
  <2> QED
    BY <2>1, <2>2
<1> QED
  BY <1>7 DEF LedgerSound

LEMMA AdminCreateKeepsLedger ==
  ASSUME LedgerInv, NEW r \in Row, NEW name \in Name, NEW pub \in Pub, NEW credit \in Credit,
         AdminCreates(r, name, pub, credit)
  PROVE  LedgerSound(author', claim')
<1> DEFINE new == [name |-> name, pub |-> pub, credit |-> credit, order |-> 0]
<1>1. /\ r \notin Live /\ pub \in LivePub /\ new \in AuthorRow /\ new.pub = pub
      /\ author[r] = NoRow
  BY DEF AdminCreates, FreshRow, AuthorRow, Live
<1>2. PICK position \in 0..Room(r, pub) : SaveAuthor(r, new, pub, position)
  BY DEF AdminCreates
<1>3. PICK id \in ClaimId :
        claim' = IF credit \in Person
                 THEN Record(claim, r, credit, "approved", "admin", id) ELSE claim
  BY DEF AdminCreates
<1>4. new.credit = credit
  OBVIOUS
<1> HIDE DEF new
<1>5. AlikeButOrder(author', [author EXCEPT ![r] = new])
  BY <1>1, <1>2, SavedRow, Tables DEF ListInv
<1>6. author'[r].credit = credit
  <2>1. [author EXCEPT ![r] = new][r] = new /\ new # NoRow
    BY <1>1, Absences, Tables DEF AuthorTable
  <2> QED
    BY <1>4, <1>5, <2>1 DEF AlikeButOrder
<1>7. /\ credit \in Person => Holds(claim', <<r, credit>>)
      /\ \A x \in Row, u \in Person :
           x # r \/ u # credit => claim'[<<x, u>>] = claim[<<x, u>>]
  <2>1. CASE credit \in Person
    <3> DEFINE noted == Record(claim, r, credit, "approved", "admin", id)
    <3>1. /\ Holds(noted, <<r, credit>>)
          /\ \A k \in Row \X Person : k # <<r, credit>> => noted[k] = claim[k]
      BY <2>1, RecordedClaims, Tables DEF Crediting
    <3>2. claim' = noted
      BY <2>1, <1>3
    <3> HIDE DEF noted
    <3> QED
      BY <3>1, <3>2
  <2>2. CASE credit \notin Person
    BY <2>2, <1>3
  <2> QED
    BY <2>1, <2>2
<1>8. \A u \in Person : claim[<<r, u>>] = NoClaim
  BY <1>1, Tables
<1>9. \A u \in Person : ~Standing(claim', <<r, u>>)
  BY <1>7, <1>8 DEF Standing, Holds, Crediting
<1>10. ASSUME NEW x \in Row PROVE RowSound(author', claim', x)
  <2>1. CASE x # r
    BY <2>1, <1>5, <1>7, OthersKept
  <2>2. CASE x = r
    BY <2>2, <1>6, <1>7, <1>9, SoundIfQuiet
  <2> QED
    BY <2>1, <2>2
<1> QED
  BY <1>10 DEF LedgerSound

LEMMA QueueKeepsLedger ==
  ASSUME LedgerInv, NEW q \in Queue,
         \/ \E r \in Row : QueueReads(q, r)
         \/ \E u \in Person : QueueShows(q, u)
         \/ ApproveSuggestion(q)
         \/ RejectSuggestion(q)
         \/ QueueEnds(q)
  PROVE  LedgerSound(author', claim')
<1> DEFINE r == queue[q].row
           u == queue[q].person
<1>1. CASE \/ \E x \in Row : QueueReads(q, x)
           \/ \E v \in Person : QueueShows(q, v)
           \/ QueueEnds(q)
  BY <1>1, SteadyKeepsLedger DEF QueueReads, QueueShows, QueueEnds
<1>2. ASSUME Decidable(q)
      PROVE  r \in Row /\ u \in Person /\ Standing(claim, <<r, u>>) /\ author[r] # NoRow
  BY <1>2, ShownPage DEF Decidable, Suggested, Standing, Live, LedgerInv, ListInv
<1>3. CASE ApproveSuggestion(q)
  <2>1. /\ Decidable(q) /\ author' = [author EXCEPT ![r].credit = u]
        /\ claim' = Withdraw(Decide(claim, r, u, "approved"), {r}, {u})
    BY <1>3 DEF ApproveSuggestion
  <2>2. r \in Row /\ u \in Person /\ Standing(claim, <<r, u>>) /\ author[r] # NoRow
    BY <1>2, <2>1
  <2> HIDE DEF r, u
  <2> DEFINE decided == Decide(claim, r, u, "approved")
  <2>3. /\ Holds(decided, <<r, u>>)
        /\ \A k \in Row \X Person : k # <<r, u>> => decided[k] = claim[k]
    <3>1. claim \in ClaimTable /\ "approved" \in Decided /\ claim[<<r, u>>] # NoClaim
      BY <2>2, Tables DEF Decided, Status, Standing
    <3> QED
      BY <2>2, <3>1, DecidedClaims DEF Holds, Crediting
  <2>4. claim' = Withdraw(decided, {r}, {u})
    BY <2>1
  <2> HIDE DEF decided
  <2>5. ASSUME NEW x \in Row, NEW v \in Person
        PROVE  claim'[<<x, v>>] =
                 IF x = r /\ v # u /\ Standing(decided, <<x, v>>) THEN NoClaim
                 ELSE decided[<<x, v>>]
    <3> DEFINE R    == {r}
               keep == {u}
    <3>1. claim' = Withdraw(decided, R, keep)
      BY <2>4
    <3>2. (x \in R <=> x = r) /\ (v \in keep <=> v = u)
      OBVIOUS
    <3> HIDE DEF R, keep
    <3>3. Withdraw(decided, R, keep)[<<x, v>>] =
            IF x \in R /\ v \notin keep /\ Standing(decided, <<x, v>>) THEN NoClaim
            ELSE decided[<<x, v>>]
      BY WithdrawnClaims
    <3> QED
      BY <3>1, <3>2, <3>3
  <2>6. /\ author'[r].credit = u
        /\ \A x \in Row \ {r} : author'[x] = author[x]
    <3>1. author[r] \in AuthorRow
      BY <2>2, Tables DEF AuthorTable
    <3> QED
      BY <2>1, <2>2, <3>1, Tables DEF AuthorTable, AuthorRow
  <2>7. ASSUME NEW x \in Row PROVE RowSound(author', claim', x)
    <3>1. CASE x # r
      <4>1. author'[x] = author[x] /\ \A v \in Person : claim'[<<x, v>>] = claim[<<x, v>>]
        BY <3>1, <2>3, <2>5, <2>6
      <4> QED
        BY <4>1, SoundIfKept, Tables
    <3>2. CASE x = r
      <4>1. Holds(claim', <<r, u>>)
        BY <2>2, <2>3, <2>5 DEF Holds
      <4>2. \A v \in Person : ~Standing(claim', <<r, v>>)
        BY <2>2, <2>3, <2>5 DEF Holds, Standing, Crediting
      <4> QED
        BY <3>2, <4>1, <4>2, <2>6, SoundIfQuiet
    <3> QED
      BY <3>1, <3>2
  <2> QED
    BY <2>7 DEF LedgerSound
<1>4. CASE RejectSuggestion(q)
  <2>1. /\ Decidable(q) /\ author' = author /\ claim' = Decide(claim, r, u, "rejected")
    BY <1>4 DEF RejectSuggestion
  <2>2. r \in Row /\ u \in Person /\ Standing(claim, <<r, u>>)
    BY <1>2, <2>1
  <2> HIDE DEF r, u
  <2>3. /\ ~Standing(claim', <<r, u>>)
        /\ \A k \in Row \X Person : k # <<r, u>> => claim'[k] = claim[k]
    <3>1. claim \in ClaimTable /\ "rejected" \in Decided /\ claim[<<r, u>>] # NoClaim
      BY <2>2, Tables DEF Decided, Status, Standing
    <3> QED
      BY <2>1, <2>2, <3>1, DecidedClaims DEF Standing
  <2>4. ASSUME NEW x \in Row PROVE RowSound(author', claim', x)
    <3>1. \A v \in Person : \/ claim'[<<x, v>>] = claim[<<x, v>>]
                            \/ Standing(claim, <<x, v>>) /\ ~Standing(claim', <<x, v>>)
      BY <2>2, <2>3
    <3> QED
      BY <2>1, <3>1, SoundIfKept, Tables
  <2> QED
    BY <2>4 DEF LedgerSound
<1> QED
  BY <1>1, <1>3, <1>4

\* The scorer writes a suggestion only for a row that is still, under its lock, the
\* unclaimed row it was scored as.
LEMMA ScorerKeepsLedger ==
  ASSUME LedgerInv, NEW s \in Scorer,
         \/ ScoreReadsAuthors(s)
         \/ \E ranked \in SUBSET (Row \X Person) : ScoreReadsClaims(s, ranked)
         \/ \E k \in Row \X Person : ScorePersists(s, k)
         \/ ScoreWithdraws(s)
         \/ ScoreDies(s)
  PROVE  LedgerSound(author', claim')
<1>1. CASE \/ ScoreReadsAuthors(s)
           \/ \E ranked \in SUBSET (Row \X Person) : ScoreReadsClaims(s, ranked)
           \/ ScoreDies(s)
  BY <1>1, SteadyKeepsLedger DEF ScoreReadsAuthors, ScoreReadsClaims, ScoreDies
<1>2. ASSUME NEW k \in Row \X Person, ScorePersists(s, k)
      PROVE  LedgerSound(author', claim')
  <2>1. PICK r \in Row, u \in Person : k = <<r, u>>
    OBVIOUS
  <2>2. author' = author
    BY <1>2 DEF ScorePersists
  <2>3. CASE Unchanged(s, k[1]) /\ StatusOf(k[1], k[2]) \notin Decided
    <3>1. PICK id \in ClaimId :
            claim' = [claim EXCEPT ![k] = [id |-> id, status |-> "suggested",
                                           source |-> "machine",
                                           basis |-> scorer[s].snap[k[1]]]]
      BY <1>2, <2>3 DEF ScorePersists
    <3>2. /\ author[r] # NoRow /\ author[r].credit = Null
          /\ [name |-> author[r].name, pub |-> author[r].pub] = scorer[s].snap[r]
      BY <2>1, <2>3 DEF Unchanged, BasisOf, Live
    <3>3. /\ claim'[<<r, u>>].basis = scorer[s].snap[r]
          /\ \A x \in Row \X Person : x # <<r, u>> => claim'[x] = claim[x]
      BY <2>1, <3>1, Tables DEF ClaimTable
    <3>4. ASSUME NEW x \in Row PROVE RowSound(author', claim', x)
      <4>1. CASE x # r
        BY <4>1, <2>2, <3>3, SoundIfKept, Tables
      <4>2. CASE x = r
        <5>1. author'[r].credit \notin Person
          BY <2>2, <3>2, Constants
        <5>2. \A v \in Person : Standing(claim', <<r, v>>) =>
                claim'[<<r, v>>].basis = [name |-> author'[r].name, pub |-> author'[r].pub]
          <6>1. RowSound(author, claim, r)
            BY Tables
          <6> QED
            BY <2>2, <3>2, <3>3, <6>1 DEF RowSound, Standing
        <5> QED
          BY <4>2, <5>1, <5>2, <2>2, <3>2 DEF RowSound
      <4> QED
        BY <4>1, <4>2
    <3> QED
      BY <3>4 DEF LedgerSound
  <2>4. CASE ~(Unchanged(s, k[1]) /\ StatusOf(k[1], k[2]) \notin Decided)
    <3>1. claim' = claim
      BY <1>2, <2>4 DEF ScorePersists
    <3> QED
      BY <2>2, <3>1, SteadyKeepsLedger
  <2> QED
    BY <2>3, <2>4
<1>3. CASE ScoreWithdraws(s)
  <2>1. author' = author
    BY <1>3 DEF ScoreWithdraws
  <2>2. \A k \in Row \X Person : \/ claim'[k] = claim[k]
                                 \/ Standing(claim, k) /\ ~Standing(claim', k)
    BY <1>3 DEF ScoreWithdraws, Standing, Suggested
  <2>3. ASSUME NEW x \in Row PROVE RowSound(author', claim', x)
    BY <2>1, <2>2, SoundIfKept, Tables
  <2> QED
    BY <2>3 DEF LedgerSound
<1> QED
  BY <1>1, <1>2, <1>3

-----------------------------------------------------------------------------
(* The theorems *)

LEMMA LedgerInitially == Init => LedgerInv
<1> SUFFICES ASSUME Init PROVE LedgerInv
  OBVIOUS
<1>1. ASSUME NEW x \in Row PROVE RowSound(author, claim, x)
  BY DEF Init, RowSound, Standing
<1> QED
  BY <1>1, InvInitially DEF LedgerInv, LedgerSound

LEMMA LedgerInvKept == LedgerInv /\ [Next]_vars => LedgerInv'
<1> SUFFICES ASSUME LedgerInv, [Next]_vars PROVE LedgerSound(author', claim')
  BY InvKept DEF LedgerInv
<1>1. ASSUME NEW p \in Pub, NEW names \in NameList,
             CreatePublication(p, names) \/ UpdatePublication(p, names)
      PROVE  LedgerSound(author', claim')
  BY <1>1, CreateKeepsLedger, UpdateKeepsLedger
<1>2. ASSUME NEW p \in Pub, DeletePublication(p) PROVE LedgerSound(author', claim')
  BY <1>2, DeleteKeepsLedger
<1>3. ASSUME NEW e \in Edit, NEW r \in Row, EditStarts(e, r)
      PROVE  LedgerSound(author', claim')
  BY <1>3, SteadyKeepsLedger DEF EditStarts
<1>4. ASSUME NEW e \in Edit, EditEnds(e) PROVE LedgerSound(author', claim')
  BY <1>4, SteadyKeepsLedger DEF EditEnds
<1>5. ASSUME NEW e \in Edit, NEW name \in Name, NEW pub \in Pub, NEW credit \in Credit,
             AdminEdits(e, name, pub, credit)
      PROVE  LedgerSound(author', claim')
  BY <1>5, AdminEditKeepsLedger
<1>6. ASSUME NEW e \in Edit, NEW u \in Person, SelfClaims(e, u)
      PROVE  LedgerSound(author', claim')
  BY <1>6, SelfClaimKeepsLedger
<1>7. ASSUME NEW e \in Edit, AdminDeletes(e) PROVE LedgerSound(author', claim')
  BY <1>7, AdminDeleteKeepsLedger
<1>8. ASSUME NEW r \in Row, NEW name \in Name, NEW pub \in Pub, NEW credit \in Credit,
             AdminCreates(r, name, pub, credit)
      PROVE  LedgerSound(author', claim')
  BY <1>8, AdminCreateKeepsLedger
<1>9. ASSUME NEW q \in Queue,
             \/ \E r \in Row : QueueReads(q, r)
             \/ \E u \in Person : QueueShows(q, u)
             \/ ApproveSuggestion(q)
             \/ RejectSuggestion(q)
             \/ QueueEnds(q)
      PROVE  LedgerSound(author', claim')
  BY <1>9, QueueKeepsLedger
<1>10. ASSUME NEW s \in Scorer,
              \/ ScoreReadsAuthors(s)
              \/ \E ranked \in SUBSET (Row \X Person) : ScoreReadsClaims(s, ranked)
              \/ \E k \in Row \X Person : ScorePersists(s, k)
              \/ ScoreWithdraws(s)
              \/ ScoreDies(s)
       PROVE  LedgerSound(author', claim')
  BY <1>10, ScorerKeepsLedger
<1>11. CASE UNCHANGED vars
  BY <1>11, SteadyKeepsLedger DEF vars
<1> QED
  BY <1>1, <1>2, <1>3, <1>4, <1>5, <1>6, <1>7, <1>8, <1>9, <1>10, <1>11
  DEF Next

LEMMA LedgerAlways == Spec => []LedgerInv
BY LedgerInitially, LedgerInvKept, PTL DEF Spec

\* Whoever a row is credited to has an approved or self-asserted claim on it, whatever
\* path wrote the credit (approve_suggestion, mutate_author, record_self_claim, the list
\* edits that keep it).
THEOREM AttributionAlwaysAccounted == Spec => []AttributionAccounted
<1>1. LedgerInv => AttributionAccounted
  BY SoundMeansProperties
<1> QED
  BY <1>1, LedgerAlways, PTL

\* No suggestion stands on a credited row, though a scoring run works from authors it
\* read before the credit was written (persist_suggestion's recheck).
THEOREM CreditAlwaysSettlesQueue == Spec => []CreditSettlesQueue
<1>1. LedgerInv => CreditSettlesQueue
  BY SoundMeansProperties
<1> QED
  BY <1>1, LedgerAlways, PTL

\* A standing suggestion was computed from its row's present byline and publication
\* (withdraw_suggestions on a rename or move, persist_suggestion's recheck).
THEOREM SuggestionsAlwaysDescribeRow == Spec => []SuggestionsDescribeRow
<1>1. LedgerInv => SuggestionsDescribeRow
  BY SoundMeansProperties
<1> QED
  BY <1>1, LedgerAlways, PTL

-----------------------------------------------------------------------------
(* What a queue page says of the suggestion it shows *)

\* The suggestion a page shows, while it stands under its key, is scored as shown.
PagesHold ==
  \A q \in Queue :
    LET k == <<queue[q].row, queue[q].person>>
    IN Shown(q) /\ Standing(claim, k) /\ claim[k].id = queue[q].id
       => claim[k].basis = queue[q].scored

\* The suggestions of new are suggestions of old, untouched.
NoneAdded(old, new) == \A k \in Row \X Person : Standing(new, k) => new[k] = old[k]

LEMMA NoneAddedByVerbs ==
  ASSUME NEW cl
  PROVE  /\ \A R, keep : NoneAdded(cl, Withdraw(cl, R, keep))
         /\ \A R : NoneAdded(cl, Cascade(cl, R))
BY DEF NoneAdded, Standing, Withdraw, Cascade

LEMMA NoneAddedByRecord ==
  ASSUME NEW cl \in ClaimTable, NEW r \in Row, NEW u \in Person, NEW id \in ClaimId,
         NEW status \in Crediting, NEW source \in {"machine", "self", "admin"}
  PROVE  NoneAdded(cl, Record(cl, r, u, status, source, id))
<1> DEFINE new == Record(cl, r, u, status, source, id)
<1>1. /\ Holds(new, <<r, u>>)
      /\ \A k \in Row \X Person : k # <<r, u>> => new[k] = cl[k]
  BY RecordedClaims
<1> HIDE DEF new
<1> QED
  BY <1>1 DEF NoneAdded, Holds, Standing, Crediting, new

LEMMA NoneAddedByDecision ==
  ASSUME NEW cl \in ClaimTable, NEW r \in Row, NEW u \in Person, NEW status \in Decided,
         cl[<<r, u>>] # NoClaim
  PROVE  NoneAdded(cl, Decide(cl, r, u, status))
<1> DEFINE new == Decide(cl, r, u, status)
<1>1. /\ new[<<r, u>>] # NoClaim /\ new[<<r, u>>].status = status
      /\ \A k \in Row \X Person : k # <<r, u>> => new[k] = cl[k]
  BY DecidedClaims
<1> HIDE DEF new
<1> QED
  BY <1>1 DEF NoneAdded, Standing, Decided, new

\* Of all the writers only the scorer adds a suggestion.
LEMMA WritersAddNone ==
  ASSUME LedgerInv,
         \/ \E p \in Pub, names \in NameList : CreatePublication(p, names)
         \/ \E p \in Pub, names \in NameList : UpdatePublication(p, names)
         \/ \E p \in Pub : DeletePublication(p)
         \/ \E e \in Edit, name \in Name, pub \in Pub, credit \in Credit :
              AdminEdits(e, name, pub, credit)
         \/ \E e \in Edit, u \in Person : SelfClaims(e, u)
         \/ \E e \in Edit : AdminDeletes(e)
         \/ \E r \in Row, name \in Name, pub \in Pub, credit \in Credit :
              AdminCreates(r, name, pub, credit)
         \/ \E q \in Queue : ApproveSuggestion(q) \/ RejectSuggestion(q)
         \/ \E s \in Scorer : ScoreWithdraws(s)
  PROVE  NoneAdded(claim, claim')
<1>1. \A a, b, c : NoneAdded(a, b) /\ NoneAdded(b, c) => NoneAdded(a, c)
  BY DEF NoneAdded, Standing
<1>2. NoneAdded(claim, claim)
  BY DEF NoneAdded
<1>3. CASE \E p \in Pub, names \in NameList : CreatePublication(p, names)
  BY <1>2, <1>3 DEF CreatePublication
<1>4. ASSUME NEW p \in Pub, NEW names \in NameList, UpdatePublication(p, names)
      PROVE  NoneAdded(claim, claim')
  <2>1. PICK R, S : claim' = Cascade(Withdraw(claim, R, {}), S)
    BY <1>4 DEF UpdatePublication
  <2> QED
    BY <1>1, <2>1, NoneAddedByVerbs
<1>5. CASE (\E p \in Pub : DeletePublication(p)) \/ (\E e \in Edit : AdminDeletes(e))
  <2>1. PICK R : claim' = Cascade(claim, R)
    <3>1. CASE \E p \in Pub : DeletePublication(p)
      BY <3>1 DEF DeletePublication
    <3>2. CASE \E e \in Edit : AdminDeletes(e)
      BY <3>2 DEF AdminDeletes
    <3> QED
      BY <1>5, <3>1, <3>2
  <2> QED
    BY <2>1, NoneAddedByVerbs
<1>6. ASSUME NEW e \in Edit, NEW name \in Name, NEW pub \in Pub, NEW credit \in Credit,
             AdminEdits(e, name, pub, credit)
      PROVE  NoneAdded(claim, claim')
  <2> DEFINE r     == edit[e].row
             moved == IF Moves(r, name, pub) THEN Withdraw(claim, {r}, {}) ELSE claim
  <2>1. PICK id \in ClaimId :
          claim' = IF ~Attributes(r, credit) THEN moved
                   ELSE Withdraw(IF credit \in Person
                                 THEN Record(moved, r, credit, "approved", "admin", id)
                                 ELSE moved, {r}, {})
    BY <1>6 DEF AdminEdits
  <2> DEFINE noted == IF credit \in Person
                      THEN Record(moved, r, credit, "approved", "admin", id) ELSE moved
  <2>2. /\ NoneAdded(claim, moved) /\ moved \in ClaimTable /\ r \in Row
        /\ claim' = moved \/ claim' = Withdraw(noted, {r}, {})
    BY <1>2, <1>6, <2>1, NoneAddedByVerbs, WithdrawnTable, Tables DEF AdminEdits, Relocked, Live
  <2>3. NoneAdded(moved, noted)
    <3> HIDE DEF moved, r
    <3>1. NoneAdded(moved, moved)
      BY DEF NoneAdded
    <3> QED
      BY <2>2, <3>1, NoneAddedByRecord DEF Crediting
  <2> HIDE DEF moved, noted, r
  <2> QED
    BY <1>1, <2>2, <2>3, NoneAddedByVerbs
<1>7. ASSUME NEW e \in Edit, NEW u \in Person, SelfClaims(e, u)
      PROVE  NoneAdded(claim, claim')
  <2> DEFINE r == edit[e].row
  <2>1. r \in Row
    BY <1>7 DEF SelfClaims, Relocked, Live
  <2>2. PICK id \in ClaimId :
          claim' = Withdraw(Record(claim, r, u, "self_asserted", "self", id), {r}, {u})
    BY <1>7 DEF SelfClaims
  <2>3. NoneAdded(claim, Record(claim, r, u, "self_asserted", "self", id))
    BY <2>1, NoneAddedByRecord, Tables DEF Crediting
  <2> HIDE DEF r
  <2> QED
    BY <1>1, <2>2, <2>3, NoneAddedByVerbs
<1>8. ASSUME NEW r \in Row, NEW name \in Name, NEW pub \in Pub, NEW credit \in Credit,
             AdminCreates(r, name, pub, credit)
      PROVE  NoneAdded(claim, claim')
  BY <1>2, <1>8, NoneAddedByRecord, Tables DEF AdminCreates, Crediting
<1>9. ASSUME NEW q \in Queue, ApproveSuggestion(q) \/ RejectSuggestion(q)
      PROVE  NoneAdded(claim, claim')
  <2> DEFINE r == queue[q].row
             u == queue[q].person
  <2>1. r \in Row /\ u \in Person /\ claim[<<r, u>>] # NoClaim
    BY <1>9, ShownPage DEF ApproveSuggestion, RejectSuggestion, Decidable, Suggested,
       LedgerInv, ListInv
  <2>2. \/ claim' = Withdraw(Decide(claim, r, u, "approved"), {r}, {u})
        \/ claim' = Decide(claim, r, u, "rejected")
    BY <1>9 DEF ApproveSuggestion, RejectSuggestion
  <2> HIDE DEF r, u
  <2>3. \A status \in Decided : NoneAdded(claim, Decide(claim, r, u, status))
    BY <2>1, NoneAddedByDecision, Tables
  <2> QED
    BY <1>1, <2>2, <2>3, NoneAddedByVerbs DEF Decided, Status
<1>10. CASE \E s \in Scorer : ScoreWithdraws(s)
  BY <1>10 DEF ScoreWithdraws, NoneAdded, Standing, Suggested
<1> QED
  BY <1>3, <1>4, <1>5, <1>6, <1>7, <1>8, <1>9, <1>10

LEMMA WritersLeavePages ==
  ASSUME \/ \E p \in Pub, names \in NameList : CreatePublication(p, names)
         \/ \E p \in Pub, names \in NameList : UpdatePublication(p, names)
         \/ \E p \in Pub : DeletePublication(p)
         \/ \E e \in Edit, name \in Name, pub \in Pub, credit \in Credit :
              AdminEdits(e, name, pub, credit)
         \/ \E e \in Edit, u \in Person : SelfClaims(e, u)
         \/ \E e \in Edit : AdminDeletes(e)
         \/ \E r \in Row, name \in Name, pub \in Pub, credit \in Credit :
              AdminCreates(r, name, pub, credit)
         \/ \E s \in Scorer : ScoreWithdraws(s)
  PROVE  queue' = queue
<1>1. /\ \A p \in Pub, names \in NameList : CreatePublication(p, names) => queue' = queue
      /\ \A p \in Pub, names \in NameList : UpdatePublication(p, names) => queue' = queue
      /\ \A p \in Pub : DeletePublication(p) => queue' = queue
  BY DEF CreatePublication, UpdatePublication, DeletePublication
<1>2. /\ \A e \in Edit, name \in Name, pub \in Pub, credit \in Credit :
           AdminEdits(e, name, pub, credit) => queue' = queue
      /\ \A e \in Edit, u \in Person : SelfClaims(e, u) => queue' = queue
      /\ \A e \in Edit : AdminDeletes(e) => queue' = queue
  <2>1. ASSUME NEW e \in Edit, NEW name \in Name, NEW pub \in Pub, NEW credit \in Credit,
               AdminEdits(e, name, pub, credit)
        PROVE  queue' = queue
    BY <2>1 DEF AdminEdits
  <2>2. ASSUME NEW e \in Edit, NEW u \in Person, SelfClaims(e, u) PROVE queue' = queue
    BY <2>2 DEF SelfClaims
  <2>3. ASSUME NEW e \in Edit, AdminDeletes(e) PROVE queue' = queue
    BY <2>3 DEF AdminDeletes
  <2> QED
    BY <2>1, <2>2, <2>3
<1>3. /\ \A r \in Row, name \in Name, pub \in Pub, credit \in Credit :
           AdminCreates(r, name, pub, credit) => queue' = queue
      /\ \A s \in Scorer : ScoreWithdraws(s) => queue' = queue
  BY DEF AdminCreates, ScoreWithdraws
<1> QED
  BY <1>1, <1>2, <1>3

\* A page changes by its own queries, by closing, or not at all.
LEMMA PagesChange ==
  ASSUME TypeOK, [Next]_vars, NEW q \in Queue
  PROVE  \/ queue'[q] = queue[q]
         \/ ~(queue'[q] # Idle /\ queue'[q].person # Null)
         \/ \E u \in Person : QueueShows(q, u)
<1>1. queue \in [Queue -> HalfPage \cup FullPage \cup {Idle}]
  BY DEF TypeOK
<1>2. ASSUME NEW p \in Queue, NEW r \in Row, QueueReads(p, r)
      PROVE  queue'[q] = queue[q] \/ queue'[q].person = Null
  BY <1>1, <1>2 DEF QueueReads
<1>3. ASSUME NEW p \in Queue, NEW u \in Person, QueueShows(p, u)
      PROVE  queue'[q] = queue[q] \/ p = q
  BY <1>1, <1>3 DEF QueueShows
<1>4. ASSUME NEW p \in Queue, ApproveSuggestion(p) \/ RejectSuggestion(p) \/ QueueEnds(p)
      PROVE  queue'[q] = queue[q] \/ queue'[q] = Idle
  BY <1>1, <1>4 DEF ApproveSuggestion, RejectSuggestion, QueueEnds
<1>5. CASE \/ \E p \in Pub, names \in NameList : CreatePublication(p, names)
           \/ \E p \in Pub, names \in NameList : UpdatePublication(p, names)
           \/ \E p \in Pub : DeletePublication(p)
           \/ \E e \in Edit, name \in Name, pub \in Pub, credit \in Credit :
                AdminEdits(e, name, pub, credit)
           \/ \E e \in Edit, u \in Person : SelfClaims(e, u)
           \/ \E e \in Edit : AdminDeletes(e)
           \/ \E r \in Row, name \in Name, pub \in Pub, credit \in Credit :
                AdminCreates(r, name, pub, credit)
           \/ \E s \in Scorer : ScoreWithdraws(s)
  BY <1>5, WritersLeavePages
<1>6. CASE \/ \E e \in Edit : EditEnds(e) \/ \E r \in Row : EditStarts(e, r)
           \/ \E s \in Scorer, ranked \in SUBSET (Row \X Person) : ScoreReadsClaims(s, ranked)
           \/ \E s \in Scorer, k \in Row \X Person : ScorePersists(s, k)
           \/ \E s \in Scorer : ScoreReadsAuthors(s) \/ ScoreDies(s)
           \/ UNCHANGED vars
  BY <1>6 DEF EditEnds, EditStarts, ScoreReadsClaims, ScorePersists, ScoreReadsAuthors,
              ScoreDies, vars
<1> QED
  BY <1>2, <1>3, <1>4, <1>5, <1>6 DEF Next

\* A page that is not torn shows what its suggestion was scored for.
PagesWhole ==
  \A q \in Queue : Shown(q) => queue[q].torn \/ queue[q].seen = queue[q].scored

LEMMA PagesStayWhole == LedgerInv /\ PagesWhole /\ [Next]_vars => PagesWhole'
<1> SUFFICES ASSUME LedgerInv, PagesWhole, [Next]_vars, NEW q \in Queue,
                    queue'[q] # Idle, queue'[q].person # Null
             PROVE  queue'[q].torn \/ queue'[q].seen = queue'[q].scored
  BY DEF PagesWhole, Shown
<1>1. TypeOK
  BY DEF LedgerInv, ListInv
<1>2. CASE queue'[q] = queue[q]
  BY <1>2 DEF PagesWhole, Shown
<1>3. ASSUME NEW u \in Person, QueueShows(q, u)
      PROVE  queue'[q].torn \/ queue'[q].seen = queue'[q].scored
  <2> DEFINE x == queue[q].row
  <2>1. queue'[q] = [row |-> x, seen |-> queue[q].seen, person |-> u,
                     id |-> claim[<<x, u>>].id, scored |-> claim[<<x, u>>].basis,
                     torn |-> BasisOf(x) # queue[q].seen]
    BY <1>1, <1>3 DEF QueueShows, TypeOK
  <2>2. x \in Row /\ Suggested(<<x, u>>)
    BY <1>1, <1>3 DEF QueueShows, TypeOK, HalfPage, FullPage
  <2>3. claim[<<x, u>>].basis = BasisOf(x)
    <3> HIDE DEF x
    <3> QED
      BY <2>2, SoundMeansProperties DEF SuggestionsDescribeRow
  <2> DEFINE b == BasisOf(x)
  <2>4. /\ queue'[q].torn = (b # queue[q].seen)
        /\ queue'[q].seen = queue[q].seen
        /\ queue'[q].scored = claim[<<x, u>>].basis
    BY <2>1
  <2> HIDE DEF x, b
  <2>5. CASE b = queue[q].seen
    <3>1. claim[<<x, u>>].basis = b
      BY <2>3 DEF b
    <3> QED
      BY <2>4, <2>5, <3>1
  <2>6. CASE b # queue[q].seen
    BY <2>4, <2>6
  <2> QED
    BY <2>5, <2>6
<1> QED
  BY <1>1, <1>2, <1>3, PagesChange

\* A key is not used again while a page holds it, and scoring again what still stands
\* computes the same basis.
LEMMA PagesKept == LedgerInv /\ PagesHold /\ [Next]_vars => PagesHold'
<1> SUFFICES ASSUME LedgerInv, PagesHold, [Next]_vars, NEW q \in Queue,
                    queue'[q] # Idle, queue'[q].person # Null,
                    NEW k, k = <<queue'[q].row, queue'[q].person>>,
                    Standing(claim', k), claim'[k].id = queue'[q].id
             PROVE  claim'[k].basis = queue'[q].scored
  BY DEF PagesHold, Standing, Shown
<1>1. queue \in [Queue -> HalfPage \cup FullPage \cup {Idle}]
  BY DEF LedgerInv, ListInv, TypeOK
<1>2. ASSUME queue'[q] = queue[q]
      PROVE  /\ k \in Row \X Person /\ k = <<queue[q].row, queue[q].person>>
             /\ Shown(q) /\ queue[q].id = claim'[k].id
             /\ Standing(claim, k) /\ claim[k] = claim'[k] => claim'[k].basis = queue'[q].scored
  <2>1. Shown(q) /\ k = <<queue[q].row, queue[q].person>>
    BY <1>2 DEF Shown
  <2>2. queue[q].row \in Row /\ queue[q].person \in Person
    BY <2>1, ShownPage DEF LedgerInv, ListInv
  <2> QED
    BY <1>2, <2>1, <2>2 DEF PagesHold
<1>3. CASE queue'[q] = queue[q] /\ NoneAdded(claim, claim')
  <2>1. Standing(claim, k) /\ claim[k] = claim'[k]
    BY <1>2, <1>3 DEF NoneAdded, Standing
  <2> QED
    BY <1>2, <1>3, <2>1
<1>4. ASSUME NEW s \in Scorer, NEW j \in Row \X Person, ScorePersists(s, j)
      PROVE  claim'[k].basis = queue'[q].scored
  <2>1. queue' = queue
    BY <1>4 DEF ScorePersists
  <2>2. CASE claim'[k] = claim[k]
    BY <1>2, <2>1, <2>2 DEF Standing
  <2>3. CASE claim'[k] # claim[k]
    <3>1. /\ j = k /\ Unchanged(s, k[1]) /\ StatusOf(k[1], k[2]) \notin Decided
          /\ claim'[k].basis = scorer[s].snap[k[1]]
          /\ IF claim[k] = NoClaim THEN FreshId(claim'[k].id) ELSE claim'[k].id = claim[k].id
      BY <1>2, <1>4, <2>1, <2>3, Tables DEF ScorePersists, ClaimTable
    <3>2. queue[q].id \in UsedIds
      BY <1>2, <2>1 DEF UsedIds
    <3>3. claim[k] # NoClaim /\ claim'[k].id = claim[k].id
      BY <1>2, <2>1, <3>1, <3>2 DEF FreshId
    <3>4. PICK x \in Row, u \in Person : k = <<x, u>>
      BY <1>2, <2>1
    <3>5. Standing(claim, k)
      BY <3>1, <3>3, <3>4, Tables DEF Standing, StatusOf, Decided, ClaimTable, ClaimRow
    <3>6. claim[k].basis = BasisOf(x)
      <4>1. RowSound(author, claim, x)
        BY Tables
      <4> QED
        BY <3>4, <3>5, <4>1 DEF RowSound, BasisOf
    <3>7. claim[k].id = queue[q].id
      BY <1>2, <2>1, <3>3
    <3> QED
      BY <1>2, <2>1, <3>1, <3>4, <3>5, <3>6, <3>7 DEF Unchanged, PagesHold
  <2> QED
    BY <2>2, <2>3
<1>5. ASSUME NEW p \in Queue,
             (\E x \in Row : QueueReads(p, x)) \/ (\E u \in Person : QueueShows(p, u))
      PROVE  claim'[k].basis = queue'[q].scored
  <2>1. claim' = claim
    BY <1>5 DEF QueueReads, QueueShows
  <2>2. CASE p = q
    <3>1. PICK u \in Person : QueueShows(q, u)
      BY <1>1, <1>5, <2>2 DEF QueueReads
    <3> DEFINE x == queue[q].row
    <3>2. queue'[q] = [row |-> x, seen |-> queue[q].seen, person |-> u,
                       id |-> claim[<<x, u>>].id, scored |-> claim[<<x, u>>].basis,
                       torn |-> BasisOf(x) # queue[q].seen]
      BY <1>1, <3>1 DEF QueueShows
    <3> HIDE DEF x
    <3> QED
      BY <2>1, <3>2
  <2>3. CASE p # q
    <3>1. queue'[q] = queue[q]
      BY <1>1, <1>5, <2>3 DEF QueueReads, QueueShows
    <3> QED
      BY <1>2, <2>1, <3>1
  <2> QED
    BY <2>2, <2>3
<1>6. ASSUME NEW p \in Queue, ApproveSuggestion(p) \/ RejectSuggestion(p) \/ QueueEnds(p)
      PROVE  queue'[q] = queue[q]
  BY <1>1, <1>6 DEF ApproveSuggestion, RejectSuggestion, QueueEnds
<1>7. NoneAdded(claim, claim)
  BY DEF NoneAdded
<1>8. CASE \/ \E p \in Pub, names \in NameList : CreatePublication(p, names)
           \/ \E p \in Pub, names \in NameList : UpdatePublication(p, names)
           \/ \E p \in Pub : DeletePublication(p)
           \/ \E e \in Edit, name \in Name, pub \in Pub, credit \in Credit :
                AdminEdits(e, name, pub, credit)
           \/ \E e \in Edit, u \in Person : SelfClaims(e, u)
           \/ \E e \in Edit : AdminDeletes(e)
           \/ \E r \in Row, name \in Name, pub \in Pub, credit \in Credit :
                AdminCreates(r, name, pub, credit)
           \/ \E s \in Scorer : ScoreWithdraws(s)
  <2>1. NoneAdded(claim, claim')
    BY <1>8, WritersAddNone
  <2>2. queue' = queue
    BY <1>8, WritersLeavePages
  <2> QED
    BY <1>3, <2>1, <2>2
<1>9. CASE \E p \in Queue : ApproveSuggestion(p) \/ RejectSuggestion(p)
  <2>1. NoneAdded(claim, claim')
    BY <1>9, WritersAddNone
  <2> QED
    BY <1>3, <1>6, <1>9, <2>1
<1>10. CASE \E p \in Queue : QueueEnds(p)
  <2>1. claim' = claim
    BY <1>10 DEF QueueEnds
  <2> QED
    BY <1>3, <1>6, <1>7, <1>10, <2>1
<1>11. CASE \/ \E e \in Edit : EditEnds(e) \/ \E r \in Row : EditStarts(e, r)
            \/ \E s \in Scorer, ranked \in SUBSET (Row \X Person) : ScoreReadsClaims(s, ranked)
            \/ \E s \in Scorer : ScoreReadsAuthors(s) \/ ScoreDies(s)
            \/ UNCHANGED vars
  <2>1. claim' = claim /\ queue' = queue
    BY <1>11 DEF EditEnds, EditStarts, ScoreReadsClaims, ScoreReadsAuthors, ScoreDies, vars
  <2> QED
    BY <1>3, <1>7, <2>1
<1> QED
  BY <1>4, <1>5, <1>8, <1>9, <1>10, <1>11 DEF Next

\* Whoever approves or rejects from a page decides about the byline and the publication
\* that the score and the reasons on it are for, though the row was edited and scored
\* again meanwhile (_lock_current_suggestion finds the suggestion by its key), and these
\* are the ones the page shows unless the row changed between the page's own queries.
THEOREM QueuePageAlwaysHolds == Spec => []QueuePageHolds
<1>1. Init => PagesHold /\ PagesWhole
  BY DEF Init, PagesHold, PagesWhole, Shown
<1>2. LedgerInv /\ PagesHold /\ PagesWhole => QueuePageHolds
  <2> SUFFICES ASSUME LedgerInv, PagesHold, PagesWhole, NEW q \in Queue, Decidable(q)
               PROVE  /\ queue[q].scored = BasisOf(queue[q].row)
                      /\ queue[q].torn \/ queue[q].seen = queue[q].scored
    BY DEF QueuePageHolds
  <2> DEFINE r == queue[q].row
             u == queue[q].person
  <2>1. /\ r \in Row /\ u \in Person /\ Standing(claim, <<r, u>>)
        /\ claim[<<r, u>>].id = queue[q].id /\ Shown(q)
    BY ShownPage DEF Decidable, Suggested, Standing, LedgerInv, ListInv
  <2>2. claim[<<r, u>>].basis = queue[q].scored
    BY <2>1 DEF PagesHold
  <2>3. queue[q].torn \/ queue[q].seen = queue[q].scored
    BY <2>1 DEF PagesWhole
  <2> HIDE DEF r, u
  <2>4. claim[<<r, u>>].basis = BasisOf(r)
    BY <2>1, Tables DEF RowSound, BasisOf
  <2> QED
    BY <2>2, <2>3, <2>4 DEF r
<1> QED
  BY <1>1, <1>2, PagesKept, PagesStayWhole, LedgerAlways, PTL DEF Spec

-----------------------------------------------------------------------------
(* One row over one step *)

Firm(k) == claim[k] # NoClaim /\ claim[k].status \in Decided

\* The decision on the person the row is credited to does not credit them.  Attribution
\* never leaves such a row; a repair, whose steps Repair adds, can.
Doubtful(x, u) ==
  author[x] # NoRow /\ author[x].credit = u /\ Firm(<<x, u>>) /\ ~Holds(claim, <<x, u>>)

\* A step leaves the row's decisions, but for such a one, and its credit if it has one ...
Grown(x) ==
  /\ author[x] # NoRow /\ author[x].credit \in Person
     => author'[x] # NoRow /\ author'[x].credit = author[x].credit
  /\ \A u \in Person :
       Firm(<<x, u>>) => claim'[<<x, u>>] = claim[<<x, u>>] \/ Doubtful(x, u)

\* ... or records the row as it was.
Kept(x) == Grown(x) \/ (x \in Live /\ SnapshotOf(x) \in recorded')

LEMMA ListTables ==
  ASSUME ListInv
  PROVE  /\ authors \in ListTable /\ author \in AuthorTable /\ claim \in ClaimTable /\ ListInv
         /\ \A x \in Row, u \in Person : claim[<<x, u>>] # NoClaim => author[x] # NoRow
BY DEF ListInv, ClaimsHaveRows, TypeOK, ListTable, AuthorTable, ClaimTable

\* The ledger has no doubtful decision.
LEMMA NoneDoubtful ==
  ASSUME LedgerInv, NEW x \in Row, NEW u \in Person
  PROVE  ~Doubtful(x, u)
BY Tables DEF Doubtful, RowSound

LEMMA NoHistoryGrows == ASSUME NEW x \in Row, ~HasHistory(x) PROVE Grown(x)
BY DEF Grown, Firm, HasHistory, HasDecision, StatusOf

LEMMA AbsentGrows == ASSUME ListInv, NEW x \in Row, author[x] = NoRow PROVE Grown(x)
BY ListTables DEF Grown, Firm

LEMMA SteadyGrows == ASSUME UNCHANGED <<author, claim>>, NEW x \in Row PROVE Grown(x)
BY DEF Grown

\* A save leaves the other rows' credits alone, so with their claims they grow.
LEMMA OthersGrow ==
  ASSUME ListInv, NEW r \in Row, NEW row, AlikeButOrder(author', [author EXCEPT ![r] = row]),
         NEW x \in Row, x # r, \A u \in Person : claim'[<<x, u>>] = claim[<<x, u>>]
  PROVE  Grown(x)
<1>1. [author EXCEPT ![r] = row][x] = author[x]
  BY ListTables DEF AuthorTable
<1> QED
  BY <1>1 DEF AlikeButOrder, Grown

-----------------------------------------------------------------------------
(* One lemma for each kind of step *)

LEMMA CreateKeepsRows ==
  ASSUME ListInv, NEW p \in Pub, NEW names \in NameList, CreatePublication(p, names),
         NEW x \in Row
  PROVE  Kept(x)
<1>1. PICK slots \in [DOMAIN names -> FreshRow] : author' = ListWritten(p, slots, names, {})
  BY DEF CreatePublication
<1>2. claim' = claim
  BY DEF CreatePublication
<1>3. CASE x \in Listed(slots)
  <2>1. author[x] = NoRow
    BY <1>3 DEF Listed, FreshRow, Live
  <2> QED
    BY <2>1, AbsentGrows DEF Kept
<1>4. CASE x \notin Listed(slots)
  BY <1>1, <1>2, <1>4 DEF ListWritten, Kept, Grown
<1> QED
  BY <1>3, <1>4

\* A list edit renames or deletes only rows without history.
LEMMA UpdateKeepsRows ==
  ASSUME ListInv, NEW p \in Pub, NEW names \in NameList, UpdatePublication(p, names),
         NEW x \in Row
  PROVE  Kept(x)
<1> DEFINE before == authors[p]
           reused == Reused(names, before)
           kept   == ExactMatch(names, before) \cup reused
           wiped  == {before[m[2]] : m \in reused}
<1>1. p \in LivePub /\ \A j \in LeftOver(names, before) : ~HasHistory(before[j])
  BY DEF UpdatePublication
<1>2. PICK slots \in [DOMAIN names -> FreshRow \cup Listed(before)] :
        /\ FillsSlots(slots, before, kept)
        /\ WritesList(p, slots, names, Listed(before))
        /\ claim' = Cascade(Withdraw(claim, wiped, {}), Listed(before) \ Listed(slots))
  BY DEF UpdatePublication, WritesList
<1>3. Listed(before) = RowsOf(p) /\ Distinct(slots)
  BY <1>1, <1>2, LiveList, ListTables DEF FillsSlots, Distinct
<1>4. ASSUME NEW u \in Person, x \notin Listed(before) \ Listed(slots), Firm(<<x, u>>)
      PROVE  claim'[<<x, u>>] = claim[<<x, u>>]
  <2>1. Withdraw(claim, wiped, {})[<<x, u>>] =
          IF x \in wiped /\ Standing(claim, <<x, u>>) THEN NoClaim ELSE claim[<<x, u>>]
    BY WithdrawnClaims
  <2>2. ~Standing(claim, <<x, u>>)
    BY <1>4 DEF Firm, Standing, Decided
  <2> DEFINE less == Withdraw(claim, wiped, {})
             gone == Listed(before) \ Listed(slots)
  <2>3. claim' = Cascade(less, gone) /\ x \notin gone /\ less[<<x, u>>] = claim[<<x, u>>]
    BY <1>2, <1>4, <2>1, <2>2
  <2> HIDE DEF less, gone
  <2> QED
    BY <2>3, CascadedClaims
<1>5. CASE x \in Listed(before) \ Listed(slots)
  <2>1. PICK j \in DOMAIN before : x = before[j]
    BY <1>5 DEF Listed
  <2>2. j \in LeftOver(names, before)
    <3>1. ASSUME NEW m \in ExactMatch(names, before), m[2] = j PROVE FALSE
      <4>1. m \in kept /\ m[1] \in DOMAIN names
        BY <3>1 DEF ExactMatch
      <4>2. slots[m[1]] = before[m[2]]
        BY <1>2, <4>1 DEF FillsSlots
      <4>3. slots[m[1]] \in Listed(slots)
        BY <4>1 DEF Listed
      <4> QED
        BY <1>5, <2>1, <3>1, <4>2, <4>3
    <3> QED
      BY <2>1, <3>1 DEF LeftOver
  <2> QED
    BY <1>1, <2>1, <2>2, NoHistoryGrows DEF Kept
<1>6. CASE x \notin Listed(before) /\ author[x] # NoRow
  <2>1. x \notin Listed(slots)
    BY <1>6 DEF Listed, FreshRow, Live
  <2>2. author'[x] = author[x]
    BY <1>2, <1>6, <2>1 DEF WritesList, ListWritten
  <2> QED
    BY <1>4, <1>6, <2>2 DEF Kept, Grown
<1>7. CASE x \in Listed(before) /\ x \in Listed(slots)
  <2>1. author'[x].credit = author[x].credit
    BY <1>2, <1>7 DEF WritesList, ListWritten
  <2>2. author'[x] # NoRow
    <3>1. TypeOK /\ MembershipConsistent /\ author[x] # NoRow
      BY <1>3, <1>7, ListTables DEF ListInv, RowsOf, Live
    <3> QED
      BY <1>2, <1>3, <1>7, <3>1, WrittenList
  <2> QED
    BY <1>4, <1>7, <2>1, <2>2 DEF Kept, Grown
<1>8. CASE x \notin Listed(before) /\ author[x] = NoRow
  BY <1>8, AbsentGrows DEF Kept
<1> QED
  BY <1>5, <1>6, <1>7, <1>8

LEMMA DeleteKeepsRows ==
  ASSUME ListInv, NEW p \in Pub, DeletePublication(p), NEW x \in Row
  PROVE  Kept(x)
<1> DEFINE rows == {r \in Live : author[r].pub = p}
<1>1. /\ author' = [r \in Row |-> IF r \in rows THEN NoRow ELSE author[r]]
      /\ claim' = Cascade(claim, rows)
      /\ recorded' = {SnapshotOf(r) : r \in {y \in rows : HasHistory(y)}}
  BY DEF DeletePublication
<1>2. CASE x \in rows /\ HasHistory(x)
  BY <1>1, <1>2 DEF Kept
<1>3. CASE x \in rows /\ ~HasHistory(x)
  BY <1>3, NoHistoryGrows DEF Kept
<1>4. CASE x \notin rows
  <2> HIDE DEF rows
  <2>1. \A u \in Person : claim'[<<x, u>>] = claim[<<x, u>>]
    BY <1>1, <1>4, CascadedClaims
  <2> QED
    BY <1>1, <1>4, <2>1 DEF Kept, Grown
<1> QED
  BY <1>2, <1>3, <1>4

LEMMA AdminEditKeepsRows ==
  ASSUME ListInv, NEW e \in Edit, NEW name \in Name, NEW pub \in Pub, NEW credit \in Credit,
         AdminEdits(e, name, pub, credit), NEW x \in Row
  PROVE  Kept(x)
<1> DEFINE r     == edit[e].row
           new   == [author[r] EXCEPT !.name = name, !.pub = pub, !.credit = credit]
           moved == IF Moves(r, name, pub) THEN Withdraw(claim, {r}, {}) ELSE claim
<1>1. /\ r \in Live /\ edit[e].pub \in LivePub /\ author[r].pub = edit[e].pub
      /\ pub \in LivePub
  BY RelockedRow, ListTables DEF AdminEdits
<1>2. /\ r \in Row /\ new \in AuthorRow /\ new.pub = pub /\ new.credit = credit
      /\ author[r] # NoRow
  BY <1>1, LiveRow, ListTables DEF AuthorRow, Live
<1>3. PICK position \in 0..Room(r, pub) : SaveAuthor(r, new, edit[e].pub, position)
  BY DEF AdminEdits
<1>4. AlikeButOrder(author', [author EXCEPT ![r] = new])
  <2> HIDE DEF r, new
  <2> QED
    BY <1>1, <1>2, <1>3, SavedRow, ListTables DEF ListInv
<1>5. PICK id \in ClaimId :
        claim' = IF ~Attributes(r, credit) THEN moved
                 ELSE Withdraw(IF credit \in Person
                               THEN Record(moved, r, credit, "approved", "admin", id)
                               ELSE moved, {r}, {})
  BY DEF AdminEdits
<1>6. recorded' = IF Corrects(r, name, pub, credit) THEN {SnapshotOf(r)} ELSE {}
  BY DEF AdminEdits
<1>7. CASE x = r /\ Corrects(r, name, pub, credit)
  BY <1>1, <1>6, <1>7 DEF Kept
<1>8. CASE x = r /\ ~Corrects(r, name, pub, credit)
  <2>1. CASE ~HasHistory(r)
    BY <1>8, <2>1, NoHistoryGrows, <1>2 DEF Kept
  <2>2. CASE ~Moves(r, name, pub) /\ ~Attributes(r, credit)
    <3>1. claim' = claim
      BY <1>5, <2>2
    <3>2. author[r].credit \in Person => credit = author[r].credit
      BY <2>2, Constants DEF Attributes, Credited
    <3>3. author'[r] # NoRow /\ author'[r].credit = credit
      <4> HIDE DEF r, new
      <4>1. [author EXCEPT ![r] = new][r] = new
        BY <1>2, ListTables DEF AuthorTable
      <4> QED
        BY <1>2, <1>4, <4>1, Absences DEF AlikeButOrder
    <3> QED
      BY <1>8, <3>1, <3>2, <3>3 DEF Kept, Grown
  <2> QED
    BY <1>8, <2>1, <2>2 DEF Corrects
<1>9. CASE x # r
  <2> DEFINE R     == {r}
             none  == {}
             noted == IF credit \in Person
                      THEN Record(moved, r, credit, "approved", "admin", id) ELSE moved
  <2>1. /\ moved = IF Moves(r, name, pub) THEN Withdraw(claim, R, none) ELSE claim
        /\ claim' = IF ~Attributes(r, credit) THEN moved ELSE Withdraw(noted, R, none)
        /\ x \notin R
    BY <1>5, <1>9
  <2>2. \A u \in Person : moved[<<x, u>>] = claim[<<x, u>>]
    <3> HIDE DEF moved, r, R, none
    <3> QED
      BY <2>1, WithdrawnClaims
  <2>3. \A u \in Person : noted[<<x, u>>] = moved[<<x, u>>]
    <3>1. moved \in ClaimTable
      BY WithdrawnTable, ListTables
    <3> HIDE DEF moved, r
    <3>2. CASE credit \in Person
      <4>1. /\ Holds(Record(moved, r, credit, "approved", "admin", id), <<r, credit>>)
            /\ \A k \in Row \X Person : k # <<r, credit>> =>
                 Record(moved, r, credit, "approved", "admin", id)[k] = moved[k]
        BY <1>2, <3>1, <3>2, RecordedClaims DEF Crediting
      <4> QED
        BY <1>9, <3>2, <4>1
    <3> QED
      BY <3>2
  <2>4. \A u \in Person : claim'[<<x, u>>] = claim[<<x, u>>]
    <3> HIDE DEF moved, noted, r, R, none
    <3> QED
      BY <2>1, <2>2, <2>3, WithdrawnClaims
  <2> HIDE DEF r, new
  <2> QED
    BY <1>2, <1>4, <1>9, <2>4, OthersGrow DEF Kept
<1> QED
  BY <1>7, <1>8, <1>9

\* Claiming one's own row again changes nothing when its claim already credits them.
LEMMA SelfClaimKeepsRows ==
  ASSUME ListInv, NEW e \in Edit, NEW u \in Person, SelfClaims(e, u), NEW x \in Row
  PROVE  Kept(x)
<1> DEFINE r     == edit[e].row
           new   == [author[r] EXCEPT !.credit = u]
           noted == Record(claim, r, u, "self_asserted", "self", 0)
<1>1. /\ r \in Live /\ r \in Row /\ author[r].pub \in LivePub
      /\ author[r].pub = edit[e].pub /\ new \in AuthorRow /\ new.pub = author[r].pub
      /\ \E position \in 0..Room(r, author[r].pub) : SaveAuthor(r, new, edit[e].pub, position)
  BY SelfClaimSaves, ListTables
<1>2. PICK id \in ClaimId :
        claim' = Withdraw(Record(claim, r, u, "self_asserted", "self", id), {r}, {u})
  BY DEF SelfClaims
<1>3. recorded' = IF Corrects(r, author[r].name, author[r].pub, u)
                  THEN {SnapshotOf(r)} ELSE {}
  BY DEF SelfClaims
<1>4. new.credit = u
  BY <1>1, ListTables DEF AuthorRow, Live, AuthorTable
<1> HIDE DEF noted, r, new
<1> DEFINE after == Record(claim, r, u, "self_asserted", "self", id)
<1>5. /\ Holds(after, <<r, u>>)
      /\ \A k \in Row \X Person : k # <<r, u>> => after[k] = claim[k]
  BY <1>1, RecordedClaims, ListTables DEF Crediting
<1>6. claim' = Withdraw(after, {r}, {u})
  BY <1>2
<1>7. ASSUME Holds(claim, <<r, u>>) PROVE after = claim
  BY <1>7 DEF Record, Holds
<1> HIDE DEF after
<1>8. ASSUME NEW v \in Person
      PROVE  claim'[<<x, v>>] =
               IF x = r /\ v # u /\ Standing(after, <<x, v>>) THEN NoClaim ELSE after[<<x, v>>]
  <2> DEFINE R    == {r}
             keep == {u}
  <2>1. claim' = Withdraw(after, R, keep) /\ (x \in R <=> x = r) /\ (v \in keep <=> v = u)
    BY <1>6
  <2> HIDE DEF R, keep
  <2>2. Withdraw(after, R, keep)[<<x, v>>] =
          IF x \in R /\ v \notin keep /\ Standing(after, <<x, v>>) THEN NoClaim
          ELSE after[<<x, v>>]
    BY WithdrawnClaims
  <2> QED
    BY <2>1, <2>2
<1>9. AlikeButOrder(author', [author EXCEPT ![r] = new])
  BY <1>1, SavedRow, ListTables DEF ListInv
<1>10. CASE x # r
  <2>1. \A v \in Person : claim'[<<x, v>>] = claim[<<x, v>>]
    BY <1>5, <1>8, <1>10
  <2> QED
    BY <1>1, <1>9, <1>10, <2>1, OthersGrow DEF Kept
<1>11. CASE x = r /\ Corrects(r, author[r].name, author[r].pub, u)
  BY <1>1, <1>3, <1>11 DEF Kept
<1>12. CASE x = r /\ ~HasHistory(r)
  BY <1>1, <1>12, NoHistoryGrows DEF Kept
<1>13. CASE x = r /\ ~Attributes(r, u)
  <2>1. author[r].credit = u
    BY <1>13, Constants DEF Attributes, Credited
  <2>2. ASSUME NEW v \in Person, Firm(<<r, v>>)
        PROVE  claim'[<<r, v>>] = claim[<<r, v>>] \/ Doubtful(r, v)
    <3>1. CASE v # u
      <4>1. after[<<r, v>>] = claim[<<r, v>>]
        BY <1>1, <1>5, <3>1
      <4> QED
        BY <1>8, <1>13, <2>2, <4>1 DEF Firm, Standing, Decided
    <3>2. CASE v = u /\ Holds(claim, <<r, u>>)
      BY <1>7, <1>8, <1>13, <3>2
    <3>3. CASE v = u /\ ~Holds(claim, <<r, u>>)
      BY <1>1, <2>1, <2>2, <3>3 DEF Doubtful, Live
    <3> QED
      BY <3>1, <3>2, <3>3
  <2>3. author'[r] # NoRow /\ author'[r].credit = u
    <3>1. [author EXCEPT ![r] = new][r] = new /\ new # NoRow
      BY <1>1, Absences, ListTables DEF AuthorTable
    <3> QED
      BY <1>1, <1>4, <1>9, <3>1 DEF AlikeButOrder
  <2> QED
    BY <1>13, <2>1, <2>2, <2>3 DEF Kept, Grown
<1> QED
  BY <1>10, <1>11, <1>12, <1>13 DEF Corrects

LEMMA AdminDeleteKeepsRows ==
  ASSUME ListInv, NEW e \in Edit, AdminDeletes(e), NEW x \in Row
  PROVE  Kept(x)
<1> DEFINE r == edit[e].row
           p == author[r].pub
           list == Without(authors[p], r)
<1>1. r \in Live /\ r \in Row /\ p = edit[e].pub
  BY RelockedRow, ListTables DEF AdminDeletes, Live
<1>2. DeletesRow(r, p, list)
  BY <1>1 DEF AdminDeletes, DeletesRow
<1>3. AlikeButOrder(author', [author EXCEPT ![r] = NoRow])
  <2> HIDE DEF r, p, list
  <2>1. p = author[r].pub /\ list = Without(authors[p], r)
    BY DEF p, list
  <2> QED
    BY <1>1, <1>2, <2>1, DeletedRow, ListTables DEF ListInv
<1>4. /\ claim' = Cascade(claim, {r})
      /\ recorded' = IF HasHistory(r) THEN {SnapshotOf(r)} ELSE {}
  BY DEF AdminDeletes
<1> HIDE DEF r, p, list
<1>5. CASE x # r
  <2>1. ASSUME NEW u \in Person PROVE claim'[<<x, u>>] = claim[<<x, u>>]
    <3>1. Cascade(claim, {r})[<<x, u>>] = IF x \in {r} THEN NoClaim ELSE claim[<<x, u>>]
      BY CascadedClaims
    <3> QED
      BY <1>4, <1>5, <3>1
  <2> QED
    BY <1>1, <1>3, <1>5, <2>1, OthersGrow DEF Kept
<1>6. CASE x = r
  BY <1>1, <1>4, <1>6, NoHistoryGrows DEF Kept
<1> QED
  BY <1>5, <1>6

LEMMA AdminCreateKeepsRows ==
  ASSUME ListInv, NEW r \in Row, NEW name \in Name, NEW pub \in Pub, NEW credit \in Credit,
         AdminCreates(r, name, pub, credit), NEW x \in Row
  PROVE  Kept(x)
<1> DEFINE new == [name |-> name, pub |-> pub, credit |-> credit, order |-> 0]
<1>1. /\ r \notin Live /\ pub \in LivePub /\ new \in AuthorRow /\ new.pub = pub
      /\ author[r] = NoRow
  BY DEF AdminCreates, FreshRow, AuthorRow, Live
<1>2. PICK position \in 0..Room(r, pub) : SaveAuthor(r, new, pub, position)
  BY DEF AdminCreates
<1>3. PICK id \in ClaimId :
        claim' = IF credit \in Person
                 THEN Record(claim, r, credit, "approved", "admin", id) ELSE claim
  BY DEF AdminCreates
<1> HIDE DEF new
<1>4. AlikeButOrder(author', [author EXCEPT ![r] = new])
  BY <1>1, <1>2, SavedRow, ListTables DEF ListInv
<1>5. CASE x # r
  <2>1. \A u \in Person : claim'[<<x, u>>] = claim[<<x, u>>]
    <3>1. CASE credit \in Person
      <4>1. /\ Holds(Record(claim, r, credit, "approved", "admin", id), <<r, credit>>)
            /\ \A k \in Row \X Person : k # <<r, credit>> =>
                 Record(claim, r, credit, "approved", "admin", id)[k] = claim[k]
        BY <1>1, <3>1, RecordedClaims, ListTables DEF Crediting
      <4> QED
        BY <1>3, <1>5, <3>1, <4>1
    <3> QED
      BY <1>3, <3>1
  <2> QED
    BY <1>4, <1>5, <2>1, OthersGrow DEF Kept
<1>6. CASE x = r
  BY <1>1, <1>6, AbsentGrows DEF Kept
<1> QED
  BY <1>5, <1>6

\* The queue decides suggestions, never a decided claim, and credits nobody over
\* somebody else.
LEMMA QueueKeepsRows ==
  ASSUME ListInv, NEW q \in Queue,
         \/ \E r \in Row : QueueReads(q, r)
         \/ \E u \in Person : QueueShows(q, u)
         \/ ApproveSuggestion(q)
         \/ RejectSuggestion(q)
         \/ QueueEnds(q),
         NEW x \in Row
  PROVE  Kept(x)
<1> DEFINE r == queue[q].row
           u == queue[q].person
<1>1. CASE \/ \E y \in Row : QueueReads(q, y)
           \/ \E v \in Person : QueueShows(q, v)
           \/ QueueEnds(q)
  BY <1>1, SteadyGrows DEF QueueReads, QueueShows, QueueEnds, Kept
<1>2. ASSUME Decidable(q)
      PROVE  r \in Row /\ u \in Person /\ Standing(claim, <<r, u>>) /\ author[r] # NoRow
  BY <1>2, ShownPage DEF Decidable, Suggested, Standing, Live, ListInv
<1>3. ASSUME NEW status \in Decided, Decidable(q), NEW v \in Person, Firm(<<x, v>>)
      PROVE  Decide(claim, r, u, status)[<<x, v>>] = claim[<<x, v>>]
  <2>1. /\ r \in Row /\ u \in Person /\ claim[<<r, u>>] # NoClaim /\ <<x, v>> # <<r, u>>
        /\ claim \in ClaimTable
    BY <1>2, <1>3, ListTables DEF Firm, Standing, Decided
  <2> HIDE DEF r, u
  <2> QED
    BY <2>1, DecidedClaims
<1>4. CASE ApproveSuggestion(q)
  <2> DEFINE R       == {r}
             keep    == {u}
             decided == Decide(claim, r, u, "approved")
  <2>1. /\ Decidable(q) /\ author' = [author EXCEPT ![r].credit = u]
        /\ author[r].credit \in Unclaimed \cup {u}
        /\ claim' = Withdraw(decided, R, keep) /\ "approved" \in Decided
    BY <1>4 DEF ApproveSuggestion, Decided, Status
  <2>2. ASSUME NEW v \in Person, Firm(<<x, v>>) PROVE claim'[<<x, v>>] = claim[<<x, v>>]
    <3>1. decided[<<x, v>>] = claim[<<x, v>>]
      BY <1>3, <2>1, <2>2
    <3>2. ~Standing(decided, <<x, v>>)
      BY <2>2, <3>1 DEF Standing, Firm, Decided
    <3>3. claim' = Withdraw(decided, R, keep)
      BY <2>1
    <3> HIDE DEF decided, R, keep
    <3>4. Withdraw(decided, R, keep)[<<x, v>>] =
            IF x \in R /\ v \notin keep /\ Standing(decided, <<x, v>>) THEN NoClaim
            ELSE decided[<<x, v>>]
      BY WithdrawnClaims
    <3> QED
      BY <3>1, <3>2, <3>3, <3>4
  <2>3. author[x] # NoRow /\ author[x].credit \in Person
        => author'[x] # NoRow /\ author'[x].credit = author[x].credit
    <3>1. author[r] \in AuthorRow /\ r \in Row
      BY <1>2, <2>1, ListTables DEF AuthorTable
    <3>2. /\ author'[r] \in AuthorRow /\ author'[r].credit = u
          /\ \A y \in Row \ {r} : author'[y] = author[y]
      BY <1>2, <2>1, <3>1, ListTables DEF AuthorTable, AuthorRow, Credit
    <3>3. author[r].credit \in Person => author[r].credit = u
      BY <2>1, Constants
    <3> QED
      BY <3>2, <3>3, Absences
  <2> QED
    BY <2>2, <2>3 DEF Kept, Grown
<1>5. CASE RejectSuggestion(q)
  <2>1. /\ Decidable(q) /\ author' = author /\ claim' = Decide(claim, r, u, "rejected")
        /\ "rejected" \in Decided
    BY <1>5 DEF RejectSuggestion, Decided, Status
  <2> QED
    BY <1>3, <2>1 DEF Kept, Grown
<1> QED
  BY <1>1, <1>4, <1>5

\* The scorer writes and deletes suggestions only.
LEMMA ScorerKeepsRows ==
  ASSUME ListInv, NEW s \in Scorer,
         \/ ScoreReadsAuthors(s)
         \/ \E ranked \in SUBSET (Row \X Person) : ScoreReadsClaims(s, ranked)
         \/ \E k \in Row \X Person : ScorePersists(s, k)
         \/ ScoreWithdraws(s)
         \/ ScoreDies(s),
         NEW x \in Row
  PROVE  Kept(x)
<1>1. CASE \/ ScoreReadsAuthors(s)
           \/ \E ranked \in SUBSET (Row \X Person) : ScoreReadsClaims(s, ranked)
           \/ ScoreDies(s)
  BY <1>1, SteadyGrows DEF ScoreReadsAuthors, ScoreReadsClaims, ScoreDies, Kept
<1>2. ASSUME NEW k \in Row \X Person, ScorePersists(s, k) PROVE Kept(x)
  <2>1. PICK r \in Row, u \in Person : k = <<r, u>>
    OBVIOUS
  <2>2. author' = author
    BY <1>2 DEF ScorePersists
  <2>3. CASE StatusOf(k[1], k[2]) \notin Decided
    <3>1. \A y \in Row \X Person : y # k => claim'[y] = claim[y]
      BY <1>2, ListTables DEF ScorePersists, ClaimTable
    <3>2. ~Firm(k)
      BY <2>1, <2>3 DEF Firm, StatusOf
    <3> QED
      BY <2>2, <3>1, <3>2 DEF Kept, Grown
  <2>4. CASE StatusOf(k[1], k[2]) \in Decided
    <3>1. claim' = claim
      BY <1>2, <2>4 DEF ScorePersists
    <3> QED
      BY <2>2, <3>1, SteadyGrows DEF Kept
  <2> QED
    BY <2>3, <2>4
<1>3. CASE ScoreWithdraws(s)
  <2>1. author' = author /\ \A k \in Row \X Person : ~Suggested(k) => claim'[k] = claim[k]
    BY <1>3 DEF ScoreWithdraws
  <2> QED
    BY <2>1 DEF Kept, Grown, Firm, Suggested, Decided
<1> QED
  BY <1>1, <1>2, <1>3

LEMMA StepKeepsRows ==
  ASSUME ListInv, [Next]_vars, NEW x \in Row
  PROVE  Kept(x)
<1>1. ASSUME NEW p \in Pub, NEW names \in NameList,
             CreatePublication(p, names) \/ UpdatePublication(p, names)
      PROVE  Kept(x)
  BY <1>1, CreateKeepsRows, UpdateKeepsRows
<1>2. ASSUME NEW p \in Pub, DeletePublication(p) PROVE Kept(x)
  BY <1>2, DeleteKeepsRows
<1>3. ASSUME NEW e \in Edit, EditEnds(e) \/ \E r \in Row : EditStarts(e, r) PROVE Kept(x)
  BY <1>3, SteadyGrows DEF EditStarts, EditEnds, Kept
<1>4. ASSUME NEW e \in Edit, NEW name \in Name, NEW pub \in Pub, NEW credit \in Credit,
             AdminEdits(e, name, pub, credit)
      PROVE  Kept(x)
  BY <1>4, AdminEditKeepsRows
<1>5. ASSUME NEW e \in Edit, NEW u \in Person, SelfClaims(e, u) PROVE Kept(x)
  BY <1>5, SelfClaimKeepsRows
<1>6. ASSUME NEW e \in Edit, AdminDeletes(e) PROVE Kept(x)
  BY <1>6, AdminDeleteKeepsRows
<1>7. ASSUME NEW r \in Row, NEW name \in Name, NEW pub \in Pub, NEW credit \in Credit,
             AdminCreates(r, name, pub, credit)
      PROVE  Kept(x)
  BY <1>7, AdminCreateKeepsRows
<1>8. ASSUME NEW q \in Queue,
             \/ \E r \in Row : QueueReads(q, r)
             \/ \E u \in Person : QueueShows(q, u)
             \/ ApproveSuggestion(q)
             \/ RejectSuggestion(q)
             \/ QueueEnds(q)
      PROVE  Kept(x)
  BY <1>8, QueueKeepsRows
<1>9. ASSUME NEW s \in Scorer,
             \/ ScoreReadsAuthors(s)
             \/ \E ranked \in SUBSET (Row \X Person) : ScoreReadsClaims(s, ranked)
             \/ \E k \in Row \X Person : ScorePersists(s, k)
             \/ ScoreWithdraws(s)
             \/ ScoreDies(s)
      PROVE  Kept(x)
  BY <1>9, ScorerKeepsRows
<1>10. CASE UNCHANGED vars
  BY <1>10, SteadyGrows DEF vars, Kept
<1> QED
  BY <1>1, <1>2, <1>3, <1>4, <1>5, <1>6, <1>7, <1>8, <1>9, <1>10 DEF Next

-----------------------------------------------------------------------------
(* The theorems *)

\* What a row that is kept says of a decision on it, and of its credit.
LEMMA KeptDecision ==
  ASSUME NEW r \in Row, NEW u \in Person, StatusOf(r, u) \in Decided, ~Doubtful(r, u), Kept(r)
  PROVE  DecisionKept(r, u)
<1>1. Firm(<<r, u>>)
  BY DEF Firm, StatusOf, Decided, Status
<1>2. CASE Grown(r)
  <2>1. claim'[<<r, u>>] = claim[<<r, u>>]
    BY <1>1, <1>2 DEF Grown
  <2> QED
    BY <2>1 DEF DecisionKept, StatusOf
<1>3. CASE SnapshotOf(r) \in recorded'
  <2>1. SnapshotOf(r).row = r /\ SnapshotOf(r).status[u] = StatusOf(r, u)
    BY DEF SnapshotOf
  <2> QED
    BY <1>3, <2>1 DEF DecisionKept
<1> QED
  BY <1>2, <1>3 DEF Kept

LEMMA KeptCredit ==
  ASSUME NEW r \in Live, author[r].credit \in Person, Kept(r)
  PROVE  \/ r \in Live' /\ author'[r].credit = author[r].credit
         \/ \E c \in recorded' : c.row = r /\ c.credit = author[r].credit
<1>1. CASE Grown(r)
  BY <1>1 DEF Grown, Live
<1>2. CASE SnapshotOf(r) \in recorded'
  BY <1>2 DEF SnapshotOf
<1> QED
  BY <1>1, <1>2 DEF Kept

LEMMA LedgerStarts == Init => L!Init
<1> SUFFICES ASSUME Init PROVE L!Init
  OBVIOUS
<1>1. CreditOf = [r \in Row |-> Null]
  BY DEF Init, CreditOf
<1>2. DecisionsOf = [k \in Row \X Person |-> "none"]
  <2>1. \A k \in Row \X Person : DecisionOf(StatusOf(k[1], k[2])) = "none"
    BY DEF Init, DecisionOf, StatusOf
  <2> QED
    BY <2>1 DEF DecisionsOf
<1>3. CorrectionsOf = {}
  BY DEF Init, CorrectionsOf
<1> QED
  BY <1>1, <1>2, <1>3 DEF L!Init

\* What the mapping makes of a row.
LEMMA RowMapped ==
  ASSUME NEW x \in Row, NEW u \in Person
  PROVE  /\ CreditOf[x] = IF author[x] = NoRow THEN Null ELSE Credited(author[x].credit)
         /\ DecisionsOf[<<x, u>>] =
              IF claim[<<x, u>>] = NoClaim THEN "none" ELSE DecisionOf(claim[<<x, u>>].status)
BY DEF CreditOf, DecisionsOf, StatusOf, DecisionOf

LEMMA MappedAccounted == LedgerInv => L!Accounted
<1> SUFFICES ASSUME LedgerInv, NEW x \in Row, CreditOf[x] # Null
             PROVE  DecisionsOf[<<x, CreditOf[x]>>] \in L!Crediting
  BY DEF L!Accounted
<1>1. /\ author[x] # NoRow /\ author[x].credit \in Person /\ CreditOf[x] = author[x].credit
  BY DEF CreditOf, Credited
<1>2. Holds(claim, <<x, author[x].credit>>)
  BY <1>1, Tables DEF RowSound
<1> QED
  BY <1>1, <1>2, RowMapped DEF Holds, DecisionOf, Crediting, L!Crediting

LEMMA MappedRow ==
  ASSUME LedgerInv, LedgerInv', NEW x \in Row, Kept(x)
  PROVE  L!Grows(x) \/ L!Corrected(x)
<1>1. CASE Grown(x)
  <2>1. ASSUME NEW u \in Person, DecisionsOf[<<x, u>>] # "none"
        PROVE  DecisionsOf'[<<x, u>>] = DecisionsOf[<<x, u>>]
    <3>1. claim[<<x, u>>] # NoClaim /\ claim[<<x, u>>].status # "suggested"
      BY <2>1, RowMapped DEF DecisionOf
    <3>2. claim[<<x, u>>] \in ClaimRow
      BY <3>1, Tables DEF ClaimTable
    <3>3. claim'[<<x, u>>] = claim[<<x, u>>]
      BY <1>1, <3>1, <3>2, NoneDoubtful DEF Grown, Firm, Decided, ClaimRow
    <3>4. DecisionsOf'[<<x, u>>] =
            IF claim'[<<x, u>>] = NoClaim THEN "none" ELSE DecisionOf(claim'[<<x, u>>].status)
      BY DEF DecisionsOf, StatusOf, DecisionOf
    <3> QED
      BY <3>3, <3>4, RowMapped
  <2>2. CreditOf[x] # Null => CreditOf'[x] = CreditOf[x]
    BY <1>1 DEF Grown, CreditOf, Credited
  <2> QED
    BY <2>1, <2>2 DEF L!Grows
<1>2. CASE x \in Live /\ SnapshotOf(x) \in recorded'
  <2> DEFINE c == [row |-> SnapshotOf(x).row, credit |-> Credited(SnapshotOf(x).credit),
                   decision |-> [u \in Person |-> DecisionOf(SnapshotOf(x).status[u])]]
  <2>1. c \in CorrectionsOf'
    BY <1>2 DEF CorrectionsOf
  <2>2. c.row = x /\ c.credit = CreditOf[x]
    BY <1>2 DEF SnapshotOf, CreditOf, Live
  <2>3. \A u \in Person : c.decision[u] = DecisionsOf[<<x, u>>]
    BY DEF SnapshotOf, DecisionsOf
  <2> HIDE DEF c
  <2> QED
    BY <2>1, <2>2, <2>3 DEF L!Corrected
<1> QED
  BY <1>1, <1>2 DEF Kept

\* Attribution implements the ledger: every transaction of every writer, stale readers
\* included, either lets a row's credit and decisions grow or records what they were,
\* and leaves every credit with a decision behind it (claim_ledger, author_mutations,
\* publication_builder, views_claims, score_author_claims).
THEOREM ImplementsLedger == Spec => LedgerKept
<1>1. LedgerInv /\ LedgerInv' /\ [Next]_vars => L!Next
  <2> SUFFICES ASSUME LedgerInv, LedgerInv', [Next]_vars PROVE L!Next
    OBVIOUS
  <2>1. L!Accounted'
    BY MappedAccounted, PTL
  <2>2. \A x \in Row : L!Grows(x) \/ L!Corrected(x)
    BY StepKeepsRows, MappedRow, Tables
  <2> QED
    BY <2>1, <2>2 DEF L!Next
<1> QED
  BY <1>1, LedgerStarts, LedgerAlways, PTL DEF Spec, LedgerKept, L!Spec

\* No decision is lost: whoever writes, a decided claim stands as it is or the row it
\* was on is in a correction of the same transaction (snapshot, delete_publication).
THEOREM DecisionsAlwaysKept == Spec => DecisionsKept
<1>1. LedgerInv /\ [Next]_vars =>
        \A r \in Row, u \in Person : StatusOf(r, u) \in Decided => DecisionKept(r, u)
  <2> SUFFICES ASSUME LedgerInv, [Next]_vars, NEW r \in Row, NEW u \in Person,
                      StatusOf(r, u) \in Decided
               PROVE  DecisionKept(r, u)
    OBVIOUS
  <2>1. ListInv
    BY Tables
  <2> QED
    BY <2>1, StepKeepsRows, KeptDecision, NoneDoubtful
<1> QED
  BY <1>1, LedgerAlways, PTL DEF Spec, DecisionsKept

\* Nobody loses a credit but in a transaction that records the row with their name
\* (approve_suggestion, record_self_claim, update_publication, delete_publication).
THEOREM CreditAlwaysLeavesByCorrection == Spec => CreditLeavesByCorrection
<1>1. ListInv /\ [Next]_vars =>
        \A r \in Live : author[r].credit \in Person =>
          \/ r \in Live' /\ author'[r].credit = author[r].credit
          \/ \E c \in recorded' : c.row = r /\ c.credit = author[r].credit
  BY StepKeepsRows, KeptCredit DEF Live
<1>2. Spec => []ListInv
  BY InvInitially, InvKept, PTL DEF Spec
<1> QED
  BY <1>1, <1>2, PTL DEF Spec, CreditLeavesByCorrection

=============================================================================
