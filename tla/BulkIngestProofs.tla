-------------------------- MODULE BulkIngestProofs --------------------------
(***************************************************************************)
(* Proofs about BulkIngest: the store stays sound, a report is what landed *)
(* and in the order of the document, and a project is asked for once.      *)
(***************************************************************************)
EXTENDS BulkIngest, FiniteSetTheorems, SequenceTheorems, TLAPS

-----------------------------------------------------------------------------
(* A finite set can be arranged in a strict total order, and its arrangement *)
(* takes every member once.                                                  *)

Orders(R, S) ==
  /\ \A x \in S : <<x, x>> \notin R
  /\ \A x, y, z \in S : <<x, y>> \in R /\ <<y, z>> \in R => <<x, z>> \in R
  /\ \A x, y \in S : x # y => <<x, y>> \in R \/ <<y, x>> \in R

IsLast(m, R, S) == m \in S /\ \A x \in S \ {m} : <<x, m>> \in R

IsArrangement(s, R, S) ==
  /\ s \in [1 .. Cardinality(S) -> S]
  /\ \A m, n \in 1 .. Cardinality(S) : m < n => <<s[m], s[n]>> \in R

LEMMA OrdersSubset ==
  ASSUME NEW R, NEW S, NEW T \in SUBSET S, Orders(R, S)
  PROVE  Orders(R, T)
BY DEF Orders

\* The sets a statement about all subsets of a finite set fails for have a least one.
LEMMA LeastSubset ==
  ASSUME NEW S, IsFiniteSet(S), NEW Bad \in SUBSET (SUBSET S), Bad # {}
  PROVE  \E T \in Bad : \A U \in SUBSET T : U # T => U \notin Bad
<1>1. FiniteSubsetsOf(S) = SUBSET S
  BY FS_FiniteSubsetsOfFinite
<1>2. IsWellFoundedOn(StrictSubsetOrdering(S), SUBSET S)
  BY <1>1, FS_StrictSubsetOrderingWellFounded
<1>3. PICK T \in Bad : \A U \in Bad : ~ (<<U, T>> \in StrictSubsetOrdering(S))
  BY <1>2, WFMin
<1>4. ASSUME NEW U \in SUBSET T, U # T, U \in Bad PROVE FALSE
  <2>1. <<U, T>> \in StrictSubsetOrdering(S)
    BY <1>4 DEF StrictSubsetOrdering
  <2> QED
    BY <2>1, <1>3, <1>4
<1> QED
  BY <1>4

LEMMA LastExists ==
  ASSUME NEW R, NEW S, IsFiniteSet(S), Orders(R, S), S # {}
  PROVE  \E m : IsLast(m, R, S)
<1> DEFINE Bad == {T \in SUBSET S : T # {} /\ ~ \E m : IsLast(m, R, T)}
<1>1. SUFFICES Bad = {}
  <2>1. S \in SUBSET S
    OBVIOUS
  <2> QED
    BY <1>1, <2>1
<1>2. SUFFICES ASSUME Bad # {} PROVE FALSE
  OBVIOUS
<1>3. Bad \in SUBSET (SUBSET S)
  OBVIOUS
<1>4. PICK T \in Bad : \A U \in SUBSET T : U # T => U \notin Bad
  <2> HIDE DEF Bad
  <2> QED
    BY <1>2, <1>3, LeastSubset
<1>5. T \in SUBSET S /\ T # {} /\ ~ \E m : IsLast(m, R, T)
  OBVIOUS
<1>6. PICK x : x \in T
  BY <1>5
<1>7. T \ {x} = {} \/ \E m : IsLast(m, R, T \ {x})
  <2>1. T \ {x} \in SUBSET T /\ T \ {x} # T /\ T \ {x} \in SUBSET S
    BY <1>5, <1>6
  <2>2. T \ {x} \notin Bad
    BY <1>4, <2>1
  <2> QED
    BY <2>1, <2>2
<1> HIDE DEF Bad
<1>8. CASE T \ {x} = {}
  BY <1>5, <1>6, <1>8 DEF IsLast
<1>9. ASSUME NEW m, IsLast(m, R, T \ {x}) PROVE FALSE
  <2>1. m \in T /\ m # x /\ m \in S /\ x \in S
    BY <1>5, <1>6, <1>9 DEF IsLast
  <2>2. CASE <<x, m>> \in R
    BY <2>1, <2>2, <1>5, <1>9 DEF IsLast
  <2>3. CASE <<m, x>> \in R
    <3>1. ASSUME NEW y \in T \ {x} PROVE <<y, x>> \in R
      BY <2>1, <2>3, <1>5, <1>9 DEF IsLast, Orders
    <3> QED
      BY <3>1, <1>5, <1>6 DEF IsLast
  <2> QED
    BY <2>1, <2>2, <2>3 DEF Orders
<1> QED
  BY <1>7, <1>8, <1>9

LEMMA ArrangementExists ==
  ASSUME NEW R, NEW S, IsFiniteSet(S), Orders(R, S)
  PROVE  \E s : IsArrangement(s, R, S)
<1> DEFINE Bad == {T \in SUBSET S : ~ \E s : IsArrangement(s, R, T)}
<1>1. SUFFICES Bad = {}
  <2>1. S \in SUBSET S
    OBVIOUS
  <2> QED
    BY <1>1, <2>1
<1>2. SUFFICES ASSUME Bad # {} PROVE FALSE
  OBVIOUS
<1>3. Bad \in SUBSET (SUBSET S)
  OBVIOUS
<1>4. PICK T \in Bad : \A U \in SUBSET T : U # T => U \notin Bad
  <2> HIDE DEF Bad
  <2> QED
    BY <1>2, <1>3, LeastSubset
<1>5. T \in SUBSET S /\ ~ \E s : IsArrangement(s, R, T)
  OBVIOUS
<1>6. IsFiniteSet(T) /\ Orders(R, T)
  BY <1>5, FS_Subset, OrdersSubset
<1>7. T # {}
  <2>1. ASSUME T = {} PROVE FALSE
    <3>1. Cardinality(T) = 0
      BY <2>1, FS_EmptySet
    <3>2. 1 .. Cardinality(T) = {}
      BY <3>1
    <3> DEFINE s == [n \in 1 .. Cardinality(T) |-> n]
    <3>3. s \in [1 .. Cardinality(T) -> T]
      BY <3>2
    <3>4. IsArrangement(s, R, T)
      BY <3>2, <3>3 DEF IsArrangement
    <3> QED
      BY <3>4, <1>5
  <2> QED
    BY <2>1
<1>8. PICK x : IsLast(x, R, T)
  BY <1>6, <1>7, LastExists
<1>9. \E s : IsArrangement(s, R, T \ {x})
  <2>1. T \ {x} \in SUBSET T /\ T \ {x} # T /\ T \ {x} \in SUBSET S
    BY <1>5, <1>8 DEF IsLast
  <2>2. T \ {x} \notin Bad
    BY <1>4, <2>1
  <2> QED
    BY <2>1, <2>2
<1> HIDE DEF Bad
<1>10. PICK s : IsArrangement(s, R, T \ {x})
  BY <1>9
<1> DEFINE c == Cardinality(T \ {x})
<1>11. /\ x \in T /\ c \in Nat /\ Cardinality(T) = c + 1
  <2>1. x \in T
    BY <1>8 DEF IsLast
  <2>2. IsFiniteSet(T \ {x}) /\ c = Cardinality(T) - 1
    BY <2>1, <1>6, FS_RemoveElement
  <2>3. c \in Nat /\ Cardinality(T) \in Nat
    BY <2>2, <1>6, FS_CardinalityType
  <2> QED
    BY <2>1, <2>2, <2>3
<1>12. /\ s \in [1 .. c -> T \ {x}]
       /\ \A m, n \in 1 .. c : m < n => <<s[m], s[n]>> \in R
  BY <1>10 DEF IsArrangement
<1> HIDE DEF c
<1> DEFINE t == [n \in 1 .. (c + 1) |-> IF n = c + 1 THEN x ELSE s[n]]
<1>13. t \in [1 .. (c + 1) -> T]
  <2>1. ASSUME NEW n \in 1 .. (c + 1) PROVE (IF n = c + 1 THEN x ELSE s[n]) \in T
    <3>1. n = c + 1 \/ n \in 1 .. c
      BY <1>11
    <3> QED
      BY <3>1, <1>11, <1>12
  <2> QED
    BY <2>1
<1>14. ASSUME NEW m \in 1 .. (c + 1), NEW n \in 1 .. (c + 1), m < n
       PROVE  <<t[m], t[n]>> \in R
  <2>1. m \in 1 .. c /\ m # c + 1
    BY <1>11, <1>14
  <2>2. t[m] = s[m] /\ s[m] \in T \ {x}
    BY <2>1, <1>12
  <2>3. CASE n = c + 1
    BY <2>2, <2>3, <1>8 DEF IsLast
  <2>4. CASE n # c + 1
    <3>1. n \in 1 .. c
      BY <2>4, <1>11
    <3> QED
      BY <2>1, <2>2, <2>4, <3>1, <1>12, <1>14
  <2> QED
    BY <2>3, <2>4
<1> HIDE DEF t
<1>15. IsArrangement(t, R, T)
  BY <1>11, <1>13, <1>14 DEF IsArrangement
<1> QED
  BY <1>5, <1>15

\* What Arranged returns: the members in order, each once.
LEMMA ArrangedTakesAll ==
  ASSUME NEW R, NEW S, IsFiniteSet(S), Orders(R, S)
  PROVE  LET s == Arranged(S, R)
             D == 1 .. Cardinality(S)
         IN /\ Cardinality(S) \in Nat
            /\ s \in [D -> S]
            /\ \A m, n \in D : m < n => <<s[m], s[n]>> \in R
            /\ \A m, n \in D : s[m] = s[n] => m = n
            /\ \A x \in S : \E n \in D : s[n] = x
<1> DEFINE s == Arranged(S, R)
           D == 1 .. Cardinality(S)
<1>1. Cardinality(S) \in Nat
  BY FS_CardinalityType
<1>2. s \in [D -> S] /\ \A m, n \in D : m < n => <<s[m], s[n]>> \in R
  BY ArrangementExists DEF Arranged, IsArrangement
<1> HIDE DEF s
<1>3. ASSUME NEW m \in D, NEW n \in D, s[m] = s[n] PROVE m = n
  <2>1. <<s[m], s[n]>> \notin R /\ <<s[n], s[m]>> \notin R
    BY <1>2, <1>3 DEF Orders
  <2>2. m \in Int /\ n \in Int
    BY <1>1
  <2>3. ~ (m < n) /\ ~ (n < m)
    BY <2>1, <1>2
  <2> QED
    BY <2>2, <2>3
<1>4. s \in Injection(D, S)
  BY <1>2, <1>3 DEF Injection, IsInjective
<1>5. IsFiniteSet(D) /\ Cardinality(D) = Cardinality(S)
  <2>1. /\ IsFiniteSet(D)
        /\ Cardinality(D) = IF 1 > Cardinality(S) THEN 0 ELSE Cardinality(S) - 1 + 1
    BY <1>1, FS_Interval
  <2> QED
    BY <2>1, <1>1
<1>6. s \in Surjection(D, S)
  <2> HIDE DEF D
  <2> QED
    BY <1>4, <1>5, FS_Injection
<1>7. \A x \in S : \E n \in D : s[n] = x
  BY <1>6 DEF Surjection
<1> QED
  BY <1>1, <1>2, <1>3, <1>7 DEF s

-----------------------------------------------------------------------------
(* The invariant *)

Publications == [key : Key, project : {Null} \cup Project, name : {Null} \cup Name]
Status == {"failed", "created", "skipped"}
Lines  == [item : Nat, position : {Text} \cup Int, status : Status]
Memo   == UNION {[D -> {Null} \cup Name] : D \in SUBSET Project}

Working  == [stage : {"ingesting"}, doc : Document, todo : Seq(Nat \ {0}), memo : Memo,
             results : Seq(Lines)]
Answered == [stage : {"answered"}, doc : Document, results : Seq(Lines)]
Raised   == [stage : {"raised"}, doc : Document]
Ended    == [stage : {"idle", "refused", "died"}]
Progress == Working \cup Answered \cup Raised \cup Ended

TypeOK ==
  /\ DOMAIN store \subseteq Uuid
  /\ store \in [DOMAIN store -> Publications]
  /\ gone \subseteq Uuid
  /\ up \in [Upload -> Progress]
  /\ asked \in [Upload \X Project -> Nat]

\* The results r speak of what was handed over of the document, of each at most once, and
\* a document that does not parse has only failed.
ReportsOn(r, doc) ==
  /\ \A n \in DOMAIN r : /\ r[n].item \in HandedOver(doc)
                         /\ r[n].position = Position(doc, r[n].item)
                         /\ r[n].item = 0 => r[n].status = "failed"
  /\ \A m, n \in DOMAIN r : r[m].item = r[n].item => m = n

\* What is still to do and what is reported share out between them what was handed over.
SharedOut(todo, r, doc) ==
  /\ \A n \in DOMAIN todo : todo[n] \in Readable(doc)
  /\ \A m, n \in DOMAIN todo : todo[m] = todo[n] => m = n
  /\ \A n \in DOMAIN todo, m \in DOMAIN r : todo[n] # r[m].item
  /\ \A i \in HandedOver(doc) : \/ \E n \in DOMAIN todo : todo[n] = i
                                \/ \E m \in DOMAIN r : r[m].item = i
  /\ Len(todo) + Len(r) = Cardinality(HandedOver(doc))

Halfway(u) ==
  up[u].stage = "ingesting" =>
    /\ ReportsOn(up[u].results, up[u].doc)
    /\ SharedOut(up[u].todo, up[u].results, up[u].doc)

Complete(r, doc) ==
  /\ ReportsOn(r, doc)
  /\ Len(r) = Cardinality(HandedOver(doc))
  /\ \A i \in HandedOver(doc) : \E m \in DOMAIN r : r[m].item = i

InOrder(r) == \A m, n \in DOMAIN r : m < n => r[m].item < r[n].item

Reporting(u) ==
  /\ up[u].stage = "answered" =>
       /\ Complete(up[u].results, up[u].doc)
       /\ SelfNumbered(up[u].doc) = {} => InOrder(up[u].results)
  /\ up[u].stage = "raised" => SelfNumbered(up[u].doc) # {}

Stores(u, i) == <<u, i>> \in DOMAIN store \cup gone

Landing(u) ==
  /\ up[u].stage = "idle" => \A id \in DOMAIN store \cup gone : id[1] = u => id[2] = 0
  /\ up[u].stage \in {"ingesting", "answered"} =>
       \A i \in DOMAIN up[u].doc.items :
         Stores(u, i) <=> \E n \in DOMAIN up[u].results :
                            up[u].results[n].item = i /\ up[u].results[n].status = "created"

\* A publication made by a single create has no project.
SinglesBare == \A id \in DOMAIN store : id[2] = 0 => store[id].project = Null

Asking(u) ==
  \A p \in Project :
    /\ asked[<<u, p>>] <= 1
    /\ up[u].stage = "idle" => asked[<<u, p>>] = 0
    /\ up[u].stage = "ingesting" => asked[<<u, p>>] = 0 \/ p \in DOMAIN up[u].memo

AsTold(u) ==
  up[u].stage = "ingesting" =>
    \A id \in DOMAIN store : id[1] = u /\ store[id].project # Null =>
      /\ store[id].project \in DOMAIN up[u].memo
      /\ store[id].name = up[u].memo[store[id].project]

IngestInv ==
  /\ TypeOK
  /\ StoreSound
  /\ SinglesBare
  /\ \A u \in Upload : Halfway(u) /\ Reporting(u) /\ Landing(u) /\ Asking(u) /\ AsTold(u)

-----------------------------------------------------------------------------
(* Documents *)

LEMMA DocumentFacts ==
  ASSUME NEW d \in Document
  PROVE  /\ d.shape \in Shape
         /\ d.items \in Seq(Item)
         /\ Len(d.items) \in Nat
         /\ DOMAIN d.items = 1 .. Len(d.items)
         /\ \A i \in DOMAIN d.items : d.items[i] \in Item
<1>1. d \in [shape : Shape, parses : BOOLEAN, items : Seq(Item)]
  BY Documents
<1> QED
  BY <1>1

\* What the reader hands over is readable or not, and never both.
LEMMA ReadableSplit ==
  ASSUME NEW d \in Document
  PROVE  /\ IsFiniteSet(Readable(d)) /\ IsFiniteSet(Unreadable(d))
         /\ Readable(d) \subseteq DOMAIN d.items
         /\ HandedOver(d) \subseteq DOMAIN d.items \cup {0}
         /\ Readable(d) \cap Unreadable(d) = {}
         /\ HandedOver(d) = Readable(d) \cup Unreadable(d)
         /\ IsFiniteSet(HandedOver(d))
         /\ Cardinality(Readable(d)) \in Nat
         /\ Cardinality(Unreadable(d)) \in Nat
         /\ Cardinality(Readable(d)) + Cardinality(Unreadable(d))
              = Cardinality(HandedOver(d))
<1> DEFINE A == Readable(d)
           B == Unreadable(d)
           D == 0 .. Len(d.items)
<1>1. A \subseteq DOMAIN d.items /\ HandedOver(d) = A \cup B
  BY DEF Readable, HandedOver
<1>2. B \subseteq DOMAIN d.items \cup {0} /\ A \cap B = {}
  BY DEF Readable, Unreadable
<1>3. A \subseteq D /\ B \subseteq D
  BY <1>1, <1>2, DocumentFacts
<1>4. IsFiniteSet(D)
  BY DocumentFacts, FS_Interval
<1> HIDE DEF A, B, D
<1>5. /\ IsFiniteSet(A) /\ IsFiniteSet(B)
      /\ Cardinality(A) \in Nat /\ Cardinality(B) \in Nat
  BY <1>3, <1>4, FS_Subset, FS_CardinalityType
<1>6. Cardinality(A \cap B) = 0
  BY <1>2, FS_EmptySet
<1>7. /\ IsFiniteSet(A \cup B)
      /\ Cardinality(A \cup B) = Cardinality(A) + Cardinality(B) - Cardinality(A \cap B)
  BY <1>5, FS_Union
<1>8. Cardinality(A \cup B) = Cardinality(A) + Cardinality(B)
  BY <1>5, <1>6, <1>7
<1>9. Cardinality(HandedOver(d)) = Cardinality(A) + Cardinality(B) /\ IsFiniteSet(HandedOver(d))
  BY <1>1, <1>7, <1>8, Zenon
<1> QED
  BY <1>1, <1>2, <1>5, <1>9 DEF A, B

LEMMA HandedOverNumbers ==
  ASSUME NEW d \in Document, NEW i \in HandedOver(d)
  PROVE  i \in Nat
BY ReadableSplit, DocumentFacts

\* An index is a number, and goes up with the items.
LEMMA IndexCounts ==
  ASSUME NEW d \in Document, NEW i \in HandedOver(d)
  PROVE  /\ Index(d, i) \in Nat
         /\ \A j \in HandedOver(d) : i < j => Index(d, i) < Index(d, j)
<1> DEFINE Before(x) == {k \in HandedOver(d) : k < x}
<1>1. \A x \in HandedOver(d) : x \in Int
  BY HandedOverNumbers
<1>2. ASSUME NEW x PROVE IsFiniteSet(Before(x)) /\ Cardinality(Before(x)) \in Nat
  <2>1. Before(x) \subseteq HandedOver(d) /\ IsFiniteSet(HandedOver(d))
    BY ReadableSplit
  <2> HIDE DEF Before
  <2> QED
    BY <2>1, FS_Subset, FS_CardinalityType
<1>3. ASSUME NEW j \in HandedOver(d), i < j
      PROVE  Cardinality(Before(i)) < Cardinality(Before(j))
  <2>1. Before(i) \subseteq Before(j)
    BY <1>1, <1>3
  <2>2. i \in Before(j) /\ i \notin Before(i)
    BY <1>1, <1>3
  <2> HIDE DEF Before
  <2>3. /\ IsFiniteSet(Before(i))
        /\ Cardinality(Before(i)) <= Cardinality(Before(j))
        /\ Cardinality(Before(i)) = Cardinality(Before(j)) => Before(i) = Before(j)
    BY <2>1, <1>2, FS_Subset
  <2>4. Cardinality(Before(i)) # Cardinality(Before(j))
    BY <2>2, <2>3
  <2> QED
    BY <2>3, <2>4, <1>2
<1> QED
  BY <1>2, <1>3 DEF Index

LEMMA PositionType ==
  ASSUME NEW d \in Document, NEW i \in HandedOver(d)
  PROVE  Position(d, i) \in {Text} \cup Int
<1>1. i \in Int /\ Index(d, i) \in Int
  BY HandedOverNumbers, IndexCounts
<1>2. CASE d.shape = "json" /\ i \in Readable(d) /\ d.items[i].line # Null
  <2>1. d.items[i].kind = "record" /\ d.items[i] \in Item
    BY <1>2, DocumentFacts DEF Readable
  <2>2. d.items[i].line \in {Null, Text} \cup Int
    BY <2>1 DEF Item
  <2> QED
    BY <2>2, <1>1, <1>2 DEF Position
<1>3. CASE ~ (d.shape = "json" /\ i \in Readable(d) /\ d.items[i].line # Null)
  <2>1. Position(d, i) \in {-1, i, Index(d, i)}
    BY <1>3 DEF Position
  <2> QED
    BY <2>1, <1>1
<1> QED
  BY <1>2, <1>3

\* Unless the records number themselves, positions go up with the items.
LEMMA PositionsFollowItems ==
  ASSUME NEW d \in Document, SelfNumbered(d) = {}, NEW i \in HandedOver(d)
  PROVE  /\ Position(d, i) \in Int
         /\ \A j \in HandedOver(d) : i < j => Position(d, i) < Position(d, j)
<1>1. \A x \in HandedOver(d) : x \in Int /\ Index(d, x) \in Int
  BY HandedOverNumbers, IndexCounts
<1>2. ASSUME NEW x \in HandedOver(d)
      PROVE  Position(d, x) = IF ~d.parses THEN -1
                              ELSE IF d.shape = "jsonl" THEN x ELSE Index(d, x)
  <2>1. x \notin SelfNumbered(d)
    OBVIOUS
  <2>2. ~ (d.shape = "json" /\ x \in Readable(d) /\ d.items[x].line # Null)
    BY <2>1 DEF SelfNumbered
  <2> QED
    BY <2>2 DEF Position
<1>3. Position(d, i) \in Int
  BY <1>1, <1>2
<1>4. ASSUME NEW j \in HandedOver(d), i < j PROVE Position(d, i) < Position(d, j)
  <2>1. CASE ~d.parses
    <3>1. HandedOver(d) = {0}
      BY <2>1 DEF HandedOver, Readable, Unreadable
    <3>2. i = 0 /\ j = 0
      BY <3>1
    <3> QED
      BY <3>2, <1>4
  <2>2. CASE d.parses
    <3>1. Index(d, i) < Index(d, j)
      BY <1>4, IndexCounts
    <3> QED
      BY <2>2, <3>1, <1>2, <1>4
  <2> QED
    BY <2>1, <2>2
<1> QED
  BY <1>3, <1>4

LEMMA InSequenceTakesAll ==
  ASSUME NEW S \in SUBSET Int, IsFiniteSet(S)
  PROVE  LET s == InSequence(S)
             D == 1 .. Cardinality(S)
         IN /\ Cardinality(S) \in Nat
            /\ s \in [D -> S]
            /\ \A m, n \in D : s[m] = s[n] => m = n
            /\ \A x \in S : \E n \in D : s[n] = x
<1>1. Orders(Numbers(S), S)
  <2>1. \A x, y \in S : <<x, y>> \in Numbers(S) <=> x < y
    BY DEF Numbers
  <2>2. \A x \in S : ~ (x < x)
    OBVIOUS
  <2>3. \A x, y, z \in S : x < y /\ y < z => x < z
    OBVIOUS
  <2>4. \A x, y \in S : x # y => x < y \/ y < x
    OBVIOUS
  <2> QED
    BY <2>1, <2>2, <2>3, <2>4 DEF Orders
<1> QED
  BY <1>1, ArrangedTakesAll DEF InSequence

-----------------------------------------------------------------------------
(* The three moments of a report *)

\* What collect_records hands over: the readable items to do, the others reported.
LEMMA Collected ==
  ASSUME NEW d \in Document
  PROVE  LET todo == InSequence(Readable(d))
             r == [n \in 1 .. Cardinality(Unreadable(d)) |->
                     Entry(d, InSequence(Unreadable(d))[n], "failed")]
         IN /\ todo \in Seq(Nat \ {0})
            /\ r \in Seq(Lines)
            /\ ReportsOn(r, d)
            /\ SharedOut(todo, r, d)
            /\ \A n \in DOMAIN r : r[n].status = "failed"
<1> DEFINE A == Readable(d)
           B == Unreadable(d)
           todo == InSequence(A)
           s == InSequence(B)
           r == [n \in 1 .. Cardinality(B) |-> Entry(d, s[n], "failed")]
<1>1. /\ A \cap B = {} /\ A \cup B = HandedOver(d)
      /\ Cardinality(A) \in Nat /\ Cardinality(B) \in Nat
      /\ Cardinality(A) + Cardinality(B) = Cardinality(HandedOver(d))
      /\ IsFiniteSet(A) /\ IsFiniteSet(B)
  BY ReadableSplit
<1>2. /\ A \in SUBSET Int /\ B \in SUBSET Int
      /\ \A x \in A : x \in Nat \ {0}
  BY <1>1, HandedOverNumbers, ReadableSplit, DocumentFacts
<1> HIDE DEF A, B
<1>3. /\ todo \in [1 .. Cardinality(A) -> A]
      /\ \A m, n \in 1 .. Cardinality(A) : todo[m] = todo[n] => m = n
      /\ \A x \in A : \E n \in 1 .. Cardinality(A) : todo[n] = x
  BY <1>1, <1>2, InSequenceTakesAll
<1>4. /\ s \in [1 .. Cardinality(B) -> B]
      /\ \A m, n \in 1 .. Cardinality(B) : s[m] = s[n] => m = n
      /\ \A x \in B : \E n \in 1 .. Cardinality(B) : s[n] = x
  BY <1>1, <1>2, InSequenceTakesAll
<1> HIDE DEF todo, s
<1>5. todo \in Seq(Nat \ {0}) /\ DOMAIN todo = 1 .. Cardinality(A) /\ Len(todo) = Cardinality(A)
  <2>1. \A n \in 1 .. Cardinality(A) : todo[n] \in Nat \ {0}
    BY <1>2, <1>3
  <2>2. todo \in [1 .. Cardinality(A) -> Nat \ {0}]
    BY <2>1, <1>3
  <2> QED
    BY <2>2, <1>1
<1>6. ASSUME NEW n \in 1 .. Cardinality(B)
      PROVE  /\ r[n].item = s[n] /\ s[n] \in HandedOver(d)
             /\ r[n].position = Position(d, s[n])
             /\ r[n].status = "failed"
             /\ r[n] \in Lines
  <2>1. r[n] = [item |-> s[n], position |-> Position(d, s[n]), status |-> "failed"]
    BY DEF Entry
  <2>2. s[n] \in HandedOver(d) /\ s[n] \in Nat
    BY <1>1, <1>4, HandedOverNumbers
  <2>3. Position(d, s[n]) \in {Text} \cup Int
    BY <2>2, PositionType
  <2> QED
    BY <2>1, <2>2, <2>3 DEF Lines, Status
<1>7. DOMAIN r = 1 .. Cardinality(B)
  OBVIOUS
<1> HIDE DEF r
<1>8. r \in Seq(Lines) /\ Len(r) = Cardinality(B)
  <2>1. r \in [1 .. Cardinality(B) -> Lines]
    BY <1>6, <1>7 DEF r
  <2> QED
    BY <2>1, <1>1
<1>9. ReportsOn(r, d)
  BY <1>4, <1>6, <1>7 DEF ReportsOn
<1>10. SharedOut(todo, r, d)
  <2>1. \A n \in DOMAIN todo : todo[n] \in A
    BY <1>3, <1>5
  <2>2. \A m, n \in DOMAIN todo : todo[m] = todo[n] => m = n
    BY <1>3, <1>5
  <2>3. \A n \in DOMAIN todo, m \in DOMAIN r : todo[n] # r[m].item
    BY <2>1, <1>1, <1>4, <1>6, <1>7
  <2>4. ASSUME NEW i \in HandedOver(d)
        PROVE  (\E n \in DOMAIN todo : todo[n] = i) \/ (\E m \in DOMAIN r : r[m].item = i)
    <3>1. CASE i \in A
      BY <3>1, <1>3, <1>5
    <3>2. CASE i \in B
      BY <3>2, <1>4, <1>6, <1>7
    <3> QED
      BY <3>1, <3>2, <1>1
  <2>5. Len(todo) + Len(r) = Cardinality(HandedOver(d))
    BY <1>1, <1>5, <1>8
  <2> QED
    BY <2>1, <2>2, <2>3, <2>4, <2>5 DEF SharedOut, A
<1> QED
  BY <1>5, <1>6, <1>7, <1>8, <1>9, <1>10 DEF r, todo, A, B, s

\* One record: off the list of things to do, onto the report.
LEMMA TakenOff ==
  ASSUME NEW d \in Document, NEW todo \in Seq(Nat \ {0}), NEW r \in Seq(Lines),
         todo # << >>, ReportsOn(r, d), SharedOut(todo, r, d), NEW st \in Status
  PROVE  LET left == Tail(todo)
             more == Append(r, Entry(d, Head(todo), st))
         IN /\ Head(todo) \in DOMAIN d.items
            /\ d.items[Head(todo)] \in Item
            /\ Head(todo) \in Readable(d)
            /\ \A m \in DOMAIN r : r[m].item # Head(todo)
            /\ left \in Seq(Nat \ {0})
            /\ more \in Seq(Lines)
            /\ ReportsOn(more, d)
            /\ SharedOut(left, more, d)
            /\ \A i : (\E n \in DOMAIN more : more[n].item = i /\ more[n].status = "created")
                      <=> \/ \E n \in DOMAIN r : r[n].item = i /\ r[n].status = "created"
                          \/ i = Head(todo) /\ st = "created"
<1> DEFINE h == Head(todo)
           e == Entry(d, h, st)
           left == Tail(todo)
           more == Append(r, e)
<1>1. /\ Len(todo) \in Nat /\ Len(todo) > 0 /\ DOMAIN todo = 1 .. Len(todo)
      /\ Len(r) \in Nat /\ DOMAIN r = 1 .. Len(r)
      /\ h = todo[1] /\ 1 \in DOMAIN todo
  OBVIOUS
<1>2. /\ left \in Seq(Nat \ {0})
      /\ Len(left) = Len(todo) - 1
      /\ DOMAIN left = 1 .. Len(todo) - 1
      /\ \A n \in 1 .. Len(todo) - 1 : left[n] = todo[n + 1]
  BY HeadTailProperties
<1>3. h \in Readable(d) /\ \A m \in DOMAIN r : r[m].item # h
  BY <1>1 DEF SharedOut
<1>4. /\ h \in DOMAIN d.items /\ d.items[h] \in Item /\ d.items[h].kind = "record"
      /\ h \in Nat \ {0} /\ h \in HandedOver(d)
  BY <1>3, DocumentFacts DEF Readable, HandedOver
<1>5. e.item = h /\ e.position = Position(d, h) /\ e.status = st /\ e \in Lines
  <2>1. e = [item |-> h, position |-> Position(d, h), status |-> st]
    BY DEF Entry
  <2>2. Position(d, h) \in {Text} \cup Int
    BY <1>4, PositionType
  <2> QED
    BY <2>1, <2>2, <1>4 DEF Lines
<1> HIDE DEF h, e, left
<1>6. /\ more \in Seq(Lines)
      /\ Len(more) = Len(r) + 1
      /\ DOMAIN more = 1 .. Len(r) + 1
      /\ \A n \in DOMAIN r : more[n] = r[n]
      /\ more[Len(r) + 1] = e
  BY <1>1, <1>5, AppendProperties
<1> HIDE DEF more
<1>7. \A n \in DOMAIN more : n \in DOMAIN r \/ n = Len(r) + 1
  BY <1>1, <1>6
<1>8. DOMAIN r \subseteq DOMAIN more /\ Len(r) + 1 \in DOMAIN more
  BY <1>1, <1>6
<1>9. ReportsOn(more, d)
  <2>1. ASSUME NEW n \in DOMAIN more
        PROVE  /\ more[n].item \in HandedOver(d)
               /\ more[n].position = Position(d, more[n].item)
               /\ more[n].item = 0 => more[n].status = "failed"
    BY <1>4, <1>5, <1>6, <1>7 DEF ReportsOn
  <2>2. ASSUME NEW m \in DOMAIN more, NEW n \in DOMAIN more, more[m].item = more[n].item
        PROVE  m = n
    BY <2>2, <1>3, <1>5, <1>6, <1>7 DEF ReportsOn
  <2> QED
    BY <2>1, <2>2 DEF ReportsOn
<1>10. \A n \in DOMAIN left : n + 1 \in DOMAIN todo /\ n + 1 # 1 /\ left[n] = todo[n + 1]
  BY <1>1, <1>2
<1>11. SharedOut(left, more, d)
  <2>1. \A n \in DOMAIN left : left[n] \in Readable(d) /\ left[n] # h
    BY <1>1, <1>10 DEF SharedOut
  <2>2. ASSUME NEW m \in DOMAIN left, NEW n \in DOMAIN left, left[m] = left[n]
        PROVE  m = n
    <3>1. m + 1 = n + 1
      BY <2>2, <1>10 DEF SharedOut
    <3>2. m \in Int /\ n \in Int
      BY <1>1, <1>2
    <3> QED
      BY <3>1, <3>2
  <2>3. ASSUME NEW n \in DOMAIN left, NEW m \in DOMAIN more PROVE left[n] # more[m].item
    BY <2>1, <1>5, <1>6, <1>7, <1>10 DEF SharedOut
  <2>4. ASSUME NEW i \in HandedOver(d)
        PROVE  (\E n \in DOMAIN left : left[n] = i) \/ (\E m \in DOMAIN more : more[m].item = i)
    <3>1. CASE \E m \in DOMAIN r : r[m].item = i
      BY <3>1, <1>6, <1>8
    <3>2. CASE i = h
      BY <3>2, <1>5, <1>6, <1>8
    <3>3. CASE i # h /\ \E n \in DOMAIN todo : todo[n] = i
      <4>1. PICK n \in DOMAIN todo : todo[n] = i
        BY <3>3
      <4>2. n # 1 /\ n \in 1 .. Len(todo)
        BY <4>1, <3>3, <1>1
      <4>3. n - 1 \in DOMAIN left /\ left[n - 1] = todo[n]
        BY <4>2, <1>1, <1>2
      <4> QED
        BY <4>1, <4>3
    <3> QED
      BY <3>1, <3>2, <3>3 DEF SharedOut
  <2>5. Len(left) + Len(more) = Cardinality(HandedOver(d))
    <3>1. Len(todo) + Len(r) = Cardinality(HandedOver(d))
      BY DEF SharedOut
    <3>2. Len(todo) \in Int /\ Len(r) \in Int
      BY <1>1
    <3>3. Len(left) = Len(todo) - 1 /\ Len(more) = Len(r) + 1
      BY <1>2, <1>6
    <3>4. (Len(todo) - 1) + (Len(r) + 1) = Len(todo) + Len(r)
      BY <3>2
    <3> QED
      BY <3>1, <3>3, <3>4
  <2> QED
    BY <2>1, <2>2, <2>3, <2>4, <2>5 DEF SharedOut
<1>12. ASSUME NEW i
       PROVE  (\E n \in DOMAIN more : more[n].item = i /\ more[n].status = "created")
              <=> \/ \E n \in DOMAIN r : r[n].item = i /\ r[n].status = "created"
                  \/ i = h /\ st = "created"
  BY <1>5, <1>6, <1>7, <1>8
<1> QED
  BY <1>2, <1>3, <1>4, <1>6, <1>9, <1>11, <1>12 DEF more, left, e, h

LEMMA AllTaken ==
  ASSUME NEW d \in Document, NEW r \in Seq(Lines), ReportsOn(r, d), SharedOut(<< >>, r, d)
  PROVE  Complete(r, d)
<1>1. Len(<< >>) + Len(r) = Cardinality(HandedOver(d)) /\ Len(<< >>) = 0 /\ DOMAIN << >> = {}
  BY DEF SharedOut
<1>2. Len(r) = Cardinality(HandedOver(d))
  BY <1>1, DocumentFacts
<1>3. \A i \in HandedOver(d) : \E m \in DOMAIN r : r[m].item = i
  BY <1>1 DEF SharedOut
<1> QED
  BY <1>2, <1>3 DEF Complete

\* Sorting by position moves the entries about and loses none.
LEMMA SortedKeeps ==
  ASSUME NEW d \in Document, NEW r \in Seq(Lines), Complete(r, d)
  PROVE  LET t == Sorted(r)
         IN /\ t \in Seq(Lines)
            /\ Complete(t, d)
            /\ \A n \in DOMAIN t : \E m \in DOMAIN r : t[n] = r[m]
            /\ \A m \in DOMAIN r : \E n \in DOMAIN t : t[n] = r[m]
            /\ Text \notin Positions(r) /\ SelfNumbered(d) = {} => InOrder(t)
<1>1. CASE Text \in Positions(r)
  BY <1>1 DEF Sorted
<1>2. CASE Text \notin Positions(r)
  <2> DEFINE D == DOMAIN r
             s == Arranged(D, Stably(r))
             t == [n \in D |-> r[s[n]]]
  <2>1. D = 1 .. Len(r) /\ Len(r) \in Nat /\ IsFiniteSet(D) /\ Cardinality(D) = Len(r)
    <3>1. D = 1 .. Len(r) /\ Len(r) \in Nat
      OBVIOUS
    <3>2. /\ IsFiniteSet(1 .. Len(r))
          /\ Cardinality(1 .. Len(r)) = IF 1 > Len(r) THEN 0 ELSE Len(r) - 1 + 1
      BY <3>1, FS_Interval
    <3> HIDE DEF D
    <3> QED
      BY <3>1, <3>2
  <2>2. \A n \in D : r[n] \in Lines /\ r[n].position \in Int
    <3>1. ASSUME NEW n \in D PROVE r[n] \in Lines /\ r[n].position \in Int
      <4>1. r[n] \in Lines
        OBVIOUS
      <4>2. r[n].position \in {Text} \cup Int /\ r[n].position # Text
        BY <4>1, <1>2 DEF Lines, Positions
      <4> QED
        BY <4>1, <4>2
    <3> QED
      BY <3>1
  <2>3. \A m, n \in D : <<m, n>> \in Stably(r) <=>
                          \/ r[m].position < r[n].position
                          \/ r[m].position = r[n].position /\ m < n
    BY DEF Stably
  <2>4. Orders(Stably(r), D)
    <3>1. \A m \in D : m \in Int
      BY <2>1
    <3> HIDE DEF D
    <3>2. ASSUME NEW x \in D PROVE <<x, x>> \notin Stably(r)
      <4>1. x \in Int /\ r[x].position \in Int
        BY <2>2, <3>1
      <4>2. ~ (r[x].position < r[x].position) /\ ~ (x < x)
        BY <4>1
      <4> QED
        BY <4>2, <2>3
    <3>3. ASSUME NEW x \in D, NEW y \in D, NEW z \in D,
                 <<x, y>> \in Stably(r), <<y, z>> \in Stably(r)
          PROVE  <<x, z>> \in Stably(r)
      <4>1. /\ x \in Int /\ y \in Int /\ z \in Int
            /\ r[x].position \in Int /\ r[y].position \in Int /\ r[z].position \in Int
        BY <2>2, <3>1
      <4>2. /\ r[x].position < r[y].position \/ (r[x].position = r[y].position /\ x < y)
            /\ r[y].position < r[z].position \/ (r[y].position = r[z].position /\ y < z)
        BY <2>3, <3>3
      <4>3. r[x].position < r[z].position \/ (r[x].position = r[z].position /\ x < z)
        BY <4>1, <4>2
      <4> QED
        BY <4>3, <2>3
    <3>4. ASSUME NEW x \in D, NEW y \in D, x # y
          PROVE  <<x, y>> \in Stably(r) \/ <<y, x>> \in Stably(r)
      <4>1. x \in Int /\ y \in Int /\ r[x].position \in Int /\ r[y].position \in Int
        BY <2>2, <3>1
      <4>2. \/ r[x].position < r[y].position \/ (r[x].position = r[y].position /\ x < y)
            \/ r[y].position < r[x].position \/ (r[y].position = r[x].position /\ y < x)
        BY <4>1, <3>4
      <4> QED
        BY <4>2, <2>3
    <3> QED
      BY <3>2, <3>3, <3>4 DEF Orders
  <2>5. /\ s \in [D -> D]
        /\ \A m, n \in D : m < n => <<s[m], s[n]>> \in Stably(r)
        /\ \A m, n \in D : s[m] = s[n] => m = n
        /\ \A x \in D : \E n \in D : s[n] = x
    <3>1. 1 .. Cardinality(D) = D
      BY <2>1
    <3> HIDE DEF D
    <3> QED
      BY <3>1, <2>1, <2>4, ArrangedTakesAll
  <2>6. Sorted(r) = t
    BY <1>2 DEF Sorted
  <2> HIDE DEF s
  <2>7. DOMAIN t = D /\ \A n \in D : t[n] = r[s[n]] /\ s[n] \in D
    BY <2>5
  <2>8. t \in Seq(Lines) /\ Len(t) = Len(r)
    <3>1. t \in [1 .. Len(r) -> Lines]
      BY <2>1, <2>2, <2>7
    <3> QED
      BY <3>1, <2>1
  <2> HIDE DEF t, D
  <2>9. /\ ReportsOn(r, d) /\ Len(r) = Cardinality(HandedOver(d))
        /\ \A i \in HandedOver(d) : \E m \in D : r[m].item = i
    BY DEF Complete, D
  <2>10. /\ \A n \in D : /\ r[n].item \in HandedOver(d)
                         /\ r[n].position = Position(d, r[n].item)
                         /\ r[n].item = 0 => r[n].status = "failed"
         /\ \A m, n \in D : r[m].item = r[n].item => m = n
    BY <2>9 DEF ReportsOn, D
  <2>11. ReportsOn(t, d)
    <3>1. ASSUME NEW n \in D
          PROVE  /\ t[n].item \in HandedOver(d)
                 /\ t[n].position = Position(d, t[n].item)
                 /\ t[n].item = 0 => t[n].status = "failed"
      BY <2>7, <2>10
    <3>2. ASSUME NEW m \in D, NEW n \in D, t[m].item = t[n].item PROVE m = n
      <4>1. t[m] = r[s[m]] /\ t[n] = r[s[n]] /\ s[m] \in D /\ s[n] \in D
        BY <2>7
      <4>2. s[m] = s[n]
        BY <4>1, <3>2, <2>10
      <4> QED
        BY <4>2, <2>5
    <3> QED
      BY <3>1, <3>2, <2>7 DEF ReportsOn
  <2>12. \A m \in D : \E n \in D : t[n] = r[m]
    BY <2>5, <2>7
  <2>13. Complete(t, d)
    <3>1. Len(t) = Cardinality(HandedOver(d))
      BY <2>8, <2>9
    <3>2. ASSUME NEW i \in HandedOver(d) PROVE \E n \in D : t[n].item = i
      <4>1. PICK m \in D : r[m].item = i
        BY <2>9
      <4>2. PICK n \in D : t[n] = r[m]
        BY <2>12
      <4> QED
        BY <4>1, <4>2
    <3> QED
      BY <3>1, <3>2, <2>7, <2>11 DEF Complete
  <2>14. ASSUME SelfNumbered(d) = {}, NEW m \in D, NEW n \in D, m < n
         PROVE  t[m].item < t[n].item
    <3> DEFINE x == r[s[m]].item
               y == r[s[n]].item
    <3>1. x \in HandedOver(d) /\ y \in HandedOver(d) /\ x # y
      <4>1. m # n /\ s[m] # s[n]
        BY <2>1, <2>5, <2>14
      <4> QED
        BY <4>1, <2>5, <2>10
    <3>2. x \in Int /\ y \in Int
      BY <3>1, HandedOverNumbers
    <3>3. r[s[m]].position = Position(d, x) /\ r[s[n]].position = Position(d, y)
      BY <2>5, <2>10
    <3>4. /\ Position(d, x) \in Int /\ Position(d, y) \in Int
          /\ y < x => Position(d, y) < Position(d, x)
      BY <3>1, <2>14, PositionsFollowItems
    <3>5. r[s[m]].position <= r[s[n]].position
      <4>1. \/ r[s[m]].position < r[s[n]].position
            \/ r[s[m]].position = r[s[n]].position /\ s[m] < s[n]
        BY <2>3, <2>5, <2>14
      <4>2. r[s[m]].position \in Int /\ r[s[n]].position \in Int
        BY <2>2, <2>5
      <4> QED
        BY <4>1, <4>2
    <3> HIDE DEF x, y
    <3>6. x < y
      BY <3>1, <3>2, <3>3, <3>4, <3>5
    <3> QED
      BY <3>6, <2>7 DEF x, y
  <2>15. SelfNumbered(d) = {} => InOrder(t)
    BY <2>7, <2>14 DEF InOrder
  <2> QED
    BY <2>6, <2>7, <2>8, <2>12, <2>13, <2>15 DEF D
<1> QED
  BY <1>1, <1>2

\* Positions that are all numbers can be sorted.
LEMMA NumbersSort ==
  ASSUME NEW d \in Document, NEW r \in Seq(Lines), ReportsOn(r, d), SelfNumbered(d) = {}
  PROVE  Text \notin Positions(r) /\ Sortable(r)
<1>1. ASSUME NEW n \in DOMAIN r PROVE r[n].position # Text
  <2>1. r[n].item \in HandedOver(d) /\ r[n].position = Position(d, r[n].item)
    BY DEF ReportsOn
  <2>2. r[n].position \in Int
    BY <2>1, PositionsFollowItems
  <2> QED
    BY <2>2, Documents
<1>2. Text \notin Positions(r)
  BY <1>1 DEF Positions
<1> QED
  BY <1>2 DEF Sortable

-----------------------------------------------------------------------------
(* What a step does to a request *)

LEMMA StageFields ==
  ASSUME NEW x \in Progress
  PROVE  /\ x.stage = "ingesting" => x \in Working
         /\ x.stage = "answered" => x \in Answered
         /\ x.stage = "raised" => x \in Raised
         /\ x.stage \in {"idle", "refused", "died"} => x \in Ended
         /\ x.stage \in {"ingesting", "answered", "raised", "idle", "refused", "died"}
BY DEF Progress, Working, Answered, Raised, Ended

LEMMA WorkingFields ==
  ASSUME TypeOK, NEW u \in Upload, up[u].stage = "ingesting"
  PROVE  /\ up[u] \in Working
         /\ up[u].doc \in Document
         /\ up[u].todo \in Seq(Nat \ {0})
         /\ up[u].memo \in Memo
         /\ up[u].results \in Seq(Lines)
<1>1. up[u] \in Working
  BY StageFields DEF TypeOK
<1> QED
  BY <1>1 DEF Working

\* Only the entry of u changes, and to x.
Becomes(u, x) == /\ up' \in [Upload -> Progress]
                 /\ up'[u] = x
                 /\ \A v \in Upload \ {u} : up'[v] = up[v]

LEMMA BecomesUp ==
  ASSUME TypeOK, NEW u \in Upload, NEW x \in Progress, up' = [up EXCEPT ![u] = x]
  PROVE  Becomes(u, x)
BY DEF TypeOK, Becomes

LEMMA CollectsUp ==
  ASSUME TypeOK, NEW u \in Upload, NEW doc \in Document, Collects(u, doc)
  PROVE  /\ up[u].stage = "idle"
         /\ \E x : /\ Becomes(u, x)
                   /\ \/ x.stage = "refused"
                      \/ /\ x.stage = "ingesting"
                         /\ x.doc = doc
                         /\ x.memo = << >>
                         /\ ReportsOn(x.results, doc)
                         /\ SharedOut(x.todo, x.results, doc)
                         /\ \A n \in DOMAIN x.results : x.results[n].status = "failed"
<1>1. up[u] = Idle /\ up[u].stage = "idle"
  BY DEF Collects, Idle
<1> DEFINE over == \/ doc.shape = "json" /\ ~doc.parses
                   \/ Cardinality(Readable(doc)) > MaxRecords
<1>2. CASE over
  <2> DEFINE x == [stage |-> "refused"]
  <2>1. x \in Progress /\ x.stage = "refused"
    BY DEF Progress, Ended
  <2>2. up' = [up EXCEPT ![u] = x]
    BY <1>2 DEF Collects
  <2> HIDE DEF x
  <2>3. Becomes(u, x)
    BY <2>1, <2>2, BecomesUp
  <2> QED
    BY <1>1, <2>1, <2>3
<1>3. CASE ~over
  <2> DEFINE todo == InSequence(Readable(doc))
             r == [n \in 1 .. Cardinality(Unreadable(doc)) |->
                     Entry(doc, InSequence(Unreadable(doc))[n], "failed")]
             x == [stage |-> "ingesting", doc |-> doc, todo |-> todo, memo |-> << >>,
                   results |-> r]
  <2>1. /\ todo \in Seq(Nat \ {0}) /\ r \in Seq(Lines)
        /\ ReportsOn(r, doc) /\ SharedOut(todo, r, doc)
        /\ \A n \in DOMAIN r : r[n].status = "failed"
    BY Collected
  <2>2. up' = [up EXCEPT ![u] = x]
    BY <1>3 DEF Collects
  <2> HIDE DEF todo, r
  <2>3. << >> \in Memo
    <3>1. << >> \in [{} -> {Null} \cup Name]
      OBVIOUS
    <3>2. {} \in SUBSET Project
      OBVIOUS
    <3> QED
      BY <3>1, <3>2 DEF Memo
  <2>4. x \in Progress
    BY <2>1, <2>3 DEF Progress, Working
  <2>5. Becomes(u, x)
    <3> HIDE DEF x
    <3> QED
      BY <2>2, <2>4, BecomesUp
  <2> QED
    BY <1>1, <2>1, <2>5
<1> QED
  BY <1>2, <1>3

\* The entry of u after one record with outcome st.
OneOn(u, st) ==
  [stage |-> "ingesting", doc |-> up[u].doc, todo |-> Tail(up[u].todo), memo |-> up[u].memo,
   results |-> Append(up[u].results, Entry(up[u].doc, Head(up[u].todo), st))]

LEMMA TwoFields ==
  ASSUME NEW w \in Working, NEW left, NEW more
  PROVE  [w EXCEPT !.todo = left, !.results = more]
           = [stage |-> "ingesting", doc |-> w.doc, todo |-> left, memo |-> w.memo,
              results |-> more]
<1>1. PICK a \in Document, b \in Seq(Nat \ {0}), c \in Memo, e \in Seq(Lines) :
        w = [stage |-> "ingesting", doc |-> a, todo |-> b, memo |-> c, results |-> e]
  BY DEF Working
<1>2. w.doc = a /\ w.memo = c
  BY <1>1
<1> DEFINE v == [w EXCEPT !.todo = left]
<1>3. v = [stage |-> "ingesting", doc |-> a, todo |-> left, memo |-> c, results |-> e]
  BY <1>1
<1>4. [w EXCEPT !.todo = left, !.results = more] = [v EXCEPT !.results = more]
  OBVIOUS
<1> HIDE DEF v
<1>5. [v EXCEPT !.results = more]
        = [stage |-> "ingesting", doc |-> a, todo |-> left, memo |-> c, results |-> more]
  BY <1>3
<1> QED
  BY <1>2, <1>4, <1>5

LEMMA ReportedUp ==
  ASSUME TypeOK, NEW u \in Upload, Halfway(u), Ingesting(u), NEW st \in Status,
         Reported(u, st)
  PROVE  /\ Becomes(u, OneOn(u, st))
         /\ up[u].stage = "ingesting"
         /\ up[u].doc \in Document
         /\ Head(up[u].todo) \in DOMAIN up[u].doc.items
         /\ Head(up[u].todo) \in Nat \ {0}
         /\ \A m \in DOMAIN up[u].results : up[u].results[m].item # Head(up[u].todo)
         /\ ReportsOn(OneOn(u, st).results, up[u].doc)
         /\ SharedOut(OneOn(u, st).todo, OneOn(u, st).results, up[u].doc)
         /\ \A i : (\E n \in DOMAIN OneOn(u, st).results :
                      /\ OneOn(u, st).results[n].item = i
                      /\ OneOn(u, st).results[n].status = "created")
                   <=> \/ \E n \in DOMAIN up[u].results :
                            up[u].results[n].item = i /\ up[u].results[n].status = "created"
                       \/ i = Head(up[u].todo) /\ st = "created"
<1>1. up[u].stage = "ingesting" /\ up[u].todo # << >>
  BY DEF Ingesting
<1>2. /\ up[u] \in Working /\ up[u].doc \in Document /\ up[u].todo \in Seq(Nat \ {0})
      /\ up[u].memo \in Memo /\ up[u].results \in Seq(Lines)
  BY <1>1, WorkingFields
<1> DEFINE d == up[u].doc
           left == Tail(up[u].todo)
           more == Append(up[u].results, Entry(d, Head(up[u].todo), st))
<1>3. ReportsOn(up[u].results, d) /\ SharedOut(up[u].todo, up[u].results, d)
  BY <1>1 DEF Halfway
<1>4. /\ Head(up[u].todo) \in DOMAIN d.items
      /\ d.items[Head(up[u].todo)] \in Item
      /\ Head(up[u].todo) \in Readable(d)
      /\ \A m \in DOMAIN up[u].results : up[u].results[m].item # Head(up[u].todo)
      /\ left \in Seq(Nat \ {0})
      /\ more \in Seq(Lines)
      /\ ReportsOn(more, d)
      /\ SharedOut(left, more, d)
      /\ \A i : (\E n \in DOMAIN more : more[n].item = i /\ more[n].status = "created")
                <=> \/ \E n \in DOMAIN up[u].results :
                         up[u].results[n].item = i /\ up[u].results[n].status = "created"
                    \/ i = Head(up[u].todo) /\ st = "created"
  <2> DEFINE todo == up[u].todo
             r == up[u].results
  <2>1. /\ d \in Document /\ todo \in Seq(Nat \ {0}) /\ r \in Seq(Lines) /\ todo # << >>
        /\ ReportsOn(r, d) /\ SharedOut(todo, r, d)
    BY <1>1, <1>2, <1>3
  <2> HIDE DEF todo, r, d
  <2> SUFFICES
        /\ Head(todo) \in DOMAIN d.items
        /\ d.items[Head(todo)] \in Item
        /\ Head(todo) \in Readable(d)
        /\ \A m \in DOMAIN r : r[m].item # Head(todo)
        /\ Tail(todo) \in Seq(Nat \ {0})
        /\ Append(r, Entry(d, Head(todo), st)) \in Seq(Lines)
        /\ ReportsOn(Append(r, Entry(d, Head(todo), st)), d)
        /\ SharedOut(Tail(todo), Append(r, Entry(d, Head(todo), st)), d)
        /\ \A i : (\E n \in DOMAIN Append(r, Entry(d, Head(todo), st)) :
                     /\ Append(r, Entry(d, Head(todo), st))[n].item = i
                     /\ Append(r, Entry(d, Head(todo), st))[n].status = "created")
                  <=> \/ \E n \in DOMAIN r : r[n].item = i /\ r[n].status = "created"
                      \/ i = Head(todo) /\ st = "created"
    BY DEF todo, r
  <2> QED
    BY <2>1, TakenOff
<1>5. Head(up[u].todo) \in Nat \ {0}
  BY <1>1, <1>2, HeadTailProperties
<1> DEFINE x == OneOn(u, st)
<1> HIDE DEF left, more
<1>6. x = [stage |-> "ingesting", doc |-> d, todo |-> left, memo |-> up[u].memo,
           results |-> more]
  BY DEF OneOn, left, more
<1>7. x \in Progress /\ x.todo = left /\ x.results = more
  BY <1>2, <1>4, <1>6 DEF Progress, Working
<1>8. up' = [up EXCEPT ![u] = x]
  <2>2. [up[u] EXCEPT !.todo = left, !.results = more] = x
    BY <1>2, <1>6, TwoFields
  <2>3. up' = [up EXCEPT ![u] = [up[u] EXCEPT !.todo = left, !.results = more]]
    BY DEF Reported, left, more
  <2> HIDE DEF x
  <2> QED
    BY <2>2, <2>3
<1>9. Becomes(u, x)
  <2> HIDE DEF x
  <2> QED
    BY <1>7, <1>8, BecomesUp
<1> QED
  BY <1>1, <1>2, <1>4, <1>5, <1>7, <1>9 DEF Record

LEMMA MemoGrows ==
  ASSUME NEW memo \in Memo, NEW p \in Project, NEW answer \in {Null} \cup Name
  PROVE  /\ Remembers(memo, p, answer) \in Memo
         /\ DOMAIN Remembers(memo, p, answer) = DOMAIN memo \cup {p}
         /\ \A x \in DOMAIN memo \ {p} : Remembers(memo, p, answer)[x] = memo[x]
<1>1. PICK D \in SUBSET Project : memo \in [D -> {Null} \cup Name]
  BY DEF Memo
<1> DEFINE new == Remembers(memo, p, answer)
<1>2. new = [x \in D \cup {p} |-> IF x = p THEN answer ELSE memo[x]]
  BY <1>1 DEF Remembers
<1>3. new \in [D \cup {p} -> {Null} \cup Name]
  BY <1>1, <1>2
<1>4. D \cup {p} \in SUBSET Project
  OBVIOUS
<1> HIDE DEF new
<1>5. new \in Memo
  BY <1>3, <1>4 DEF Memo
<1> QED
  BY <1>1, <1>2, <1>5 DEF new

LEMMA ItemFields ==
  ASSUME NEW x \in Item, x.kind = "record"
  PROVE  /\ x.key \in Key
         /\ x.project \in {Null} \cup Project
         /\ x.name \in {Null} \cup Name
BY DEF Item

LEMMA IngestedRecord ==
  ASSUME TypeOK, NEW u \in Upload, Halfway(u), Ingesting(u)
  PROVE  /\ up[u].stage = "ingesting"
         /\ up[u].memo \in Memo
         /\ Record(u).key \in Key
         /\ Record(u).project \in {Null} \cup Project
         /\ Record(u).name \in {Null} \cup Name
         /\ Id(u) \in Uuid
         /\ Id(u)[1] = u /\ Id(u)[2] # 0
         /\ Head(up[u].todo) \in Nat \ {0}
         /\ Head(up[u].todo) \in DOMAIN up[u].doc.items
<1>1. up[u].stage = "ingesting" /\ up[u].todo # << >>
  BY DEF Ingesting
<1>2. /\ up[u].doc \in Document /\ up[u].todo \in Seq(Nat \ {0}) /\ up[u].memo \in Memo
      /\ up[u].results \in Seq(Lines)
  BY <1>1, WorkingFields
<1>3. Head(up[u].todo) \in Nat \ {0}
  BY <1>1, <1>2, HeadTailProperties
<1>4. Head(up[u].todo) \in Readable(up[u].doc)
  <2>1. 1 \in DOMAIN up[u].todo /\ Head(up[u].todo) = up[u].todo[1]
    BY <1>1, <1>2
  <2> QED
    BY <1>1, <2>1 DEF Halfway, SharedOut
<1>5. /\ Record(u) \in Item /\ Record(u).kind = "record"
      /\ Head(up[u].todo) \in DOMAIN up[u].doc.items
  BY <1>2, <1>4, DocumentFacts DEF Record, Readable
<1>6. Id(u) \in Uuid /\ Id(u)[1] = u /\ Id(u)[2] # 0
  BY <1>3 DEF Id, Uuid
<1> QED
  BY <1>1, <1>2, <1>3, <1>5, <1>6, ItemFields

LEMMA AsksUp ==
  ASSUME TypeOK, NEW u \in Upload, Halfway(u), NEW answer \in {Null} \cup Name,
         AsksProject(u, answer)
  PROVE  LET p == Record(u).project
         IN /\ up[u].stage = "ingesting"
            /\ p \in Project /\ p \notin DOMAIN up[u].memo
            /\ \E x : /\ Becomes(u, x)
                      /\ x.stage = "ingesting"
                      /\ x.doc = up[u].doc /\ x.todo = up[u].todo
                      /\ x.results = up[u].results
                      /\ DOMAIN x.memo = DOMAIN up[u].memo \cup {p}
                      /\ \A q \in DOMAIN up[u].memo : x.memo[q] = up[u].memo[q]
<1> DEFINE p == Record(u).project
           memo == Remembers(up[u].memo, p, answer)
           x == [up[u] EXCEPT !.memo = memo]
<1>1. Ingesting(u) /\ p # Null /\ p \notin DOMAIN up[u].memo
  BY DEF AsksProject, Unasked
<1>2. up[u].stage = "ingesting" /\ up[u].memo \in Memo /\ p \in Project
  BY <1>1, IngestedRecord
<1>3. /\ memo \in Memo /\ DOMAIN memo = DOMAIN up[u].memo \cup {p}
      /\ \A q \in DOMAIN up[u].memo : memo[q] = up[u].memo[q]
  BY <1>1, <1>2, MemoGrows
<1>4. up[u] \in Working
  BY <1>2, WorkingFields
<1>5. up' = [up EXCEPT ![u] = x]
  BY DEF AsksProject
<1> HIDE DEF memo, p
<1>6. /\ x \in Working /\ x.stage = "ingesting" /\ x.doc = up[u].doc
      /\ x.todo = up[u].todo /\ x.results = up[u].results /\ x.memo = memo
  <2> DEFINE w == up[u]
  <2>1. w \in Working
    BY <1>4
  <2> HIDE DEF w
  <2>2. LET y == [w EXCEPT !.memo = memo]
        IN /\ y \in Working /\ y.stage = "ingesting" /\ y.doc = w.doc
           /\ y.todo = w.todo /\ y.results = w.results /\ y.memo = memo
    BY <2>1, <1>3 DEF Working
  <2> QED
    BY <2>2 DEF w
<1> HIDE DEF x
<1>7. Becomes(u, x)
  BY <1>5, <1>6, BecomesUp DEF Progress
<1> QED
  BY <1>1, <1>2, <1>3, <1>6, <1>7 DEF p

\* The answer is the whole report in order; a report that cannot be put in order numbers
\* itself.
LEMMA AnswersUp ==
  ASSUME TypeOK, NEW u \in Upload, Halfway(u), Answers(u)
  PROVE  /\ up[u].stage = "ingesting"
         /\ \/ \E x : /\ Becomes(u, x)
                      /\ x.doc = up[u].doc
                      /\ x.stage = "raised" /\ SelfNumbered(up[u].doc) # {}
            \/ \E x : /\ Becomes(u, x)
                      /\ x.doc = up[u].doc
                      /\ x.stage = "answered"
                      /\ Complete(x.results, x.doc)
                      /\ SelfNumbered(x.doc) = {} => InOrder(x.results)
                      /\ \A n \in DOMAIN x.results :
                           \E m \in DOMAIN up[u].results : x.results[n] = up[u].results[m]
                      /\ \A m \in DOMAIN up[u].results :
                           \E n \in DOMAIN x.results : x.results[n] = up[u].results[m]
<1> DEFINE d == up[u].doc
           r == up[u].results
<1>1. up[u].stage = "ingesting" /\ up[u].todo = << >>
  BY DEF Answers
<1>2. d \in Document /\ r \in Seq(Lines)
  BY <1>1, WorkingFields
<1>3. ReportsOn(r, d) /\ SharedOut(<< >>, r, d)
  BY <1>1 DEF Halfway
<1>4. up' = [up EXCEPT ![u] = IF Sortable(r)
                               THEN [stage |-> "answered", doc |-> d, results |-> Sorted(r)]
                               ELSE [stage |-> "raised", doc |-> d]]
  BY DEF Answers
<1> HIDE DEF d, r
<1>5. Complete(r, d)
  BY <1>2, <1>3, AllTaken
<1>6. CASE Sortable(r)
  <2> DEFINE t == Sorted(r)
             x == [stage |-> "answered", doc |-> d, results |-> t]
  <2>1. /\ t \in Seq(Lines) /\ Complete(t, d)
        /\ \A n \in DOMAIN t : \E m \in DOMAIN r : t[n] = r[m]
        /\ \A m \in DOMAIN r : \E n \in DOMAIN t : t[n] = r[m]
        /\ Text \notin Positions(r) /\ SelfNumbered(d) = {} => InOrder(t)
    BY <1>2, <1>5, SortedKeeps
  <2>2. SelfNumbered(d) = {} => InOrder(t)
    BY <2>1, <1>2, <1>3, NumbersSort
  <2> HIDE DEF t
  <2>3. x \in Progress /\ x.stage = "answered" /\ x.doc = d /\ x.results = t
    BY <1>2, <2>1 DEF Progress, Answered
  <2>4. up' = [up EXCEPT ![u] = x]
    BY <1>4, <1>6 DEF t
  <2> HIDE DEF x
  <2>5. Becomes(u, x)
    BY <2>3, <2>4, BecomesUp
  <2>6. /\ Complete(x.results, x.doc)
        /\ SelfNumbered(x.doc) = {} => InOrder(x.results)
        /\ \A n \in DOMAIN x.results : \E m \in DOMAIN r : x.results[n] = r[m]
        /\ \A m \in DOMAIN r : \E n \in DOMAIN x.results : x.results[n] = r[m]
    BY <2>1, <2>2, <2>3
  <2> HIDE DEF t
  <2> QED
    <3>1. x.stage = "answered" /\ x.doc = d
      BY <2>3
    <3>2. \E y : /\ Becomes(u, y)
                 /\ y.doc = d
                 /\ y.stage = "answered"
                 /\ Complete(y.results, y.doc)
                 /\ SelfNumbered(y.doc) = {} => InOrder(y.results)
                 /\ \A n \in DOMAIN y.results : \E m \in DOMAIN r : y.results[n] = r[m]
                 /\ \A m \in DOMAIN r : \E n \in DOMAIN y.results : y.results[n] = r[m]
      BY <3>1, <2>5, <2>6, Zenon
    <3> QED
      BY <1>1, <3>2, Zenon DEF d, r
<1>7. CASE ~Sortable(r)
  <2> DEFINE x == [stage |-> "raised", doc |-> d]
  <2>1. SelfNumbered(d) # {}
    BY <1>2, <1>3, <1>7, NumbersSort
  <2>2. x \in Progress /\ x.stage = "raised" /\ x.doc = d
    BY <1>2 DEF Progress, Raised
  <2>3. up' = [up EXCEPT ![u] = x]
    BY <1>4, <1>7
  <2> HIDE DEF x
  <2>4. Becomes(u, x)
    BY <2>2, <2>3, BecomesUp
  <2> QED
    BY <1>1, <2>1, <2>2, <2>4 DEF d
<1> QED
  BY <1>6, <1>7

LEMMA DiesUp ==
  ASSUME TypeOK, NEW u \in Upload, Dies(u)
  PROVE  \E x : Becomes(u, x) /\ x.stage = "died"
<1> DEFINE x == [stage |-> "died"]
<1>1. x \in Progress /\ x.stage = "died"
  BY DEF Progress, Ended
<1>2. up' = [up EXCEPT ![u] = x]
  BY DEF Dies
<1> HIDE DEF x
<1> QED
  BY <1>1, <1>2, BecomesUp

-----------------------------------------------------------------------------
(* What a step does to the store *)

LEMMA StoredPublication ==
  ASSUME TypeOK, NEW id \in Uuid, NEW pub \in Publications, Stored(id, pub)
  PROVE  /\ DOMAIN store' = DOMAIN store \cup {id}
         /\ store' \in [DOMAIN store' -> Publications]
         /\ store'[id] = pub
         /\ \A x \in DOMAIN store \ {id} : store'[x] = store[x]
         /\ authors' = authors \cup {id}
<1>1. store' = [x \in DOMAIN store \cup {id} |-> IF x = id THEN pub ELSE store[x]]
  BY DEF Stored
<1>2. \A x \in DOMAIN store : store[x] \in Publications
  BY DEF TypeOK
<1>3. \A x \in DOMAIN store \cup {id} : (IF x = id THEN pub ELSE store[x]) \in Publications
  BY <1>2
<1> QED
  BY <1>1, <1>3 DEF Stored

LEMMA CreatedPublication ==
  ASSUME TypeOK, NEW u \in Upload, Halfway(u), RecordCreated(u)
  PROVE  \E pub \in Publications :
           /\ Stored(Id(u), pub)
           /\ ~Taken(pub.key)
           /\ pub.project # Null => /\ pub.project \in DOMAIN up[u].memo
                                    /\ pub.name = up[u].memo[pub.project]
<1> DEFINE rec == Record(u)
           pub == [key |-> rec.key, project |-> rec.project,
                   name |-> IF rec.name # Null THEN rec.name ELSE Found(u)]
<1>1. /\ Ingesting(u) /\ rec.valid => ~Unasked(u)
      /\ Acceptable(u) /\ ~Taken(rec.key) /\ Stored(Id(u), pub)
  BY DEF RecordCreated
<1>2. /\ rec.key \in Key /\ rec.project \in {Null} \cup Project
      /\ rec.name \in {Null} \cup Name /\ up[u].memo \in Memo
  <2>1. Ingesting(u)
    BY DEF RecordCreated
  <2> HIDE DEF pub
  <2> QED
    BY <2>1, IngestedRecord
<1>3. ~Unasked(u) /\ (rec.project # Null => NameHolds(u))
  <2>1. Acceptable(u) /\ (Record(u).valid => ~Unasked(u))
    BY DEF RecordCreated
  <2>2. Record(u).valid /\ (Record(u).project # Null => NameHolds(u))
    BY <2>1, Zenon DEF Acceptable
  <2> QED
    BY <2>1, <2>2, Zenon
<1>4. Found(u) \in {Null} \cup Name
  <2>1. CASE rec.project = Null
    BY <2>1 DEF Found
  <2>2. CASE rec.project # Null
    <3>1. Found(u) = up[u].memo[rec.project] /\ rec.project \in DOMAIN up[u].memo
      BY <2>2, <1>3 DEF Found, Unasked
    <3>2. PICK D \in SUBSET Project : up[u].memo \in [D -> {Null} \cup Name]
      BY <1>2 DEF Memo
    <3> QED
      BY <3>1, <3>2
  <2> QED
    BY <2>1, <2>2
<1>5. rec.project # Null => /\ rec.project \in DOMAIN up[u].memo
                            /\ Found(u) = up[u].memo[rec.project]
                            /\ rec.name \in {Null, Found(u)}
  BY <1>3 DEF Found, NameHolds, Unasked
<1>6. /\ pub.key = rec.key /\ pub.project = rec.project
      /\ pub.name = IF rec.name # Null THEN rec.name ELSE Found(u)
  OBVIOUS
<1>7. pub \in Publications
  BY <1>2, <1>4 DEF Publications
<1> HIDE DEF pub, rec
<1>8. pub.project # Null => /\ pub.project \in DOMAIN up[u].memo
                            /\ pub.name = up[u].memo[pub.project]
  BY <1>5, <1>6
<1> QED
  BY <1>1, <1>6, <1>7, <1>8

\* The store and the deleted ids stay, or gain a publication of an unused key, or one
\* publication changes its key or goes.
LEMMA StoreMoves ==
  ASSUME TypeOK, \A u \in Upload : Halfway(u), [Next]_vars
  PROVE  \/ UNCHANGED <<store, authors, gone>>
         \/ \E id \in Uuid, pub \in Publications :
              /\ Stored(id, pub) /\ gone' = gone
              /\ ~Taken(pub.key)
              /\ id[2] = 0 => pub.project = Null
         \/ \E id \in DOMAIN store, k \in Key : Retitles(id, k)
         \/ \E id \in DOMAIN store : Deletes(id)
<1>1. CASE vars' = vars
  BY <1>1 DEF vars
<1>2. ASSUME NEW u \in Upload, NEW doc \in Document, Collects(u, doc)
      PROVE  UNCHANGED <<store, authors, gone>>
  BY <1>2 DEF Collects
<1>3. ASSUME NEW u \in Upload, Ingests(u), ~RecordCreated(u)
      PROVE  UNCHANGED <<store, authors, gone>>
  BY <1>3 DEF Ingests, AsksProject, RecordFails, RecordSkipped, RecordRaises, Answers,
              Refused
<1>4. ASSUME NEW u \in Upload, RecordCreated(u)
      PROVE  \E id \in Uuid, pub \in Publications :
               /\ Stored(id, pub) /\ gone' = gone
               /\ ~Taken(pub.key)
               /\ id[2] = 0 => pub.project = Null
  <2>1. Ingesting(u) /\ gone' = gone
    BY <1>4 DEF RecordCreated
  <2>2. Id(u) \in Uuid /\ Id(u)[2] # 0
    BY <2>1, IngestedRecord
  <2>3. \E pub \in Publications : Stored(Id(u), pub) /\ ~Taken(pub.key)
    BY <1>4, CreatedPublication
  <2> QED
    BY <2>1, <2>2, <2>3
<1>5. ASSUME NEW u \in Upload, Dies(u)
      PROVE  UNCHANGED <<store, authors, gone>>
  BY <1>5 DEF Dies
<1>6. ASSUME NEW f \in Form, NEW k \in Key, Creates(f, k)
      PROVE  \/ UNCHANGED <<store, authors, gone>>
             \/ \E id \in Uuid, pub \in Publications :
                  /\ Stored(id, pub) /\ gone' = gone
                  /\ ~Taken(pub.key)
                  /\ id[2] = 0 => pub.project = Null
  <2>1. CASE Taken(k) /\ Refused(<<f, 0>>)
    BY <1>6, <2>1 DEF Creates, Refused
  <2>2. CASE ~Taken(k) /\ Stored(<<f, 0>>, [key |-> k, project |-> Null, name |-> Null])
    <3> DEFINE pub == [key |-> k, project |-> Null, name |-> Null]
    <3>1. pub \in Publications /\ pub.key = k /\ pub.project = Null
      BY DEF Publications
    <3>2. <<f, 0>> \in Uuid /\ gone' = gone
      BY <1>6 DEF Uuid, Creates
    <3> HIDE DEF pub
    <3>3. Stored(<<f, 0>>, pub)
      BY <2>2 DEF pub
    <3>4. ~Taken(pub.key)
      BY <2>2, <3>1
    <3> QED
      BY <3>1, <3>2, <3>3, <3>4
  <2> QED
    BY <1>6, <2>1, <2>2 DEF Creates
<1>7. CASE Next
  BY <1>2, <1>3, <1>4, <1>5, <1>6, <1>7, Zenon DEF Next
<1> QED
  BY <1>1, <1>7

LEMMA StoreStep ==
  ASSUME TypeOK, StoreSound, SinglesBare, \A u \in Upload : Halfway(u), [Next]_vars
  PROVE  /\ DOMAIN store' \subseteq Uuid
         /\ store' \in [DOMAIN store' -> Publications]
         /\ gone' \subseteq Uuid
         /\ StoreSound'
         /\ SinglesBare'
<1> USE DEF StoreSound, SinglesBare
<1>1. CASE UNCHANGED <<store, authors, gone>>
  BY <1>1 DEF TypeOK
<1>2. ASSUME NEW id \in Uuid, NEW pub \in Publications, Stored(id, pub), gone' = gone,
             ~Taken(pub.key), id[2] = 0 => pub.project = Null
      PROVE  /\ DOMAIN store' \subseteq Uuid
             /\ store' \in [DOMAIN store' -> Publications]
             /\ gone' \subseteq Uuid
             /\ StoreSound'
             /\ SinglesBare'
  <2>1. /\ DOMAIN store' = DOMAIN store \cup {id}
        /\ store' \in [DOMAIN store' -> Publications]
        /\ store'[id] = pub
        /\ \A x \in DOMAIN store \ {id} : store'[x] = store[x]
        /\ authors' = authors \cup {id}
    BY <1>2, StoredPublication
  <2>2. DOMAIN store' \subseteq Uuid /\ gone' \subseteq Uuid
    BY <1>2, <2>1 DEF TypeOK
  <2>3. \A x \in DOMAIN store : store[x].key # pub.key
    BY <1>2 DEF Taken
  <2>4. ASSUME NEW x \in DOMAIN store', NEW y \in DOMAIN store', store'[x].key = store'[y].key
        PROVE  x = y
    <3>1. CASE x = id /\ y = id
      BY <3>1
    <3>2. CASE x = id /\ y # id
      BY <3>2, <2>1, <2>3, <2>4
    <3>3. CASE x # id /\ y = id
      BY <3>3, <2>1, <2>3, <2>4
    <3>4. CASE x # id /\ y # id
      BY <3>4, <2>1, <2>4
    <3> QED
      BY <3>1, <3>2, <3>3, <3>4
  <2>5. authors' = DOMAIN store'
    BY <2>1
  <2>6. ASSUME NEW x \in DOMAIN store', x[2] = 0 PROVE store'[x].project = Null
    BY <1>2, <2>1, <2>6
  <2> QED
    BY <2>1, <2>2, <2>4, <2>5, <2>6
<1>3. ASSUME NEW id \in DOMAIN store, NEW k \in Key, Retitles(id, k)
      PROVE  /\ DOMAIN store' \subseteq Uuid
             /\ store' \in [DOMAIN store' -> Publications]
             /\ gone' \subseteq Uuid
             /\ StoreSound'
             /\ SinglesBare'
  <2>1. /\ store' = [store EXCEPT ![id] = [store[id] EXCEPT !.key = k]]
        /\ authors' = authors /\ gone' = gone /\ ~Taken(k)
    BY <1>3 DEF Retitles
  <2>2. \A x \in DOMAIN store : store[x] \in Publications
    BY DEF TypeOK
  <2> DEFINE new == [store[id] EXCEPT !.key = k]
  <2>3. new \in Publications /\ new.key = k /\ new.project = store[id].project
    <3> DEFINE old == store[id]
    <3>1. old \in Publications
      BY <2>2
    <3> HIDE DEF old
    <3>2. LET y == [old EXCEPT !.key = k]
          IN y \in Publications /\ y.key = k /\ y.project = old.project
      BY <3>1 DEF Publications
    <3> QED
      BY <3>2 DEF old
  <2> HIDE DEF new
  <2>4. /\ DOMAIN store' = DOMAIN store /\ store'[id] = new
        /\ \A x \in DOMAIN store \ {id} : store'[x] = store[x]
        /\ store' \in [DOMAIN store' -> Publications]
    <3>1. store' = [store EXCEPT ![id] = new]
      BY <2>1 DEF new
    <3>2. store \in [DOMAIN store -> Publications]
      BY DEF TypeOK
    <3> QED
      BY <2>3, <3>1, <3>2
  <2>5. DOMAIN store' \subseteq Uuid /\ gone' \subseteq Uuid
    BY <2>1, <2>4 DEF TypeOK
  <2>6. \A x \in DOMAIN store : store[x].key # k
    BY <2>1 DEF Taken
  <2>7. ASSUME NEW x \in DOMAIN store', NEW y \in DOMAIN store', store'[x].key = store'[y].key
        PROVE  x = y
    <3>1. CASE x = id /\ y = id
      BY <3>1
    <3>2. CASE x = id /\ y # id
      BY <3>2, <2>3, <2>4, <2>6, <2>7
    <3>3. CASE x # id /\ y = id
      BY <3>3, <2>3, <2>4, <2>6, <2>7
    <3>4. CASE x # id /\ y # id
      BY <3>4, <2>4, <2>7
    <3> QED
      BY <3>1, <3>2, <3>3, <3>4
  <2>8. authors' = DOMAIN store'
    BY <2>1, <2>4
  <2>9. ASSUME NEW x \in DOMAIN store', x[2] = 0 PROVE store'[x].project = Null
    BY <2>3, <2>4, <2>9
  <2> QED
    BY <2>4, <2>5, <2>7, <2>8, <2>9
<1>4. ASSUME NEW id \in DOMAIN store, Deletes(id)
      PROVE  /\ DOMAIN store' \subseteq Uuid
             /\ store' \in [DOMAIN store' -> Publications]
             /\ gone' \subseteq Uuid
             /\ StoreSound'
             /\ SinglesBare'
  <2>1. /\ store' = [x \in DOMAIN store \ {id} |-> store[x]]
        /\ authors' = authors \ {id} /\ gone' = gone \cup {id}
    BY <1>4 DEF Deletes
  <2>2. /\ DOMAIN store' = DOMAIN store \ {id}
        /\ \A x \in DOMAIN store' : store'[x] = store[x] /\ store[x] \in Publications
    BY <2>1 DEF TypeOK
  <2>3. store' \in [DOMAIN store' -> Publications]
    BY <2>1, <2>2
  <2>4. DOMAIN store' \subseteq Uuid /\ gone' \subseteq Uuid
    BY <2>1, <2>2 DEF TypeOK
  <2> QED
    BY <2>1, <2>2, <2>3, <2>4
<1> QED
  BY <1>1, <1>2, <1>3, <1>4, StoreMoves

-----------------------------------------------------------------------------
(* What a step does to the requests *)

Ids == DOMAIN store \cup gone

RequestInv(u) == Halfway(u) /\ Reporting(u) /\ Landing(u) /\ Asking(u) /\ AsTold(u)

\* Nothing request v depends on changes: at most an id that is not an item of v is new.
Undisturbed(v) ==
  /\ up'[v] = up[v]
  /\ \A p \in Project : asked'[<<v, p>>] = asked[<<v, p>>]
  /\ Ids \subseteq Ids'
  /\ \A id \in Ids' \ Ids : id[1] = v => id[2] = 0
  /\ \A id \in DOMAIN store' : id[1] = v /\ store'[id].project # Null =>
       /\ id \in DOMAIN store
       /\ store'[id].project = store[id].project
       /\ store'[id].name = store[id].name

LEMMA RequestDocument ==
  ASSUME TypeOK, NEW u \in Upload, up[u].stage \in {"ingesting", "answered"}
  PROVE  up[u].doc \in Document
<1>1. up[u] \in Working \cup Answered
  BY StageFields DEF TypeOK
<1> QED
  BY <1>1 DEF Working, Answered

LEMMA ItemNumbers ==
  ASSUME TypeOK, NEW u \in Upload, up[u].stage \in {"ingesting", "answered"},
         NEW i \in DOMAIN up[u].doc.items
  PROVE  i # 0 /\ <<u, i>>[1] = u /\ <<u, i>>[2] = i
<1>1. up[u].doc \in Document
  BY RequestDocument
<1>2. i \in 1 .. Len(up[u].doc.items) /\ Len(up[u].doc.items) \in Nat
  BY <1>1, DocumentFacts
<1> QED
  BY <1>2

LEMMA UndisturbedKeeps ==
  ASSUME TypeOK, NEW v \in Upload, RequestInv(v), Undisturbed(v)
  PROVE  RequestInv(v)'
<1> USE DEF Undisturbed
<1>1. Halfway(v)'
  BY DEF RequestInv, Halfway
<1>2. Reporting(v)'
  BY DEF RequestInv, Reporting
<1>3. Landing(v)'
  <2>1. ASSUME up[v].stage = "idle", NEW id \in Ids', id[1] = v PROVE id[2] = 0
    BY <2>1 DEF RequestInv, Landing, Ids
  <2>2. ASSUME up[v].stage \in {"ingesting", "answered"}, NEW i \in DOMAIN up[v].doc.items
        PROVE  <<v, i>> \in Ids' <=> <<v, i>> \in Ids
    BY <2>2, ItemNumbers
  <2> QED
    BY <2>1, <2>2 DEF RequestInv, Landing, Stores, Ids
<1>4. Asking(v)'
  BY DEF RequestInv, Asking
<1>5. AsTold(v)'
  BY DEF RequestInv, AsTold
<1> QED
  BY <1>1, <1>2, <1>3, <1>4, <1>5 DEF RequestInv

\* A step of u that leaves the store alone disturbs nobody else.
LEMMA OthersKeep ==
  ASSUME TypeOK, NEW u \in Upload, \A v \in Upload : RequestInv(v), NEW x, Becomes(u, x),
         \A v \in Upload \ {u}, p \in Project : asked'[<<v, p>>] = asked[<<v, p>>],
         store' = store, gone' = gone, RequestInv(u)'
  PROVE  \A v \in Upload : RequestInv(v)'
<1>1. ASSUME NEW v \in Upload \ {u} PROVE RequestInv(v)'
  <2>1. Ids' = Ids
    BY DEF Ids
  <2>2. Undisturbed(v)
    BY <2>1 DEF Becomes, Undisturbed
  <2> QED
    BY <2>2, UndisturbedKeeps
<1> QED
  BY <1>1

LEMMA CollectsRequests ==
  ASSUME TypeOK, SinglesBare, \A v \in Upload : RequestInv(v),
         NEW u \in Upload, NEW doc \in Document, Collects(u, doc)
  PROVE  /\ up' \in [Upload -> Progress]
         /\ \A v \in Upload : RequestInv(v)'
<1>1. /\ up[u].stage = "idle"
      /\ store' = store /\ gone' = gone /\ asked' = asked
  BY CollectsUp DEF Collects
<1>2. PICK x : /\ Becomes(u, x)
               /\ \/ x.stage = "refused"
                  \/ /\ x.stage = "ingesting"
                     /\ x.doc = doc
                     /\ x.memo = << >>
                     /\ ReportsOn(x.results, doc)
                     /\ SharedOut(x.todo, x.results, doc)
                     /\ \A n \in DOMAIN x.results : x.results[n].status = "failed"
  BY CollectsUp
<1>3. up'[u] = x
  BY <1>2 DEF Becomes
<1>4. \A p \in Project : asked'[<<u, p>>] = 0
  BY <1>1 DEF RequestInv, Asking
<1>5. \A id \in DOMAIN store' \cup gone' : id[1] = u => id[2] = 0
  BY <1>1 DEF RequestInv, Landing
<1>6. RequestInv(u)'
  <2>1. CASE x.stage = "refused"
    BY <1>3, <1>4, <2>1
       DEF RequestInv, Halfway, Reporting, Landing, Asking, AsTold
  <2>2. CASE x.stage = "ingesting"
    <3>1. Halfway(u)' /\ Reporting(u)'
      BY <1>2, <1>3, <2>2 DEF Halfway, Reporting
    <3>2. Landing(u)'
      <4>1. ASSUME NEW i \in DOMAIN x.doc.items
            PROVE  /\ <<u, i>> \notin DOMAIN store' \cup gone'
                   /\ ~ \E n \in DOMAIN x.results :
                          x.results[n].item = i /\ x.results[n].status = "created"
        <5>1. i # 0
          BY <1>2, <2>2, DocumentFacts
        <5>2. <<u, i>> \notin DOMAIN store' \cup gone'
          BY <5>1, <1>5
        <5>3. \A n \in DOMAIN x.results : x.results[n].status # "created"
          BY <1>2, <2>2
        <5> QED
          BY <5>2, <5>3
      <4> QED
        BY <1>3, <2>2, <4>1 DEF Landing, Stores
    <3>3. Asking(u)'
      BY <1>3, <1>4, <2>2 DEF Asking
    <3>4. AsTold(u)'
      <4>1. \A id \in DOMAIN store' : id[1] = u => store'[id].project = Null
        BY <1>1, <1>5 DEF SinglesBare
      <4> QED
        BY <4>1 DEF AsTold
    <3> QED
      BY <3>1, <3>2, <3>3, <3>4 DEF RequestInv
  <2> QED
    BY <1>2, <2>1, <2>2
<1> QED
  BY <1>1, <1>2, <1>6, OthersKeep DEF Becomes

LEMMA AsksRequests ==
  ASSUME TypeOK, \A v \in Upload : RequestInv(v),
         NEW u \in Upload, NEW answer \in {Null} \cup Name, AsksProject(u, answer)
  PROVE  /\ up' \in [Upload -> Progress]
         /\ asked' \in [Upload \X Project -> Nat]
         /\ \A v \in Upload : RequestInv(v)'
<1> DEFINE p == Record(u).project
<1>1. /\ store' = store /\ gone' = gone
      /\ asked' = [asked EXCEPT ![<<u, p>>] = asked[<<u, p>>] + 1]
  BY DEF AsksProject
<1>2. Halfway(u)
  BY DEF RequestInv
<1>3. /\ up[u].stage = "ingesting" /\ p \in Project /\ p \notin DOMAIN up[u].memo
  BY <1>2, AsksUp
<1>4. PICK x : /\ Becomes(u, x)
               /\ x.stage = "ingesting"
               /\ x.doc = up[u].doc /\ x.todo = up[u].todo /\ x.results = up[u].results
               /\ DOMAIN x.memo = DOMAIN up[u].memo \cup {p}
               /\ \A q \in DOMAIN up[u].memo : x.memo[q] = up[u].memo[q]
  BY <1>2, AsksUp
<1> HIDE DEF p
<1>5. asked \in [Upload \X Project -> Nat]
  BY DEF TypeOK
<1>6. <<u, p>> \in Upload \X Project /\ asked[<<u, p>>] \in Nat
  BY <1>3, <1>5
<1>7. /\ asked' \in [Upload \X Project -> Nat]
      /\ asked'[<<u, p>>] = asked[<<u, p>>] + 1
      /\ \A q \in Project \ {p} : asked'[<<u, q>>] = asked[<<u, q>>]
      /\ \A v \in Upload \ {u}, q \in Project : asked'[<<v, q>>] = asked[<<v, q>>]
  BY <1>1, <1>5, <1>6
<1>8. up'[u] = x
  BY <1>4 DEF Becomes
<1>9. RequestInv(u)'
  <2>1. Halfway(u)' /\ Reporting(u)'
    BY <1>3, <1>4, <1>8 DEF RequestInv, Halfway, Reporting
  <2>2. Landing(u)'
    BY <1>1, <1>3, <1>4, <1>8 DEF RequestInv, Landing, Stores
  <2>3. Asking(u)'
    <3>1. asked[<<u, p>>] = 0
      BY <1>3 DEF RequestInv, Asking
    <3>2. ASSUME NEW q \in Project
          PROVE  /\ asked'[<<u, q>>] <= 1
                 /\ asked'[<<u, q>>] = 0 \/ q \in DOMAIN x.memo
      <4>1. CASE q = p
        BY <3>1, <4>1, <1>4, <1>7
      <4>2. CASE q # p
        BY <4>2, <1>3, <1>4, <1>7 DEF RequestInv, Asking
      <4> QED
        BY <4>1, <4>2
    <3> QED
      BY <3>2, <1>4, <1>8 DEF Asking
  <2>4. AsTold(u)'
    BY <1>1, <1>3, <1>4, <1>8 DEF RequestInv, AsTold
  <2> QED
    BY <2>1, <2>2, <2>3, <2>4 DEF RequestInv
<1> QED
  BY <1>1, <1>4, <1>7, <1>9, OthersKeep DEF Becomes

LEMMA ReportedLists ==
  ASSUME TypeOK, NEW u \in Upload, RequestInv(u), Ingesting(u), NEW st \in Status,
         Reported(u, st), asked' = asked
  PROVE  Halfway(u)' /\ Reporting(u)' /\ Asking(u)'
<1> DEFINE x == OneOn(u, st)
<1>1. Halfway(u)
  BY DEF RequestInv
<1>2. /\ Becomes(u, x) /\ up[u].stage = "ingesting"
      /\ ReportsOn(x.results, up[u].doc) /\ SharedOut(x.todo, x.results, up[u].doc)
  BY <1>1, ReportedUp
<1>3. x.stage = "ingesting" /\ x.doc = up[u].doc /\ x.memo = up[u].memo
  BY DEF OneOn
<1>4. up'[u] = x
  BY <1>2 DEF Becomes
<1> HIDE DEF x
<1>5. Halfway(u)' /\ Reporting(u)'
  BY <1>2, <1>3, <1>4 DEF Halfway, Reporting
<1>6. Asking(u)'
  BY <1>2, <1>3, <1>4 DEF RequestInv, Asking
<1> QED
  BY <1>5, <1>6

\* A record that is not stored is reported as failed or skipped.
LEMMA UnstoredRequests ==
  ASSUME TypeOK, \A v \in Upload : RequestInv(v), NEW u \in Upload, Ingesting(u),
         NEW st \in {"failed", "skipped"}, Reported(u, st),
         store' = store, gone' = gone, asked' = asked
  PROVE  /\ up' \in [Upload -> Progress]
         /\ \A v \in Upload : RequestInv(v)'
<1> DEFINE x == OneOn(u, st)
<1>1. RequestInv(u) /\ Halfway(u) /\ st \in Status
  BY DEF RequestInv, Status
<1>2. /\ Becomes(u, x) /\ up[u].stage = "ingesting"
      /\ \A i : (\E n \in DOMAIN x.results :
                   x.results[n].item = i /\ x.results[n].status = "created")
                <=> \/ \E n \in DOMAIN up[u].results :
                         up[u].results[n].item = i /\ up[u].results[n].status = "created"
                    \/ i = Head(up[u].todo) /\ st = "created"
  BY <1>1, ReportedUp
<1>3. x.stage = "ingesting" /\ x.doc = up[u].doc /\ x.memo = up[u].memo
  BY DEF OneOn
<1>4. up'[u] = x
  BY <1>2 DEF Becomes
<1> HIDE DEF x
<1>5. Landing(u)'
  <2>1. \A i : (\E n \in DOMAIN x.results :
                  x.results[n].item = i /\ x.results[n].status = "created")
               <=> \E n \in DOMAIN up[u].results :
                     up[u].results[n].item = i /\ up[u].results[n].status = "created"
    <3>1. st # "created"
      OBVIOUS
    <3> QED
      BY <3>1, <1>2
  <2> QED
    BY <2>1, <1>1, <1>2, <1>3, <1>4 DEF RequestInv, Landing, Stores
<1>6. AsTold(u)'
  BY <1>1, <1>2, <1>3, <1>4 DEF RequestInv, AsTold
<1>7. RequestInv(u)'
  BY <1>1, <1>5, <1>6, ReportedLists DEF RequestInv
<1> QED
  BY <1>2, <1>7, OthersKeep DEF Becomes

\* A record that is stored is reported as created.
LEMMA CreatedRequests ==
  ASSUME TypeOK, \A v \in Upload : RequestInv(v), NEW u \in Upload, RecordCreated(u)
  PROVE  /\ up' \in [Upload -> Progress]
         /\ \A v \in Upload : RequestInv(v)'
<1> DEFINE x == OneOn(u, "created")
           h == Head(up[u].todo)
<1>1. /\ RequestInv(u) /\ Halfway(u) /\ "created" \in Status
      /\ Ingesting(u) /\ Reported(u, "created") /\ gone' = gone /\ asked' = asked
  BY DEF RequestInv, Status, RecordCreated
<1>2. /\ Becomes(u, x) /\ up[u].stage = "ingesting"
      /\ h \in DOMAIN up[u].doc.items
      /\ \A i : (\E n \in DOMAIN x.results :
                   x.results[n].item = i /\ x.results[n].status = "created")
                <=> \/ \E n \in DOMAIN up[u].results :
                         up[u].results[n].item = i /\ up[u].results[n].status = "created"
                    \/ i = h
  <2>1. PICK st \in Status : st = "created" /\ Reported(u, st)
    BY <1>1
  <2>2. /\ Becomes(u, OneOn(u, st)) /\ up[u].stage = "ingesting"
        /\ h \in DOMAIN up[u].doc.items
        /\ \A i : (\E n \in DOMAIN OneOn(u, st).results :
                     /\ OneOn(u, st).results[n].item = i
                     /\ OneOn(u, st).results[n].status = "created")
                  <=> \/ \E n \in DOMAIN up[u].results :
                           up[u].results[n].item = i /\ up[u].results[n].status = "created"
                      \/ i = h /\ st = "created"
    BY <1>1, <2>1, ReportedUp
  <2>3. OneOn(u, st) = x
    BY <2>1
  <2> QED
    BY <2>1, <2>2, <2>3
<1>3. x.stage = "ingesting" /\ x.doc = up[u].doc /\ x.memo = up[u].memo
  BY DEF OneOn
<1>4. up'[u] = x /\ up' \in [Upload -> Progress] /\ \A v \in Upload \ {u} : up'[v] = up[v]
  BY <1>2 DEF Becomes
<1>5. Id(u) = <<u, h>> /\ Id(u) \in Uuid
  BY <1>1, IngestedRecord DEF Id
<1>6. PICK pub \in Publications :
        /\ Stored(Id(u), pub)
        /\ pub.project # Null => /\ pub.project \in DOMAIN up[u].memo
                                 /\ pub.name = up[u].memo[pub.project]
  BY <1>1, CreatedPublication
<1>7. /\ DOMAIN store' = DOMAIN store \cup {<<u, h>>}
      /\ store'[<<u, h>>] = pub
      /\ \A y \in DOMAIN store \ {<<u, h>>} : store'[y] = store[y]
  BY <1>5, <1>6, StoredPublication
<1> HIDE DEF x, h
<1>8. Ids' = Ids \cup {<<u, h>>}
  BY <1>1, <1>7 DEF Ids
<1>9. Landing(u)'
  <2>1. ASSUME NEW i \in DOMAIN x.doc.items
        PROVE  <<u, i>> \in Ids' <=> \E n \in DOMAIN x.results :
                                       x.results[n].item = i /\ x.results[n].status = "created"
    <3>1. <<u, i>> \in Ids' <=> <<u, i>> \in Ids \/ i = h
      BY <1>8
    <3>2. <<u, i>> \in Ids <=> \E n \in DOMAIN up[u].results :
                                 /\ up[u].results[n].item = i
                                 /\ up[u].results[n].status = "created"
      BY <1>1, <1>2, <1>3 DEF RequestInv, Landing, Stores, Ids
    <3> QED
      BY <3>1, <3>2, <1>2
  <2> QED
    BY <2>1, <1>3, <1>4 DEF Landing, Stores, Ids
<1>10. AsTold(u)'
  <2>1. ASSUME NEW id \in DOMAIN store', id[1] = u, store'[id].project # Null
        PROVE  /\ store'[id].project \in DOMAIN up[u].memo
               /\ store'[id].name = up[u].memo[store'[id].project]
    <3>1. CASE id = <<u, h>>
      BY <3>1, <2>1, <1>6, <1>7
    <3>2. CASE id # <<u, h>>
      BY <3>2, <2>1, <1>1, <1>2, <1>7 DEF RequestInv, AsTold
    <3> QED
      BY <3>1, <3>2
  <2> QED
    BY <2>1, <1>3, <1>4 DEF AsTold
<1>11. RequestInv(u)'
  BY <1>1, <1>9, <1>10, ReportedLists DEF RequestInv
<1>12. ASSUME NEW v \in Upload \ {u} PROVE RequestInv(v)'
  <2>1. <<u, h>>[1] = u /\ u # v
    OBVIOUS
  <2>2. Undisturbed(v)
    BY <2>1, <1>1, <1>4, <1>7, <1>8 DEF Undisturbed
  <2> QED
    BY <2>2, UndisturbedKeeps
<1> QED
  BY <1>4, <1>11, <1>12

LEMMA AnswersRequests ==
  ASSUME TypeOK, \A v \in Upload : RequestInv(v), NEW u \in Upload, Answers(u)
  PROVE  /\ up' \in [Upload -> Progress]
         /\ \A v \in Upload : RequestInv(v)'
<1>1. /\ RequestInv(u) /\ Halfway(u)
      /\ store' = store /\ gone' = gone /\ asked' = asked
  BY DEF RequestInv, Answers
<1>2. \A p \in Project : asked[<<u, p>>] <= 1
  BY <1>1 DEF RequestInv, Asking
<1>3. up[u].stage = "ingesting"
  BY <1>1, AnswersUp
<1>4. ASSUME NEW x, Becomes(u, x), x.doc = up[u].doc, x.stage = "raised",
             SelfNumbered(up[u].doc) # {}
      PROVE  RequestInv(u)'
  <2>1. up'[u] = x
    BY <1>4 DEF Becomes
  <2> QED
    BY <2>1, <1>1, <1>2, <1>4 DEF RequestInv, Halfway, Reporting, Landing, Asking, AsTold
<1>5. ASSUME NEW x, Becomes(u, x), x.doc = up[u].doc, x.stage = "answered",
             Complete(x.results, x.doc),
             SelfNumbered(x.doc) = {} => InOrder(x.results),
             \A n \in DOMAIN x.results :
               \E m \in DOMAIN up[u].results : x.results[n] = up[u].results[m],
             \A m \in DOMAIN up[u].results :
               \E n \in DOMAIN x.results : x.results[n] = up[u].results[m]
      PROVE  RequestInv(u)'
  <2>1. up'[u] = x
    BY <1>5 DEF Becomes
  <2>2. Halfway(u)' /\ Reporting(u)' /\ AsTold(u)'
    BY <2>1, <1>5 DEF Halfway, Reporting, AsTold
  <2>3. Asking(u)'
    BY <2>1, <1>1, <1>2, <1>5 DEF Asking
  <2>4. Landing(u)'
    <3>1. ASSUME NEW i
          PROVE  (\E n \in DOMAIN x.results :
                    x.results[n].item = i /\ x.results[n].status = "created")
                 <=> \E m \in DOMAIN up[u].results :
                       up[u].results[m].item = i /\ up[u].results[m].status = "created"
      BY <1>5
    <3> QED
      BY <2>1, <3>1, <1>1, <1>3, <1>5 DEF RequestInv, Landing, Stores
  <2> QED
    BY <2>2, <2>3, <2>4 DEF RequestInv
<1>6. \E x : Becomes(u, x) /\ RequestInv(u)'
  BY <1>1, <1>4, <1>5, AnswersUp
<1> QED
  BY <1>1, <1>6, OthersKeep DEF Becomes

LEMMA DiesRequests ==
  ASSUME TypeOK, \A v \in Upload : RequestInv(v), NEW u \in Upload, Dies(u)
  PROVE  /\ up' \in [Upload -> Progress]
         /\ \A v \in Upload : RequestInv(v)'
<1>1. RequestInv(u) /\ store' = store /\ gone' = gone /\ asked' = asked
  BY DEF RequestInv, Dies
<1>2. PICK x : Becomes(u, x) /\ x.stage = "died"
  BY DiesUp
<1>3. up'[u] = x
  BY <1>2 DEF Becomes
<1>4. \A p \in Project : asked'[<<u, p>>] <= 1
  BY <1>1 DEF RequestInv, Asking
<1>5. RequestInv(u)'
  BY <1>2, <1>3, <1>4 DEF RequestInv, Halfway, Reporting, Landing, Asking, AsTold
<1> QED
  BY <1>1, <1>2, <1>5, OthersKeep DEF Becomes

\* Single creates, edits and deletes leave every request as it is.
LEMMA StrangersKeep ==
  ASSUME TypeOK, SinglesBare, \A v \in Upload : RequestInv(v),
         \/ \E f \in Form, k \in Key : Creates(f, k)
         \/ \E id \in DOMAIN store, k \in Key : Retitles(id, k)
         \/ \E id \in DOMAIN store : Deletes(id)
  PROVE  /\ up' = up /\ asked' = asked
         /\ \A v \in Upload : RequestInv(v)'
<1>1. up' = up /\ asked' = asked
  BY DEF Creates, Retitles, Deletes
<1>2. SUFFICES ASSUME NEW v \in Upload PROVE Undisturbed(v)
  BY <1>1, UndisturbedKeeps
<1>3. ASSUME NEW f \in Form, NEW k \in Key, Creates(f, k) PROVE Undisturbed(v)
  <2>1. gone' = gone
    BY <1>3 DEF Creates
  <2>2. CASE Taken(k) /\ Refused(<<f, 0>>)
    BY <1>1, <2>1, <2>2 DEF Refused, Undisturbed, Ids
  <2>3. CASE Stored(<<f, 0>>, [key |-> k, project |-> Null, name |-> Null])
    <3> DEFINE pub == [key |-> k, project |-> Null, name |-> Null]
               id == <<f, 0>>
    <3>1. pub \in Publications /\ pub.project = Null /\ id \in Uuid /\ id[2] = 0
      BY DEF Publications, Uuid
    <3>2. Stored(id, pub)
      BY <2>3
    <3> HIDE DEF pub, id
    <3>3. /\ DOMAIN store' = DOMAIN store \cup {id}
          /\ store'[id] = pub
          /\ \A x \in DOMAIN store \ {id} : store'[x] = store[x]
      BY <3>1, <3>2, StoredPublication
    <3>4. Ids' = Ids \cup {id}
      BY <2>1, <3>3 DEF Ids
    <3> QED
      BY <1>1, <3>1, <3>3, <3>4 DEF Undisturbed
  <2> QED
    BY <1>3, <2>2, <2>3 DEF Creates
<1>4. ASSUME NEW id \in DOMAIN store, NEW k \in Key, Retitles(id, k) PROVE Undisturbed(v)
  <2>1. store' = [store EXCEPT ![id] = [store[id] EXCEPT !.key = k]] /\ gone' = gone
    BY <1>4 DEF Retitles
  <2> DEFINE new == [store[id] EXCEPT !.key = k]
  <2>2. new.project = store[id].project /\ new.name = store[id].name
    <3> DEFINE old == store[id]
    <3>1. old \in Publications
      BY DEF TypeOK
    <3> HIDE DEF old
    <3>2. LET y == [old EXCEPT !.key = k] IN y.project = old.project /\ y.name = old.name
      BY <3>1 DEF Publications
    <3> QED
      BY <3>2 DEF old
  <2> HIDE DEF new
  <2>3. /\ DOMAIN store' = DOMAIN store /\ store'[id] = new
        /\ \A x \in DOMAIN store \ {id} : store'[x] = store[x]
    <3>1. store' = [store EXCEPT ![id] = new] /\ store \in [DOMAIN store -> Publications]
      BY <2>1 DEF new, TypeOK
    <3> QED
      BY <3>1
  <2>4. Ids' = Ids
    BY <2>1, <2>3 DEF Ids
  <2> QED
    BY <1>1, <2>2, <2>3, <2>4 DEF Undisturbed
<1>5. ASSUME NEW id \in DOMAIN store, Deletes(id) PROVE Undisturbed(v)
  <2>1. /\ store' = [x \in DOMAIN store \ {id} |-> store[x]] /\ gone' = gone \cup {id}
    BY <1>5 DEF Deletes
  <2>2. Ids' = Ids
    BY <2>1 DEF Ids
  <2> QED
    BY <1>1, <2>1, <2>2 DEF Undisturbed
<1> QED
  BY <1>3, <1>4, <1>5

-----------------------------------------------------------------------------
(* The theorems *)

LEMMA IngestInit == Init => IngestInv
<1> SUFFICES ASSUME Init PROVE IngestInv
  OBVIOUS
<1>1. /\ store = << >> /\ DOMAIN store = {} /\ authors = {} /\ gone = {}
      /\ up = [u \in Upload |-> Idle]
      /\ asked = [k \in Upload \X Project |-> 0]
  BY DEF Init
<1>2. Idle \in Progress /\ Idle.stage = "idle"
  BY DEF Idle, Progress, Ended
<1>3. \A u \in Upload : up[u].stage = "idle"
  BY <1>1, <1>2
<1>4. TypeOK
  <2>1. store \in [DOMAIN store -> Publications]
    BY <1>1
  <2>2. up \in [Upload -> Progress] /\ asked \in [Upload \X Project -> Nat]
    BY <1>1, <1>2
  <2> QED
    BY <1>1, <2>1, <2>2 DEF TypeOK
<1>5. StoreSound /\ SinglesBare
  BY <1>1 DEF StoreSound, SinglesBare
<1>6. ASSUME NEW u \in Upload PROVE RequestInv(u)
  <2>1. \A p \in Project : asked[<<u, p>>] = 0
    BY <1>1
  <2> QED
    BY <2>1, <1>1, <1>3 DEF RequestInv, Halfway, Reporting, Landing, Asking, AsTold
<1> QED
  BY <1>4, <1>5, <1>6 DEF IngestInv, RequestInv

LEMMA IngestStep == IngestInv /\ [Next]_vars => IngestInv'
<1> SUFFICES ASSUME IngestInv, [Next]_vars PROVE IngestInv'
  OBVIOUS
<1>1. /\ TypeOK /\ StoreSound /\ SinglesBare
      /\ \A u \in Upload : RequestInv(u) /\ Halfway(u)
  BY DEF IngestInv, RequestInv
<1>2. /\ DOMAIN store' \subseteq Uuid
      /\ store' \in [DOMAIN store' -> Publications]
      /\ gone' \subseteq Uuid
      /\ StoreSound'
      /\ SinglesBare'
  BY <1>1, StoreStep
<1> DEFINE Good == /\ up' \in [Upload -> Progress]
                   /\ asked' \in [Upload \X Project -> Nat]
                   /\ \A v \in Upload : RequestInv(v)'
<1>3. up \in [Upload -> Progress] /\ asked \in [Upload \X Project -> Nat]
  BY <1>1 DEF TypeOK
<1>4. ASSUME vars' = vars PROVE Good
  <2>1. /\ up' = up /\ asked' = asked /\ store' = store /\ gone' = gone
    BY <1>4 DEF vars
  <2>2. \A v \in Upload : Undisturbed(v)
    BY <2>1 DEF Undisturbed, Ids
  <2> QED
    BY <1>1, <1>3, <2>1, <2>2, UndisturbedKeeps
<1>5. ASSUME NEW u \in Upload, NEW doc \in Document, Collects(u, doc) PROVE Good
  <2>1. asked' = asked
    BY <1>5 DEF Collects
  <2> QED
    BY <1>1, <1>3, <1>5, <2>1, CollectsRequests
<1>6. ASSUME NEW u \in Upload, Ingests(u) PROVE Good
  <2>1. ASSUME NEW answer \in {Null} \cup Name, AsksProject(u, answer) PROVE Good
    BY <1>1, <2>1, AsksRequests
  <2>3. CASE RecordFails(u)
    <3>1. /\ Ingesting(u) /\ Reported(u, "failed") /\ asked' = asked
          /\ store' = store /\ gone' = gone
      BY <2>3 DEF RecordFails
    <3> QED
      BY <3>1, <1>1, <1>3, UnstoredRequests
  <2>4. CASE RecordCreated(u)
    <3>1. asked' = asked
      BY <2>4 DEF RecordCreated
    <3> QED
      BY <3>1, <2>4, <1>1, <1>3, CreatedRequests
  <2>5. CASE RecordSkipped(u)
    <3>1. /\ Ingesting(u) /\ Reported(u, "skipped") /\ asked' = asked
          /\ store' = store /\ gone' = gone
      BY <2>5 DEF RecordSkipped, Refused
    <3> QED
      BY <3>1, <1>1, <1>3, UnstoredRequests
  <2>6. CASE RecordRaises(u)
    <3>1. /\ Ingesting(u) /\ Reported(u, "failed") /\ asked' = asked
          /\ store' = store /\ gone' = gone
      BY <2>6 DEF RecordRaises, Refused
    <3> QED
      BY <3>1, <1>1, <1>3, UnstoredRequests
  <2>7. CASE Answers(u)
    <3>1. asked' = asked
      BY <2>7 DEF Answers
    <3> QED
      BY <3>1, <2>7, <1>1, <1>3, AnswersRequests
  <2> HIDE DEF Good
  <2> QED
    BY <1>6, <2>1, <2>3, <2>4, <2>5, <2>6, <2>7 DEF Ingests
<1>7. ASSUME NEW u \in Upload, Dies(u) PROVE Good
  <2>1. asked' = asked
    BY <1>7 DEF Dies
  <2> QED
    BY <1>1, <1>3, <1>7, <2>1, DiesRequests
<1>8. ASSUME \/ \E f \in Form, k \in Key : Creates(f, k)
             \/ \E id \in DOMAIN store, k \in Key : Retitles(id, k)
             \/ \E id \in DOMAIN store : Deletes(id)
      PROVE  Good
  <2>1. up' = up /\ asked' = asked /\ \A v \in Upload : RequestInv(v)'
    BY <1>1, <1>8, StrangersKeep
  <2> QED
    BY <2>1, <1>3
<1>9. ASSUME Good PROVE IngestInv'
  BY <1>2, <1>9 DEF IngestInv, TypeOK, RequestInv
<1> HIDE DEF Good
<1> QED
  BY <1>4, <1>5, <1>6, <1>7, <1>8, <1>9 DEF Next

\* What the store, the requests and the lists a request works off have to do with each
\* other at every step of bulk_ingest.ingest.
THEOREM IngestInvariant == Spec => []IngestInv
BY IngestInit, IngestStep, PTL DEF Spec

\* Every variable of the upload keeps its type.
THEOREM IngestTyped == Spec => []TypeOK
<1>1. IngestInv => TypeOK
  BY DEF IngestInv
<1> QED
  BY <1>1, IngestInvariant, PTL

\* No two publications share title and link, and no Author row is without its publication,
\* however uploads, creates, edits and deletes meet.
THEOREM StoreStaysSound == Spec => []StoreSound
<1>1. IngestInv => StoreSound
  BY DEF IngestInv
<1> QED
  BY <1>1, IngestInvariant, PTL

\* An answer has one entry for each item that the reader of the document handed over - one
\* for all of a BibTeX document that does not parse - and its created entries are the
\* publications this request stored.
THEOREM ReportsWhatLanded == Spec => []ReportIsWhatLanded
<1>1. IngestInv => ReportIsWhatLanded
  <2> SUFFICES ASSUME IngestInv, NEW u \in Upload, up[u].stage \in {"ingesting", "answered"}
               PROVE  LET landed == {i \in DOMAIN up[u].doc.items :
                                       <<u, i>> \in DOMAIN store \cup gone}
                      IN /\ Items(u, "created") = landed
                         /\ up[u].stage = "answered" =>
                              /\ Len(up[u].results) = Cardinality(HandedOver(up[u].doc))
                              /\ {e.item : e \in Entries(u)} = HandedOver(up[u].doc)
    BY DEF ReportIsWhatLanded
  <2> DEFINE r == up[u].results
             D == DOMAIN up[u].doc.items
             landed == {i \in D : <<u, i>> \in DOMAIN store \cup gone}
  <2>1. Halfway(u) /\ Reporting(u) /\ Landing(u)
    BY DEF IngestInv
  <2>2. Entries(u) = {r[n] : n \in DOMAIN r}
    BY DEF Entries
  <2>3. \A n \in DOMAIN r : /\ r[n].item \in HandedOver(up[u].doc)
                            /\ r[n].item = 0 => r[n].status = "failed"
    BY <2>1 DEF Halfway, Reporting, Complete, ReportsOn
  <2>4. \A n \in DOMAIN r : r[n].status = "created" => r[n].item \in D
    <3>1. up[u].doc \in Document
      BY RequestDocument DEF IngestInv
    <3>2. HandedOver(up[u].doc) \subseteq D \cup {0}
      BY <3>1, ReadableSplit
    <3> QED
      BY <2>3, <3>2
  <2>5. \A i \in D : <<u, i>> \in DOMAIN store \cup gone <=>
                       \E n \in DOMAIN r : r[n].item = i /\ r[n].status = "created"
    BY <2>1 DEF Landing, Stores
  <2>6. \A i : i \in Items(u, "created") <=>
                 \E n \in DOMAIN r : r[n].item = i /\ r[n].status = "created"
    BY <2>2 DEF Items
  <2>7. up[u].stage = "answered" =>
          /\ Len(r) = Cardinality(HandedOver(up[u].doc))
          /\ \A i \in HandedOver(up[u].doc) : \E n \in DOMAIN r : r[n].item = i
    BY <2>1 DEF Reporting, Complete
  <2> HIDE DEF r, D
  <2>8. Items(u, "created") = landed
    BY <2>4, <2>5, <2>6
  <2>9. up[u].stage = "answered" => {e.item : e \in Entries(u)} = HandedOver(up[u].doc)
    BY <2>2, <2>3, <2>7
  <2> QED
    BY <2>7, <2>8, <2>9 DEF r, D
<1> QED
  BY <1>1, IngestInvariant, PTL

\* Unless the records number themselves, there is a report and it is in the order of the
\* document.
THEOREM ReportsInOrder == Spec => []ReportInOrder
<1>1. IngestInv => ReportInOrder
  BY DEF IngestInv, Reporting, ReportInOrder, InOrder
<1> QED
  BY <1>1, IngestInvariant, PTL

\* A request asks about a project once and stores its records under what it was told.
THEOREM OneAnswerKept == Spec => []OneAnswerPerProject
<1>1. IngestInv => OneAnswerPerProject
  BY DEF IngestInv, Asking, AsTold, OneAnswerPerProject
<1> QED
  BY <1>1, IngestInvariant, PTL

=============================================================================
