-------------------------- MODULE MembershipProofs --------------------------
(***************************************************************************)
(* Proofs about Membership: the history summarises what was observed,      *)
(* covers every current project, and an import reports what it added.      *)
(***************************************************************************)
EXTENDS Membership, FiniteSetTheorems, TLAPS

-----------------------------------------------------------------------------
(* The upsert *)

\* RowsSummarise, of one row and the observations of its pair.
Summary(r, seen) ==
  IF r = Null THEN seen = {}
  ELSE /\ \A o \in seen : r.first <= o.date /\ o.date <= r.last
       /\ \E o \in seen : o.date = r.first /\ o.source = r.source
       /\ \E o \in seen : o.date = r.last

SeenOf(k) == {o \in observed : o.pair = k}

LEMMA SummaryOfRows == RowsSummarise <=> \A k \in Pair : Summary(row[k], SeenOf(k))
BY DEF RowsSummarise, Summary, SeenOf

LEMMA UpsertSummarises ==
  ASSUME NEW r \in {Null} \cup Row, NEW seen, \A o \in seen : o.date \in Int,
         Summary(r, seen), NEW new, new.date \in Int, new.source \in Source
  PROVE  /\ Upserted(r, new.date, new.source) \in Row
         /\ Upserted(r, new.date, new.source) # Null
         /\ Summary(Upserted(r, new.date, new.source), seen \cup {new})
<1> DEFINE up == Upserted(r, new.date, new.source)
<1>1. CASE r = Null
  <2>1. up = [first |-> new.date, last |-> new.date, source |-> new.source]
    BY <1>1 DEF Upserted
  <2>2. up \in Row /\ up # Null
    BY <2>1, Dumps DEF Row
  <2>3. seen \cup {new} = {new}
    BY <1>1 DEF Summary
  <2>4. up.first = new.date /\ up.last = new.date /\ up.source = new.source
    BY <2>1
  <2> HIDE DEF up
  <2>5. Summary(up, seen \cup {new})
    BY <2>2, <2>3, <2>4 DEF Summary
  <2> QED
    BY <2>2, <2>5 DEF up
<1>2. CASE r # Null
  <2>1. r \in Row /\ r.first \in Int /\ r.last \in Int /\ r.source \in Source
    BY <1>2 DEF Row
  <2>2. up = [first |-> IF new.date < r.first THEN new.date ELSE r.first,
              last |-> IF new.date > r.last THEN new.date ELSE r.last,
              source |-> IF new.date < r.first THEN new.source ELSE r.source]
    BY <1>2 DEF Upserted
  <2>3. up \in Row /\ up # Null
    BY <2>1, <2>2, Dumps DEF Row
  <2>4. /\ up.first = IF new.date < r.first THEN new.date ELSE r.first
        /\ up.last = IF new.date > r.last THEN new.date ELSE r.last
        /\ up.source = IF new.date < r.first THEN new.source ELSE r.source
    BY <2>2
  <2> HIDE DEF up
  <2>5. ASSUME NEW o \in seen \cup {new} PROVE up.first <= o.date /\ o.date <= up.last
    BY <1>2, <2>1, <2>4 DEF Summary
  <2>6. \E o \in seen \cup {new} : o.date = up.first /\ o.source = up.source
    BY <1>2, <2>4 DEF Summary
  <2>7. \E o \in seen \cup {new} : o.date = up.last
    BY <1>2, <2>4 DEF Summary
  <2>8. Summary(up, seen \cup {new})
    BY <2>3, <2>5, <2>6, <2>7 DEF Summary
  <2> QED
    BY <2>3, <2>8 DEF up
<1> QED
  BY <1>1, <1>2

-----------------------------------------------------------------------------
(* The invariant *)

\* What the import has read is in the history, for rows are never deleted.
ReadsRecorded ==
  /\ import.stage \in {"users", "known"} => \A k \in Current(import.current) : row[k] # Null
  /\ import.stage = "known" => \A k \in import.known : row[k] # Null

MembershipInv == TypeOK /\ RowsSummarise /\ CurrentIsRecorded /\ ReadsRecorded

RowTable == [Pair -> {Null} \cup Row]

\* Every row after a step: it is a row, it did not vanish, and it is a summary.
RowsKept ==
  /\ row' \in RowTable
  /\ observed' \subseteq Observation
  /\ \A k \in Pair : /\ row[k] # Null => row'[k] # Null
                     /\ Summary(row'[k], SeenOf(k)')

LEMMA SteadyRows ==
  ASSUME MembershipInv, UNCHANGED <<row, observed>>
  PROVE  RowsKept
BY SummaryOfRows DEF RowsKept, MembershipInv, TypeOK, RowTable, SeenOf

LEMMA RecordedRows ==
  ASSUME MembershipInv, NEW u \in Person, NEW list \in SUBSET Project, NEW date \in Int,
         NEW source \in Source, Records(u, list, date, source)
  PROVE  /\ RowsKept
         /\ \A g \in list : row'[<<u, g>>] # Null
<1>1. row \in RowTable /\ observed \subseteq Observation
  BY DEF MembershipInv, TypeOK, RowTable
<1>2. \A o \in observed : o.date \in Int /\ o.pair \in Pair
  BY <1>1 DEF Observation
<1>3. observed' = observed \cup {[pair |-> <<u, g>>, date |-> date, source |-> source] :
                                    g \in list}
  BY DEF Records
<1>4. observed' \subseteq Observation
  BY <1>1, <1>3 DEF Observation, Pair
<1>5. ASSUME NEW k \in Pair, k[1] = u, k[2] \in list
      PROVE  row'[k] \in Row /\ row'[k] # Null /\ Summary(row'[k], SeenOf(k)')
  <2> DEFINE new == [pair |-> k, date |-> date, source |-> source]
  <2>1. k = <<u, k[2]>>
    BY <1>5 DEF Pair
  <2>2. SeenOf(k)' = SeenOf(k) \cup {new}
    BY <1>3, <1>5, <2>1 DEF SeenOf
  <2>3. row'[k] = Upserted(row[k], new.date, new.source)
    BY <1>5 DEF Records
  <2>4. /\ new.date \in Int /\ new.source \in Source /\ row[k] \in {Null} \cup Row
        /\ \A o \in SeenOf(k) : o.date \in Int
    BY <1>1, <1>2 DEF RowTable, SeenOf
  <2>5. Summary(row[k], SeenOf(k))
    BY SummaryOfRows DEF MembershipInv
  <2> HIDE DEF new
  <2> QED
    BY <2>2, <2>3, <2>4, <2>5, UpsertSummarises
<1>6. ASSUME NEW k \in Pair, ~(k[1] = u /\ k[2] \in list)
      PROVE  row'[k] = row[k] /\ SeenOf(k)' = SeenOf(k)
  BY <1>3, <1>6 DEF Records, SeenOf, Pair
<1>7. \A k \in Pair : Summary(row[k], SeenOf(k))
  BY SummaryOfRows DEF MembershipInv
<1>8. row' \in RowTable
  <2>1. row' = [k \in Pair |-> IF k[1] = u /\ k[2] \in list
                               THEN Upserted(row[k], date, source) ELSE row[k]]
    BY DEF Records
  <2>2. \A k \in Pair : row'[k] \in {Null} \cup Row
    BY <1>1, <1>5, <1>6 DEF RowTable
  <2> QED
    BY <2>1, <2>2 DEF RowTable
<1>9. ASSUME NEW k \in Pair
      PROVE  /\ row[k] # Null => row'[k] # Null
             /\ Summary(row'[k], SeenOf(k)')
  BY <1>5, <1>6, <1>7
<1>10. \A g \in list : <<u, g>> \in Pair /\ row'[<<u, g>>] # Null
  BY <1>5 DEF Pair
<1> QED
  BY <1>4, <1>8, <1>9, <1>10 DEF RowsKept

LEMMA ImportedRows ==
  ASSUME MembershipInv, NEW file \in File, ImportApplies(file)
  PROVE  /\ RowsKept
         /\ \A k \in Pair : row[k] = Null => (row'[k] # Null <=> k \in Mentions(file))
<1>1. row \in RowTable /\ observed \subseteq Observation
  BY DEF MembershipInv, TypeOK, RowTable
<1>2. \A o \in observed : o.date \in Int /\ o.pair \in Pair
  BY <1>1 DEF Observation
<1>3. file \in [Pair -> {Null} \cup [from : Int, to : Int]]
  BY Dumps
<1>4. observed' = observed
       \cup {[pair |-> k, date |-> file[k].from, source |-> "seed"] : k \in Mentions(file)}
       \cup {[pair |-> k, date |-> file[k].to, source |-> "seed"] : k \in Mentions(file)}
  BY DEF ImportApplies
<1>5. ASSUME NEW k \in Mentions(file)
      PROVE  k \in Pair /\ file[k].from \in Int /\ file[k].to \in Int
  BY <1>3 DEF Mentions
<1>6. observed' \subseteq Observation
  BY <1>1, <1>4, <1>5 DEF Observation, Source
<1>7. ASSUME NEW k \in Pair, k \in Mentions(file)
      PROVE  row'[k] \in Row /\ row'[k] # Null /\ Summary(row'[k], SeenOf(k)')
  <2> DEFINE one == [pair |-> k, date |-> file[k].from, source |-> "seed"]
             two == [pair |-> k, date |-> file[k].to, source |-> "seed"]
             mid == Upserted(row[k], one.date, one.source)
             end == Upserted(mid, two.date, two.source)
  <2>1. SeenOf(k)' = (SeenOf(k) \cup {one}) \cup {two}
    BY <1>4, <1>7 DEF SeenOf
  <2>2. row'[k] = end
    BY <1>7 DEF ImportApplies, Mentions
  <2>3. /\ one.date \in Int /\ one.source \in Source /\ two.date \in Int /\ two.source \in Source
        /\ row[k] \in {Null} \cup Row /\ \A o \in SeenOf(k) : o.date \in Int
    BY <1>1, <1>2, <1>5, <1>7 DEF RowTable, SeenOf, Source
  <2>4. Summary(row[k], SeenOf(k))
    BY SummaryOfRows DEF MembershipInv
  <2> HIDE DEF one, two
  <2>5. mid \in Row /\ Summary(mid, SeenOf(k) \cup {one})
    BY <2>3, <2>4, UpsertSummarises
  <2>6. \A o \in SeenOf(k) \cup {one} : o.date \in Int
    BY <2>3
  <2> HIDE DEF mid
  <2>7. end \in Row /\ end # Null /\ Summary(end, (SeenOf(k) \cup {one}) \cup {two})
    BY <2>3, <2>5, <2>6, UpsertSummarises
  <2> QED
    BY <2>1, <2>2, <2>7
<1>8. ASSUME NEW k \in Pair, k \notin Mentions(file)
      PROVE  row'[k] = row[k] /\ SeenOf(k)' = SeenOf(k)
  <2>1. row'[k] = row[k]
    BY <1>8 DEF ImportApplies, Mentions
  <2>2. SeenOf(k)' = SeenOf(k)
    BY <1>4, <1>8 DEF SeenOf
  <2> QED
    BY <2>1, <2>2
<1>9. \A k \in Pair : Summary(row[k], SeenOf(k))
  BY SummaryOfRows DEF MembershipInv
<1>10. row' \in RowTable
  <2>1. \A k \in Pair : row'[k] \in {Null} \cup Row
    BY <1>1, <1>7, <1>8 DEF RowTable
  <2> QED
    BY <2>1 DEF RowTable, ImportApplies
<1>11. ASSUME NEW k \in Pair
       PROVE  /\ row[k] # Null => row'[k] # Null
              /\ Summary(row'[k], SeenOf(k)')
              /\ row[k] = Null => (row'[k] # Null <=> k \in Mentions(file))
  BY <1>7, <1>8, <1>9
<1> QED
  BY <1>6, <1>10, <1>11 DEF RowsKept

\* The invariant after a step, from what the step does to the rows.
LEMMA InvAfterRows ==
  ASSUME MembershipInv, RowsKept,
         now' \in Nat, projects' \in Lists,
         \A k \in Current(projects)' : k \in Current(projects) \/ row'[k] # Null,
         sync' \in {Resting} \cup [stage : {"read"}, at : Nat, table : Lists]
                   \cup [stage : {"answered"}, at : Nat, table : Lists, answer : Lists],
         login' \in [Login -> {Resting} \cup [stage : {"answered"}, person : Person,
                                              answer : SUBSET Project]],
         import' \in {Resting, import}, report' \in [new : SUBSET Pair, former : SUBSET Pair]
  PROVE  MembershipInv'
<1>1. TypeOK'
  BY DEF MembershipInv, TypeOK, RowsKept, RowTable
<1>2. RowsSummarise'
  BY DEF RowsKept, RowsSummarise, Summary, SeenOf
<1>3. CurrentIsRecorded'
  <2>1. ASSUME NEW k \in Current(projects)' PROVE row'[k] # Null
    BY DEF MembershipInv, CurrentIsRecorded, RowsKept, Current
  <2> QED
    BY <2>1 DEF CurrentIsRecorded
<1>4. ReadsRecorded'
  <2>1. CASE import' = Resting
    BY <2>1 DEF ReadsRecorded, Resting
  <2>2. CASE import' = import
    <3>1. import.stage = "known" => import.known \subseteq Pair
      BY DEF MembershipInv, TypeOK, Resting
    <3> QED
      BY <2>2, <3>1 DEF MembershipInv, ReadsRecorded, RowsKept, Current
  <2> QED
    BY <2>1, <2>2
<1> QED
  BY <1>1, <1>2, <1>3, <1>4 DEF MembershipInv

-----------------------------------------------------------------------------
(* The theorems *)

LEMMA InvInitially == Init => MembershipInv
<1> SUFFICES ASSUME Init PROVE MembershipInv
  OBVIOUS
<1>1. /\ projects \in Lists /\ Current(projects) \subseteq Pair
      /\ row = [k \in Pair |-> IF k \in Current(projects) THEN Upserted(Null, 0, "seed") ELSE Null]
      /\ observed = {[pair |-> k, date |-> 0, source |-> "seed"] : k \in Current(projects)}
  BY DEF Init, Current
<1> DEFINE seed == [first |-> 0, last |-> 0, source |-> "seed"]
<1>2. Upserted(Null, 0, "seed") = seed /\ seed \in Row /\ seed # Null
  BY Dumps DEF Upserted, Row, Source
<1>3. TypeOK
  <2>1. observed \subseteq Observation
    BY <1>1 DEF Observation, Source
  <2>2. row \in [Pair -> {Null} \cup Row]
    BY <1>1, <1>2
  <2> QED
    BY <2>1, <2>2 DEF Init, TypeOK, NoReport
<1>4. ASSUME NEW k \in Pair PROVE Summary(row[k], SeenOf(k))
  <2>1. CASE k \in Current(projects)
    <3>1. SeenOf(k) = {[pair |-> k, date |-> 0, source |-> "seed"]}
      BY <1>1, <2>1 DEF SeenOf
    <3> QED
      BY <1>1, <1>2, <2>1, <3>1 DEF Summary
  <2>2. CASE k \notin Current(projects)
    <3>1. SeenOf(k) = {}
      BY <1>1, <2>2 DEF SeenOf
    <3> QED
      BY <1>1, <2>2, <3>1 DEF Summary
  <2> QED
    BY <2>1, <2>2
<1>5. CurrentIsRecorded
  BY <1>1, <1>2 DEF CurrentIsRecorded
<1>6. ReadsRecorded
  BY DEF Init, ReadsRecorded, Resting
<1> QED
  BY <1>3, <1>4, <1>5, <1>6, SummaryOfRows DEF MembershipInv

LEMMA InvKept == MembershipInv /\ [Next]_vars => MembershipInv'
<1> SUFFICES ASSUME MembershipInv, [Next]_vars PROVE MembershipInv'
  OBVIOUS
<1>1. TypeOK
  BY DEF MembershipInv
<1>2. CASE \/ Tick \/ SyncStarts \/ SyncEnds \/ ImportRollsBack
           \/ \E answer \in Lists : SyncFetches(answer)
           \/ \E l \in Login, u \in Person, answer \in SUBSET Project : LoginAsks(l, u, answer)
           \/ \E l \in Login : LoginFails(l)
           \/ UNCHANGED vars
  <2>1. UNCHANGED <<row, observed, projects, report>> /\ import' \in {Resting, import}
    BY <1>2 DEF Tick, SyncStarts, SyncEnds, ImportRollsBack, SyncFetches, LoginAsks, LoginFails,
       vars
  <2>2. RowsKept
    BY <2>1, SteadyRows
  <2>3. now' \in Nat
    BY <1>1, <1>2 DEF TypeOK, Tick, SyncStarts, SyncEnds, ImportRollsBack, SyncFetches,
       LoginAsks, LoginFails, vars
  <2>4. sync' \in {Resting} \cup [stage : {"read"}, at : Nat, table : Lists]
                  \cup [stage : {"answered"}, at : Nat, table : Lists, answer : Lists]
    <3>1. CASE SyncStarts
      BY <1>1, <3>1 DEF SyncStarts, TypeOK
    <3>2. ASSUME NEW answer \in Lists, SyncFetches(answer)
          PROVE  sync' \in [stage : {"answered"}, at : Nat, table : Lists, answer : Lists]
      BY <1>1, <3>2 DEF SyncFetches, TypeOK, Resting
    <3>3. CASE sync' = Resting \/ sync' = sync
      BY <1>1, <3>3 DEF TypeOK
    <3> QED
      BY <1>2, <3>1, <3>2, <3>3 DEF Tick, SyncEnds, ImportRollsBack, LoginAsks, LoginFails, vars
  <2>5. login' \in [Login -> {Resting} \cup [stage : {"answered"}, person : Person,
                                             answer : SUBSET Project]]
    <3>1. ASSUME NEW l \in Login, NEW u \in Person, NEW answer \in SUBSET Project,
                 LoginAsks(l, u, answer)
          PROVE  login' \in [Login -> {Resting} \cup [stage : {"answered"}, person : Person,
                                                      answer : SUBSET Project]]
      BY <1>1, <3>1 DEF LoginAsks, TypeOK
    <3>2. ASSUME NEW l \in Login, LoginFails(l)
          PROVE  login' \in [Login -> {Resting} \cup [stage : {"answered"}, person : Person,
                                                      answer : SUBSET Project]]
      BY <1>1, <3>2 DEF LoginFails, TypeOK
    <3> QED
      BY <1>1, <1>2, <3>1, <3>2 DEF TypeOK, Tick, SyncStarts, SyncEnds, ImportRollsBack,
         SyncFetches, vars
  <2>6. projects' \in Lists /\ report' \in [new : SUBSET Pair, former : SUBSET Pair]
        /\ Current(projects)' = Current(projects)
    BY <1>1, <2>1 DEF TypeOK, Current
  <2> QED
    BY <2>1, <2>2, <2>3, <2>4, <2>5, <2>6, InvAfterRows
<1>3. ASSUME NEW u \in Person, SyncWrites(u) PROVE MembershipInv'
  <2> DEFINE list == sync.answer[u]
  <2>1. list \in SUBSET Project /\ sync.at \in Int
    BY <1>1, <1>3 DEF SyncWrites, TypeOK, Resting, Lists
  <2>2. /\ projects' = IF list = sync.table[u] THEN projects
                       ELSE [projects EXCEPT ![u] = list]
        /\ Records(u, list, sync.at, "sync")
        /\ UNCHANGED <<now, sync, login, import, report>>
    BY <1>3 DEF SyncWrites
  <2> HIDE DEF list
  <2>3. RowsKept /\ \A g \in list : row'[<<u, g>>] # Null
    BY <2>1, <2>2, RecordedRows DEF Source
  <2>4. projects' \in Lists
    BY <1>1, <2>1, <2>2 DEF TypeOK, Lists
  <2>5. ASSUME NEW k \in Current(projects)' PROVE k \in Current(projects) \/ row'[k] # Null
    BY <1>1, <2>2, <2>3 DEF Current, Pair, TypeOK, Lists
  <2> QED
    BY <1>1, <2>2, <2>3, <2>4, <2>5, InvAfterRows DEF TypeOK
<1>4. ASSUME NEW l \in Login, LoginSaves(l) PROVE MembershipInv'
  <2> DEFINE u    == login[l].person
             list == login[l].answer
  <2>1. u \in Person /\ list \in SUBSET Project /\ now \in Int
    BY <1>1, <1>4 DEF LoginSaves, TypeOK
  <2>2. /\ projects' = [projects EXCEPT ![u] = list]
        /\ Records(u, list, now, "login")
        /\ login' = [login EXCEPT ![l] = Resting]
        /\ UNCHANGED <<now, sync, import, report>>
    BY <1>4 DEF LoginSaves
  <2> HIDE DEF u, list
  <2>3. RowsKept /\ \A g \in list : row'[<<u, g>>] # Null
    BY <2>1, <2>2, RecordedRows DEF Source
  <2>4. projects' \in Lists
    BY <1>1, <2>1, <2>2 DEF TypeOK, Lists
  <2>5. ASSUME NEW k \in Current(projects)' PROVE k \in Current(projects) \/ row'[k] # Null
    BY <1>1, <2>1, <2>2, <2>3 DEF Current, Pair, TypeOK, Lists
  <2>6. login' \in [Login -> {Resting} \cup [stage : {"answered"}, person : Person,
                                             answer : SUBSET Project]]
    BY <1>1, <2>2 DEF TypeOK
  <2> QED
    BY <1>1, <2>2, <2>3, <2>4, <2>5, <2>6, InvAfterRows DEF TypeOK
<1>5. CASE ImportReadsUsers \/ ImportReadsKnown
  <2>1. UNCHANGED <<now, projects, row, observed, sync, login>>
    BY <1>5 DEF ImportReadsUsers, ImportReadsKnown
  <2>2. TypeOK'
    <3>1. /\ import' \in [stage : {"users"}, current : Lists]
                         \cup [stage : {"known"}, current : Lists, known : SUBSET Pair]
          /\ report' \in [new : SUBSET Pair, former : SUBSET Pair]
      BY <1>1, <1>5 DEF ImportReadsUsers, ImportReadsKnown, TypeOK, NoReport, Resting
    <3> QED
      BY <1>1, <2>1, <3>1 DEF TypeOK
  <2>3. RowsSummarise' /\ CurrentIsRecorded'
    BY <2>1 DEF MembershipInv, RowsSummarise, CurrentIsRecorded, Current
  <2>4. ReadsRecorded'
    BY <1>5, <2>1
    DEF MembershipInv, ReadsRecorded, CurrentIsRecorded, Current, ImportReadsUsers,
        ImportReadsKnown
  <2> QED
    BY <2>2, <2>3, <2>4 DEF MembershipInv
<1>6. ASSUME NEW file \in File, ImportApplies(file) PROVE MembershipInv'
  <2>1. RowsKept
    BY <1>6, ImportedRows
  <2>2. UNCHANGED <<now, projects, sync, login>> /\ import' = Resting
    BY <1>6 DEF ImportApplies
  <2>3. report' \in [new : SUBSET Pair, former : SUBSET Pair]
    BY <1>6 DEF ImportApplies, New, Mentions
  <2>4. Current(projects)' = Current(projects)
    BY <2>2 DEF Current
  <2> QED
    BY <1>1, <2>1, <2>2, <2>3, <2>4, InvAfterRows DEF TypeOK
<1> QED
  BY <1>2, <1>3, <1>4, <1>5, <1>6 DEF Next

LEMMA InvAlways == Spec => []MembershipInv
BY InvInitially, InvKept, PTL DEF Spec

\* A history row is the summary of every observation committed for its pair, in
\* whatever order sync, logins and imports committed them (record_memberships).
THEOREM RowsAlwaysSummarise == Spec => []RowsSummarise
<1>1. MembershipInv => RowsSummarise
  BY DEF MembershipInv
<1> QED
  BY <1>1, InvAlways, PTL

\* Every project on an ApiUser row is in the history (save_refreshed_user, the sync and
\* the migration that seeds it).
THEOREM CurrentAlwaysRecorded == Spec => []CurrentIsRecorded
<1>1. MembershipInv => CurrentIsRecorded
  BY DEF MembershipInv
<1> QED
  BY <1>1, InvAlways, PTL

\* Equal counts are enough: what an import inserts is among what it called new, for a
\* pair it knew of cannot have left the history.
LEMMA CountsSuffice ==
  ASSUME MembershipInv, NEW file \in File, ImportApplies(file)
  PROVE  Inserted(file) = New(file)
<1>1. Inserted(file) \subseteq New(file)
  BY DEF MembershipInv, ReadsRecorded, ImportApplies, Inserted, New
<1>2. IsFiniteSet(New(file))
  <2>1. IsFiniteSet(Mentions(file))
    BY Dumps DEF Mentions
  <2> QED
    BY <2>1, FS_Subset DEF New
<1>3. Cardinality(Inserted(file)) = Cardinality(New(file))
  BY DEF ImportApplies, CountsAgree
<1> QED
  BY <1>1, <1>2, <1>3, FS_Subset

\* The counts an applied import prints are those of the rows it inserted, though it read
\* the users and the history before its transaction (the check of inserted against new).
THEOREM ImportReportAlwaysExact == Spec => ImportReportExact
<1>1. MembershipInv /\ [Next]_vars =>
        (report' \notin {report, NoReport} =>
           /\ report'.new = {k \in Pair : row[k] = Null /\ row'[k] # Null}
           /\ report'.former = {k \in report'.new : k \notin Current(projects)})
  <2> SUFFICES ASSUME MembershipInv, [Next]_vars, report' \notin {report, NoReport}
               PROVE  /\ report'.new = {k \in Pair : row[k] = Null /\ row'[k] # Null}
                      /\ report'.former = {k \in report'.new : k \notin Current(projects)}
    OBVIOUS
  <2>1. PICK file \in File : ImportApplies(file)
    BY DEF Next, vars, Tick, SyncStarts, SyncFetches, SyncWrites, SyncEnds, LoginAsks,
       LoginSaves, LoginFails, ImportReadsUsers, ImportReadsKnown, ImportRollsBack
  <2>2. Inserted(file) = New(file)
    BY <2>1, CountsSuffice
  <2>3. \A k \in Pair : row[k] = Null => (row'[k] # Null <=> k \in Mentions(file))
    BY <2>1, ImportedRows
  <2>4. report'.new = New(file) /\ report'.former = New(file) \ Current(import.current)
    BY <2>1 DEF ImportApplies
  <2>5. New(file) = {k \in Pair : row[k] = Null /\ row'[k] # Null}
    BY <2>2, <2>3 DEF Inserted, Mentions
  <2>6. \A k \in New(file) : k \notin Current(import.current) /\ k \notin Current(projects)
    BY <2>1, <2>5 DEF MembershipInv, ReadsRecorded, CurrentIsRecorded, ImportApplies
  <2> QED
    BY <2>4, <2>5, <2>6
<1> QED
  BY <1>1, InvAlways, PTL DEF Spec, ImportReportExact

=============================================================================
