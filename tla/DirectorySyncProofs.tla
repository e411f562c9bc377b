------------------------ MODULE DirectorySyncProofs ------------------------
(***************************************************************************)
(* Proofs about DirectorySync: nobody is skipped for good, and the sync    *)
(* keeps what a login wrote, for any number of people, runs and logins,    *)
(* and any overlap, window and number of failures.                         *)
(***************************************************************************)
EXTENDS DirectorySync, TLAPS

-----------------------------------------------------------------------------
(* Types *)

LEMMA Numbers ==
  ASSUME TypeOK
  PROVE  /\ Earliest \in Int /\ MaxClock \in Int /\ Overlap \in Nat
         /\ clock \in Int /\ Earliest <= clock /\ clock <= MaxClock
         /\ \A u \in Person : /\ visible[u] \in Int /\ visible[u] \in Time /\ latest[u] \in Int
                              /\ latest[u] \in Time /\ Earliest <= visible[u]
         /\ Mark \subseteq Int /\ Earliest \in Mark /\ Time \subseteq Mark
BY Bounds DEF TypeOK, Time, Mark

LEMMA Kinds ==
  ASSUME TypeOK, NEW r \in Run
  PROVE  /\ WalkingNow(r) <=> run[r] \in Walking
         /\ StartingNow(r) <=> run[r] \in Starting
         /\ ~(WalkingNow(r) /\ StartingNow(r))
         /\ run[r] # Idle => WalkingNow(r) \/ StartingNow(r)
<1>1. run[r] \in Walking => DOMAIN run[r] = {"now", "newest", "left", "existing", "people", "seen", "errors"}
  BY DEF Walking
<1>2. run[r] \in Starting => DOMAIN run[r] = {"start", "now", "newest"}
  BY DEF Starting
<1>3. run[r] \in Starting \/ run[r] \in Walking \/ run[r] = Idle
  BY DEF TypeOK
<1>4. run[r] \in Walking => run[r] # Idle /\ "left" \in DOMAIN run[r] /\ "start" \notin DOMAIN run[r]
  BY <1>1, Absent
<1>5. run[r] \in Starting => run[r] # Idle /\ "left" \notin DOMAIN run[r] /\ "start" \in DOMAIN run[r]
  BY <1>2, Absent
<1> QED
  BY <1>3, <1>4, <1>5, Zenon DEF WalkingNow, StartingNow

LEMMA WalkTyped ==
  ASSUME TypeOK, NEW r \in Run, WalkingNow(r)
  PROVE  /\ run[r] \in Walking /\ run[r].now \in Time /\ run[r].newest \in BOOLEAN
         /\ run[r].left \in SUBSET Window /\ run[r].existing \in [Person -> Row]
         /\ run[r].people \in SUBSET (Person \X Time) /\ run[r].seen \in SUBSET Person
         /\ run[r].errors \in BOOLEAN /\ MarkAfter(r) \in Mark /\ MarkAfter(r) \in Int
<1>1. run[r] \in Walking
  BY Kinds
<1>2. run[r].now \in Time
  BY <1>1 DEF Walking
<1>3. MarkAfter(r) \in Mark /\ MarkAfter(r) \in Int
  BY <1>2, Bounds DEF MarkAfter, Mark, Time
<1> QED
  BY <1>1, <1>3 DEF Walking

LEMMA StartTyped ==
  ASSUME TypeOK, NEW r \in Run, StartingNow(r)
  PROVE  /\ run[r] \in Starting /\ run[r].start \in Mark /\ run[r].now \in Time
         /\ run[r].newest \in BOOLEAN
BY Kinds DEF Starting

\* One run goes on into a state of its own.
LEMMA RunGoes ==
  ASSUME TypeOK, NEW r \in Run, NEW k \in Starting \cup Walking \cup {Idle},
         run' = [run EXCEPT ![r] = k]
  PROVE  /\ run' \in [Run -> Starting \cup Walking \cup {Idle}] /\ run'[r] = k
         /\ \A q \in Run \ {r} : run'[q] = run[q]
BY DEF TypeOK

\* A walk that goes on is still a walk, from the same moment and to the same mark.
LEMMA WalkGoes ==
  ASSUME TypeOK, NEW r \in Run, WalkingNow(r), NEW k \in Walking,
         run' = [run EXCEPT ![r] = k], k.now = run[r].now
  PROVE  /\ run' \in [Run -> Starting \cup Walking \cup {Idle}] /\ run'[r] = k
         /\ \A q \in Run \ {r} : run'[q] = run[q]
         /\ \A q \in Run : /\ WalkingNow(q)' <=> WalkingNow(q)
                           /\ StartingNow(q)' <=> StartingNow(q)
                           /\ MarkAfter(q)' = MarkAfter(q)
                           /\ run'[q].now = run[q].now \/ run'[q] = run[q]
<1>1. /\ run' \in [Run -> Starting \cup Walking \cup {Idle}] /\ run'[r] = k
      /\ \A q \in Run \ {r} : run'[q] = run[q]
  BY RunGoes
<1>2. \A q \in Run \ {r} : /\ WalkingNow(q)' <=> WalkingNow(q)
                           /\ StartingNow(q)' <=> StartingNow(q)
                           /\ MarkAfter(q)' = MarkAfter(q)
                           /\ run'[q].now = run[q].now \/ run'[q] = run[q]
  BY <1>1 DEF WalkingNow, StartingNow, MarkAfter
<1>3. WalkingNow(r)' /\ ~StartingNow(r)' /\ ~StartingNow(r)
  <2>1. DOMAIN k = {"now", "newest", "left", "existing", "people", "seen", "errors"} /\ k # Idle
    BY Absent DEF Walking
  <2> QED
    BY <1>1, <2>1, Kinds DEF WalkingNow, StartingNow
<1>4. MarkAfter(r)' = MarkAfter(r) /\ run'[r].now = run[r].now
  BY <1>1 DEF MarkAfter
<1> QED
  BY <1>1, <1>2, <1>3, <1>4

LEMMA ProcessedIs ==
  ASSUME TypeOK, NEW r \in Run, WalkingNow(r), NEW p \in run[r].people, NEW failed \in BOOLEAN
  PROVE  /\ Processed(run[r], p, failed) \in Walking
         /\ Processed(run[r], p, failed).now = run[r].now
         /\ Processed(run[r], p, failed).left = run[r].left
         /\ Processed(run[r], p, failed).existing = run[r].existing
         /\ Processed(run[r], p, failed).people = run[r].people \ {p}
         /\ Processed(run[r], p, failed).seen = run[r].seen \cup {p[1]}
         /\ Processed(run[r], p, failed).errors <=> run[r].errors \/ failed
         /\ p \in Person \X Time /\ p[1] \in Person /\ p[2] \in Time /\ p = <<p[1], p[2]>>
<1>1. p \in Person \X Time /\ p[1] \in Person /\ p[2] \in Time /\ p = <<p[1], p[2]>>
  BY WalkTyped
<1>2. (run[r].errors \/ failed) \in BOOLEAN
  BY WalkTyped
<1> DEFINE e == run[r].errors \/ failed
<1> HIDE DEF e
<1>3. run[r].people \ {p} \in SUBSET (Person \X Time) /\ run[r].seen \cup {p[1]} \in SUBSET Person
  BY <1>1, WalkTyped
<1>4. Processed(run[r], p, failed) =
        [run[r] EXCEPT !.people = run[r].people \ {p}, !.seen = run[r].seen \cup {p[1]}, !.errors = e]
  BY DEF Processed, e
<1>5. e \in BOOLEAN
  BY <1>2 DEF e
<1>6. /\ Processed(run[r], p, failed) \in Walking
      /\ Processed(run[r], p, failed).now = run[r].now
      /\ Processed(run[r], p, failed).left = run[r].left
      /\ Processed(run[r], p, failed).existing = run[r].existing
      /\ Processed(run[r], p, failed).people = run[r].people \ {p}
      /\ Processed(run[r], p, failed).seen = run[r].seen \cup {p[1]}
      /\ Processed(run[r], p, failed).errors = e
  BY <1>3, <1>4, <1>5, WalkTyped DEF Walking
<1>7. Processed(run[r], p, failed).errors <=> run[r].errors \/ failed
  BY <1>6 DEF e
<1> QED
  BY <1>1, <1>6, <1>7

LEMMA RowTyped ==
  ASSUME TypeOK, NEW u \in Person, user[u] # NoRow
  PROVE  user[u] \in UserRow
BY DEF TypeOK, Row

LEMMA SyncedTyped ==
  ASSUME NEW row \in UserRow, NEW existing, NEW t \in Time
  PROVE  /\ Synced(row, existing, t) \in UserRow
         /\ Synced(row, existing, t) # NoRow
         /\ Synced(row, existing, t).session = row.session
         /\ Synced(row, existing, t).profile = IF existing.profile # t THEN t ELSE row.profile
         /\ Synced(row, existing, t).active = IF existing.active # t THEN t ELSE row.active
<1> DEFINE pr == IF existing.profile # t THEN t ELSE row.profile
           ac == IF existing.active # t THEN t ELSE row.active
<1>1. Synced(row, existing, t) = [row EXCEPT !.profile = pr, !.active = ac]
  BY DEF Synced, UserRow
<1>2. pr \in Time /\ ac \in Stamp
  BY DEF UserRow, Stamp
<1> HIDE DEF pr, ac
<1>3. /\ [row EXCEPT !.profile = pr, !.active = ac] \in UserRow
      /\ [row EXCEPT !.profile = pr, !.active = ac].session = row.session
      /\ [row EXCEPT !.profile = pr, !.active = ac].profile = pr
      /\ [row EXCEPT !.profile = pr, !.active = ac].active = ac
  BY <1>2 DEF UserRow
<1>4. pr = (IF existing.profile # t THEN t ELSE row.profile)
      /\ ac = (IF existing.active # t THEN t ELSE row.active)
  BY DEF pr, ac
<1> QED
  BY <1>1, <1>3, <1>4, Absent

\* What saving p makes of the row.
SavedRow(r, p) ==
  LET u == p[1]
      existing == run[r].existing[u]
  IN CASE u \notin run[r].seen /\ existing = NoRow /\ user[u] = NoRow ->
            [profile |-> p[2], active |-> p[2], session |-> FALSE]
       [] u \notin run[r].seen /\ existing # NoRow -> Synced(user[u], existing, p[2])
       [] OTHER -> user[u]

Collides(r, p) ==
  p[1] \notin run[r].seen /\ run[r].existing[p[1]] = NoRow /\ user[p[1]] # NoRow

LEMMA SavesIs ==
  ASSUME NEW r \in Run, NEW p, RunSaves(r, p)
  PROVE  /\ WalkingNow(r) /\ p \in run[r].people
         /\ user' = [user EXCEPT ![p[1]] = SavedRow(r, p)]
         /\ run' = [run EXCEPT ![r] = Processed(run[r], p, Collides(r, p))]
         /\ raced' = IF Current(SavedRow(r, p), p[1]) THEN raced \ {p[1]} ELSE raced
         /\ UNCHANGED <<clock, latest, visible, watermark, login, failures>>
BY DEF RunSaves, SavedRow, Collides

\* A person is created, updated, or left as they are.
LEMMA SavedRowCases ==
  ASSUME NEW r \in Run, NEW p
  PROVE  \/ /\ p[1] \notin run[r].seen /\ run[r].existing[p[1]] = NoRow /\ user[p[1]] = NoRow
            /\ SavedRow(r, p) = [profile |-> p[2], active |-> p[2], session |-> FALSE]
         \/ /\ p[1] \notin run[r].seen /\ run[r].existing[p[1]] # NoRow
            /\ SavedRow(r, p) = Synced(user[p[1]], run[r].existing[p[1]], p[2])
         \/ /\ p[1] \in run[r].seen \/ Collides(r, p)
            /\ SavedRow(r, p) = user[p[1]]
BY DEF SavedRow, Collides

LEMMA CreatedTyped ==
  ASSUME NEW t \in Time
  PROVE  /\ [profile |-> t, active |-> t, session |-> FALSE] \in UserRow
         /\ [profile |-> t, active |-> t, session |-> FALSE] # NoRow
         /\ [profile |-> t, active |-> t, session |-> FALSE].profile = t
         /\ [profile |-> t, active |-> t, session |-> FALSE].active = t
<1>1. t \in Stamp /\ FALSE \in BOOLEAN
  BY DEF Stamp
<1>2. [profile |-> t, active |-> t, session |-> FALSE] \in UserRow
  BY <1>1 DEF UserRow
<1> QED
  BY <1>2, Absent

\* Once a run has read somebody's row, nothing takes the row away.
RowsStay ==
  \A r \in Run, u \in Person : WalkingNow(r) /\ run[r].existing[u] # NoRow => user[u] # NoRow

LEMMA SavedRowTyped ==
  ASSUME TypeOK, RowsStay, NEW r \in Run, WalkingNow(r), NEW p \in run[r].people
  PROVE  /\ SavedRow(r, p) \in Row
         /\ user[p[1]] # NoRow => SavedRow(r, p) # NoRow
         /\ user[p[1]] # NoRow /\ user[p[1]].session
              => SavedRow(r, p) # NoRow /\ SavedRow(r, p).session
<1> DEFINE u == p[1]
           old == user[u]
           new == SavedRow(r, p)
<1>1. u \in Person /\ p[2] \in Time
  BY WalkTyped
<1>2. CASE new = [profile |-> p[2], active |-> p[2], session |-> FALSE] /\ old = NoRow
  BY <1>1, <1>2, CreatedTyped DEF Row
<1>3. CASE run[r].existing[u] # NoRow /\ new = Synced(old, run[r].existing[u], p[2])
  <2>1. old \in UserRow
    BY <1>1, <1>3, RowTyped DEF RowsStay
  <2>2. /\ new \in UserRow /\ new # NoRow /\ new.session = old.session
    BY <1>1, <1>3, <2>1, SyncedTyped
  <2> QED
    BY <2>2 DEF Row
<1>4. CASE new = old
  <2>1. old \in Row
    BY <1>1 DEF TypeOK
  <2> QED
    BY <1>4, <2>1
<1> QED
  BY <1>2, <1>3, <1>4, SavedRowCases

\* The row a login leaves.
LEMMA LoginRow ==
  ASSUME TypeOK, NEW l \in Login, LoginSaves(l)
  PROVE  LET u == login[l].person
             read == login[l].read
             row == [profile |-> login[l].fetched, session |-> TRUE,
                     active |-> IF read = NoRow THEN None ELSE read.active]
         IN /\ u \in Person /\ row \in UserRow /\ row # NoRow /\ row.session
            /\ row.profile = login[l].fetched
            /\ read # NoRow => row.active = read.active
            /\ \/ /\ user' = user /\ raced' = raced
                  /\ read = NoRow /\ user[u] # NoRow
               \/ /\ read # NoRow \/ user[u] = NoRow
                  /\ user' = [user EXCEPT ![u] = row]
                  /\ raced' = IF read # user[u] \/ login[l].fetched # visible[u]
                              THEN raced \cup {u} ELSE raced
            /\ login' = [login EXCEPT ![l] = Idle]
            /\ UNCHANGED <<clock, latest, visible, watermark, run, failures>>
<1> DEFINE u == login[l].person
           read == login[l].read
           ac == IF read = NoRow THEN None ELSE read.active
           row == [profile |-> login[l].fetched, session |-> TRUE, active |-> ac]
<1>1. login[l] \in LoginState /\ login[l].fetched # None
  BY DEF LoginSaves, TypeOK
<1>2. u \in Person /\ read \in Row /\ login[l].fetched \in Time
  BY <1>1 DEF LoginState, Stamp
<1>3. ac \in Stamp
  BY <1>2 DEF Row, UserRow, Stamp
<1>4. row \in UserRow /\ row.session /\ row.profile = login[l].fetched /\ row.active = ac
  BY <1>2, <1>3 DEF UserRow
<1>5. row # NoRow
  BY <1>4, Absent
<1>6. /\ \/ /\ user' = user /\ raced' = raced
            /\ read = NoRow /\ user[u] # NoRow
         \/ /\ read # NoRow \/ user[u] = NoRow
            /\ user' = [user EXCEPT ![u] = row]
            /\ raced' = IF read # user[u] \/ login[l].fetched # visible[u]
                        THEN raced \cup {u} ELSE raced
      /\ login' = [login EXCEPT ![l] = Idle]
      /\ UNCHANGED <<clock, latest, visible, watermark, run, failures>>
  BY DEF LoginSaves
<1>7. read # NoRow => row.active = read.active
  BY <1>4
<1> QED
  BY <1>2, <1>4, <1>5, <1>6, <1>7

-----------------------------------------------------------------------------
(* Type correctness, and what the sync keeps of a login *)

TypeInv == TypeOK /\ RowsStay

LEMMA InitTyped == Init => TypeInv
<1> SUFFICES ASSUME Init PROVE TypeInv
  OBVIOUS
<1>1. Earliest \in Time /\ 0 \in 0..MaxFailures
  BY Bounds DEF Time
<1>2. /\ latest \in [Person -> Time] /\ visible \in [Person -> Time]
      /\ user \in [Person -> Row]
  BY <1>1 DEF Init, Row
<1>3. /\ run \in [Run -> Starting \cup Walking \cup {Idle}]
      /\ login \in [Login -> LoginState \cup {Idle}]
  BY DEF Init
<1>4. TypeOK
  BY <1>1, <1>2, <1>3 DEF Init, TypeOK
<1>5. RowsStay
  BY DEF Init, RowsStay, WalkingNow
<1> QED
  BY <1>4, <1>5 DEF TypeInv

\* A step that loses no row and starts no walk.
LEMMA RowsKept ==
  ASSUME RowsStay,
         \A u \in Person : user[u] # NoRow => user'[u] # NoRow,
         \A r \in Run : WalkingNow(r)' => WalkingNow(r) /\ run'[r].existing = run[r].existing
  PROVE  RowsStay'
BY DEF RowsStay

LEMMA RecordsTyped ==
  ASSUME TypeInv, Tick \/ \E u \in Person : RecordChanges(u) \/ RecordPublishes(u)
  PROVE  TypeInv'
<1>1. UNCHANGED <<user, watermark, run, login, failures, raced>>
  BY DEF Tick, RecordChanges, RecordPublishes
<1>2. RowsStay'
  BY <1>1 DEF TypeInv, RowsStay, WalkingNow
<1>3. clock' \in Time /\ latest' \in [Person -> Time] /\ visible' \in [Person -> Time]
  <2>1. CASE Tick
    BY <2>1, Bounds DEF Tick, TypeInv, TypeOK, Time
  <2>2. ASSUME NEW u \in Person, RecordChanges(u)
        PROVE  clock' \in Time /\ latest' \in [Person -> Time] /\ visible' \in [Person -> Time]
    BY <2>2 DEF RecordChanges, TypeInv, TypeOK
  <2>3. ASSUME NEW u \in Person, RecordPublishes(u)
        PROVE  clock' \in Time /\ latest' \in [Person -> Time] /\ visible' \in [Person -> Time]
    BY <2>3 DEF RecordPublishes, TypeInv, TypeOK
  <2> QED
    BY <2>1, <2>2, <2>3
<1> QED
  BY <1>1, <1>2, <1>3 DEF TypeInv, TypeOK

LEMMA LoginWaitTyped ==
  ASSUME TypeInv, NEW l \in Login,
         (\E u \in Person : LoginReads(l, u)) \/ LoginFetches(l) \/ LoginEnds(l)
  PROVE  TypeInv'
<1>1. UNCHANGED <<clock, latest, visible, user, watermark, run, failures, raced>>
  BY DEF LoginReads, LoginFetches, LoginEnds
<1>2. login' \in [Login -> LoginState \cup {Idle}]
  <2>1. ASSUME NEW u \in Person, LoginReads(l, u) PROVE login' \in [Login -> LoginState \cup {Idle}]
    <3> DEFINE k == [person |-> u, read |-> user[u], fetched |-> None]
    <3>1. k \in LoginState
      BY DEF LoginState, TypeInv, TypeOK, Stamp
    <3>2. login' = [login EXCEPT ![l] = k]
      BY <2>1 DEF LoginReads
    <3> HIDE DEF k
    <3> QED
      BY <3>1, <3>2 DEF TypeInv, TypeOK
  <2>2. CASE LoginFetches(l)
    <3> DEFINE k == [login[l] EXCEPT !.fetched = visible[login[l].person]]
    <3>1. login[l] \in LoginState
      BY <2>2 DEF LoginFetches, TypeInv, TypeOK
    <3>2. visible[login[l].person] \in Stamp
      BY <3>1 DEF LoginState, TypeInv, TypeOK, Stamp
    <3>3. k \in LoginState
      BY <3>1, <3>2 DEF LoginState
    <3>4. login' = [login EXCEPT ![l] = k]
      BY <2>2 DEF LoginFetches
    <3> HIDE DEF k
    <3> QED
      BY <3>3, <3>4 DEF TypeInv, TypeOK
  <2>3. CASE LoginEnds(l)
    BY <2>3 DEF LoginEnds, TypeInv, TypeOK
  <2> QED
    BY <2>1, <2>2, <2>3
<1>3. RowsStay'
  BY <1>1 DEF TypeInv, RowsStay, WalkingNow
<1> QED
  BY <1>1, <1>2, <1>3 DEF TypeInv, TypeOK

LEMMA RunWaitTyped ==
  ASSUME TypeInv, NEW r \in Run,
         \/ StartsIncremental(r) \/ StartsFull(r) \/ \E since \in SinceDates : StartsSince(r, since)
         \/ RunLocks(r) \/ RunFetches(r) \/ RunFinishes(r) \/ RunAborts(r)
  PROVE  TypeInv' /\ user' = user
<1>1. /\ UNCHANGED <<clock, latest, visible, user, login, raced>>
      /\ watermark' = watermark \/ (WalkingNow(r) /\ watermark' = MarkAfter(r))
      /\ failures' = failures \/ (failures < MaxFailures /\ failures' = failures + 1)
  BY DEF StartsIncremental, StartsFull, StartsSince, RunStarts, RunLocks, RunFetches,
         RunFinishes, RunAborts
<1>2. watermark' \in Mark \cup {None} /\ failures' \in 0..MaxFailures
  <2>1. watermark' \in Mark \cup {None}
    BY <1>1, WalkTyped DEF TypeInv, TypeOK
  <2>2. failures' \in 0..MaxFailures
    BY <1>1, Bounds DEF TypeInv, TypeOK
  <2> QED
    BY <2>1, <2>2
\* The run stays the walk it is, or is none, or has just read the table.
<1>3. \E k \in Starting \cup Walking \cup {Idle} :
        /\ run' = [run EXCEPT ![r] = k]
        /\ k \in Walking => k.existing = user \/ (WalkingNow(r) /\ k.existing = run[r].existing)
  <2>1. ASSUME NEW start \in Mark, NEW newest \in BOOLEAN, RunStarts(r, start, newest)
        PROVE  \E k \in Starting : run' = [run EXCEPT ![r] = k]
    <3> DEFINE k == [start |-> start, now |-> clock, newest |-> newest]
    <3>1. k \in Starting /\ run' = [run EXCEPT ![r] = k]
      BY <2>1 DEF RunStarts, Starting, TypeInv, TypeOK
    <3> QED
      BY <3>1
  <2>2. \A k \in Starting : k \notin Walking
    <3> SUFFICES ASSUME NEW k \in Starting, k \in Walking PROVE FALSE
      OBVIOUS
    <3>1. DOMAIN k = {"start", "now", "newest"}
      BY DEF Starting
    <3>2. DOMAIN k = {"now", "newest", "left", "existing", "people", "seen", "errors"}
      BY DEF Walking
    <3> QED
      BY <3>1, <3>2
  <2>3. Earliest \in Mark /\ SinceDates \subseteq Mark /\ TRUE \in BOOLEAN /\ FALSE \in BOOLEAN
    BY Numbers, Bounds DEF TypeInv
  <2>4. CASE StartsIncremental(r)
    <3>1. watermark = None \/ watermark \in Mark
      BY DEF TypeInv, TypeOK
    <3>2. \E k \in Starting : run' = [run EXCEPT ![r] = k]
      BY <2>1, <2>3, <2>4, <3>1 DEF StartsIncremental
    <3> QED
      BY <2>2, <3>2
  <2>5. CASE StartsFull(r)
    BY <2>1, <2>2, <2>3, <2>5 DEF StartsFull
  <2>6. CASE \E since \in SinceDates : StartsSince(r, since)
    BY <2>1, <2>2, <2>3, <2>6 DEF StartsSince
  <2>7. CASE RunLocks(r)
    <3> DEFINE k == [now |-> run[r].now, newest |-> run[r].newest,
                     left |-> Windows(run[r].start, run[r].now),
                     existing |-> user, people |-> {}, seen |-> {}, errors |-> FALSE]
    <3>1. StartingNow(r) /\ run' = [run EXCEPT ![r] = IF LockBusy(r) THEN Idle ELSE k]
      BY <2>7 DEF RunLocks
    <3>2. /\ run[r].now \in Time /\ run[r].newest \in BOOLEAN
          /\ Windows(run[r].start, run[r].now) \subseteq Window
      BY <3>1, StartTyped DEF TypeInv, Windows
    <3>3. k \in Walking /\ k.existing = user
      BY <3>2 DEF Walking, TypeInv, TypeOK
    <3> HIDE DEF k
    <3>4. CASE LockBusy(r)
      BY <3>1, <3>4, Absent
    <3>5. CASE ~LockBusy(r)
      BY <3>1, <3>3, <3>5
    <3> QED
      BY <3>4, <3>5
  <2>8. CASE RunFetches(r)
    <3> DEFINE w == NextWindow(r)
               k == [run[r] EXCEPT !.left = run[r].left \ {w}, !.people = PeopleIn(w)]
    <3>1. WalkingNow(r) /\ run' = [run EXCEPT ![r] = k]
      BY <2>8 DEF RunFetches
    <3> HIDE DEF w
    <3>2. PeopleIn(w) \in SUBSET (Person \X Time)
      BY DEF PeopleIn
    <3>3. k \in Walking /\ k.existing = run[r].existing
      BY <3>1, <3>2, WalkTyped DEF Walking, TypeInv
    <3> HIDE DEF k
    <3> QED
      BY <3>1, <3>3
  <2>9. CASE RunFinishes(r) \/ RunAborts(r)
    BY <2>9, Absent DEF RunFinishes, RunAborts
  <2> QED
    BY <2>4, <2>5, <2>6, <2>7, <2>8, <2>9
<1>4. PICK k \in Starting \cup Walking \cup {Idle} :
        /\ run' = [run EXCEPT ![r] = k]
        /\ k \in Walking => k.existing = user \/ (WalkingNow(r) /\ k.existing = run[r].existing)
  BY <1>3
<1>5. /\ run' \in [Run -> Starting \cup Walking \cup {Idle}] /\ run'[r] = k
      /\ \A q \in Run \ {r} : run'[q] = run[q]
  BY <1>4, RunGoes DEF TypeInv
<1>6. TypeOK'
  BY <1>1, <1>2, <1>5 DEF TypeInv, TypeOK
<1>7. RowsStay'
  <2> SUFFICES ASSUME NEW q \in Run, NEW u \in Person, WalkingNow(q)', run'[q].existing[u] # NoRow
               PROVE  user[u] # NoRow
    BY <1>1 DEF RowsStay
  <2>1. CASE q = r
    <3>1. k \in Walking
      <4>1. k # Idle /\ "left" \in DOMAIN k
        BY <1>5, <2>1 DEF WalkingNow
      <4>2. k \in Starting => DOMAIN k = {"start", "now", "newest"}
        BY DEF Starting
      <4> QED
        BY <1>4, <4>1, <4>2
    <3> QED
      BY <1>4, <1>5, <2>1, <3>1 DEF TypeInv, RowsStay
  <2>2. CASE q # r
    BY <1>5, <2>2 DEF TypeInv, RowsStay, WalkingNow
  <2> QED
    BY <2>1, <2>2
<1> QED
  BY <1>1, <1>6, <1>7 DEF TypeInv

LEMMA ProcessTyped ==
  ASSUME TypeInv, NEW r \in Run, NEW p \in Person \X Time, RunSaves(r, p) \/ RunErrs(r, p)
  PROVE  /\ TypeInv'
         /\ \A u \in Person : user[u] # NoRow /\ user[u].session
                              => user'[u] # NoRow /\ user'[u].session
<1>1. PICK failed \in BOOLEAN :
        /\ WalkingNow(r) /\ p \in run[r].people
        /\ run' = [run EXCEPT ![r] = Processed(run[r], p, failed)]
        /\ UNCHANGED <<clock, latest, visible, watermark, login>>
  <2>1. CASE RunSaves(r, p)
    <3>1. Collides(r, p) \in BOOLEAN
      BY DEF Collides
    <3> QED
      BY <2>1, <3>1, SavesIs
  <2>2. CASE RunErrs(r, p)
    BY <2>2 DEF RunErrs
  <2> QED
    BY <2>1, <2>2
<1>2. \/ user' = user
      \/ user' = [user EXCEPT ![p[1]] = SavedRow(r, p)]
  BY SavesIs DEF RunErrs
<1>3. raced' \subseteq raced /\ failures' \in 0..MaxFailures
  <2>1. CASE RunSaves(r, p)
    BY <2>1, SavesIs DEF TypeInv, TypeOK
  <2>2. CASE RunErrs(r, p)
    BY <2>2, Bounds DEF RunErrs, TypeInv, TypeOK
  <2> QED
    BY <2>1, <2>2
<1>4. /\ SavedRow(r, p) \in Row
      /\ user[p[1]] # NoRow => SavedRow(r, p) # NoRow
      /\ user[p[1]] # NoRow /\ user[p[1]].session
           => SavedRow(r, p) # NoRow /\ SavedRow(r, p).session
  BY <1>1, SavedRowTyped DEF TypeInv
<1>5. /\ user' \in [Person -> Row]
      /\ \A u \in Person : user[u] # NoRow => user'[u] # NoRow
      /\ \A u \in Person : user[u] # NoRow /\ user[u].session
                           => user'[u] # NoRow /\ user'[u].session
  <2>1. user \in [Person -> Row]
    BY DEF TypeInv, TypeOK
  <2>2. \A u \in Person : user'[u] = user[u] \/ (u = p[1] /\ user'[u] = SavedRow(r, p))
    BY <1>2, <2>1
  <2>3. user' \in [Person -> Row]
    BY <1>2, <1>4, <2>1
  <2> QED
    BY <1>4, <2>2, <2>3
<1>6. /\ Processed(run[r], p, failed) \in Walking
      /\ Processed(run[r], p, failed).now = run[r].now
      /\ Processed(run[r], p, failed).existing = run[r].existing
  BY <1>1, ProcessedIs DEF TypeInv
<1>7. /\ run' \in [Run -> Starting \cup Walking \cup {Idle}]
      /\ run'[r] = Processed(run[r], p, failed)
      /\ \A q \in Run \ {r} : run'[q] = run[q]
      /\ \A q \in Run : WalkingNow(q)' <=> WalkingNow(q)
  BY <1>1, <1>6, WalkGoes DEF TypeInv
<1>8. TypeOK'
  BY <1>1, <1>3, <1>5, <1>7 DEF TypeInv, TypeOK
<1>9. RowsStay'
  BY <1>5, <1>6, <1>7, RowsKept DEF TypeInv
<1> QED
  BY <1>5, <1>8, <1>9 DEF TypeInv

LEMMA LoginSaveTyped ==
  ASSUME TypeInv, NEW l \in Login, LoginSaves(l)
  PROVE  /\ TypeInv'
         /\ \A u \in Person : user[u] # NoRow /\ user[u].session
                              => user'[u] # NoRow /\ user'[u].session
<1> DEFINE u == login[l].person
           row == [profile |-> login[l].fetched, session |-> TRUE,
                   active |-> IF login[l].read = NoRow THEN None ELSE login[l].read.active]
<1>1. /\ u \in Person /\ row \in UserRow /\ row # NoRow /\ row.session
      /\ \/ user' = user /\ raced' = raced
         \/ /\ user' = [user EXCEPT ![u] = row]
            /\ raced' = IF login[l].read # user[u] \/ login[l].fetched # visible[u]
                        THEN raced \cup {u} ELSE raced
      /\ login' = [login EXCEPT ![l] = Idle]
      /\ UNCHANGED <<clock, latest, visible, watermark, run, failures>>
  BY LoginRow DEF TypeInv
<1> HIDE DEF u, row
<1>2. /\ login' \in [Login -> LoginState \cup {Idle}]
      /\ user' \in [Person -> Row] /\ raced' \subseteq Person
      /\ \A v \in Person : user'[v] = user[v] \/ user'[v] = row
  BY <1>1 DEF TypeInv, TypeOK, Row
<1>3. TypeOK'
  BY <1>1, <1>2 DEF TypeInv, TypeOK
<1>4. RowsStay'
  BY <1>1, <1>2, RowsKept DEF TypeInv, WalkingNow
<1> QED
  BY <1>1, <1>2, <1>3, <1>4 DEF TypeInv

LEMMA TypeStep ==
  ASSUME TypeInv, [Next]_vars
  PROVE  /\ TypeInv'
         /\ \A u \in Person : user[u] # NoRow /\ user[u].session
                              => user'[u] # NoRow /\ user'[u].session
<1>1. CASE Tick \/ \E u \in Person : RecordChanges(u) \/ RecordPublishes(u)
  BY <1>1, RecordsTyped DEF Tick, RecordChanges, RecordPublishes
<1>2. ASSUME NEW r \in Run,
             \/ StartsIncremental(r) \/ StartsFull(r)
             \/ \E since \in SinceDates : StartsSince(r, since)
             \/ RunLocks(r) \/ RunFetches(r) \/ RunFinishes(r) \/ RunAborts(r)
      PROVE  /\ TypeInv'
             /\ \A u \in Person : user[u] # NoRow /\ user[u].session
                                  => user'[u] # NoRow /\ user'[u].session
  BY <1>2, RunWaitTyped
<1>3. ASSUME NEW r \in Run, NEW p \in Person \X Time, RunSaves(r, p) \/ RunErrs(r, p)
      PROVE  /\ TypeInv'
             /\ \A u \in Person : user[u] # NoRow /\ user[u].session
                                  => user'[u] # NoRow /\ user'[u].session
  BY <1>3, ProcessTyped
<1>4. ASSUME NEW l \in Login,
             (\E u \in Person : LoginReads(l, u)) \/ LoginFetches(l) \/ LoginEnds(l)
      PROVE  /\ TypeInv'
             /\ \A u \in Person : user[u] # NoRow /\ user[u].session
                                  => user'[u] # NoRow /\ user'[u].session
  BY <1>4, LoginWaitTyped DEF LoginReads, LoginFetches, LoginEnds
<1>5. ASSUME NEW l \in Login, LoginSaves(l)
      PROVE  /\ TypeInv'
             /\ \A u \in Person : user[u] # NoRow /\ user[u].session
                                  => user'[u] # NoRow /\ user'[u].session
  BY <1>5, LoginSaveTyped
<1>6. CASE UNCHANGED vars
  BY <1>6 DEF vars, TypeInv, TypeOK, RowsStay, WalkingNow
<1> QED
  BY <1>1, <1>2, <1>3, <1>4, <1>5, <1>6 DEF Next

\* Every variable always has its type, for any number of people, runs and logins and for any
\* arguments of --since: the states of sync_fabric_users and of a login in DirectorySync.
THEOREM SyncTypeCorrect == Spec => []TypeOK
<1>1. TypeInv /\ [Next]_vars => TypeInv'
  BY TypeStep
<1>2. TypeInv => TypeOK
  BY DEF TypeInv
<1> QED
  BY <1>1, <1>2, InitTyped, PTL DEF Spec

\* The sync never takes away what a login wrote, and never deletes its row, although a run
\* saves people from rows it read before the login (_sync, save(update_fields=changed)).
THEOREM SessionAlwaysKept == Spec => SessionKept
<1>1. TypeInv /\ [Next]_vars => TypeInv'
  BY TypeStep
<1>2. TypeInv /\ [Next]_vars => [\A u \in Person : user[u] # NoRow /\ user[u].session
                                  => user'[u] # NoRow /\ user'[u].session]_vars
  BY TypeStep
<1> QED
  BY <1>1, <1>2, InitTyped, PTL DEF Spec, SessionKept

-----------------------------------------------------------------------------
(* The invariant *)

\* The table has everybody whose record was last updated before t, but for whom a login
\* has overwritten.
GoodTo(t) == \A u \in Person : visible[u] < t /\ u \notin raced => Current(user[u], u)

\* What is still to be published will be published after t.
Safe(t) == (t <= clock - Overlap \/ t <= Earliest) /\ GoodTo(t)

\* Where a run has started or may start: the watermark, and what a run that has yet to try
\* for the lock read of it.
IsMark(t) ==
  \/ watermark # None /\ t = watermark
  \/ \E r \in Run : StartingNow(r) /\ t = run[r].start

MarksSafe == \A t \in Mark : IsMark(t) => Safe(t)

ClockSound ==
  /\ \A u \in Person : /\ visible[u] <= latest[u] /\ latest[u] <= clock
                       /\ Pending(u) => clock <= latest[u] + Overlap
  /\ \A r \in Run : run[r] # Idle => run[r].now <= clock

OneWalker == \A q, r \in Run : WalkingNow(q) /\ WalkingNow(r) => q = r

\* The run will get as far as the record of u.
Owes(r, u) == visible[u] < MarkAfter(r) /\ u \notin raced

ToCome(r, u) ==
  /\ u \notin run[r].seen
  /\ \/ \E w \in run[r].left : w[1] <= visible[u] /\ visible[u] < w[2]
     \/ <<u, visible[u]>> \in run[r].people

\* A run without errors has saved whoever is before its next watermark, or has yet to.
WalkCovers ==
  \A r \in Run, u \in Person :
    WalkingNow(r) /\ Owes(r, u) /\ ~run[r].errors => Current(user[u], u) \/ ToCome(r, u)

\* What differs from the row as the run read it is as Core API has it.
ReadsHold ==
  \A r \in Run, u \in Person : WalkingNow(r) /\ run[r].existing[u] # NoRow =>
    /\ user[u] # NoRow
    /\ Owes(r, u) /\ u \notin run[r].seen =>
         /\ user[u].profile \in {run[r].existing[u].profile, visible[u]}
         /\ user[u].active \in {run[r].existing[u].active, visible[u]}

\* A record that has changed since the run fetched it is ahead of every mark.
StaleAhead ==
  \A r \in Run : WalkingNow(r) => \A p \in run[r].people : p[2] # visible[p[1]] =>
    /\ MarkAfter(r) <= visible[p[1]]
    /\ \A t \in Mark : IsMark(t) => t <= visible[p[1]]

SyncInv == /\ TypeOK /\ MarksSafe /\ ClockSound /\ OneWalker
           /\ WalkCovers /\ ReadsHold /\ StaleAhead

-----------------------------------------------------------------------------
(* The windows of a walk *)

LEMMA Quotient ==
  ASSUME NEW x \in Int, NEW n \in Int, n > 0
  PROVE  \E q \in Int : x = n * q + (x % n)
OBVIOUS

LEMMA MultipleLeavesNothing ==
  ASSUME NEW q \in Int, NEW n \in Int, n > 0
  PROVE  (n * q) % n = 0
OBVIOUS

LEMMA DownToMultiple ==
  ASSUME NEW x \in Int, NEW n \in Int, n > 0
  PROVE  x % n \in 0..(n - 1) /\ (x - (x % n)) % n = 0
<1>1. PICK q \in Int : x = n * q + (x % n)
  BY Quotient
<1>2. x % n \in 0..(n - 1)
  OBVIOUS
<1>3. x - (x % n) = n * q
  BY <1>1, <1>2
<1> QED
  BY <1>2, <1>3, MultipleLeavesNothing, Zenon

\* Every moment of the range is in one of its windows.
LEMMA WindowsCover ==
  ASSUME NEW start \in Mark, NEW end \in Time, NEW t \in Time, start <= t, t < end
  PROVE  \E w \in Windows(start, end) : w[1] <= t /\ t < w[2]
<1> DEFINE over == (t - start) % Width
           from == t - over
           to   == IF from + Width < end THEN from + Width ELSE end
<1>1. /\ Earliest \in Int /\ MaxClock \in Int /\ Overlap \in Nat /\ Width \in Int /\ Width > 0
      /\ start \in Int /\ end \in Int /\ t \in Int /\ t - start \in Int
      /\ Earliest - Overlap <= start /\ Earliest <= t /\ t <= MaxClock /\ end <= MaxClock
  BY Bounds DEF Mark, Time
<1>2. over \in 0..(Width - 1) /\ ((t - start) - over) % Width = 0
  BY <1>1, DownToMultiple
<1>3. ((t - start) - over) >= 0
  <2>1. PICK q \in Int : t - start = Width * q + over
    BY <1>1, Quotient
  <2> HIDE DEF over
  <2>2. q >= 0
    BY <1>1, <1>2, <2>1
  <2>3. (t - start) - over = Width * q
    BY <1>1, <1>2, <2>1
  <2> QED
    BY <1>1, <2>2, <2>3
<1> HIDE DEF over
<1>4. /\ from \in Int /\ start <= from /\ from <= t /\ t < from + Width
      /\ from - start = (t - start) - over
  BY <1>1, <1>2, <1>3
<1>5. (from - start) % Width = 0
  BY <1>2, <1>4
<1> HIDE DEF from
<1>6. to \in Int /\ t < to /\ to <= end /\ to = IF from + Width < end THEN from + Width ELSE end
  BY <1>1, <1>4
<1> HIDE DEF to
<1>7. from \in Mark /\ to \in Time
  BY <1>1, <1>4, <1>6 DEF Mark, Time
<1>8. <<from, to>> \in Windows(start, end)
  BY <1>1, <1>4, <1>5, <1>6, <1>7 DEF Windows, Window
<1> QED
  BY <1>4, <1>6, <1>8

-----------------------------------------------------------------------------
(* Steps that change no row and no record *)

LEMMA InitSync == Init => SyncInv
<1> SUFFICES ASSUME Init PROVE SyncInv
  OBVIOUS
<1>1. TypeOK
  BY InitTyped DEF TypeInv
<1>2. \A r \in Run : run[r] = Idle
  BY DEF Init
<1>3. \A r \in Run : ~WalkingNow(r) /\ ~StartingNow(r)
  BY <1>2 DEF WalkingNow, StartingNow
<1>4. MarksSafe /\ OneWalker /\ WalkCovers /\ ReadsHold /\ StaleAhead
  BY <1>3 DEF MarksSafe, IsMark, OneWalker, WalkCovers, ReadsHold, StaleAhead, Init
<1>5. ClockSound
  BY <1>2, Bounds DEF ClockSound, Init, Pending
<1> QED
  BY <1>1, <1>4, <1>5 DEF SyncInv

LEMMA LessLess ==
  ASSUME NEW a \in Int, NEW b \in Int, NEW c \in Int, a <= b
  PROVE  a - c <= b - c
OBVIOUS

LEMMA OtherKeeps ==
  ASSUME SyncInv, TypeOK', ClockSound', clock <= clock',
         UNCHANGED <<visible, user, watermark, run, raced>>
  PROVE  SyncInv'
<1>1. /\ \A r \in Run : /\ WalkingNow(r)' <=> WalkingNow(r)
                        /\ StartingNow(r)' <=> StartingNow(r)
                        /\ MarkAfter(r)' = MarkAfter(r)
      /\ \A t : IsMark(t)' <=> IsMark(t)
      /\ \A t : GoodTo(t)' <=> GoodTo(t)
  BY DEF WalkingNow, StartingNow, MarkAfter, IsMark, GoodTo, Current
<1>2. MarksSafe'
  <2>1. /\ clock \in Int /\ clock' \in Int /\ Overlap \in Int /\ Mark \subseteq Int
        /\ Earliest \in Int
    BY Numbers, Bounds DEF SyncInv, TypeOK, Time
  <2> SUFFICES ASSUME NEW t \in Mark, IsMark(t) PROVE Safe(t)'
    BY <1>1 DEF MarksSafe
  <2>2. t \in Int /\ Safe(t)
    BY <2>1 DEF SyncInv, MarksSafe
  <2>3. GoodTo(t)' /\ (t <= clock - Overlap \/ t <= Earliest)
    BY <1>1, <2>2 DEF Safe
  <2>4. t <= clock' - Overlap \/ t <= Earliest
    <3>1. CASE t <= clock - Overlap
      <4>1. clock - Overlap <= clock' - Overlap
        BY <2>1, LessLess, Zenon
      <4>2. clock - Overlap \in Int /\ clock' - Overlap \in Int /\ t \in Int
        BY <2>1, <2>2
      <4> QED
        BY <3>1, <4>1, <4>2
    <3>2. CASE t <= Earliest
      BY <3>2
    <3> QED
      BY <2>3, <3>1, <3>2
  <2> QED
    BY <2>3, <2>4 DEF Safe
<1>3. OneWalker' /\ WalkCovers' /\ ReadsHold' /\ StaleAhead'
  BY <1>1 DEF SyncInv, OneWalker, WalkCovers, ReadsHold, StaleAhead, Owes, ToCome, Current
<1> QED
  BY <1>2, <1>3 DEF SyncInv

LEMMA TickKeeps ==
  ASSUME SyncInv, TypeOK', Tick
  PROVE  SyncInv'
<1>1. /\ clock' = clock + 1 /\ clock < MaxClock
      /\ UNCHANGED <<latest, visible, user, watermark, run, login, failures, raced>>
  BY DEF Tick
<1>2. ClockSound'
  <2>1. \A r \in Run : run[r] # Idle => run[r].now \in Int /\ run[r].now <= clock
    BY Kinds, WalkTyped, StartTyped, Bounds DEF SyncInv, ClockSound, Time
  <2>2. \A u \in Person : Pending(u)' <=> Pending(u)
    BY <1>1 DEF Pending
  <2>3. \A u \in Person : Pending(u) => clock < latest[u] + Overlap
    BY DEF Tick
  <2>4. \A u \in Person : visible[u] <= latest[u] /\ latest[u] <= clock
    BY DEF SyncInv, ClockSound
  <2>5. \A u \in Person : visible[u] \in Int /\ latest[u] \in Int
    BY Numbers DEF SyncInv
  <2>6. clock \in Int /\ Overlap \in Int
    BY Numbers DEF SyncInv
  <2> QED
    BY <1>1, <2>1, <2>2, <2>3, <2>4, <2>5, <2>6 DEF ClockSound
<1> QED
  BY <1>1, <1>2, Numbers, OtherKeeps DEF SyncInv

LEMMA RecordChangeKeeps ==
  ASSUME SyncInv, TypeOK', NEW u \in Person, RecordChanges(u)
  PROVE  SyncInv'
<1>1. /\ latest' = [latest EXCEPT ![u] = clock] /\ latest[u] < clock /\ ~Pending(u)
      /\ UNCHANGED <<clock, visible, user, watermark, run, login, failures, raced>>
  BY DEF RecordChanges
<1>2. ClockSound'
  <2>1. /\ latest'[u] = clock /\ \A v \in Person \ {u} : latest'[v] = latest[v]
        /\ clock \in Int /\ Overlap \in Nat /\ visible[u] \in Int /\ latest[u] \in Int
    BY <1>1, Numbers DEF SyncInv, TypeOK
  <2> QED
    BY <1>1, <2>1 DEF SyncInv, ClockSound, Pending
<1> QED
  BY <1>1, <1>2, Numbers, OtherKeeps DEF SyncInv

LEMMA LoginWaitKeeps ==
  ASSUME SyncInv, TypeOK', NEW l \in Login,
         (\E u \in Person : LoginReads(l, u)) \/ LoginFetches(l) \/ LoginEnds(l)
  PROVE  SyncInv'
<1>1. UNCHANGED <<clock, latest, visible, user, watermark, run, failures, raced>>
  BY DEF LoginReads, LoginFetches, LoginEnds
<1>2. ClockSound'
  BY <1>1 DEF SyncInv, ClockSound, Pending
<1> QED
  BY <1>1, <1>2, Numbers, OtherKeeps DEF SyncInv

\* Core API publishes an update it began at most Overlap ago: ahead of every mark.
LEMMA PublishKeeps ==
  ASSUME SyncInv, TypeOK', NEW u \in Person, RecordPublishes(u)
  PROVE  SyncInv'
<1>1. /\ Pending(u) /\ visible' = [visible EXCEPT ![u] = latest[u]]
      /\ UNCHANGED <<clock, latest, user, watermark, run, login, failures, raced>>
  BY DEF RecordPublishes
<1>2. /\ visible'[u] = latest[u] /\ \A v \in Person \ {u} : visible'[v] = visible[v]
      /\ visible' \in [Person -> Time]
  BY <1>1 DEF SyncInv, TypeOK
<1>3. /\ clock - Overlap <= visible'[u] /\ Earliest <= visible'[u] /\ visible'[u] <= clock
      /\ visible'[u] \in Int /\ clock \in Int /\ Overlap \in Nat /\ Earliest \in Int
      /\ Mark \subseteq Int
  BY <1>1, <1>2, Numbers DEF SyncInv, ClockSound
<1>4. /\ \A r \in Run : /\ WalkingNow(r)' <=> WalkingNow(r)
                        /\ StartingNow(r)' <=> StartingNow(r)
                        /\ MarkAfter(r)' = MarkAfter(r)
      /\ \A t : IsMark(t)' <=> IsMark(t)
  BY <1>1 DEF WalkingNow, StartingNow, MarkAfter, IsMark
<1>5. ClockSound'
  BY <1>1, <1>2, <1>3 DEF SyncInv, ClockSound, Pending
<1>6. \A t \in Mark : IsMark(t) => t <= visible'[u]
  BY <1>3 DEF SyncInv, MarksSafe, Safe
<1>7. \A r \in Run : WalkingNow(r) => MarkAfter(r) <= visible'[u] /\ MarkAfter(r) \in Int
  <2> SUFFICES ASSUME NEW r \in Run, WalkingNow(r)
               PROVE  MarkAfter(r) <= visible'[u] /\ MarkAfter(r) \in Int
    OBVIOUS
  <2>1. run[r].now \in Int /\ run[r].now <= clock
    BY WalkTyped, Bounds DEF SyncInv, ClockSound, WalkingNow, Time
  <2> QED
    BY <1>3, <2>1 DEF MarkAfter
<1>8. MarksSafe'
  <2> SUFFICES ASSUME NEW t \in Mark, IsMark(t) PROVE Safe(t)'
    BY <1>4 DEF MarksSafe
  <2>1. Safe(t) /\ t \in Int /\ ~(visible'[u] < t)
    BY <1>3, <1>6 DEF SyncInv, MarksSafe
  <2> QED
    BY <1>1, <1>2, <2>1 DEF Safe, GoodTo, Current
<1>9. OneWalker'
  BY <1>4 DEF SyncInv, OneWalker
<1>10. \A r \in Run : WalkingNow(r) => ~Owes(r, u)'
  BY <1>3, <1>4, <1>7 DEF Owes
<1>11. \A r \in Run, v \in Person \ {u} : Owes(r, v)' <=> Owes(r, v)
  BY <1>1, <1>2, <1>4 DEF Owes
<1>12. WalkCovers'
  <2> SUFFICES ASSUME NEW r \in Run, NEW v \in Person, WalkingNow(r)', Owes(r, v)', ~run'[r].errors
               PROVE  Current(user[v], v)' \/ ToCome(r, v)'
    BY DEF WalkCovers
  <2>1. v # u /\ WalkingNow(r) /\ Owes(r, v) /\ ~run[r].errors
    BY <1>1, <1>4, <1>10, <1>11
  <2> QED
    BY <1>1, <1>2, <2>1 DEF SyncInv, WalkCovers, ToCome, Current
<1>13. ReadsHold'
  <2> SUFFICES ASSUME NEW r \in Run, NEW v \in Person, WalkingNow(r)', run'[r].existing[v] # NoRow
               PROVE  /\ user'[v] # NoRow
                      /\ Owes(r, v)' /\ v \notin run'[r].seen =>
                           /\ user'[v].profile \in {run'[r].existing[v].profile, visible'[v]}
                           /\ user'[v].active \in {run'[r].existing[v].active, visible'[v]}
    BY DEF ReadsHold
  <2> QED
    BY <1>1, <1>2, <1>4, <1>10, <1>11 DEF SyncInv, ReadsHold
<1>14. StaleAhead'
  <2> SUFFICES ASSUME NEW r \in Run, WalkingNow(r)', NEW p \in run'[r].people,
                      p[2] # visible'[p[1]]
               PROVE  /\ MarkAfter(r)' <= visible'[p[1]]
                      /\ \A t \in Mark : IsMark(t)' => t <= visible'[p[1]]
    BY DEF StaleAhead
  <2>1. p[1] \in Person /\ p \in run[r].people /\ WalkingNow(r)
    BY <1>1, <1>4, WalkTyped DEF SyncInv
  <2>2. CASE p[1] = u
    BY <1>4, <1>6, <1>7, <2>1, <2>2
  <2>3. CASE p[1] # u
    BY <1>2, <1>4, <2>1, <2>3 DEF SyncInv, StaleAhead
  <2> QED
    BY <2>2, <2>3
<1> QED
  BY <1>5, <1>8, <1>9, <1>12, <1>13, <1>14 DEF SyncInv

-----------------------------------------------------------------------------
(* A run that has not changed anything yet *)

\* A new mark that is safe, and that no record can have passed unseen.
LEMMA MarkStarts ==
  ASSUME SyncInv, TypeOK', NEW r \in Run, NEW t \in Mark, NEW newest \in BOOLEAN,
         RunStarts(r, t, newest), t = watermark \/ t = Earliest
  PROVE  SyncInv'
<1> DEFINE k == [start |-> t, now |-> clock, newest |-> newest]
<1>1. /\ run[r] = Idle /\ run' = [run EXCEPT ![r] = k]
      /\ UNCHANGED <<clock, latest, visible, user, watermark, login, failures, raced>>
  BY DEF RunStarts
<1>2. k \in Starting /\ k.start = t /\ k.now = clock
  BY DEF Starting, SyncInv, TypeOK
<1> HIDE DEF k
<1>3. /\ run' \in [Run -> Starting \cup Walking \cup {Idle}] /\ run'[r] = k
      /\ \A q \in Run \ {r} : run'[q] = run[q]
  BY <1>1, <1>2, RunGoes DEF SyncInv
<1>4. \A q \in Run : /\ WalkingNow(q)' <=> (q # r /\ WalkingNow(q))
                     /\ StartingNow(q)' <=> (q = r \/ StartingNow(q))
                     /\ q # r => MarkAfter(q)' = MarkAfter(q)
  <2>1. StartingNow(r)' /\ ~WalkingNow(r)'
    <3>1. DOMAIN k = {"start", "now", "newest"} /\ k # Idle
      BY <1>2, Absent DEF Starting
    <3> QED
      BY <1>3, <3>1 DEF WalkingNow, StartingNow
  <2>2. \A q \in Run \ {r} : /\ WalkingNow(q)' <=> WalkingNow(q)
                             /\ StartingNow(q)' <=> StartingNow(q)
                             /\ MarkAfter(q)' = MarkAfter(q)
    BY <1>3 DEF WalkingNow, StartingNow, MarkAfter
  <2> QED
    BY <2>1, <2>2
<1>5. \A s \in Mark : IsMark(s)' => IsMark(s) \/ s = Earliest
  <2> SUFFICES ASSUME NEW s \in Mark, IsMark(s)', s # Earliest PROVE IsMark(s)
    OBVIOUS
  <2>1. CASE watermark # None /\ s = watermark
    BY <2>1 DEF IsMark
  <2>2. CASE \E q \in Run : StartingNow(q)' /\ s = run'[q].start
    <3>1. PICK q \in Run : StartingNow(q)' /\ s = run'[q].start
      BY <2>2
    <3>2. CASE q = r
      <4>1. s = watermark /\ watermark # None
        BY <1>2, <1>3, <3>1, <3>2, Absent, Numbers DEF SyncInv
      <4> QED
        BY <4>1 DEF IsMark
    <3>3. CASE q # r
      BY <1>3, <1>4, <3>1, <3>3 DEF IsMark
    <3> QED
      BY <3>2, <3>3
  <2> QED
    BY <1>1, <2>1, <2>2 DEF IsMark
<1>6. MarksSafe'
  <2> SUFFICES ASSUME NEW s \in Mark, IsMark(s)' PROVE Safe(s)'
    BY DEF MarksSafe
  <2>1. Safe(s) <=> Safe(s)'
    BY <1>1 DEF Safe, GoodTo, Current
  <2>2. Safe(Earliest)
    <3>1. \A u \in Person : ~(visible[u] < Earliest)
      BY Numbers DEF SyncInv
    <3>2. Earliest <= Earliest
      BY Bounds
    <3> QED
      BY <3>1, <3>2 DEF Safe, GoodTo
  <2> QED
    BY <1>5, <2>1, <2>2 DEF SyncInv, MarksSafe
<1>7. ClockSound'
  <2>1. \A q \in Run : run'[q] # Idle => run'[q].now <= clock
    <3>1. clock <= clock
      BY Numbers DEF SyncInv
    <3> QED
      BY <1>2, <1>3, <3>1 DEF SyncInv, ClockSound
  <2> QED
    BY <1>1, <2>1 DEF SyncInv, ClockSound, Pending
<1>8. OneWalker'
  BY <1>4 DEF SyncInv, OneWalker
<1>9. WalkCovers' /\ ReadsHold'
  BY <1>1, <1>3, <1>4 DEF SyncInv, WalkCovers, ReadsHold, Owes, ToCome, Current
<1>10. StaleAhead'
  <2> SUFFICES ASSUME NEW q \in Run, WalkingNow(q)', NEW p \in run'[q].people,
                      p[2] # visible'[p[1]]
               PROVE  /\ MarkAfter(q)' <= visible'[p[1]]
                      /\ \A s \in Mark : IsMark(s)' => s <= visible'[p[1]]
    BY DEF StaleAhead
  <2>1. /\ q # r /\ WalkingNow(q) /\ p \in run[q].people /\ p[2] # visible[p[1]]
        /\ MarkAfter(q)' = MarkAfter(q)
    BY <1>1, <1>3, <1>4
  <2>2. p[1] \in Person
    BY <2>1, WalkTyped DEF SyncInv
  <2>3. Earliest <= visible[p[1]]
    BY <2>2, Numbers DEF SyncInv
  <2> QED
    BY <1>1, <1>5, <2>1, <2>3 DEF SyncInv, StaleAhead
<1> QED
  BY <1>6, <1>7, <1>8, <1>9, <1>10 DEF SyncInv

LEMMA StartKeeps ==
  ASSUME SyncInv, TypeOK', SinceDates \subseteq {Earliest}, NEW r \in Run,
         StartsIncremental(r) \/ StartsFull(r) \/ \E since \in SinceDates : StartsSince(r, since)
  PROVE  SyncInv'
<1>1. Earliest \in Mark /\ watermark \in Mark \cup {None}
  BY Numbers DEF SyncInv, TypeOK
<1>2. CASE StartsIncremental(r)
  BY <1>1, <1>2, MarkStarts DEF StartsIncremental
<1>3. CASE StartsFull(r)
  BY <1>1, <1>3, MarkStarts DEF StartsFull
<1>4. CASE \E since \in SinceDates : StartsSince(r, since)
  BY <1>1, <1>4, MarkStarts DEF StartsSince
<1> QED
  BY <1>2, <1>3, <1>4

\* A run that leaves takes its mark with it.
LEMMA LeavingKeeps ==
  ASSUME SyncInv, TypeOK', NEW r \in Run, run' = [run EXCEPT ![r] = Idle],
         UNCHANGED <<clock, latest, visible, user, watermark, login, raced>>
  PROVE  SyncInv'
<1>1. /\ run' \in [Run -> Starting \cup Walking \cup {Idle}] /\ run'[r] = Idle
      /\ \A q \in Run \ {r} : run'[q] = run[q]
  BY RunGoes DEF SyncInv
<1>2. \A q \in Run : /\ WalkingNow(q)' <=> (q # r /\ WalkingNow(q))
                     /\ StartingNow(q)' <=> (q # r /\ StartingNow(q))
                     /\ q # r => MarkAfter(q)' = MarkAfter(q)
  BY <1>1 DEF WalkingNow, StartingNow, MarkAfter
<1>3. \A s \in Mark : IsMark(s)' => IsMark(s)
  BY <1>1, <1>2 DEF IsMark
<1>4. MarksSafe'
  <2>1. \A s : Safe(s)' <=> Safe(s)
    BY DEF Safe, GoodTo, Current
  <2> QED
    BY <1>3, <2>1 DEF SyncInv, MarksSafe
<1>5. ClockSound' /\ OneWalker'
  BY <1>1, <1>2 DEF SyncInv, ClockSound, OneWalker, Pending
<1>6. WalkCovers' /\ ReadsHold' /\ StaleAhead'
  BY <1>1, <1>2, <1>3 DEF SyncInv, WalkCovers, ReadsHold, StaleAhead, Owes, ToCome, Current
<1> QED
  BY <1>4, <1>5, <1>6 DEF SyncInv

LEMMA AbortKeeps ==
  ASSUME SyncInv, TypeOK', NEW r \in Run, RunAborts(r)
  PROVE  SyncInv'
BY LeavingKeeps DEF RunAborts

-----------------------------------------------------------------------------
(* The lock and the windows *)

\* What a run starts from is safe, and its windows hold everybody from there on.
LEMMA LockKeeps ==
  ASSUME SyncInv, TypeOK', NEW r \in Run, RunLocks(r)
  PROVE  SyncInv'
<1>1. StartingNow(r) /\ UNCHANGED <<clock, latest, visible, user, watermark, login, failures, raced>>
  BY DEF RunLocks
<1>2. CASE LockBusy(r)
  <2>1. run' = [run EXCEPT ![r] = Idle]
    BY <1>2 DEF RunLocks
  <2> QED
    BY <1>1, <2>1, LeavingKeeps DEF SyncInv, TypeOK
<1>3. CASE ~LockBusy(r)
  <2> DEFINE k == [now |-> run[r].now, newest |-> run[r].newest,
                   left |-> Windows(run[r].start, run[r].now),
                   existing |-> user, people |-> {}, seen |-> {}, errors |-> FALSE]
  <2>1. run' = [run EXCEPT ![r] = k]
    BY <1>3 DEF RunLocks
  <2>2. /\ run[r].start \in Mark /\ run[r].now \in Time /\ run[r].newest \in BOOLEAN
        /\ run[r].now \in Int /\ Overlap \in Int
    BY <1>1, StartTyped, Bounds DEF SyncInv, Time
  <2>3. Windows(run[r].start, run[r].now) \subseteq Window
    BY DEF Windows
  <2>4. /\ k \in Walking /\ k.now = run[r].now /\ k.left = Windows(run[r].start, run[r].now)
        /\ k.existing = user /\ k.people = {} /\ k.seen = {} /\ k.errors = FALSE
    BY <2>2, <2>3 DEF Walking, SyncInv, TypeOK
  <2> HIDE DEF k
  <2>5. /\ run' \in [Run -> Starting \cup Walking \cup {Idle}] /\ run'[r] = k
        /\ \A q \in Run \ {r} : run'[q] = run[q]
    BY <2>1, <2>4, RunGoes DEF SyncInv
  <2>6. \A q \in Run : /\ WalkingNow(q)' <=> q = r
                       /\ StartingNow(q)' <=> (q # r /\ StartingNow(q))
    <3>1. \A q \in Run : ~WalkingNow(q)
      BY <1>3 DEF LockBusy
    <3>2. \A q \in Run \ {r} : /\ WalkingNow(q)' <=> WalkingNow(q)
                               /\ StartingNow(q)' <=> StartingNow(q)
      BY <2>5 DEF WalkingNow, StartingNow
    <3>3. WalkingNow(r)' /\ ~StartingNow(r)'
      <4>1. run'[r] \in Walking
        BY <2>4, <2>5
      <4>2. DOMAIN run'[r] = {"now", "newest", "left", "existing", "people", "seen", "errors"}
        BY <4>1 DEF Walking
      <4> QED
        BY <4>1, <4>2, Absent DEF WalkingNow, StartingNow
    <3> QED
      BY <3>1, <3>2, <3>3
  <2>7. MarkAfter(r)' = MarkAfter(r) /\ MarkAfter(r) = run[r].now - Overlap /\ run'[r].now = run[r].now
    BY <2>4, <2>5 DEF MarkAfter
  <2>8. MarksSafe'
    <3>1. \A s \in Mark : IsMark(s)' => IsMark(s)
      BY <1>1, <2>5, <2>6 DEF IsMark
    <3>2. \A s : Safe(s)' <=> Safe(s)
      BY <1>1 DEF Safe, GoodTo, Current
    <3> QED
      BY <3>1, <3>2 DEF SyncInv, MarksSafe
  <2>9. ClockSound'
    <3>1. \A q \in Run : run'[q] # Idle => run'[q].now <= clock
      <4>1. run[r] # Idle
        BY <1>1 DEF StartingNow
      <4> QED
        BY <2>5, <2>7, <4>1 DEF SyncInv, ClockSound
    <3> QED
      BY <1>1, <3>1 DEF SyncInv, ClockSound, Pending
  <2>10. OneWalker'
    BY <2>6 DEF OneWalker
  <2>11. WalkCovers'
    <3> SUFFICES ASSUME NEW q \in Run, NEW u \in Person, WalkingNow(q)', Owes(q, u)', ~run'[q].errors
                 PROVE  Current(user[u], u)' \/ ToCome(q, u)'
      BY DEF WalkCovers
    <3>1. q = r /\ visible[u] < run[r].now - Overlap /\ u \notin raced
      BY <1>1, <2>6, <2>7 DEF Owes
    <3>2. visible[u] \in Int /\ visible[u] \in Time /\ Overlap \in Nat /\ Mark \subseteq Int
      BY Numbers DEF SyncInv
    <3>3. visible[u] < run[r].now
      BY <2>2, <3>1, <3>2
    <3>4. CASE visible[u] < run[r].start
      <4>1. Safe(run[r].start)
        BY <1>1, <2>2 DEF SyncInv, MarksSafe, IsMark
      <4>2. Current(user[u], u)
        BY <3>1, <3>4, <4>1 DEF Safe, GoodTo
      <4> QED
        BY <1>1, <4>2 DEF Current
    <3>5. CASE run[r].start <= visible[u]
      <4>1. \E w \in Windows(run[r].start, run[r].now) : w[1] <= visible[u] /\ visible[u] < w[2]
        BY <2>2, <3>2, <3>3, <3>5, WindowsCover
      <4>2. /\ u \notin run'[r].seen
            /\ \E w \in run'[r].left : w[1] <= visible'[u] /\ visible'[u] < w[2]
        BY <1>1, <2>4, <2>5, <4>1
      <4> QED
        BY <3>1, <4>2 DEF ToCome
    <3>6. visible[u] < run[r].start \/ run[r].start <= visible[u]
      <4>1. run[r].start \in Int /\ visible[u] \in Int
        BY <2>2, <3>2
      <4> QED
        BY <4>1
    <3> QED
      BY <3>4, <3>5, <3>6
  <2>12. ReadsHold'
    <3> SUFFICES ASSUME NEW q \in Run, NEW u \in Person, WalkingNow(q)',
                        run'[q].existing[u] # NoRow
                 PROVE  /\ user'[u] # NoRow
                        /\ user'[u].profile \in {run'[q].existing[u].profile, visible'[u]}
                        /\ user'[u].active \in {run'[q].existing[u].active, visible'[u]}
      BY DEF ReadsHold
    <3> QED
      BY <1>1, <2>4, <2>5, <2>6
  <2>13. StaleAhead'
    BY <2>4, <2>5, <2>6 DEF StaleAhead
  <2> QED
    BY <2>8, <2>9, <2>10, <2>11, <2>12, <2>13 DEF SyncInv
<1> QED
  BY <1>2, <1>3

\* The marks do not change when a walk goes on.
LEMMA MarksStay ==
  ASSUME TypeOK, NEW r \in Run, WalkingNow(r), NEW k \in Walking,
         run' = [run EXCEPT ![r] = k], k.now = run[r].now, watermark' = watermark
  PROVE  \A s : IsMark(s)' <=> IsMark(s)
<1>1. /\ run'[r] = k /\ \A q \in Run \ {r} : run'[q] = run[q]
      /\ \A q \in Run : StartingNow(q)' <=> StartingNow(q)
  BY WalkGoes
<1>2. ~StartingNow(r)
  BY Kinds
<1> QED
  BY <1>1, <1>2 DEF IsMark

\* What no step of a walk disturbs: the clock, and that there is one walk.
LEMMA WalkKeepsTime ==
  ASSUME SyncInv, NEW r \in Run, WalkingNow(r), NEW k \in Walking,
         run' = [run EXCEPT ![r] = k], k.now = run[r].now,
         UNCHANGED <<clock, latest, visible>>
  PROVE  ClockSound' /\ OneWalker'
<1>1. /\ run'[r] = k /\ \A q \in Run \ {r} : run'[q] = run[q]
      /\ \A q \in Run : WalkingNow(q)' <=> WalkingNow(q)
  BY WalkGoes DEF SyncInv
<1>2. run[r] # Idle
  BY DEF WalkingNow
<1> QED
  BY <1>1, <1>2 DEF SyncInv, ClockSound, OneWalker, Pending

\* Whoever is in the window that is read is among the people to save.
LEMMA FetchKeeps ==
  ASSUME SyncInv, TypeOK', NEW r \in Run, RunFetches(r)
  PROVE  SyncInv'
<1> DEFINE w == NextWindow(r)
           k == [run[r] EXCEPT !.left = run[r].left \ {w}, !.people = PeopleIn(w)]
<1>1. /\ WalkingNow(r) /\ run[r].people = {} /\ run' = [run EXCEPT ![r] = k]
      /\ UNCHANGED <<clock, latest, visible, user, watermark, login, failures, raced>>
  BY DEF RunFetches
<1> HIDE DEF w
<1>2. /\ k \in Walking /\ k.now = run[r].now /\ k.left = run[r].left \ {w}
      /\ k.existing = run[r].existing /\ k.people = PeopleIn(w) /\ k.seen = run[r].seen
      /\ k.errors = run[r].errors
  <2>1. PeopleIn(w) \in SUBSET (Person \X Time)
    BY DEF PeopleIn
  <2> QED
    BY <1>1, <2>1, WalkTyped DEF Walking, SyncInv
<1> HIDE DEF k
<1>3. /\ run' \in [Run -> Starting \cup Walking \cup {Idle}] /\ run'[r] = k
      /\ \A q \in Run \ {r} : run'[q] = run[q]
      /\ \A q \in Run : /\ WalkingNow(q)' <=> WalkingNow(q)
                        /\ MarkAfter(q)' = MarkAfter(q)
  BY <1>1, <1>2, WalkGoes DEF SyncInv
<1>4. \A s : IsMark(s)' <=> IsMark(s)
  BY <1>1, <1>2, MarksStay DEF SyncInv
<1>5. MarksSafe'
  <2>1. \A s : Safe(s)' <=> Safe(s)
    BY <1>1 DEF Safe, GoodTo, Current
  <2> QED
    BY <1>4, <2>1 DEF SyncInv, MarksSafe
<1>6. ClockSound' /\ OneWalker'
  BY <1>1, <1>2, WalkKeepsTime
<1>7. WalkCovers'
  <2> SUFFICES ASSUME NEW q \in Run, NEW u \in Person, WalkingNow(q)', Owes(q, u)', ~run'[q].errors
               PROVE  Current(user[u], u)' \/ ToCome(q, u)'
    BY DEF WalkCovers
  <2>1. q = r
    BY <1>1, <1>3 DEF SyncInv, OneWalker
  <2>2. Current(user[u], u) \/ ToCome(r, u)
    BY <1>1, <1>2, <1>3, <2>1 DEF SyncInv, WalkCovers, Owes
  <2>3. CASE Current(user[u], u)
    BY <1>1, <2>3 DEF Current
  <2>4. CASE ToCome(r, u)
    <3>1. u \notin run[r].seen
      BY <2>4 DEF ToCome
    <3>2. PICK x \in run[r].left : x[1] <= visible[u] /\ visible[u] < x[2]
      BY <1>1, <2>4 DEF ToCome
    <3>3. CASE x = w
      <4>1. <<u, visible[u]>> \in PeopleIn(w)
        BY <3>2, <3>3 DEF PeopleIn, SyncInv, TypeOK
      <4> QED
        BY <1>1, <1>2, <1>3, <2>1, <3>1, <4>1 DEF ToCome
    <3>4. CASE x # w
      <4>1. x \in run'[r].left
        BY <1>2, <1>3, <3>2, <3>4
      <4> QED
        BY <1>1, <1>2, <1>3, <2>1, <3>1, <3>2, <4>1 DEF ToCome
    <3> QED
      BY <3>3, <3>4
  <2> QED
    BY <2>2, <2>3, <2>4
<1>8. ReadsHold'
  <2>1. \A q \in Run : run'[q].existing = run[q].existing /\ run'[q].seen = run[q].seen
    BY <1>2, <1>3
  <2> QED
    BY <1>1, <1>3, <2>1 DEF SyncInv, ReadsHold, Owes
<1>9. StaleAhead'
  <2>1. \A q \in Run : WalkingNow(q)' => q = r
    BY <1>1, <1>3 DEF SyncInv, OneWalker
  <2>2. \A p \in run'[r].people : p[2] = visible'[p[1]]
    BY <1>1, <1>2, <1>3 DEF PeopleIn
  <2> QED
    BY <2>1, <2>2 DEF StaleAhead
<1> QED
  BY <1>5, <1>6, <1>7, <1>8, <1>9 DEF SyncInv

-----------------------------------------------------------------------------
(* A person is processed *)

\* What a step has to show of the row it processes, for the invariant to survive: a row stays
\* a row; a present record spoils nothing and, of a person the run still owes, leaves the
\* row as Core API has it; only a row that is so is no longer raced.
LEMMA ProcessedKeeps ==
  ASSUME SyncInv, TypeOK', NEW r \in Run, WalkingNow(r), NEW p \in run[r].people,
         NEW failed \in BOOLEAN,
         run' = [run EXCEPT ![r] = Processed(run[r], p, failed)],
         \A v \in Person \ {p[1]} : user'[v] = user[v],
         user[p[1]] # NoRow => user'[p[1]] # NoRow,
         p[2] = visible[p[1]] /\ Current(user[p[1]], p[1]) => Current(user'[p[1]], p[1]),
         p[2] = visible[p[1]] /\ Owes(r, p[1]) /\ p[1] \notin run[r].seen /\ ~failed
           => Current(user'[p[1]], p[1]),
         raced' = raced \/ (raced' = raced \ {p[1]} /\ Current(user'[p[1]], p[1])),
         UNCHANGED <<clock, latest, visible, watermark, login>>
  PROVE  SyncInv'
<1> DEFINE u == p[1]
           k == Processed(run[r], p, failed)
<1>1. /\ k \in Walking /\ k.now = run[r].now /\ k.left = run[r].left
      /\ k.existing = run[r].existing /\ k.people = run[r].people \ {p}
      /\ k.seen = run[r].seen \cup {u} /\ (k.errors <=> run[r].errors \/ failed)
      /\ p \in Person \X Time /\ u \in Person /\ p[2] \in Time /\ p = <<u, p[2]>>
  BY ProcessedIs DEF SyncInv
<1>2. run' = [run EXCEPT ![r] = k]
  OBVIOUS
<1> HIDE DEF k
<1>2a. TypeOK /\ k \in Walking /\ k.now = run[r].now
  BY <1>1 DEF SyncInv
<1>2b. UNCHANGED <<clock, latest, visible, watermark>>
  OBVIOUS
<1>3. /\ run' \in [Run -> Starting \cup Walking \cup {Idle}] /\ run'[r] = k
      /\ \A q \in Run \ {r} : run'[q] = run[q]
      /\ \A q \in Run : /\ WalkingNow(q)' <=> WalkingNow(q)
                        /\ MarkAfter(q)' = MarkAfter(q)
  BY <1>2, <1>2a, WalkGoes, Zenon
<1>4. \A s : IsMark(s)' <=> IsMark(s)
  BY <1>2, <1>2a, <1>2b, MarksStay
<1>5. ClockSound' /\ OneWalker'
  BY <1>2, <1>2a, <1>2b, WalkKeepsTime
<1>6. \A v \in Person : /\ v # u => (v \in raced' <=> v \in raced) /\ user'[v] = user[v]
                        /\ Current(user[v], v)' <=> Current(user'[v], v)
  BY DEF Current
<1>7. \A q \in Run : WalkingNow(q) => q = r
  BY DEF SyncInv, OneWalker
<1>8. u \in raced /\ u \notin raced' => Current(user'[u], u)
  BY <1>1
\* A record that is not the present one is ahead of every mark.
<1>9. p[2] # visible[u] => /\ MarkAfter(r) <= visible[u]
                            /\ \A t \in Mark : IsMark(t) => t <= visible[u]
  BY DEF SyncInv, StaleAhead
<1>10. visible[u] \in Int /\ Mark \subseteq Int /\ MarkAfter(r) \in Int
  BY <1>1, Numbers, WalkTyped DEF SyncInv
<1> HIDE DEF u
<1>11. MarksSafe'
  <2> SUFFICES ASSUME NEW t \in Mark, IsMark(t) PROVE Safe(t)'
    BY <1>4 DEF MarksSafe
  <2>1. Safe(t)
    BY DEF SyncInv, MarksSafe
  <2>2. ASSUME NEW v \in Person, visible[v] < t, v \notin raced'
        PROVE  Current(user'[v], v)
    <3>1. CASE v # u
      BY <1>6, <2>1, <2>2, <3>1 DEF Safe, GoodTo
    <3>2. CASE v = u /\ u \in raced
      BY <1>8, <2>2, <3>2
    <3>3. CASE v = u /\ u \notin raced
      <4>1. Current(user[u], u)
        BY <2>1, <2>2, <3>3 DEF Safe, GoodTo
      <4>2. p[2] = visible[u]
        BY <1>9, <1>10, <2>2, <3>3
      <4> QED
        BY <3>3, <4>1, <4>2 DEF u
    <3> QED
      BY <3>1, <3>2, <3>3
  <2>3. GoodTo(t)'
    BY <1>6, <2>2 DEF GoodTo
  <2> QED
    BY <2>1, <2>3 DEF Safe
<1>12. WalkCovers'
  <2> SUFFICES ASSUME NEW q \in Run, NEW v \in Person, WalkingNow(q)', Owes(q, v)', ~run'[q].errors
               PROVE  Current(user'[v], v) \/ ToCome(q, v)'
    BY <1>6 DEF WalkCovers
  <2>1. q = r /\ ~run[r].errors /\ ~failed /\ visible[v] < MarkAfter(r) /\ v \notin raced'
    BY <1>1, <1>3, <1>7 DEF Owes
  <2>2. CASE v # u
    <3>1. Current(user[v], v) \/ ToCome(r, v)
      BY <1>6, <2>1, <2>2 DEF SyncInv, WalkCovers, Owes
    <3>2. ToCome(r, v) => ToCome(r, v)'
      <4>1. /\ v \in k.seen <=> v \in run[r].seen
            /\ <<v, visible[v]>> \in k.people <=> <<v, visible[v]>> \in run[r].people
        BY <1>1, <2>2
      <4> QED
        BY <1>1, <1>3, <4>1 DEF ToCome
    <3> QED
      BY <1>6, <2>1, <2>2, <3>1, <3>2
  <2>3. CASE v = u /\ u \in raced
    BY <1>8, <2>1, <2>3
  <2>4. CASE v = u /\ u \notin raced
    <3>1. Owes(r, u)
      BY <2>1, <2>4 DEF Owes
    <3>2. p[2] = visible[u]
      BY <1>9, <1>10, <2>1, <2>4
    <3>3. CASE u \in run[r].seen
      <4>1. Current(user[u], u)
        BY <1>1, <2>1, <3>1, <3>3 DEF SyncInv, WalkCovers, ToCome
      <4> QED
        BY <2>4, <3>2, <4>1 DEF u
    <3>4. CASE u \notin run[r].seen
      BY <2>1, <2>4, <3>1, <3>2, <3>4 DEF u
    <3> QED
      BY <3>3, <3>4
  <2> QED
    BY <2>2, <2>3, <2>4
<1>13. ReadsHold'
  <2> SUFFICES ASSUME NEW q \in Run, NEW v \in Person, WalkingNow(q)',
                      run'[q].existing[v] # NoRow
               PROVE  /\ user'[v] # NoRow
                      /\ Owes(q, v)' /\ v \notin run'[q].seen =>
                           /\ user'[v].profile \in {run'[q].existing[v].profile, visible'[v]}
                           /\ user'[v].active \in {run'[q].existing[v].active, visible'[v]}
    BY DEF ReadsHold
  <2>1. q = r /\ run[r].existing[v] # NoRow
    BY <1>1, <1>3, <1>7
  <2>2. user[v] # NoRow
    BY <2>1 DEF SyncInv, ReadsHold
  <2>3. CASE v = u
    BY <1>1, <1>3, <2>1, <2>2, <2>3 DEF u
  <2>4. CASE v # u
    <3>1. /\ user'[v] = user[v]
          /\ Owes(r, v)' => Owes(r, v)
          /\ v \notin run'[r].seen => v \notin run[r].seen
      BY <1>1, <1>3, <1>6, <2>4 DEF Owes
    <3> QED
      BY <1>1, <1>3, <2>1, <2>2, <3>1 DEF SyncInv, ReadsHold
  <2> QED
    BY <2>3, <2>4
<1>14. StaleAhead'
  <2>1. run'[r].people \subseteq run[r].people
    BY <1>1, <1>3
  <2> QED
    BY <1>3, <1>4, <1>7, <2>1 DEF SyncInv, StaleAhead
<1> QED
  BY <1>5, <1>11, <1>12, <1>13, <1>14 DEF SyncInv

LEMMA SaveKeeps ==
  ASSUME SyncInv, TypeOK', NEW r \in Run, NEW p \in Person \X Time, RunSaves(r, p)
  PROVE  SyncInv'
<1> DEFINE u == p[1]
           old == user[u]
           new == SavedRow(r, p)
           ex == run[r].existing[u]
           failed == Collides(r, p)
<1>1. /\ WalkingNow(r) /\ p \in run[r].people
      /\ user' = [user EXCEPT ![u] = new]
      /\ run' = [run EXCEPT ![r] = Processed(run[r], p, failed)]
      /\ raced' = IF Current(new, u) THEN raced \ {u} ELSE raced
      /\ UNCHANGED <<clock, latest, visible, watermark, login, failures>>
  BY SavesIs
<1>2. RowsStay /\ TypeOK
  BY DEF SyncInv, ReadsHold, RowsStay
<1>3. u \in Person /\ p[2] \in Time /\ failed \in BOOLEAN
  BY <1>1, <1>2, WalkTyped DEF Collides
<1>4. new \in Row /\ (old # NoRow => new # NoRow)
  BY <1>1, <1>2, SavedRowTyped
<1>5. \/ new = [profile |-> p[2], active |-> p[2], session |-> FALSE]
      \/ u \notin run[r].seen /\ ex # NoRow /\ new = Synced(old, ex, p[2])
      \/ (u \in run[r].seen \/ failed) /\ new = old
  BY SavedRowCases
<1> HIDE DEF new, failed
<1>6. user'[u] = new /\ (\A v \in Person \ {u} : user'[v] = user[v]) /\ user' \in [Person -> Row]
  BY <1>1, <1>2, <1>3, <1>4 DEF TypeOK
<1>7. ASSUME new = [profile |-> p[2], active |-> p[2], session |-> FALSE], p[2] = visible[u]
      PROVE  Current(new, u)
  BY <1>3, <1>7, CreatedTyped DEF Current
<1>8. ASSUME p[2] = visible[u], Current(old, u)
      PROVE  Current(new, u)
  <2>1. CASE ex # NoRow /\ new = Synced(old, ex, p[2])
    <3>1. old \in UserRow
      BY <1>2, <1>3, <1>8, RowTyped DEF Current
    <3>2. /\ new # NoRow
          /\ new.profile = IF ex.profile # p[2] THEN p[2] ELSE old.profile
          /\ new.active = IF ex.active # p[2] THEN p[2] ELSE old.active
      BY <1>3, <2>1, <3>1, SyncedTyped
    <3> QED
      BY <1>8, <3>2 DEF Current
  <2> QED
    BY <1>5, <1>7, <1>8, <2>1
<1>9. ASSUME p[2] = visible[u], Owes(r, u), u \notin run[r].seen, ~failed
      PROVE  Current(new, u)
  <2>1. CASE ex # NoRow /\ new = Synced(old, ex, p[2])
    <3>1. old \in UserRow
      BY <1>1, <1>2, <1>3, <2>1, RowTyped DEF RowsStay
    <3>2. /\ new # NoRow
          /\ new.profile = IF ex.profile # p[2] THEN p[2] ELSE old.profile
          /\ new.active = IF ex.active # p[2] THEN p[2] ELSE old.active
      BY <1>3, <2>1, <3>1, SyncedTyped
    <3>3. /\ old.profile \in {ex.profile, visible[u]}
          /\ old.active \in {ex.active, visible[u]}
      BY <1>1, <1>3, <1>9, <2>1 DEF SyncInv, ReadsHold
    <3> QED
      BY <1>9, <3>2, <3>3 DEF Current
  <2> QED
    BY <1>5, <1>7, <1>9, <2>1
<1>10. raced' = raced \/ (raced' = raced \ {u} /\ Current(new, u))
  BY <1>1
<1> QED
  BY <1>1, <1>3, <1>4, <1>6, <1>8, <1>9, <1>10, ProcessedKeeps

LEMMA ErrKeeps ==
  ASSUME SyncInv, TypeOK', NEW r \in Run, NEW p \in Person \X Time, RunErrs(r, p)
  PROVE  SyncInv'
<1>1. /\ WalkingNow(r) /\ p \in run[r].people
      /\ run' = [run EXCEPT ![r] = Processed(run[r], p, TRUE)]
      /\ UNCHANGED <<clock, latest, visible, user, watermark, login, raced>>
  BY DEF RunErrs
<1>2. TRUE \in BOOLEAN /\ user' = user /\ raced' = raced
  BY <1>1
<1> QED
  BY <1>1, <1>2, ProcessedKeeps

-----------------------------------------------------------------------------
(* The end of a walk, and of a login *)

\* A walk without errors that has nothing left to do has everybody before its watermark.
LEMMA FinishKeeps ==
  ASSUME SyncInv, TypeOK', NEW r \in Run, RunFinishes(r)
  PROVE  SyncInv'
<1>1. /\ WalkingNow(r) /\ run[r].people = {} /\ run[r].left = {}
      /\ watermark' = IF Advances(r) THEN MarkAfter(r) ELSE watermark
      /\ run' = [run EXCEPT ![r] = Idle]
      /\ UNCHANGED <<clock, latest, visible, user, login, failures, raced>>
  BY DEF RunFinishes
<1>2. CASE ~Advances(r)
  BY <1>1, <1>2, LeavingKeeps DEF SyncInv, TypeOK
<1>3. CASE Advances(r)
  <2>1. watermark' = MarkAfter(r) /\ MarkAfter(r) \in Mark /\ ~run[r].errors
    BY <1>1, <1>3, WalkTyped DEF Advances, SyncInv
  <2>2. /\ run' \in [Run -> Starting \cup Walking \cup {Idle}] /\ run'[r] = Idle
        /\ \A q \in Run \ {r} : run'[q] = run[q]
    BY <1>1, RunGoes DEF SyncInv
  <2>3. \A q \in Run : ~WalkingNow(q)' /\ (StartingNow(q)' => q # r /\ StartingNow(q))
    <3>1. \A q \in Run : WalkingNow(q) => q = r
      BY <1>1 DEF SyncInv, OneWalker
    <3> QED
      BY <2>2, <3>1 DEF WalkingNow, StartingNow
  <2>4. \A t : Safe(t)' <=> Safe(t)
    BY <1>1 DEF Safe, GoodTo, Current
  <2>5. \A t \in Mark : IsMark(t)' => t = MarkAfter(r) \/ IsMark(t)
    BY <2>1, <2>2, <2>3 DEF IsMark
  <2>6. Safe(MarkAfter(r))
    <3>1. MarkAfter(r) <= clock - Overlap
      <4>1. run[r].now \in Int /\ run[r].now <= clock /\ clock \in Int /\ Overlap \in Int
        BY <1>1, WalkTyped, Numbers, Bounds DEF SyncInv, ClockSound, WalkingNow, Time
      <4> QED
        BY <4>1, LessLess DEF MarkAfter
    <3>2. ASSUME NEW u \in Person, visible[u] < MarkAfter(r), u \notin raced
          PROVE  Current(user[u], u)
      <4>1. ~ToCome(r, u)
        BY <1>1 DEF ToCome
      <4> QED
        BY <1>1, <2>1, <3>2, <4>1 DEF SyncInv, WalkCovers, Owes
    <3> QED
      BY <3>1, <3>2 DEF Safe, GoodTo
  <2>7. MarksSafe'
    BY <2>4, <2>5, <2>6 DEF SyncInv, MarksSafe
  <2>8. ClockSound'
    BY <1>1, <2>2 DEF SyncInv, ClockSound, Pending
  <2>9. OneWalker' /\ WalkCovers' /\ ReadsHold' /\ StaleAhead'
    BY <2>3 DEF OneWalker, WalkCovers, ReadsHold, StaleAhead
  <2> QED
    BY <2>7, <2>8, <2>9 DEF SyncInv
<1> QED
  BY <1>2, <1>3

\* A login that overwrites something else than it read makes the person raced; any other
\* leaves the row no worse than it was.
LEMMA LoginKeeps ==
  ASSUME SyncInv, TypeOK', NEW l \in Login, LoginSaves(l)
  PROVE  SyncInv'
<1> DEFINE u == login[l].person
           read == login[l].read
           row == [profile |-> login[l].fetched, session |-> TRUE,
                   active |-> IF read = NoRow THEN None ELSE read.active]
<1>1. /\ u \in Person /\ row \in UserRow /\ row # NoRow
      /\ row.profile = login[l].fetched
      /\ read # NoRow => row.active = read.active
      /\ \/ /\ user' = user /\ raced' = raced
         \/ /\ user' = [user EXCEPT ![u] = row]
            /\ raced' = IF read # user[u] \/ login[l].fetched # visible[u]
                        THEN raced \cup {u} ELSE raced
      /\ login' = [login EXCEPT ![l] = Idle]
      /\ UNCHANGED <<clock, latest, visible, watermark, run, failures>>
  BY LoginRow DEF SyncInv
<1> HIDE DEF row, u, read
<1>2. ClockSound'
  BY <1>1 DEF SyncInv, ClockSound, Pending
<1>3. clock <= clock'
  BY <1>1, Numbers DEF SyncInv
<1>4. CASE user' = user /\ raced' = raced
  BY <1>1, <1>2, <1>3, <1>4, OtherKeeps
<1>5. CASE /\ user' = [user EXCEPT ![u] = row]
           /\ raced' = IF read # user[u] \/ login[l].fetched # visible[u]
                       THEN raced \cup {u} ELSE raced
  <2>1. /\ user'[u] = row /\ user'[u] # NoRow /\ \A v \in Person \ {u} : user'[v] = user[v]
        /\ \A v \in Person \ {u} : v \in raced' <=> v \in raced
    BY <1>1, <1>5 DEF SyncInv, TypeOK
  <2>2. ASSUME u \notin raced'
        PROVE  /\ u \notin raced /\ user'[u].profile = visible[u]
               /\ user[u] # NoRow => user'[u].active = user[u].active
    BY <1>1, <1>5, <2>1, <2>2
  <2>3. \A v \in Person : v \notin raced' =>
          /\ v \notin raced
          /\ Current(user[v], v) => Current(user'[v], v)
    <3> SUFFICES ASSUME NEW v \in Person, v \notin raced'
                 PROVE  v \notin raced /\ (Current(user[v], v) => Current(user'[v], v))
      OBVIOUS
    <3>1. CASE v = u
      BY <2>1, <2>2, <3>1 DEF Current
    <3>2. CASE v # u
      BY <2>1, <3>2
    <3> QED
      BY <3>1, <3>2
  <2>4. \A v \in Person : Current(user[v], v)' <=> Current(user'[v], v)
    BY <1>1 DEF Current
  <2>5. /\ \A r \in Run : /\ WalkingNow(r)' <=> WalkingNow(r)
                          /\ MarkAfter(r)' = MarkAfter(r)
        /\ \A t : IsMark(t)' <=> IsMark(t)
    BY <1>1 DEF WalkingNow, StartingNow, MarkAfter, IsMark
  <2>6. \A r \in Run, v \in Person : Owes(r, v)' => Owes(r, v) /\ v \notin raced'
    BY <1>1, <2>3, <2>5 DEF Owes
  <2>7. MarksSafe'
    <3> SUFFICES ASSUME NEW t \in Mark, IsMark(t) PROVE Safe(t)'
      BY <2>5 DEF MarksSafe
    <3>1. Safe(t)
      BY DEF SyncInv, MarksSafe
    <3> QED
      BY <1>1, <2>3, <2>4, <3>1 DEF Safe, GoodTo
  <2>8. OneWalker'
    BY <2>5 DEF SyncInv, OneWalker
  <2>9. WalkCovers'
    <3> SUFFICES ASSUME NEW r \in Run, NEW v \in Person, WalkingNow(r)', Owes(r, v)', ~run'[r].errors
                 PROVE  Current(user'[v], v) \/ ToCome(r, v)'
      BY <2>4 DEF WalkCovers
    <3>1. Current(user[v], v) \/ ToCome(r, v)
      BY <1>1, <2>5, <2>6 DEF SyncInv, WalkCovers
    <3>2. ToCome(r, v)' <=> ToCome(r, v)
      BY <1>1 DEF ToCome
    <3> QED
      BY <2>3, <2>6, <3>1, <3>2
  <2>10. ReadsHold'
    <3> SUFFICES ASSUME NEW r \in Run, NEW v \in Person, WalkingNow(r)',
                        run'[r].existing[v] # NoRow
                 PROVE  /\ user'[v] # NoRow
                        /\ Owes(r, v)' /\ v \notin run'[r].seen =>
                             /\ user'[v].profile \in {run'[r].existing[v].profile, visible'[v]}
                             /\ user'[v].active \in {run'[r].existing[v].active, visible'[v]}
      BY DEF ReadsHold
    <3>1. /\ user[v] # NoRow
          /\ Owes(r, v)' /\ v \notin run[r].seen =>
               /\ user[v].profile \in {run[r].existing[v].profile, visible[v]}
               /\ user[v].active \in {run[r].existing[v].active, visible[v]}
      BY <1>1, <2>5, <2>6 DEF SyncInv, ReadsHold
    <3>2. CASE v = u
      BY <1>1, <2>1, <2>2, <2>6, <3>1, <3>2
    <3>3. CASE v # u
      BY <1>1, <2>1, <3>1, <3>3
    <3> QED
      BY <3>2, <3>3
  <2>11. StaleAhead'
    BY <1>1, <2>5 DEF SyncInv, StaleAhead
  <2> QED
    BY <1>2, <2>7, <2>8, <2>9, <2>10, <2>11 DEF SyncInv
<1> QED
  BY <1>1, <1>4, <1>5

-----------------------------------------------------------------------------
(* The step *)

LEMMA SyncStep ==
  ASSUME SinceDates \subseteq {Earliest}, SyncInv, TypeOK', [Next]_vars
  PROVE  SyncInv'
<1>1. CASE Tick
  BY <1>1, TickKeeps
<1>2. ASSUME NEW u \in Person, RecordChanges(u) PROVE SyncInv'
  BY <1>2, RecordChangeKeeps
<1>3. ASSUME NEW u \in Person, RecordPublishes(u) PROVE SyncInv'
  BY <1>3, PublishKeeps
<1>4. ASSUME NEW r \in Run,
             StartsIncremental(r) \/ StartsFull(r) \/ \E since \in SinceDates : StartsSince(r, since)
      PROVE  SyncInv'
  BY <1>4, StartKeeps
<1>5. ASSUME NEW r \in Run, RunLocks(r) PROVE SyncInv'
  BY <1>5, LockKeeps
<1>6. ASSUME NEW r \in Run, RunFetches(r) PROVE SyncInv'
  BY <1>6, FetchKeeps
<1>7. ASSUME NEW r \in Run, NEW p \in Person \X Time, RunSaves(r, p) PROVE SyncInv'
  BY <1>7, SaveKeeps
<1>8. ASSUME NEW r \in Run, NEW p \in Person \X Time, RunErrs(r, p) PROVE SyncInv'
  BY <1>8, ErrKeeps
<1>9. ASSUME NEW r \in Run, RunFinishes(r) PROVE SyncInv'
  BY <1>9, FinishKeeps
<1>10. ASSUME NEW r \in Run, RunAborts(r) PROVE SyncInv'
  BY <1>10, AbortKeeps
<1>11. ASSUME NEW l \in Login,
              (\E u \in Person : LoginReads(l, u)) \/ LoginFetches(l) \/ LoginEnds(l)
       PROVE  SyncInv'
  BY <1>11, LoginWaitKeeps
<1>12. ASSUME NEW l \in Login, LoginSaves(l) PROVE SyncInv'
  BY <1>12, LoginKeeps
<1>13. CASE UNCHANGED vars
  <2>1. clock <= clock' /\ ClockSound'
    BY <1>13, Numbers DEF SyncInv, ClockSound, Pending, vars
  <2> QED
    BY <1>13, <2>1, OtherKeeps DEF vars
<1> QED
  BY <1>1, <1>2, <1>3, <1>4, <1>5, <1>6, <1>7, <1>8, <1>9, <1>10, <1>11, <1>12, <1>13 DEF Next

\* Nobody is skipped for good: whoever's record was last updated before the watermark is in
\* the table as Core API has them, unless a login overwrote the row.  Failed rows and
\* windows, killed runs, runs that overlap and records published late never make the
\* watermark pass somebody (_sync, _resolve_start, iter_windows).  A run with --since a later
\* date does move it past people nobody has read, so the theorem leaves that argument out.
THEOREM NothingAlwaysSkipped ==
  ASSUME SinceDates \subseteq {Earliest}
  PROVE  Spec => []NothingSkipped
<1>1. Init => TypeInv /\ SyncInv
  BY InitTyped, InitSync
<1>2. TypeInv /\ SyncInv /\ [Next]_vars => TypeInv' /\ SyncInv'
  <2> SUFFICES ASSUME TypeInv, SyncInv, [Next]_vars PROVE TypeInv' /\ SyncInv'
    OBVIOUS
  <2>1. TypeInv'
    BY TypeStep
  <2>2. TypeOK'
    BY <2>1 DEF TypeInv
  <2> QED
    BY <2>1, <2>2, SyncStep
<1>3. SyncInv => NothingSkipped
  BY DEF SyncInv, TypeOK, MarksSafe, IsMark, Safe, GoodTo, NothingSkipped
<1> QED
  BY <1>1, <1>2, <1>3, PTL DEF Spec

=============================================================================
