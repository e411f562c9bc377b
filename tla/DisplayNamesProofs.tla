------------------------- MODULE DisplayNamesProofs -------------------------
(***************************************************************************)
(* Proofs about DisplayNames: types, whose name a row shows, that a typed  *)
(* name stays, and, without the catch-up command, that rows follow their   *)
(* person's name through every race of a credit and a name change.         *)
(***************************************************************************)
EXTENDS DisplayNames, TLAPS

-----------------------------------------------------------------------------
(* The naming rules, row by row *)

\* AccountShowsCredited, of one row.
Sound(a) == a.source = "account" => a.credit \in Person /\ a.shown \in {a.credit} \X Spelling

SoundRow(a) == a \in AuthorRow /\ Sound(a)

\* An account name of somebody, or none.
NameOf(account, credit) ==
  account # None => credit \in Person /\ account \in {credit} \X Spelling

NameTable == [Person -> AccountNames]

LEMMA AccountNameTyped ==
  ASSUME NEW credit \in Credit, NEW names \in NameTable
  PROVE  NameOf(AccountName(credit, names), credit)
BY Names DEF NameOf, AccountName, NameTable, Credit

LEMMA BylinedSound ==
  ASSUME NEW a \in AuthorRow
  PROVE  /\ SoundRow(Bylined(a)) /\ Bylined(a).credit = a.credit
         /\ Bylined(a).shown = a.byline /\ Bylined(a).source = "byline"
BY DEF Bylined, SoundRow, Sound, AuthorRow, Label

LEMMA AccountedSound ==
  ASSUME NEW a \in AuthorRow, NEW account, NameOf(account, a.credit), account # None
  PROVE  /\ SoundRow(Accounted(a, account)) /\ Accounted(a, account).credit = a.credit
         /\ Accounted(a, account).shown = account
         /\ Accounted(a, account).source = "account"
BY DEF Accounted, NameOf, SoundRow, Sound, AuthorRow, Label

LEMMA AutomatedSound ==
  ASSUME NEW a \in AuthorRow, NEW account, NameOf(account, a.credit)
  PROVE  /\ SoundRow(Automated(a, account)) /\ Automated(a, account).credit = a.credit
         /\ Automated(a, account).source = "account"
            => Automated(a, account).shown = account /\ account # None
<1>1. CASE account # None
  BY <1>1, AccountedSound DEF Automated
<1>2. CASE account = None
  BY <1>2, BylinedSound DEF Automated
<1> QED
  BY <1>1, <1>2

LEMMA FollowedSound ==
  ASSUME NEW a, SoundRow(a), NEW account, NameOf(account, a.credit)
  PROVE  /\ SoundRow(Followed(a, account)) /\ Followed(a, account).credit = a.credit
         /\ a.source = "custom" => Followed(a, account) = a
         /\ a.source = "account" /\ account # None => Followed(a, account).shown = account
         /\ a.source = "account" => Followed(a, account).source = "account"
<1>1. CASE a.source = "custom" \/ account = None
  BY <1>1 DEF Followed
<1>2. CASE ~(a.source = "custom" \/ account = None)
  BY <1>2, AccountedSound DEF Followed, SoundRow
<1> QED
  BY <1>1, <1>2

\* What the row of a request is settled to: a sound row with the credit asked for, which
\* keeps a typed name unless the request chose another or removed the credit.
LEMMA SettledSound ==
  ASSUME NEW old, SoundRow(old), NEW credit \in Credit, NEW byline \in Byline,
         NEW submitted \in Label \cup {None}, NEW use \in {None, Automatic, Keep},
         NEW account, NameOf(account, credit),
         NEW a \in AuthorRow, a.credit = credit, a.byline = byline,
         a.shown = old.shown, a.source = old.source
  PROVE  /\ SoundRow(Settled(old, a, submitted, use, account))
         /\ Settled(old, a, submitted, use, account).credit = credit
         /\ /\ old.source = "custom"
            /\ use = None /\ ~Changed(old, submitted)
            /\ ~(old.credit # None /\ credit = None)
            => /\ Settled(old, a, submitted, use, account).shown = old.shown
               /\ Settled(old, a, submitted, use, account).source = "custom"
<1>1. /\ a \in AuthorRow /\ a.credit = credit /\ a.byline = byline
      /\ a.shown = old.shown /\ a.source = old.source /\ old \in AuthorRow
  BY DEF SoundRow
<1>2. /\ SoundRow(Automated(a, account)) /\ Automated(a, account).credit = credit
      /\ Automated(a, account).source = "account"
         => Automated(a, account).shown = account /\ account # None
  BY <1>1, AutomatedSound
<1>3. LET kept == [a EXCEPT !.source = "custom"]
      IN SoundRow(kept) /\ kept.credit = credit
  BY <1>1 DEF SoundRow, Sound, AuthorRow
<1>4. ASSUME submitted # None
      PROVE  LET kept == [a EXCEPT !.shown = submitted, !.source = "custom"]
             IN SoundRow(kept) /\ kept.credit = credit
  BY <1>1, <1>4 DEF SoundRow, Sound, AuthorRow
<1>5. ASSUME Changed(old, submitted)
      PROVE  SoundRow(Chosen(a, submitted, account)) /\ Chosen(a, submitted, account).credit = credit
  <2> DEFINE auto == Automated(a, account)
  <2>1. submitted \in Label
    BY <1>5 DEF Changed
  <2>2. auto.source \in {"byline", "account", "custom"}
    BY <1>2 DEF SoundRow, AuthorRow
  <2> HIDE DEF auto
  <2>3. Chosen(a, submitted, account) =
          [a EXCEPT !.shown = submitted,
                    !.source = IF submitted = auto.shown THEN auto.source ELSE "custom"]
    BY DEF Chosen, auto
  <2>4. auto.source = "account" => auto.shown = account /\ account # None
    BY <1>2 DEF auto
  <2>5. CASE submitted = auto.shown /\ auto.source = "account"
    <3>1. submitted \in {credit} \X Spelling /\ credit \in Person
      BY <2>4, <2>5 DEF NameOf
    <3> QED
      BY <1>1, <2>1, <2>3, <2>5, <3>1 DEF SoundRow, Sound, AuthorRow
  <2>6. CASE ~(submitted = auto.shown /\ auto.source = "account")
    BY <1>1, <2>1, <2>2, <2>3, <2>6 DEF SoundRow, Sound, AuthorRow
  <2> QED
    BY <2>5, <2>6
<1>6. /\ SoundRow(Carried(old, a)) /\ Carried(old, a).credit = credit
      /\ old.source = "custom" /\ ~(old.credit # None /\ credit = None) => Carried(old, a) = a
  <2>1. CASE Carried(old, a) = Bylined(a)
    <3>1. old.source = "custom" /\ ~(old.credit # None /\ credit = None) => Carried(old, a) = a
      BY <1>1 DEF Carried
    <3> QED
      BY <1>1, <2>1, <3>1, BylinedSound
  <2>2. CASE Carried(old, a) = a /\ Carried(old, a) # Bylined(a)
    <3>1. /\ ~(old.credit # None /\ a.credit = None)
          /\ ~(old.credit # None /\ a.credit # old.credit /\ old.source = "account")
      BY <2>2 DEF Carried
    <3>2. Sound(a)
      BY <1>1, <3>1, Names DEF SoundRow, Sound
    <3> QED
      BY <1>1, <2>2, <3>2 DEF SoundRow
  <2> QED
    BY <2>1, <2>2 DEF Carried
<1> DEFINE settled == Settled(old, a, submitted, use, account)
<1>7. \/ settled = Automated(a, account) /\ use = Automatic
      \/ settled = [a EXCEPT !.source = "custom"]
      \/ settled = [a EXCEPT !.shown = submitted, !.source = "custom"] /\ submitted # None
      \/ settled = Chosen(a, submitted, account) /\ Changed(old, submitted)
      \/ settled = Carried(old, a)
  BY DEF Settled
<1>8. SoundRow(settled) /\ settled.credit = credit
  BY <1>2, <1>3, <1>4, <1>5, <1>6, <1>7
<1>9. use = None /\ ~Changed(old, submitted) => settled = Carried(old, a)
  BY Names DEF Settled
<1> QED
  BY <1>1, <1>6, <1>8, <1>9

-----------------------------------------------------------------------------
(* The invariant *)

RowsSound == \A r \in Row : Sound(row[r])

\* What an uncommitted request does to a typed name, as long as it has the row's lock.
KeepsTyped(d) ==
  row[d.row].source = "custom" =>
    \/ d.asked
    \/ row[d.row].credit # None /\ d.new.credit = None
    \/ d.new.shown = row[d.row].shown /\ d.new.source = "custom"

DraftsSound ==
  \A w \in Writer : draft[w] # Idle =>
    Sound(draft[w].new) /\ KeepsTyped(draft[w]) /\ recheck[w] = Idle

\* A row's lock has one holder.
RowLocksExclude ==
  /\ \A v, w \in Writer : draft[v] # Idle /\ draft[w] # Idle /\ draft[v].row = draft[w].row
                          => v = w
  /\ \A c \in Catchup, w \in Writer : CatchupHolds(c) /\ draft[w] # Idle
                                      => draft[w].row \notin catchup[c].rows

\* A person's lock has one holder, a name change or a recheck.
PersonLocksExclude ==
  /\ \A m, n \in Renamer : renamer[m] # Idle /\ renamer[n] # Idle
                           /\ renamer[m].person = renamer[n].person => m = n
  /\ \A n \in Renamer, w \in Writer : renamer[n] # Idle /\ recheck[w] # Idle /\ recheck[w].locked
                                      => renamer[n].person # recheck[w].person
  /\ \A w \in Writer : recheck[w] # Idle /\ recheck[w].locked => recheck[w].person # None

\* An unusable name is carried to no row.
RenamesUsable ==
  \A n \in Renamer : renamer[n] # Idle /\ renamer[n].rows # {} => renamer[n].name \in Spelling

NamesInv ==
  TypeOK /\ RowsSound /\ DraftsSound /\ RowLocksExclude /\ PersonLocksExclude /\ RenamesUsable

\* A recheck of r that is still to come, or was lost.
Covered(r) ==
  \/ r \in missed
  \/ \E w \in Writer : recheck[w] # Idle /\ recheck[w].row = r
                       /\ recheck[w].person \in {None, row[r].credit}

\* A row on its person's name shows that name, and a change of the name in progress has
\* listed the row; if not, a recheck that waits for it will see to the row.
FollowRow(r) ==
  /\ FollowsPerson(r) => UpToDate(r) \/ Covered(r)
  /\ \A n \in Renamer :
       renamer[n] # Idle /\ renamer[n].name \in Spelling /\ FollowsAccount(r, renamer[n].person)
       => r \in renamer[n].rows \/ Covered(r)

FollowInv == \A r \in Row : FollowRow(r)


-----------------------------------------------------------------------------
(* The steps of a request *)

LEMMA DraftTyped ==
  ASSUME TypeOK, NEW w \in Writer, draft[w] # Idle
  PROVE  /\ draft[w] \in Draft /\ draft[w].row \in Row /\ draft[w].new \in AuthorRow
         /\ draft[w].follows \in BOOLEAN /\ draft[w].asked \in BOOLEAN
         /\ row[draft[w].row] \in AuthorRow
BY DEF TypeOK, Draft

\* A request has a draft of a row nobody else holds, the first or the next one.
LEMMA DraftKept ==
  ASSUME NamesInv, NEW w \in Writer, NEW d \in Draft,
         Sound(d.new), KeepsTyped(d), recheck[w] = Idle,
         ~RowLocked(d.row) \/ (draft[w] # Idle /\ draft[w].row = d.row),
         draft' = [draft EXCEPT ![w] = d], page' \in [Writer -> Page \cup {Idle}],
         UNCHANGED <<name, row, recheck, renamer, catchup, missed>>
  PROVE  NamesInv'
<1>1. /\ draft' \in [Writer -> Draft \cup {Idle}] /\ draft'[w] = d
      /\ \A v \in Writer \ {w} : draft'[v] = draft[v]
  BY DEF NamesInv, TypeOK
<1>2. TypeOK'
  BY <1>1 DEF NamesInv, TypeOK
<1>3. RowsSound' /\ PersonLocksExclude' /\ RenamesUsable'
  BY DEF NamesInv, RowsSound, PersonLocksExclude, RenamesUsable, Sound
<1>4. DraftsSound'
  BY <1>1 DEF NamesInv, DraftsSound, KeepsTyped, Sound
<1>5. \A v \in Writer \ {w} : draft[v] # Idle => draft[v].row # d.row
  BY DEF NamesInv, RowLocksExclude, RowLocked
<1>6. \A c \in Catchup : CatchupHolds(c) => d.row \notin catchup[c].rows
  BY DEF NamesInv, RowLocksExclude, RowLocked
<1>7. RowLocksExclude'
  BY <1>1, <1>5, <1>6 DEF NamesInv, RowLocksExclude, CatchupHolds
<1> QED
  BY <1>2, <1>3, <1>4, <1>7 DEF NamesInv

LEMMA WriteDrafted ==
  ASSUME NamesInv, NEW w \in Writer, NEW r \in Row, NEW credit \in Credit, NEW byline \in Byline,
         NEW submitted \in Submitted, NEW use \in Use, NEW follows \in BOOLEAN,
         Drafts(w, r, credit, byline, submitted, use, follows)
  PROVE  NamesInv'
<1> DEFINE old == row[r]
           a   == [old EXCEPT !.credit = credit, !.byline = byline]
           new == Settled(old, a, submitted, use, AccountName(credit, name))
           d   == [row |-> r, follows |-> follows,
                   asked |-> use # None \/ Changed(old, submitted), new |-> new]
<1>1. old \in AuthorRow /\ SoundRow(old) /\ name \in NameTable
  BY DEF NamesInv, TypeOK, RowsSound, SoundRow, NameTable
<1>2. /\ a \in AuthorRow /\ a.credit = credit /\ a.byline = byline
      /\ a.shown = old.shown /\ a.source = old.source
  BY <1>1 DEF AuthorRow
<1>3. NameOf(AccountName(credit, name), credit)
  BY <1>1, AccountNameTyped
<1> HIDE DEF a, old
<1>a. submitted \in Label \cup {None} /\ use \in {None, Automatic, Keep}
  BY DEF Submitted, Use
<1>4. /\ SoundRow(new) /\ new.credit = credit
      /\ /\ old.source = "custom" /\ use = None /\ ~Changed(old, submitted)
         /\ ~(old.credit # None /\ credit = None)
         => new.shown = old.shown /\ new.source = "custom"
  BY <1>1, <1>2, <1>3, <1>a, SettledSound
<1> HIDE DEF new
<1>5. d \in Draft /\ d.new = new /\ d.row = r /\ Sound(d.new)
  BY <1>4 DEF Draft, SoundRow
<1>6. KeepsTyped(d)
  BY <1>4, <1>5 DEF KeepsTyped, old
<1>7. /\ draft' = [draft EXCEPT ![w] = d] /\ recheck[w] = Idle
      /\ ~RowLocked(d.row) \/ (draft[w] # Idle /\ draft[w].row = d.row)
      /\ UNCHANGED <<name, row, recheck, renamer, catchup, missed>>
      /\ page' = [page EXCEPT ![w] = Idle]
  BY DEF Drafts, d, new, a, old
<1>8. page' \in [Writer -> Page \cup {Idle}]
  BY <1>7 DEF NamesInv, TypeOK
<1> HIDE DEF d
<1> QED
  BY <1>5, <1>6, <1>7, <1>8, DraftKept

LEMMA WritesKeep ==
  ASSUME NamesInv, NEW w \in Writer,
         \/ \E r \in Row, credit \in Credit, byline \in Byline, submitted \in Submitted,
               use \in Use : AdminWrites(w, r, credit, byline, submitted, use)
         \/ \E r \in Row, u \in Person, submitted \in Submitted, use \in Use :
              SelfWrites(w, r, u, submitted, use)
         \/ EchoWrites(w)
  PROVE  NamesInv'
<1>1. ASSUME NEW r \in Row, NEW credit \in Credit, NEW byline \in Byline,
             NEW submitted \in Submitted, NEW use \in Use,
             AdminWrites(w, r, credit, byline, submitted, use)
      PROVE  NamesInv'
  <2> DEFINE follows == credit # row[r].credit /\ credit # None
  <2>1. follows \in BOOLEAN /\ Drafts(w, r, credit, byline, submitted, use, follows)
    BY <1>1 DEF AdminWrites
  <2> HIDE DEF follows
  <2> QED
    BY <2>1, WriteDrafted
<1>2. ASSUME NEW r \in Row, NEW u \in Person, NEW submitted \in Submitted, NEW use \in Use,
             SelfWrites(w, r, u, submitted, use)
      PROVE  NamesInv'
  <2>1. u \in Credit /\ row[r].byline \in Byline /\ TRUE \in BOOLEAN
    BY DEF Credit, NamesInv, TypeOK, AuthorRow
  <2>2. Drafts(w, r, u, row[r].byline, submitted, use, TRUE)
    BY <1>2 DEF SelfWrites
  <2> QED
    BY <2>1, <2>2, WriteDrafted
<1>3. CASE EchoWrites(w)
  <2> DEFINE seen == page[w].seen
             r    == page[w].row
             follows == seen.credit # row[r].credit /\ seen.credit # None
  <2>1. page[w] \in Page
    BY <1>3 DEF EchoWrites, NamesInv, TypeOK
  <2>2. /\ r \in Row /\ seen.credit \in Credit /\ seen.byline \in Byline
        /\ seen.shown \in Submitted /\ None \in Use /\ follows \in BOOLEAN
    BY <2>1 DEF Page, AuthorRow, Submitted, Use
  <2>3. Drafts(w, r, seen.credit, seen.byline, seen.shown, None, follows)
    BY <1>3 DEF EchoWrites
  <2> HIDE DEF follows, seen, r
  <2> QED
    BY <2>2, <2>3, WriteDrafted
<1> QED
  BY <1>1, <1>2, <1>3

LEMMA ApprovalKeeps ==
  ASSUME NamesInv, NEW w \in Writer, NEW r \in Row, NEW u \in Person, Approves(w, r, u)
  PROVE  NamesInv'
<1> DEFINE new == [row[r] EXCEPT !.credit = u]
           d   == [row |-> r, follows |-> TRUE, asked |-> FALSE, new |-> new]
<1>1. row[r] \in AuthorRow /\ Sound(row[r]) /\ row[r].credit \in {None, u}
  BY DEF NamesInv, TypeOK, RowsSound, Approves
<1>2. /\ new \in AuthorRow /\ new.credit = u /\ new.shown = row[r].shown
      /\ new.source = row[r].source
  BY <1>1 DEF AuthorRow, Credit
<1> HIDE DEF new
<1>3. Sound(new)
  BY <1>1, <1>2, Names DEF Sound
<1>4. d \in Draft /\ d.new = new /\ d.row = r
  BY <1>2 DEF Draft
<1>5. KeepsTyped(d)
  BY <1>2, <1>4 DEF KeepsTyped
<1>6. /\ draft' = [draft EXCEPT ![w] = d] /\ recheck[w] = Idle
      /\ ~RowLocked(d.row) \/ (draft[w] # Idle /\ draft[w].row = d.row)
      /\ UNCHANGED <<name, row, recheck, renamer, catchup, missed>>
      /\ page' \in [Writer -> Page \cup {Idle}]
  BY DEF Approves, d, new, NamesInv, TypeOK
<1> HIDE DEF d
<1> QED
  BY <1>3, <1>4, <1>5, <1>6, DraftKept

LEMMA LedgerFollowKeeps ==
  ASSUME NamesInv, NEW w \in Writer, Follows(w)
  PROVE  NamesInv'
<1> DEFINE old == draft[w]
           new == Followed(old.new, AccountName(old.new.credit, name))
           d   == [row |-> old.row, follows |-> FALSE, asked |-> old.asked, new |-> new]
<1>1. old # Idle /\ old \in Draft /\ old.row \in Row /\ old.asked \in BOOLEAN
  BY DraftTyped DEF Follows, NamesInv
<1>2. SoundRow(old.new) /\ KeepsTyped(old) /\ recheck[w] = Idle
  BY <1>1 DEF NamesInv, DraftsSound, SoundRow, Draft
<1>3. NameOf(AccountName(old.new.credit, name), old.new.credit)
  BY <1>2, AccountNameTyped DEF SoundRow, AuthorRow, NamesInv, TypeOK, NameTable
<1>4. /\ SoundRow(new) /\ new.credit = old.new.credit
      /\ old.new.source = "custom" => new = old.new
  BY <1>2, <1>3, FollowedSound
<1>5. draft' = [draft EXCEPT ![w] = d]
  BY DEF Follows
<1> HIDE DEF new
<1>6. /\ d \in Draft /\ d.new = new /\ d.row = old.row /\ d.asked = old.asked
  BY <1>1, <1>4 DEF Draft, SoundRow
<1>7. KeepsTyped(d)
  BY <1>2, <1>4, <1>6 DEF KeepsTyped
<1>8. /\ UNCHANGED <<name, row, recheck, renamer, catchup, missed>>
      /\ page' \in [Writer -> Page \cup {Idle}]
  BY DEF Follows, NamesInv, TypeOK
<1> HIDE DEF d
<1> QED
  BY <1>1, <1>2, <1>4, <1>5, <1>6, <1>7, <1>8, DraftKept DEF SoundRow

LEMMA OtherFieldsKeep ==
  ASSUME NamesInv, NEW w \in Writer, NEW r \in Row, OpensPage(w, r)
  PROVE  NamesInv'
<1>1. page' \in [Writer -> Page \cup {Idle}]
  BY DEF OpensPage, NamesInv, TypeOK, Page
<1> QED
  BY <1>1 DEF OpensPage, NamesInv, TypeOK, RowsSound, Sound, DraftsSound, KeepsTyped,
     RowLocksExclude, CatchupHolds, PersonLocksExclude, RenamesUsable

LEMMA AbortKeeps ==
  ASSUME NamesInv, NEW w \in Writer, Aborts(w)
  PROVE  NamesInv'
<1>1. /\ draft' \in [Writer -> Draft \cup {Idle}] /\ draft'[w] = Idle
      /\ \A v \in Writer \ {w} : draft'[v] = draft[v]
  BY DEF Aborts, NamesInv, TypeOK
<1> QED
  BY <1>1 DEF Aborts, NamesInv, TypeOK, RowsSound, Sound, DraftsSound, KeepsTyped,
     RowLocksExclude, CatchupHolds, PersonLocksExclude, RenamesUsable

\* What a commit writes, and to whom.
LEMMA CommitWrites ==
  ASSUME NamesInv, NEW w \in Writer, Commits(w)
  PROVE  LET d == draft[w]
         IN /\ d # Idle /\ d.row \in Row /\ SoundRow(d.new) /\ KeepsTyped(d)
            /\ row' \in [Row -> AuthorRow] /\ row'[d.row] = d.new
            /\ \A r \in Row \ {d.row} : row'[r] = row[r]
            /\ draft' \in [Writer -> Draft \cup {Idle}] /\ draft'[w] = Idle
            /\ \A v \in Writer \ {w} :
                 draft'[v] = draft[v] /\ (draft[v] # Idle => draft[v].row # d.row)
            /\ recheck[w] = Idle /\ recheck' \in [Writer -> Recheck \cup {Idle}]
            /\ \A v \in Writer \ {w} : recheck'[v] = recheck[v]
            /\ \/ recheck'[w] = Idle /\ d.new.source # "account"
               \/ recheck'[w] = [row |-> d.row, person |-> None, locked |-> FALSE]
            /\ recheck'[w] # Idle => recheck'[w].row = d.row /\ recheck'[w].person = None
                                     /\ recheck'[w].locked = FALSE
            /\ missed' = missed \ {d.row}
            /\ UNCHANGED <<name, page, renamer, catchup>>
<1> DEFINE d   == draft[w]
           new == [row |-> d.row, person |-> None, locked |-> FALSE]
<1>1. d # Idle /\ d \in Draft /\ d.row \in Row /\ d.new \in AuthorRow
  BY DraftTyped DEF Commits, NamesInv
<1>2. SoundRow(d.new) /\ KeepsTyped(d) /\ recheck[w] = Idle
  BY <1>1 DEF NamesInv, DraftsSound, SoundRow
<1>3. row' \in [Row -> AuthorRow] /\ row'[d.row] = d.new /\ \A r \in Row \ {d.row} : row'[r] = row[r]
  BY <1>1 DEF Commits, NamesInv, TypeOK
<1>4. /\ draft' \in [Writer -> Draft \cup {Idle}] /\ draft'[w] = Idle
      /\ \A v \in Writer \ {w} : draft'[v] = draft[v]
  BY DEF Commits, NamesInv, TypeOK
<1>5. \A v \in Writer \ {w} : draft[v] # Idle => draft[v].row # d.row
  BY <1>1 DEF NamesInv, RowLocksExclude
<1>6. new \in Recheck /\ new.row = d.row /\ new.person = None /\ new.locked = FALSE
  BY <1>1 DEF Recheck, Credit
<1>7. recheck' = [recheck EXCEPT ![w] = IF Rechecks(w) THEN new ELSE Idle]
  BY DEF Commits
<1> HIDE DEF new
<1>8. /\ recheck' \in [Writer -> Recheck \cup {Idle}]
      /\ recheck'[w] = IF Rechecks(w) THEN new ELSE Idle
      /\ \A v \in Writer \ {w} : recheck'[v] = recheck[v]
  BY <1>6, <1>7 DEF NamesInv, TypeOK
<1>9. (recheck'[w] = Idle /\ d.new.source # "account") \/ recheck'[w] = new
  BY <1>8 DEF Rechecks
<1>10. missed' = missed \ {d.row} /\ UNCHANGED <<name, page, renamer, catchup>>
  BY DEF Commits
<1> HIDE DEF d
<1>11. recheck'[w] # Idle => recheck'[w].row = d.row /\ recheck'[w].person = None
                             /\ recheck'[w].locked = FALSE
  BY <1>6, <1>9
<1> QED
  BY <1>1, <1>2, <1>3, <1>4, <1>5, <1>8, <1>9, <1>10, <1>11 DEF new, d

LEMMA CommitKeeps ==
  ASSUME NamesInv, NEW w \in Writer, Commits(w)
  PROVE  NamesInv'
<1> DEFINE d == draft[w]
<1>1. /\ d # Idle /\ d.row \in Row /\ SoundRow(d.new)
      /\ row' \in [Row -> AuthorRow] /\ row'[d.row] = d.new
      /\ \A r \in Row \ {d.row} : row'[r] = row[r]
      /\ draft' \in [Writer -> Draft \cup {Idle}] /\ draft'[w] = Idle
      /\ \A v \in Writer \ {w} :
           draft'[v] = draft[v] /\ (draft[v] # Idle => draft[v].row # d.row)
      /\ recheck[w] = Idle /\ recheck' \in [Writer -> Recheck \cup {Idle}]
      /\ \A v \in Writer \ {w} : recheck'[v] = recheck[v]
      /\ recheck'[w] # Idle => recheck'[w].locked = FALSE
      /\ missed' = missed \ {d.row}
      /\ UNCHANGED <<name, page, renamer, catchup>>
  BY CommitWrites
<1> HIDE DEF d
<1>2. TypeOK'
  BY <1>1 DEF NamesInv, TypeOK
<1>3. RowsSound'
  BY <1>1 DEF NamesInv, RowsSound, SoundRow, Sound
<1>4. DraftsSound'
  <2> SUFFICES ASSUME NEW v \in Writer, draft'[v] # Idle
               PROVE  Sound(draft'[v].new) /\ KeepsTyped(draft[v])' /\ recheck'[v] = Idle
    BY DEF DraftsSound, Sound
  <2>1. v # w /\ draft'[v] = draft[v] /\ draft[v].row # d.row /\ recheck'[v] = recheck[v]
    BY <1>1
  <2>2. row'[draft[v].row] = row[draft[v].row]
    BY <1>1, <2>1, DraftTyped DEF NamesInv
  <2>3. Sound(draft[v].new) /\ KeepsTyped(draft[v]) /\ recheck[v] = Idle
    BY <2>1 DEF NamesInv, DraftsSound
  <2> QED
    BY <2>1, <2>2, <2>3 DEF KeepsTyped
<1>5. RowLocksExclude'
  BY <1>1 DEF NamesInv, RowLocksExclude, CatchupHolds
<1>6. PersonLocksExclude'
  BY <1>1 DEF NamesInv, PersonLocksExclude
<1>7. RenamesUsable'
  BY <1>1 DEF NamesInv, RenamesUsable
<1> QED
  BY <1>2, <1>3, <1>4, <1>5, <1>6, <1>7 DEF NamesInv

-----------------------------------------------------------------------------
(* The steps of a recheck *)

LEMMA RecheckTyped ==
  ASSUME TypeOK, NEW w \in Writer, recheck[w] # Idle
  PROVE  /\ recheck[w] \in Recheck /\ recheck[w].row \in Row
         /\ recheck[w].person \in Credit /\ recheck[w].locked \in BOOLEAN
         /\ row[recheck[w].row] \in AuthorRow
BY DEF TypeOK, Recheck

\* A recheck goes on or ends, and its row stays.
LEMMA RecheckGoesOn ==
  ASSUME NamesInv, NEW w \in Writer, NEW k \in Recheck \cup {Idle}, recheck[w] # Idle,
         recheck' = [recheck EXCEPT ![w] = k],
         k # Idle /\ k.locked => k.person # None /\ \A n \in Renamer :
                                   renamer[n] # Idle => renamer[n].person # k.person,
         missed' \in SUBSET Row, UNCHANGED <<name, row, page, draft, renamer, catchup>>
  PROVE  NamesInv'
<1>1. /\ recheck' \in [Writer -> Recheck \cup {Idle}] /\ recheck'[w] = k
      /\ \A v \in Writer \ {w} : recheck'[v] = recheck[v]
  BY DEF NamesInv, TypeOK
<1>2. TypeOK'
  BY <1>1 DEF NamesInv, TypeOK
<1>3. RowsSound' /\ RowLocksExclude' /\ RenamesUsable'
  BY DEF NamesInv, RowsSound, Sound, RowLocksExclude, CatchupHolds, RenamesUsable
<1>4. DraftsSound'
  BY <1>1 DEF NamesInv, DraftsSound, Sound, KeepsTyped
<1>5. PersonLocksExclude'
  BY <1>1 DEF NamesInv, PersonLocksExclude
<1> QED
  BY <1>2, <1>3, <1>4, <1>5 DEF NamesInv

LEMMA RecheckReadKeeps ==
  ASSUME NamesInv, NEW w \in Writer, RecheckReads(w)
  PROVE  /\ NamesInv'
         /\ LET credit == row[recheck[w].row].credit
            IN /\ credit = None => recheck'[w] = Idle
               /\ credit # None => /\ recheck'[w] # Idle /\ recheck'[w].row = recheck[w].row
                                   /\ recheck'[w].person = credit
<1> DEFINE credit == row[recheck[w].row].credit
           k == IF credit = None THEN Idle ELSE [recheck[w] EXCEPT !.person = credit]
<1>1. recheck[w] # Idle /\ recheck[w] \in Recheck /\ credit \in Credit /\ recheck[w].person = None
  BY RecheckTyped DEF RecheckReads, NamesInv, AuthorRow
<1>2. recheck[w].locked = FALSE
  BY <1>1 DEF NamesInv, PersonLocksExclude, Recheck
<1>3. CASE credit = None
  <2>1. recheck' = [recheck EXCEPT ![w] = Idle]
    BY <1>3 DEF RecheckReads
  <2> HIDE DEF credit
  <2>2. recheck'[w] = Idle
    BY <2>1 DEF NamesInv, TypeOK
  <2> QED
    BY <1>1, <1>3, <2>1, <2>2, RecheckGoesOn DEF RecheckReads, NamesInv, TypeOK, credit
<1>4. CASE credit # None
  <2> DEFINE next == [recheck[w] EXCEPT !.person = credit]
  <2>1. recheck' = [recheck EXCEPT ![w] = next]
    BY <1>4 DEF RecheckReads
  <2> HIDE DEF credit
  <2>2. /\ next \in Recheck /\ next.locked = FALSE /\ next.row = recheck[w].row
        /\ next.person = credit
    BY <1>1, <1>2 DEF Recheck
  <2> HIDE DEF next
  <2>3. recheck'[w] = next /\ next # Idle
    BY <2>1, <2>2, Absent DEF NamesInv, TypeOK
  <2>4. missed' \in SUBSET Row /\ UNCHANGED <<name, row, page, draft, renamer, catchup>>
    BY DEF RecheckReads, NamesInv, TypeOK
  <2>5. NamesInv'
    BY <1>1, <2>1, <2>2, <2>4, RecheckGoesOn
  <2> QED
    BY <1>4, <2>2, <2>3, <2>5 DEF credit
<1> QED
  BY <1>3, <1>4

LEMMA RecheckLockKeeps ==
  ASSUME NamesInv, NEW w \in Writer, RecheckLocks(w)
  PROVE  /\ NamesInv' /\ recheck[w] # Idle /\ recheck'[w] # Idle
         /\ recheck'[w].row = recheck[w].row /\ recheck'[w].person = recheck[w].person
<1> DEFINE k == [recheck[w] EXCEPT !.locked = TRUE]
<1>1. recheck[w] # Idle /\ recheck[w] \in Recheck /\ recheck[w].person # None
  BY RecheckTyped DEF RecheckLocks, NamesInv
<1>2. /\ k \in Recheck /\ k.row = recheck[w].row /\ k.person = recheck[w].person
  BY <1>1 DEF Recheck
<1>3. recheck' = [recheck EXCEPT ![w] = k]
  BY DEF RecheckLocks
<1> HIDE DEF k
<1>4. \A n \in Renamer : renamer[n] # Idle => renamer[n].person # k.person
  BY <1>2 DEF RecheckLocks, RecheckMayRead, PersonLocked
<1>5. missed' \in SUBSET Row /\ UNCHANGED <<name, row, page, draft, renamer, catchup>>
  BY DEF RecheckLocks, NamesInv, TypeOK
<1>6. recheck'[w] = k /\ k # Idle
  BY <1>2, <1>3, Absent DEF NamesInv, TypeOK
<1>7. NamesInv'
  BY <1>1, <1>2, <1>3, <1>4, <1>5, RecheckGoesOn
<1> QED
  BY <1>1, <1>2, <1>6, <1>7

LEMMA RecheckLostKeeps ==
  ASSUME NamesInv, NEW w \in Writer, RecheckLost(w)
  PROVE  NamesInv'
<1>1. recheck[w] # Idle /\ recheck[w].row \in Row
  BY RecheckTyped DEF RecheckLost, NamesInv
<1>2. missed' \in SUBSET Row /\ UNCHANGED <<name, row, page, draft, renamer, catchup>>
  BY <1>1 DEF RecheckLost, NamesInv, TypeOK
<1> QED
  BY <1>1, <1>2, RecheckGoesOn DEF RecheckLost

\* Rows that nobody has locked, and that show no typed name, may show another account name
\* of the same person.
LEMMA RowsCarried ==
  ASSUME NamesInv, row' \in [Row -> AuthorRow],
         \A r \in Row : row'[r] # row[r] =>
           ~RowLocked(r) /\ Sound(row'[r]) /\ row'[r].credit = row[r].credit
  PROVE  /\ RowsSound'
         /\ UNCHANGED draft => \A w \in Writer : draft[w] # Idle =>
              Sound(draft'[w].new) /\ KeepsTyped(draft[w])' /\ recheck[w] = Idle
<1>1. RowsSound'
  BY DEF NamesInv, RowsSound, Sound
<1>2. ASSUME NEW w \in Writer, draft[w] # Idle, UNCHANGED draft
      PROVE  Sound(draft'[w].new) /\ KeepsTyped(draft[w])' /\ recheck[w] = Idle
  <2>1. row'[draft[w].row] = row[draft[w].row]
    BY <1>2, DraftTyped DEF NamesInv, RowLocked
  <2>2. Sound(draft[w].new) /\ KeepsTyped(draft[w]) /\ recheck[w] = Idle
    BY <1>2 DEF NamesInv, DraftsSound
  <2> QED
    BY <1>2, <2>1, <2>2 DEF KeepsTyped
<1> QED
  BY <1>1, <1>2

\* A recheck writes the name its person has, on a row that still follows it.
LEMMA RecheckWritten ==
  ASSUME NamesInv, NEW w \in Writer, RecheckWrites(w)
  PROVE  LET r == recheck[w].row
             u == recheck[w].person
         IN /\ r \in Row /\ u \in Person /\ recheck[w].locked /\ recheck[w] # Idle
            /\ recheck' \in [Writer -> Recheck \cup {Idle}] /\ recheck'[w] = Idle
            /\ \A v \in Writer \ {w} : recheck'[v] = recheck[v]
            /\ UNCHANGED <<name, page, draft, renamer, catchup>>
            /\ \/ ~FollowsAccount(r, u) /\ UNCHANGED <<row, missed>>
               \/ /\ FollowsAccount(r, u) /\ ~RowLocked(r) /\ missed' = missed \ {r}
                  /\ row' \in [Row -> AuthorRow] /\ \A s \in Row \ {r} : row'[s] = row[s]
                  /\ Sound(row'[r]) /\ row'[r].credit = u /\ row'[r].source = "account"
                  /\ name[u] \in Spelling => row'[r].shown = <<u, name[u]>>
<1> DEFINE r == recheck[w].row
           u == recheck[w].person
           account == AccountName(u, name)
<1>1. /\ recheck[w] # Idle /\ recheck[w].locked /\ r \in Row /\ u \in Credit /\ u # None
      /\ row[r] \in AuthorRow
  BY RecheckTyped DEF RecheckWrites, NamesInv, PersonLocksExclude
<1>2. u \in Person
  BY <1>1 DEF Credit
<1>3. /\ recheck' \in [Writer -> Recheck \cup {Idle}] /\ recheck'[w] = Idle
      /\ \A v \in Writer \ {w} : recheck'[v] = recheck[v]
      /\ UNCHANGED <<name, page, draft, renamer, catchup>>
  BY DEF RecheckWrites, NamesInv, TypeOK
<1>4. CASE ~FollowsAccount(r, u)
  BY <1>1, <1>2, <1>3, <1>4 DEF RecheckWrites
<1>5. CASE FollowsAccount(r, u)
  <2> DEFINE new == Followed(row[r], account)
  <2>1. ~RowLocked(r) /\ missed' = missed \ {r} /\ row' = [row EXCEPT ![r] = new]
    BY <1>5 DEF RecheckWrites
  <2>2. row[r].credit = u /\ row[r].source = "account" /\ SoundRow(row[r])
    BY <1>1, <1>5 DEF FollowsAccount, NamesInv, RowsSound, SoundRow
  <2>3. NameOf(account, u)
    BY <1>1, AccountNameTyped DEF NamesInv, TypeOK, NameTable
  <2>4. /\ SoundRow(new) /\ new.credit = u /\ new.source = "account"
        /\ account # None => new.shown = account
    BY <2>2, <2>3, FollowedSound
  <2>5. name[u] \in Spelling => account = <<u, name[u]>> /\ account # None
    <3>1. name[u] \in Spelling => account = <<u, name[u]>>
      BY <1>1 DEF AccountName
    <3>2. name[u] \in Spelling => <<u, name[u]>> \in Label
      BY <1>2 DEF Label
    <3> QED
      BY <3>1, <3>2, Names
  <2> HIDE DEF new, account
  <2>6. /\ row' \in [Row -> AuthorRow] /\ row'[r] = new
        /\ \A s \in Row \ {r} : row'[s] = row[s]
    BY <1>1, <2>1, <2>4 DEF NamesInv, TypeOK, SoundRow
  <2> QED
    BY <1>1, <1>2, <1>3, <1>5, <2>1, <2>4, <2>5, <2>6 DEF SoundRow
<1> QED
  BY <1>4, <1>5

LEMMA RecheckWriteKeeps ==
  ASSUME NamesInv, NEW w \in Writer, RecheckWrites(w)
  PROVE  NamesInv'
<1> DEFINE r == recheck[w].row
           u == recheck[w].person
<1>1. /\ recheck[w] # Idle /\ recheck' \in [Writer -> Recheck \cup {Idle}] /\ recheck'[w] = Idle
      /\ \A v \in Writer \ {w} : recheck'[v] = recheck[v]
      /\ UNCHANGED <<name, page, draft, renamer, catchup>>
  BY RecheckWritten
<1>2. /\ row' \in [Row -> AuthorRow] /\ missed' \subseteq Row
      /\ \A s \in Row : row'[s] # row[s] =>
           ~RowLocked(s) /\ Sound(row'[s]) /\ row'[s].credit = row[s].credit
  <2>1. row \in [Row -> AuthorRow] /\ missed \subseteq Row
    BY DEF NamesInv, TypeOK
  <2>2. CASE UNCHANGED <<row, missed>>
    BY <2>1, <2>2
  <2>3. CASE /\ FollowsAccount(r, u) /\ ~RowLocked(r) /\ missed' = missed \ {r}
             /\ row' \in [Row -> AuthorRow] /\ \A s \in Row \ {r} : row'[s] = row[s]
             /\ Sound(row'[r]) /\ row'[r].credit = u
    BY <2>1, <2>3 DEF FollowsAccount
  <2> QED
    BY <2>2, <2>3, RecheckWritten
<1>3. TypeOK'
  BY <1>1, <1>2 DEF NamesInv, TypeOK
<1>4. RowsSound' /\ DraftsSound'
  BY <1>1, <1>2, RowsCarried DEF DraftsSound
<1>5. RowLocksExclude' /\ PersonLocksExclude' /\ RenamesUsable'
  BY <1>1 DEF NamesInv, RowLocksExclude, CatchupHolds, PersonLocksExclude, RenamesUsable
<1> QED
  BY <1>3, <1>4, <1>5 DEF NamesInv

-----------------------------------------------------------------------------
(* Name changes and the catch-up command *)

LEMMA ChangeTyped ==
  ASSUME TypeOK, NEW n \in Renamer, renamer[n] # Idle
  PROVE  /\ renamer[n] \in Change /\ renamer[n].person \in Person
         /\ renamer[n].name \in AccountNames /\ renamer[n].rows \in SUBSET Row
BY DEF TypeOK, Change

LEMMA RenameStarted ==
  ASSUME NamesInv, NEW n \in Renamer, NEW u \in Person, NEW new \in AccountNames,
         RenameStarts(n, u, new)
  PROVE  /\ renamer' \in [Renamer -> Change \cup {Idle}]
         /\ renamer'[n].person = u /\ renamer'[n].name = new
         /\ renamer'[n].rows # {} => new \in Spelling
         /\ \A r \in Row : new \in Spelling /\ FollowsAccount(r, u) => r \in renamer'[n].rows
         /\ \A m \in Renamer \ {n} : renamer'[m] = renamer[m]
         /\ UNCHANGED <<name, row, page, draft, recheck, catchup, missed>>
<1> DEFINE rows == IF new \in Spelling THEN {r \in Row : FollowsAccount(r, u)} ELSE {}
           k    == [person |-> u, name |-> new, rows |-> rows]
<1>1. rows \in SUBSET Row
  OBVIOUS
<1>2. renamer' = [renamer EXCEPT ![n] = k]
  BY DEF RenameStarts
<1>3. UNCHANGED <<name, row, page, draft, recheck, catchup, missed>>
  BY DEF RenameStarts
<1>4. /\ rows # {} => new \in Spelling
      /\ \A r \in Row : new \in Spelling /\ FollowsAccount(r, u) => r \in rows
  OBVIOUS
<1> HIDE DEF rows
<1>5. k \in Change /\ k.person = u /\ k.name = new /\ k.rows = rows
  BY <1>1 DEF Change
<1> HIDE DEF k
<1>6. /\ renamer' \in [Renamer -> Change \cup {Idle}] /\ renamer'[n] = k
      /\ \A m \in Renamer \ {n} : renamer'[m] = renamer[m]
  BY <1>2, <1>5 DEF NamesInv, TypeOK
<1> QED
  BY <1>3, <1>4, <1>5, <1>6

LEMMA RenameStartKeeps ==
  ASSUME NamesInv, NEW n \in Renamer, NEW u \in Person, NEW new \in AccountNames,
         RenameStarts(n, u, new)
  PROVE  NamesInv'
<1>1. /\ renamer' \in [Renamer -> Change \cup {Idle}]
      /\ renamer'[n].person = u /\ renamer'[n].name = new
      /\ renamer'[n].rows # {} => new \in Spelling
      /\ \A m \in Renamer \ {n} : renamer'[m] = renamer[m]
      /\ UNCHANGED <<name, row, page, draft, recheck, catchup, missed>>
  BY RenameStarted
<1>2. /\ \A m \in Renamer \ {n} : renamer[m] # Idle => renamer[m].person # u
      /\ \A w \in Writer : recheck[w] # Idle /\ recheck[w].locked => recheck[w].person # u
  BY DEF RenameStarts, PersonLocked
<1>3. TypeOK' /\ RowsSound'
  BY <1>1 DEF NamesInv, TypeOK, RowsSound, Sound
<1>4. DraftsSound' /\ RowLocksExclude'
  BY <1>1 DEF NamesInv, DraftsSound, Sound, KeepsTyped, RowLocksExclude, CatchupHolds
<1>5. PersonLocksExclude'
  BY <1>1, <1>2 DEF NamesInv, PersonLocksExclude
<1>6. RenamesUsable'
  BY <1>1 DEF NamesInv, RenamesUsable
<1> QED
  BY <1>3, <1>4, <1>5, <1>6 DEF NamesInv

LEMMA RenameCommitted ==
  ASSUME NamesInv, NEW n \in Renamer, RenameCommits(n)
  PROVE  LET u    == renamer[n].person
             rows == {r \in renamer[n].rows : FollowsAccount(r, u)}
         IN /\ renamer[n] # Idle /\ u \in Person /\ rows \in SUBSET Row
            /\ row' \in [Row -> AuthorRow]
            /\ \A r \in Row \ rows : row'[r] = row[r]
            /\ \A r \in rows : /\ ~RowLocked(r) /\ Sound(row'[r]) /\ row'[r].credit = u
                               /\ row'[r].source = "account"
                               /\ row'[r].shown = <<u, renamer[n].name>>
            /\ name' \in [Person -> AccountNames] /\ name'[u] = renamer[n].name
            /\ \A v \in Person \ {u} : name'[v] = name[v]
            /\ missed' = missed \ rows
            /\ renamer' \in [Renamer -> Change \cup {Idle}] /\ renamer'[n] = Idle
            /\ \A m \in Renamer \ {n} : renamer'[m] = renamer[m]
            /\ UNCHANGED <<page, draft, recheck, catchup>>
<1> DEFINE u    == renamer[n].person
           new  == renamer[n].name
           rows == {r \in renamer[n].rows : FollowsAccount(r, u)}
<1>1. /\ renamer[n] # Idle /\ u \in Person /\ new \in AccountNames
      /\ renamer[n].rows \in SUBSET Row
  BY ChangeTyped DEF RenameCommits, NamesInv
<1>2. rows \in SUBSET Row /\ (rows # {} => new \in Spelling)
  BY <1>1 DEF NamesInv, RenamesUsable
<1>3. /\ \A r \in rows : ~RowLocked(r)
      /\ row' = [r \in Row |-> IF r \in rows THEN [row[r] EXCEPT !.shown = <<u, new>>] ELSE row[r]]
  BY DEF RenameCommits
<1>4. row \in [Row -> AuthorRow] /\ \A r \in rows : row[r].credit = u /\ row[r].source = "account"
  BY DEF NamesInv, TypeOK, FollowsAccount
<1>5. name' \in [Person -> AccountNames] /\ name'[u] = new /\ \A v \in Person \ {u} : name'[v] = name[v]
  BY <1>1 DEF RenameCommits, NamesInv, TypeOK
<1>6. /\ missed' = missed \ rows /\ UNCHANGED <<page, draft, recheck, catchup>>
      /\ renamer' \in [Renamer -> Change \cup {Idle}] /\ renamer'[n] = Idle
      /\ \A m \in Renamer \ {n} : renamer'[m] = renamer[m]
  BY DEF RenameCommits, NamesInv, TypeOK
<1> HIDE DEF rows, u, new
<1>7. ASSUME NEW r \in rows
      PROVE  /\ row'[r] \in AuthorRow /\ row'[r].credit = u /\ row'[r].source = "account"
             /\ row'[r].shown = <<u, new>> /\ <<u, new>> \in {u} \X Spelling
  <2> DEFINE a == [row[r] EXCEPT !.shown = <<u, new>>]
  <2>1. r \in Row /\ new \in Spelling /\ row[r] \in AuthorRow
    BY <1>2, <1>4
  <2>2. <<u, new>> \in {u} \X Spelling /\ <<u, new>> \in Label
    BY <1>1, <2>1 DEF Label
  <2>3. row'[r] = a
    BY <1>3, <2>1
  <2>4. /\ a \in AuthorRow /\ a.credit = row[r].credit /\ a.source = row[r].source
        /\ a.shown = <<u, new>>
    BY <2>1, <2>2 DEF AuthorRow
  <2> HIDE DEF a
  <2> QED
    BY <1>4, <2>2, <2>3, <2>4
<1>8. \A r \in Row \ rows : row'[r] = row[r]
  BY <1>3
<1>9. row' \in [Row -> AuthorRow]
  <2>1. \A r \in Row : row'[r] \in AuthorRow
    BY <1>4, <1>7, <1>8
  <2> QED
    BY <1>3, <2>1
<1>10. \A r \in rows : Sound(row'[r])
  BY <1>1, <1>7 DEF Sound
<1> QED
  BY <1>1, <1>2, <1>3, <1>5, <1>6, <1>7, <1>8, <1>9, <1>10 DEF rows, u, new

LEMMA RenameCommitKeeps ==
  ASSUME NamesInv, NEW n \in Renamer, RenameCommits(n)
  PROVE  NamesInv'
<1> DEFINE u    == renamer[n].person
           rows == {r \in renamer[n].rows : FollowsAccount(r, u)}
<1>1. /\ rows \in SUBSET Row /\ row' \in [Row -> AuthorRow]
      /\ \A r \in Row \ rows : row'[r] = row[r]
      /\ \A r \in rows : ~RowLocked(r) /\ Sound(row'[r]) /\ row'[r].credit = u
      /\ name' \in [Person -> AccountNames] /\ missed' = missed \ rows
      /\ renamer' \in [Renamer -> Change \cup {Idle}] /\ renamer'[n] = Idle
      /\ \A m \in Renamer \ {n} : renamer'[m] = renamer[m]
      /\ UNCHANGED <<page, draft, recheck, catchup>>
  BY RenameCommitted
<1>2. \A r \in rows : row[r].credit = u
  BY DEF FollowsAccount
<1> HIDE DEF rows, u
<1>3. \A r \in Row : row'[r] # row[r] =>
        ~RowLocked(r) /\ Sound(row'[r]) /\ row'[r].credit = row[r].credit
  BY <1>1, <1>2
<1>4. RowsSound' /\ DraftsSound'
  BY <1>1, <1>3, RowsCarried DEF DraftsSound
<1>5. TypeOK'
  BY <1>1 DEF NamesInv, TypeOK
<1>6. RowLocksExclude' /\ PersonLocksExclude' /\ RenamesUsable'
  BY <1>1 DEF NamesInv, RowLocksExclude, CatchupHolds, PersonLocksExclude, RenamesUsable
<1> QED
  BY <1>4, <1>5, <1>6 DEF NamesInv

LEMMA RenameAbortKeeps ==
  ASSUME NamesInv, NEW n \in Renamer, RenameAborts(n)
  PROVE  NamesInv'
<1>1. /\ renamer' \in [Renamer -> Change \cup {Idle}] /\ renamer'[n] = Idle
      /\ \A m \in Renamer \ {n} : renamer'[m] = renamer[m]
  BY DEF RenameAborts, NamesInv, TypeOK
<1> QED
  BY <1>1 DEF RenameAborts, NamesInv, TypeOK, RowsSound, Sound, DraftsSound, KeepsTyped,
     RowLocksExclude, CatchupHolds, PersonLocksExclude, RenamesUsable

\* The command reads, or goes away.
LEMMA CatchupGoesOn ==
  ASSUME NamesInv, NEW c \in Catchup, NEW k \in CatchupState \cup {Idle},
         catchup' = [catchup EXCEPT ![c] = k],
         k # Idle /\ k.locked => \A r \in k.rows : ~RowLocked(r),
         UNCHANGED <<name, row, page, draft, recheck, renamer, missed>>
  PROVE  NamesInv'
<1>1. /\ catchup' \in [Catchup -> CatchupState \cup {Idle}] /\ catchup'[c] = k
      /\ \A d \in Catchup \ {c} : catchup'[d] = catchup[d]
  BY DEF NamesInv, TypeOK
<1>2. TypeOK' /\ RowsSound' /\ PersonLocksExclude' /\ RenamesUsable' /\ DraftsSound'
  BY <1>1 DEF NamesInv, TypeOK, RowsSound, Sound, PersonLocksExclude, RenamesUsable,
     DraftsSound, KeepsTyped
<1>3. \A w \in Writer : k # Idle /\ k.locked /\ draft[w] # Idle => draft[w].row \notin k.rows
  BY DEF RowLocked
<1>4. RowLocksExclude'
  BY <1>1, <1>3 DEF NamesInv, RowLocksExclude, CatchupHolds
<1> QED
  BY <1>2, <1>4 DEF NamesInv

LEMMA CatchupReadKeeps ==
  ASSUME NamesInv, NEW c \in Catchup,
         CatchupReadsPeople(c) \/ CatchupReadsRows(c) \/ CatchupAborts(c)
  PROVE  NamesInv'
<1>1. name \in [Person -> AccountNames] /\ \A r \in Row : row[r].credit \in Person \cup {None}
  BY DEF NamesInv, TypeOK, AuthorRow, Credit
<1>2. CASE CatchupReadsPeople(c)
  <2> DEFINE people == {row[r].credit : r \in Row} \ {None}
             k == [people |-> people, locked |-> FALSE, rows |-> {}, names |-> name]
  <2>1. people \in SUBSET Person
    BY <1>1
  <2>2. catchup' = [catchup EXCEPT ![c] = k]
    BY <1>2 DEF CatchupReadsPeople
  <2> HIDE DEF people
  <2>3. k \in CatchupState /\ k.locked = FALSE
    BY <1>1, <2>1 DEF CatchupState
  <2> HIDE DEF k
  <2> QED
    BY <1>2, <2>2, <2>3, CatchupGoesOn DEF CatchupReadsPeople
<1>3. CASE CatchupReadsRows(c)
  <2> DEFINE rows == {r \in Row : row[r].credit # None}
             k == [people |-> catchup[c].people, locked |-> TRUE, rows |-> rows, names |-> name]
  <2>1. catchup[c].people \in SUBSET Person
    BY <1>3 DEF CatchupReadsRows, NamesInv, TypeOK, CatchupState
  <2>2. catchup' = [catchup EXCEPT ![c] = k] /\ \A r \in rows : ~RowLocked(r)
    BY <1>3 DEF CatchupReadsRows
  <2>3. rows \in SUBSET Row
    OBVIOUS
  <2> HIDE DEF rows
  <2>4. k \in CatchupState /\ k.rows = rows
    BY <1>1, <2>1, <2>3 DEF CatchupState
  <2> HIDE DEF k
  <2> QED
    BY <1>3, <2>2, <2>4, CatchupGoesOn DEF CatchupReadsRows
<1>4. CASE CatchupAborts(c)
  BY <1>4, CatchupGoesOn DEF CatchupAborts
<1> QED
  BY <1>2, <1>3, <1>4

\* What the command brings over, it holds; and it leaves a typed name alone.
LEMMA CatchupCommitted ==
  ASSUME NamesInv, NEW c \in Catchup, CatchupCommits(c)
  PROVE  /\ row' \in [Row -> AuthorRow]
         /\ \A r \in Row : row'[r] # row[r] =>
              /\ r \in catchup[c].rows /\ row[r].source # "custom"
              /\ Sound(row'[r]) /\ row'[r].credit = row[r].credit
<1> DEFINE Account(r) == AccountName(row[r].credit, catchup[c].names)
           brought == {r \in catchup[c].rows : Eligible(row[r], Account(r))}
<1>1. catchup[c] \in CatchupState /\ catchup[c].names \in NameTable
  BY DEF CatchupCommits, CatchupHolds, NamesInv, TypeOK, CatchupState, NameTable
<1>2. row' = [r \in Row |-> IF r \in brought THEN Accounted(row[r], Account(r)) ELSE row[r]]
  BY DEF CatchupCommits
<1>3. ASSUME NEW r \in Row
      PROVE  /\ row'[r] \in AuthorRow
             /\ row'[r] # row[r] =>
                  /\ r \in catchup[c].rows /\ row[r].source # "custom"
                  /\ Sound(row'[r]) /\ row'[r].credit = row[r].credit
  <2>1. row[r] \in AuthorRow /\ row[r].credit \in Credit
    BY DEF NamesInv, TypeOK, AuthorRow
  <2>2. CASE r \notin brought
    BY <1>2, <2>1, <2>2
  <2>3. CASE r \in brought
    <3>1. r \in catchup[c].rows /\ Account(r) # None /\ row[r].source # "custom"
      BY <2>3 DEF Eligible
    <3>2. NameOf(Account(r), row[r].credit)
      BY <1>1, <2>1, AccountNameTyped
    <3>3. row'[r] = Accounted(row[r], Account(r))
      BY <1>2, <2>3
    <3> HIDE DEF Account, brought
    <3> QED
      BY <2>1, <3>1, <3>2, <3>3, AccountedSound DEF SoundRow
  <2> QED
    BY <2>2, <2>3
<1> QED
  BY <1>2, <1>3

LEMMA CatchupCommitKeeps ==
  ASSUME NamesInv, NEW c \in Catchup, CatchupCommits(c)
  PROVE  NamesInv'
<1>1. /\ catchup' \in [Catchup -> CatchupState \cup {Idle}] /\ catchup'[c] = Idle
      /\ \A d \in Catchup \ {c} : catchup'[d] = catchup[d]
      /\ UNCHANGED <<name, page, draft, recheck, renamer, missed>>
  BY DEF CatchupCommits, NamesInv, TypeOK
<1>2. row' \in [Row -> AuthorRow]
  BY CatchupCommitted
<1>3. RowsSound'
  BY CatchupCommitted DEF NamesInv, RowsSound, Sound
<1>4. DraftsSound'
  <2> SUFFICES ASSUME NEW w \in Writer, draft[w] # Idle
               PROVE  Sound(draft'[w].new) /\ KeepsTyped(draft[w])' /\ recheck'[w] = Idle
    BY <1>1 DEF DraftsSound, Sound, KeepsTyped
  <2>1. draft[w].row \notin catchup[c].rows
    BY DEF CatchupCommits, NamesInv, RowLocksExclude
  <2>2. row'[draft[w].row] = row[draft[w].row]
    BY <2>1, DraftTyped, CatchupCommitted DEF NamesInv
  <2> QED
    BY <1>1, <2>2 DEF NamesInv, DraftsSound, KeepsTyped
<1>5. TypeOK'
  BY <1>1, <1>2 DEF NamesInv, TypeOK
<1>6. RowLocksExclude' /\ PersonLocksExclude' /\ RenamesUsable'
  BY <1>1 DEF NamesInv, RowLocksExclude, CatchupHolds, PersonLocksExclude, RenamesUsable
<1> QED
  BY <1>3, <1>4, <1>5, <1>6 DEF NamesInv

-----------------------------------------------------------------------------
(* The theorems *)

LEMMA NamesInit == Init => NamesInv
<1> SUFFICES ASSUME Init PROVE NamesInv
  OBVIOUS
<1>1. \A r \in Row : row[r] \in AuthorRow /\ row[r].source = "byline"
  BY DEF Init
<1>2. TypeOK
  <2>1. row \in [Row -> AuthorRow]
    BY DEF Init
  <2> QED
    BY <2>1 DEF Init, TypeOK
<1>3. RowsSound
  BY <1>1 DEF RowsSound, Sound
<1> QED
  BY <1>2, <1>3 DEF Init, NamesInv, DraftsSound, RowLocksExclude, CatchupHolds,
     PersonLocksExclude, RenamesUsable

LEMMA NamesNext == NamesInv /\ [Next]_vars => NamesInv'
<1> SUFFICES ASSUME NamesInv, [Next]_vars PROVE NamesInv'
  OBVIOUS
<1>1. CASE \E w \in Writer :
             \/ \E r \in Row : OpensPage(w, r)
             \/ \E r \in Row, credit \in Credit, byline \in Byline, submitted \in Submitted,
                   use \in Use : AdminWrites(w, r, credit, byline, submitted, use)
             \/ \E r \in Row, u \in Person, submitted \in Submitted, use \in Use :
                  SelfWrites(w, r, u, submitted, use)
             \/ EchoWrites(w)
             \/ \E r \in Row, u \in Person : Approves(w, r, u)
             \/ Follows(w) \/ Commits(w) \/ Aborts(w)
  BY <1>1, OtherFieldsKeep, WritesKeep, ApprovalKeeps, LedgerFollowKeeps, CommitKeeps, AbortKeeps
<1>2. CASE \E w \in Writer : RecheckReads(w) \/ RecheckLocks(w) \/ RecheckWrites(w) \/ RecheckLost(w)
  BY <1>2, RecheckReadKeeps, RecheckLockKeeps, RecheckWriteKeeps, RecheckLostKeeps
<1>3. CASE \E n \in Renamer :
             \/ \E u \in Person, new \in AccountNames : RenameStarts(n, u, new)
             \/ RenameCommits(n) \/ RenameAborts(n)
  BY <1>3, RenameStartKeeps, RenameCommitKeeps, RenameAbortKeeps
<1>4. CASE \E c \in Catchup : \/ CatchupReadsPeople(c) \/ CatchupReadsRows(c)
                              \/ CatchupCommits(c) \/ CatchupAborts(c)
  BY <1>4, CatchupReadKeeps, CatchupCommitKeeps
<1>5. CASE UNCHANGED vars
  BY <1>5 DEF vars, NamesInv, TypeOK, RowsSound, Sound, DraftsSound, KeepsTyped,
     RowLocksExclude, CatchupHolds, PersonLocksExclude, RenamesUsable
<1> QED
  BY <1>1, <1>2, <1>3, <1>4, <1>5 DEF Next

LEMMA NamesInvAlways == Spec => []NamesInv
BY NamesInit, NamesNext, PTL DEF Spec

\* TypeOK: rows, drafts, rechecks, name changes and runs of the command keep their types,
\* for any number of each.
THEOREM NamesTypeCorrect == Spec => []TypeOK
BY NamesInvAlways, PTL DEF NamesInv

\* AccountShowsCredited: whoever moves a credit, approves it, edits the row or changes a
\* name, a row on an account name shows one of the person credited now.
THEOREM AccountAlwaysShowsCredited == Spec => []AccountShowsCredited
<1>1. NamesInv => AccountShowsCredited
  BY DEF NamesInv, RowsSound, Sound, AccountShowsCredited
<1> QED
  BY <1>1, NamesInvAlways, PTL

\* CustomNamesKept: the only step that takes a typed name away is the commit of a request
\* that asked for another, or removed the credit.
LEMMA TypedNamesStay ==
  ASSUME NamesInv, [Next]_vars, NEW r \in Row, row[r].source = "custom",
         row'[r].shown # row[r].shown
  PROVE  \E w \in Writer : /\ draft[w] # Idle /\ draft[w].row = r /\ draft'[w] = Idle
                           /\ \/ draft[w].asked
                              \/ row[r].credit # None /\ draft[w].new.credit = None
<1>1. ASSUME NEW w \in Writer, Commits(w)
      PROVE  /\ draft[w] # Idle /\ draft[w].row = r /\ draft'[w] = Idle
             /\ \/ draft[w].asked
                \/ row[r].credit # None /\ draft[w].new.credit = None
  <2> DEFINE d == draft[w]
  <2>1. /\ d # Idle /\ KeepsTyped(d) /\ row'[d.row] = d.new /\ draft'[w] = Idle
        /\ \A s \in Row \ {d.row} : row'[s] = row[s]
    BY <1>1, CommitWrites
  <2> HIDE DEF d
  <2>2. d.row = r
    BY <2>1
  <2>3. d.asked \/ (row[r].credit # None /\ d.new.credit = None)
    BY <2>1, <2>2 DEF KeepsTyped
  <2> QED
    BY <2>1, <2>2, <2>3 DEF d
<1>2. ASSUME NEW w \in Writer, RecheckWrites(w) PROVE FALSE
  <2>1. recheck[w].row = r /\ FollowsAccount(r, recheck[w].person)
    BY <1>2, RecheckWritten
  <2> QED
    BY <2>1 DEF FollowsAccount
<1>3. ASSUME NEW n \in Renamer, RenameCommits(n) PROVE FALSE
  <2>1. FollowsAccount(r, renamer[n].person)
    BY <1>3, RenameCommitted
  <2> QED
    BY <2>1 DEF FollowsAccount
<1>4. ASSUME NEW c \in Catchup, CatchupCommits(c) PROVE FALSE
  BY <1>4, CatchupCommitted
<1>5. ~UNCHANGED row
  OBVIOUS
<1>6. \/ \E w \in Writer : Commits(w) \/ RecheckWrites(w)
      \/ \E n \in Renamer : RenameCommits(n)
      \/ \E c \in Catchup : CatchupCommits(c)
  <2>1. ASSUME NEW w \in Writer
        PROVE  /\ \A s \in Row : OpensPage(w, s) => UNCHANGED row
               /\ \A s \in Row, u \in Person : Approves(w, s, u) => UNCHANGED row
               /\ Follows(w) \/ Aborts(w) => UNCHANGED row
               /\ RecheckReads(w) \/ RecheckLocks(w) \/ RecheckLost(w) => UNCHANGED row
    BY DEF OpensPage, Drafts, Approves, Follows, Aborts, RecheckReads, RecheckLocks, RecheckLost
  <2>2. ASSUME NEW w \in Writer, EchoWrites(w) PROVE UNCHANGED row
    BY <2>2 DEF EchoWrites, Drafts
  <2>3. ASSUME NEW w \in Writer, NEW s \in Row, NEW credit \in Credit, NEW byline \in Byline,
               NEW submitted \in Submitted, NEW use \in Use,
               AdminWrites(w, s, credit, byline, submitted, use)
        PROVE  UNCHANGED row
    BY <2>3 DEF AdminWrites, Drafts
  <2>4. ASSUME NEW w \in Writer, NEW s \in Row, NEW u \in Person,
               NEW submitted \in Submitted, NEW use \in Use, SelfWrites(w, s, u, submitted, use)
        PROVE  UNCHANGED row
    BY <2>4 DEF SelfWrites, Drafts
  <2>5. ASSUME NEW n \in Renamer
        PROVE  /\ \A u \in Person, new \in AccountNames : RenameStarts(n, u, new) => UNCHANGED row
               /\ RenameAborts(n) => UNCHANGED row
    BY DEF RenameStarts, RenameAborts
  <2>6. ASSUME NEW c \in Catchup
        PROVE  CatchupReadsPeople(c) \/ CatchupReadsRows(c) \/ CatchupAborts(c) => UNCHANGED row
    BY DEF CatchupReadsPeople, CatchupReadsRows, CatchupAborts
  <2> QED
    BY <1>5, <2>1, <2>2, <2>3, <2>4, <2>5, <2>6 DEF Next, vars
<1> QED
  BY <1>1, <1>2, <1>3, <1>4, <1>6

\* CustomNamesKept holds of every step, whoever else is at work.
THEOREM CustomNamesAlwaysKept == Spec => CustomNamesKept
<1>1. NamesInv /\ [Next]_vars =>
        [\A r \in Row : row[r].source = "custom" /\ row'[r].shown # row[r].shown =>
           \E w \in Writer : /\ draft[w] # Idle /\ draft[w].row = r /\ draft'[w] = Idle
                             /\ \/ draft[w].asked
                                \/ row[r].credit # None /\ draft[w].new.credit = None]_vars
  BY TypedNamesStay
<1> QED
  BY <1>1, NamesInvAlways, PTL DEF Spec, CustomNamesKept

-----------------------------------------------------------------------------
(* Without the catch-up command, rows follow their person's name *)

LEMMA CoveredHolds ==
  ASSUME NEW r \in Row, Covered(r)'
  PROVE  FollowRow(r)'
BY DEF FollowRow

LEMMA NotFollowing ==
  ASSUME NEW r \in Row, row'[r].source # "account"
  PROVE  FollowRow(r)'
BY DEF FollowRow, FollowsPerson, FollowsAccount

\* A row that stays, beside a name that does.
LEMMA RowStays ==
  ASSUME NEW r \in Row, FollowRow(r), row'[r] = row[r], UNCHANGED <<name, renamer>>,
         Covered(r) => Covered(r)'
  PROVE  FollowRow(r)'
BY DEF FollowRow, FollowsPerson, FollowsAccount, UpToDate

\* A step of the recheck of w leaves what the others wait for.
LEMMA OthersCover ==
  ASSUME NEW w \in Writer, NEW r \in Row, Covered(r),
         \A v \in Writer \ {w} : recheck'[v] = recheck[v],
         row'[r].credit = row[r].credit, r \in missed => r \in missed'
  PROVE  \/ Covered(r)'
         \/ /\ recheck[w] # Idle /\ recheck[w].row = r
            /\ recheck[w].person \in {None, row[r].credit}
BY DEF Covered

LEMMA CommitFollows ==
  ASSUME NamesInv, FollowInv, NEW w \in Writer, Commits(w)
  PROVE  FollowInv'
<1> DEFINE d == draft[w]
<1>1. /\ d.row \in Row /\ row'[d.row] = d.new
      /\ \A r \in Row \ {d.row} : row'[r] = row[r]
      /\ recheck[w] = Idle /\ \A v \in Writer \ {w} : recheck'[v] = recheck[v]
      /\ \/ recheck'[w] = Idle /\ d.new.source # "account"
         \/ recheck'[w] = [row |-> d.row, person |-> None, locked |-> FALSE]
      /\ recheck'[w] # Idle => recheck'[w].row = d.row /\ recheck'[w].person = None
      /\ missed' = missed \ {d.row} /\ UNCHANGED <<name, renamer>>
      /\ recheck' \in [Writer -> Recheck \cup {Idle}]
  BY CommitWrites
<1> HIDE DEF d
<1>2. [row |-> d.row, person |-> None, locked |-> FALSE] # Idle
  <2>1. [row |-> d.row, person |-> None, locked |-> FALSE] \in Recheck
    BY <1>1 DEF Recheck, Credit
  <2> QED
    BY <2>1, Absent
<1> SUFFICES ASSUME NEW r \in Row PROVE FollowRow(r)'
  BY DEF FollowInv, FollowRow, FollowsPerson, FollowsAccount, UpToDate, Covered
<1>3. CASE r = d.row /\ d.new.source # "account"
  BY <1>1, <1>3, NotFollowing
<1>4. CASE r = d.row /\ d.new.source = "account"
  <2>1. recheck'[w] # Idle /\ recheck'[w].row = r /\ recheck'[w].person = None
    BY <1>1, <1>2, <1>4
  <2>2. Covered(r)'
    BY <2>1 DEF Covered
  <2> QED
    BY <2>2, CoveredHolds
<1>5. CASE r # d.row
  <2>1. row'[r] = row[r] /\ (r \in missed => r \in missed')
    BY <1>1, <1>5
  <2>2. Covered(r) => Covered(r)'
    BY <1>1, <2>1, OthersCover
  <2> QED
    BY <1>1, <2>1, <2>2, RowStays DEF FollowInv
<1> QED
  BY <1>3, <1>4, <1>5

LEMMA RecheckFollows ==
  ASSUME NamesInv, FollowInv, NEW w \in Writer,
         RecheckReads(w) \/ RecheckLocks(w) \/ RecheckLost(w)
  PROVE  FollowInv'
<1> SUFFICES ASSUME NEW r \in Row PROVE FollowRow(r)'
  BY DEF FollowInv, FollowRow, FollowsPerson, FollowsAccount, UpToDate, Covered
<1>1. /\ UNCHANGED <<name, row, renamer>> /\ \A v \in Writer \ {w} : recheck'[v] = recheck[v]
      /\ r \in missed => r \in missed'
  BY DEF RecheckReads, RecheckLocks, RecheckLost, NamesInv, TypeOK
<1>2. CASE Covered(r) => Covered(r)'
  BY <1>1, <1>2, RowStays DEF FollowInv
<1>3. CASE /\ recheck[w] # Idle /\ recheck[w].row = r
           /\ recheck[w].person \in {None, row[r].credit}
  <2>1. CASE RecheckReads(w) /\ row[r].credit = None
    <3>1. row'[r].source # "account"
      BY <1>1, <2>1, Names DEF NamesInv, RowsSound, Sound
    <3> QED
      BY <3>1, NotFollowing
  <2>2. CASE \/ RecheckReads(w) /\ row[r].credit # None
             \/ RecheckLocks(w)
    <3>1. /\ recheck'[w] # Idle /\ recheck'[w].row = r
          /\ recheck'[w].person \in {None, row[r].credit}
      BY <1>3, <2>2, RecheckReadKeeps, RecheckLockKeeps
    <3> QED
      BY <1>1, <3>1, CoveredHolds DEF Covered
  <2>3. CASE RecheckLost(w)
    BY <1>3, <2>3, CoveredHolds DEF Covered, RecheckLost
  <2> QED
    BY <2>1, <2>2, <2>3
<1> QED
  BY <1>1, <1>2, <1>3, OthersCover

LEMMA RecheckWriteFollows ==
  ASSUME NamesInv, FollowInv, NEW w \in Writer, RecheckWrites(w)
  PROVE  FollowInv'
<1> DEFINE s == recheck[w].row
           u == recheck[w].person
<1>1. /\ s \in Row /\ u \in Person /\ recheck[w].locked /\ recheck[w] # Idle
      /\ \A v \in Writer \ {w} : recheck'[v] = recheck[v]
      /\ UNCHANGED <<name, renamer>>
      /\ \/ ~FollowsAccount(s, u) /\ UNCHANGED <<row, missed>>
         \/ /\ FollowsAccount(s, u) /\ missed' = missed \ {s}
            /\ \A r \in Row \ {s} : row'[r] = row[r]
            /\ row'[s].credit = u /\ row'[s].source = "account"
            /\ name[u] \in Spelling => row'[s].shown = <<u, name[u]>>
  BY RecheckWritten
<1>2. \A n \in Renamer : renamer[n] # Idle => renamer[n].person # u
  BY <1>1 DEF NamesInv, PersonLocksExclude
<1>3. u # None
  BY <1>1, Names
<1> HIDE DEF s, u
<1> SUFFICES ASSUME NEW r \in Row PROVE FollowRow(r)'
  BY DEF FollowInv, FollowRow, FollowsPerson, FollowsAccount, UpToDate, Covered
<1>4. CASE r = s /\ FollowsAccount(s, u)
  <2>1. FollowsPerson(r)' => UpToDate(r)'
    BY <1>1, <1>4 DEF FollowsPerson, UpToDate
  <2>2. \A n \in Renamer : renamer[n] # Idle => ~FollowsAccount(r, renamer[n].person)'
    BY <1>1, <1>2, <1>4 DEF FollowsAccount
  <2> QED
    BY <1>1, <2>1, <2>2 DEF FollowRow, FollowsAccount
<1>5. CASE ~(r = s /\ FollowsAccount(s, u))
  <2>1. row'[r] = row[r] /\ (r \in missed => r \in missed')
    BY <1>1, <1>5
  <2>2. CASE row[r].source # "account"
    BY <2>1, <2>2, NotFollowing
  <2>3. CASE row[r].source = "account"
    <3>1. ~(s = r /\ u \in {None, row[r].credit})
      BY <1>3, <1>5, <2>3 DEF FollowsAccount
    <3>2. Covered(r) => Covered(r)'
      BY <1>1, <2>1, <3>1, OthersCover DEF s, u
    <3> QED
      BY <1>1, <2>1, <3>2, RowStays DEF FollowInv
  <2> QED
    BY <2>2, <2>3
<1> QED
  BY <1>4, <1>5

LEMMA RenameStartFollows ==
  ASSUME NamesInv, FollowInv, NEW n \in Renamer, NEW u \in Person, NEW new \in AccountNames,
         RenameStarts(n, u, new)
  PROVE  FollowInv'
<1>1. /\ renamer'[n].person = u /\ renamer'[n].name = new
      /\ \A r \in Row : new \in Spelling /\ FollowsAccount(r, u) => r \in renamer'[n].rows
      /\ \A m \in Renamer \ {n} : renamer'[m] = renamer[m]
      /\ UNCHANGED <<name, row, recheck, missed>>
  BY RenameStarted
<1> QED
  BY <1>1 DEF FollowInv, FollowRow, FollowsPerson, FollowsAccount, UpToDate, Covered

LEMMA RenameAbortFollows ==
  ASSUME NamesInv, FollowInv, NEW n \in Renamer, RenameAborts(n)
  PROVE  FollowInv'
<1>1. /\ renamer'[n] = Idle /\ \A m \in Renamer \ {n} : renamer'[m] = renamer[m]
      /\ UNCHANGED <<name, row, recheck, missed>>
  BY DEF RenameAborts, NamesInv, TypeOK
<1> QED
  BY <1>1 DEF FollowInv, FollowRow, FollowsPerson, FollowsAccount, UpToDate, Covered

LEMMA RenameCommitFollows ==
  ASSUME NamesInv, FollowInv, NEW n \in Renamer, RenameCommits(n)
  PROVE  FollowInv'
<1> DEFINE u    == renamer[n].person
           new  == renamer[n].name
           rows == {r \in renamer[n].rows : FollowsAccount(r, u)}
<1>1. /\ renamer[n] # Idle /\ u \in Person /\ rows \in SUBSET Row
      /\ \A r \in Row \ rows : row'[r] = row[r]
      /\ \A r \in rows : /\ row'[r].credit = u /\ row'[r].source = "account"
                         /\ row'[r].shown = <<u, new>>
      /\ name'[u] = new /\ \A v \in Person \ {u} : name'[v] = name[v]
      /\ missed' = missed \ rows
      /\ renamer'[n] = Idle /\ \A m \in Renamer \ {n} : renamer'[m] = renamer[m]
      /\ UNCHANGED recheck
  BY RenameCommitted
<1>2. \A m \in Renamer \ {n} : renamer[m] # Idle => renamer[m].person # u
  BY <1>1 DEF NamesInv, PersonLocksExclude
<1>3. \A r \in Row : r \in renamer[n].rows /\ FollowsAccount(r, u) => r \in rows
  OBVIOUS
<1> SUFFICES ASSUME NEW r \in Row PROVE FollowRow(r)'
  BY DEF FollowInv, FollowRow, FollowsPerson, FollowsAccount, UpToDate, Covered
<1>4. FollowRow(r)
  BY DEF FollowInv
<1>5. row[r] \in AuthorRow /\ Sound(row[r])
  BY DEF NamesInv, TypeOK, RowsSound
<1> HIDE DEF rows, u, new
<1>6. CASE r \in rows
  <2>1. UpToDate(r)'
    BY <1>1, <1>6 DEF UpToDate
  <2>2. \A m \in Renamer : renamer'[m] # Idle => ~FollowsAccount(r, renamer[m].person)'
    BY <1>1, <1>2, <1>6 DEF FollowsAccount
  <2> QED
    BY <2>1, <2>2 DEF FollowRow, FollowsAccount
<1>7. CASE r \notin rows
  <2>1. row'[r] = row[r]
    BY <1>1, <1>7
  <2>2. Covered(r) => Covered(r)'
    BY <1>1, <1>7, <2>1 DEF Covered
  <2>3. \A m \in Renamer : renamer'[m] # Idle => m # n /\ renamer'[m] = renamer[m]
    BY <1>1
  <2>4. CASE row[r].source = "account" /\ row[r].credit = u /\ new \in Spelling
    <3>1. r \in renamer[n].rows \/ Covered(r)
      BY <1>1, <1>4, <2>4 DEF FollowRow, FollowsAccount, u, new
    <3>2. Covered(r)
      BY <1>3, <1>7, <2>4, <3>1 DEF FollowsAccount
    <3> QED
      BY <2>2, <3>2, CoveredHolds
  <2>5. CASE row[r].source = "account" /\ row[r].credit = u /\ new \notin Spelling
    <3>1. ~FollowsPerson(r)'
      BY <1>1, <2>1, <2>5 DEF FollowsPerson
    <3>2. \A m \in Renamer : renamer'[m] # Idle => ~FollowsAccount(r, renamer[m].person)'
      BY <1>1, <1>2, <2>1, <2>3, <2>5 DEF FollowsAccount
    <3> QED
      BY <3>1, <3>2 DEF FollowRow, FollowsAccount
  <2>6. CASE row[r].source = "account" /\ row[r].credit # u
    <3>1. row[r].credit \in Person \ {u}
      BY <1>5, <2>6 DEF Sound
    <3>2. name'[row[r].credit] = name[row[r].credit]
      BY <1>1, <3>1
    <3> QED
      BY <1>4, <2>1, <2>2, <2>3, <3>2
         DEF FollowRow, FollowsPerson, FollowsAccount, UpToDate
  <2>7. CASE row[r].source # "account"
    BY <2>1, <2>7, NotFollowing
  <2> QED
    BY <2>4, <2>5, <2>6, <2>7
<1> QED
  BY <1>6, <1>7

LEMMA FollowInit == Init => FollowInv
BY DEF Init, FollowInv, FollowRow, FollowsPerson

LEMMA FollowNext ==
  ASSUME Catchup = {}
  PROVE  NamesInv /\ FollowInv /\ [Next]_vars => FollowInv'
<1> SUFFICES ASSUME NamesInv, FollowInv, [Next]_vars PROVE FollowInv'
  OBVIOUS
<1>1. CASE UNCHANGED <<name, row, recheck, renamer, missed>>
  BY <1>1 DEF FollowInv, FollowRow, FollowsPerson, FollowsAccount, UpToDate, Covered
<1>2. CASE \E w \in Writer : Commits(w) \/ RecheckReads(w) \/ RecheckLocks(w)
                             \/ RecheckWrites(w) \/ RecheckLost(w)
  BY <1>2, CommitFollows, RecheckFollows, RecheckWriteFollows
<1>3. CASE \E n \in Renamer :
             \/ \E u \in Person, new \in AccountNames : RenameStarts(n, u, new)
             \/ RenameCommits(n) \/ RenameAborts(n)
  BY <1>3, RenameStartFollows, RenameCommitFollows, RenameAbortFollows
<1>4. ASSUME NEW w \in Writer
      PROVE  /\ \A r \in Row : OpensPage(w, r) => UNCHANGED <<name, row, recheck, renamer, missed>>
             /\ \A r \in Row, u \in Person :
                  Approves(w, r, u) => UNCHANGED <<name, row, recheck, renamer, missed>>
             /\ Follows(w) \/ Aborts(w) => UNCHANGED <<name, row, recheck, renamer, missed>>
  BY DEF OpensPage, Approves, Follows, Aborts
<1>5. ASSUME NEW w \in Writer, EchoWrites(w)
      PROVE  UNCHANGED <<name, row, recheck, renamer, missed>>
  BY <1>5 DEF EchoWrites, Drafts
<1>6. ASSUME NEW w \in Writer, NEW r \in Row, NEW credit \in Credit, NEW byline \in Byline,
             NEW submitted \in Submitted, NEW use \in Use,
             AdminWrites(w, r, credit, byline, submitted, use)
      PROVE  UNCHANGED <<name, row, recheck, renamer, missed>>
  BY <1>6 DEF AdminWrites, Drafts
<1>7. ASSUME NEW w \in Writer, NEW r \in Row, NEW u \in Person,
             NEW submitted \in Submitted, NEW use \in Use, SelfWrites(w, r, u, submitted, use)
      PROVE  UNCHANGED <<name, row, recheck, renamer, missed>>
  BY <1>7 DEF SelfWrites, Drafts
<1>8. CASE UNCHANGED vars
  BY <1>1, <1>8 DEF vars
<1> QED
  BY <1>1, <1>2, <1>3, <1>4, <1>5, <1>6, <1>7, <1>8 DEF Next

\* AccountNamesFollow, without the catch-up command (which reads whom to lock before it
\* reads what to write): a row on its person's account name shows the name the person has
\* now, unless a recheck of it is still to come or was lost, through any race of credits,
\* edits and name changes.
THEOREM AccountNamesAlwaysFollow ==
  ASSUME Catchup = {}
  PROVE  Spec => []AccountNamesFollow
<1>1. NamesInv /\ FollowInv => AccountNamesFollow
  BY DEF FollowInv, FollowRow, Covered, AccountNamesFollow
<1>2. NamesInv /\ FollowInv /\ [Next]_vars => FollowInv'
  BY FollowNext
<1> QED
  BY <1>1, <1>2, FollowInit, NamesInvAlways, PTL DEF Spec

=============================================================================
