---------------------------- MODULE DisplayNames ----------------------------
(***************************************************************************)
(* Which name an Author row shows: display_name and display_name_source,   *)
(* under the writers of the row (author_mutations, claim_ledger), the      *)
(* changes of an account name (directory sync, login refresh) and the      *)
(* catch-up command sync_author_display_names --apply.                     *)
(*                                                                         *)
(* A writer holds the row's lock and reads the account name without        *)
(* locking the person; a name change locks the person and then the rows    *)
(* that already follow the name.  Neither waits for the other, so a name   *)
(* can change between a credit's read and its commit.  A write that leaves *)
(* the row on the account name therefore reads the name again once it has  *)
(* committed, in the name change's lock order.                             *)
(*                                                                         *)
(* A transaction is split where another can come between: at its first     *)
(* locked read, at a later unlocked read, and at its commit.  Taking a     *)
(* lock is merged into the first step that relies on it: up to there the   *)
(* holder has used nothing that the lock protects.                         *)
(***************************************************************************)
EXTENDS Integers, FiniteSets

CONSTANTS
  Person,     \* ApiUser rows
  Row,        \* Author rows
  Byline,     \* author_name values
  Spelling,   \* account names usable on a paper
  Unusable,   \* account names that are not (all lowercase, a single token, ...)
  Nickname,   \* names somebody may type
  Writer,     \* requests that edit, credit, claim or approve an author
  Renamer,    \* transactions that save a changed account name
  Catchup,    \* sync_author_display_names --apply processes
  None,       \* no credit, no submitted name, no use_account_name
  Automatic,  \* use_account_name = True
  Keep,       \* use_account_name = False
  Idle

VARIABLES
  name,     \* name[u]: the committed ApiUser.name of u
  row,      \* row[r]: the committed Author row
  page,     \* page[w]: the row as the requester was shown it, when there was a GET
  draft,    \* draft[w]: the row as an uncommitted request will leave it
  recheck,  \* recheck[w]: the on_commit recheck of a request that committed
  renamer,  \* renamer[n]: an account-name change that has not committed
  catchup,  \* catchup[c]: what the command has read
  missed    \* rows whose recheck never ran to its end, until a later one does

vars == <<name, row, page, draft, recheck, renamer, catchup, missed>>

-----------------------------------------------------------------------------
(* Types *)

Label  == (Person \X Spelling) \cup Byline \cup Nickname
Credit == Person \cup {None}
AccountNames == Spelling \cup Unusable

AuthorRow == [credit : Credit, byline : Byline, shown : Label,
              source : {"byline", "account", "custom"}]

ASSUME Names ==
  /\ Spelling \cap Unusable = {}
  /\ None \notin Person /\ None \notin Label /\ None \notin {Automatic, Keep}

Page == [row : Row, seen : AuthorRow]

\* The ledger has yet to apply the crediting rule to a draft that `follows`.  `asked`:
\* the request chose a name.
Draft == [row : Row, new : AuthorRow, follows : BOOLEAN, asked : BOOLEAN]

\* person is None until the recheck has read whom the row is credited to; locked: it has
\* the person's lock and has read the name.
Recheck == [row : Row, person : Credit, locked : BOOLEAN]
Change  == [person : Person, name : AccountNames, rows : SUBSET Row]

\* rows is empty until the command has locked people and rows; names is what it read then.
CatchupState == [people : SUBSET Person, locked : BOOLEAN, rows : SUBSET Row,
                 names : [Person -> AccountNames]]

ASSUME Absent ==
  /\ Idle \notin Page /\ Idle \notin Draft /\ Idle \notin Recheck /\ Idle \notin Change
  /\ Idle \notin CatchupState

TypeOK ==
  /\ name \in [Person -> AccountNames]
  /\ row \in [Row -> AuthorRow]
  /\ page \in [Writer -> Page \cup {Idle}]
  /\ draft \in [Writer -> Draft \cup {Idle}]
  /\ recheck \in [Writer -> Recheck \cup {Idle}]
  /\ renamer \in [Renamer -> Change \cup {Idle}]
  /\ catchup \in [Catchup -> CatchupState \cup {Idle}]
  /\ missed \subseteq Row

\* Rows from before display_name_source existed are marked byline, whatever they show.
Init ==
  /\ name \in [Person -> AccountNames]
  /\ row \in [Row -> {a \in AuthorRow : a.source = "byline" /\ a.shown \in {a.byline} \cup Nickname}]
  /\ page = [w \in Writer |-> Idle]
  /\ draft = [w \in Writer |-> Idle]
  /\ recheck = [w \in Writer |-> Idle]
  /\ renamer = [n \in Renamer |-> Idle]
  /\ catchup = [c \in Catchup |-> Idle]
  /\ missed = {}

-----------------------------------------------------------------------------
(* Locks, as the transactions in progress hold them *)

CatchupHolds(c) == catchup[c] # Idle /\ catchup[c].locked
RowLocked(r) ==
  \/ \E w \in Writer : draft[w] # Idle /\ draft[w].row = r
  \/ \E c \in Catchup : CatchupHolds(c) /\ r \in catchup[c].rows
PersonLocked(u) ==
  \/ \E n \in Renamer : renamer[n] # Idle /\ renamer[n].person = u
  \/ \E w \in Writer : recheck[w] # Idle /\ recheck[w].locked /\ recheck[w].person = u
  \/ \E c \in Catchup : CatchupHolds(c) /\ u \in catchup[c].people

-----------------------------------------------------------------------------
(* The naming rules *)

\* Slip: a credited row is carried along whatever it shows.
CreditedTo(r, u) == row[r].credit = u

\* The rows a change of u's name, or a recheck, carries along.
FollowsAccount(r, u) == row[r].credit = u /\ row[r].source = "account"

\* account_name_for, and the unusable names: None.
AccountName(credit, names) ==
  IF credit # None /\ names[credit] \in Spelling THEN <<credit, names[credit]>> ELSE None

Bylined(a) == [a EXCEPT !.shown = a.byline, !.source = "byline"]
Accounted(a, account) == [a EXCEPT !.shown = account, !.source = "account"]

\* automatic_display_name
Automated(a, account) == IF account # None THEN Accounted(a, account) ELSE Bylined(a)

\* choose_display_name
Chosen(a, submitted, account) ==
  [a EXCEPT !.shown = submitted,
            !.source = IF submitted = Automated(a, account).shown
                       THEN Automated(a, account).source ELSE "custom"]

\* Slip: moving the credit to somebody else leaves the previous person's name.
CarriedMoved(old, a) ==
  IF \/ old.credit # None /\ a.credit = None
     \/ old.source = "byline" /\ a.byline # old.byline /\ old.shown = old.byline
  THEN Bylined(a) ELSE a

\* _apply_display_name with no choice made: a follows from old and its new credit and
\* byline.
Carried(old, a) ==
  IF \/ old.credit # None /\ a.credit = None
     \/ old.credit # None /\ a.credit # old.credit /\ old.source = "account"
     \/ old.source = "byline" /\ a.byline # old.byline /\ old.shown = old.byline
  THEN Bylined(a) ELSE a

Changed(old, submitted) == submitted # None /\ submitted # old.shown

\* Slip: a name that is kept is taken from the request, which sent none.
SettledFromRequest(old, a, submitted, use, account) ==
  CASE use = Automatic                        -> Automated(a, account)
    [] use = Keep                             -> [a EXCEPT !.shown = submitted, !.source = "custom"]
    [] use = None /\ Changed(old, submitted)  -> Chosen(a, submitted, account)
    [] use = None /\ ~Changed(old, submitted) -> Carried(old, a)

\* _apply_display_name
Settled(old, a, submitted, use, account) ==
  CASE use = Automatic                        -> Automated(a, account)
    [] use = Keep /\ submitted = None         -> [a EXCEPT !.source = "custom"]
    [] use = Keep /\ submitted # None         -> [a EXCEPT !.shown = submitted, !.source = "custom"]
    [] use = None /\ Changed(old, submitted)  -> Chosen(a, submitted, account)
    [] use = None /\ ~Changed(old, submitted) -> Carried(old, a)

\* follow_account_name
Followed(a, account) ==
  IF a.source = "custom" \/ account = None THEN a ELSE Accounted(a, account)

-----------------------------------------------------------------------------
(* Requests that write an Author row *)

\* Somebody GETs the row, to send it back later.
OpensPage(w, r) ==
  /\ page[w] = Idle /\ draft[w] = Idle /\ recheck[w] = Idle
  /\ page' = [page EXCEPT ![w] = [row |-> r, seen |-> row[r]]]
  /\ UNCHANGED <<name, row, draft, recheck, renamer, catchup, missed>>

\* Lock r, read the account name of the credited person and settle the name shown.
Drafts(w, r, credit, byline, submitted, use, follows) ==
  LET a == [row[r] EXCEPT !.credit = credit, !.byline = byline]
  IN /\ draft[w] = Idle /\ recheck[w] = Idle
     /\ ~RowLocked(r)
     /\ ~(use = Automatic /\ Changed(row[r], submitted))
     /\ draft' = [draft EXCEPT ![w] =
          [row |-> r, follows |-> follows,
           asked |-> use # None \/ Changed(row[r], submitted),
           new |-> Settled(row[r], a, submitted, use, AccountName(credit, name))]]
     /\ page' = [page EXCEPT ![w] = Idle]
     /\ UNCHANGED <<name, row, recheck, renamer, catchup, missed>>

\* An admin's PUT or form: the ledger follows the name when the credit has changed.
AdminWrites(w, r, credit, byline, submitted, use) ==
  /\ page[w] = Idle
  /\ Drafts(w, r, credit, byline, submitted, use,
            credit # row[r].credit /\ credit # None)

\* A user credits the row to themselves, or edits the one they have.
SelfWrites(w, r, u, submitted, use) ==
  /\ page[w] = Idle
  /\ row[r].credit \in {None, u}
  /\ Drafts(w, r, u, row[r].byline, submitted, use, TRUE)

\* A page is sent back as it came.
EchoWrites(w) ==
  /\ page[w] # Idle
  /\ LET seen == page[w].seen
         r    == page[w].row
     IN Drafts(w, r, seen.credit, seen.byline, seen.shown, None,
               seen.credit # row[r].credit /\ seen.credit # None)

\* approve_suggestion: the credit, and nothing of the naming rules but the ledger's.
Approves(w, r, u) ==
  /\ page[w] = Idle /\ draft[w] = Idle /\ recheck[w] = Idle
  /\ ~RowLocked(r)
  /\ row[r].credit \in {None, u}
  /\ draft' = [draft EXCEPT ![w] =
       [row |-> r, follows |-> TRUE, asked |-> FALSE,
        new |-> [row[r] EXCEPT !.credit = u]]]
  /\ UNCHANGED <<name, row, page, recheck, renamer, catchup, missed>>

\* The ledger reads the account name, a second time for mutate_author, and follows it.
Follows(w) ==
  /\ draft[w] # Idle /\ draft[w].follows
  /\ LET d == draft[w]
     IN draft' = [draft EXCEPT ![w] =
          [row |-> d.row, follows |-> FALSE, asked |-> d.asked,
           new |-> Followed(d.new, AccountName(d.new.credit, name))]]
  /\ UNCHANGED <<name, row, page, recheck, renamer, catchup, missed>>

\* A write that leaves the row on the account name is followed by recheck_after_commit.
Rechecks(w) == draft[w].new.source = "account"

Commits(w) ==
  /\ draft[w] # Idle /\ ~draft[w].follows
  /\ row' = [row EXCEPT ![draft[w].row] = draft[w].new]
  /\ recheck' = [recheck EXCEPT ![w] = IF Rechecks(w)
                                       THEN [row |-> draft[w].row, person |-> None,
                                             locked |-> FALSE] ELSE Idle]
  /\ draft' = [draft EXCEPT ![w] = Idle]
  /\ missed' = missed \ {draft[w].row}
  /\ UNCHANGED <<name, page, renamer, catchup>>

\* A refusal, an error or a lost connection before the commit.
Aborts(w) ==
  /\ draft[w] # Idle
  /\ draft' = [draft EXCEPT ![w] = Idle]
  /\ UNCHANGED <<name, row, page, recheck, renamer, catchup, missed>>

\* _recheck reads whom the row is credited to, with no lock.
RecheckReads(w) ==
  /\ recheck[w] # Idle /\ recheck[w].person = None
  /\ LET credit == row[recheck[w].row].credit
     IN recheck' = [recheck EXCEPT ![w] = IF credit = None THEN Idle
                                          ELSE [recheck[w] EXCEPT !.person = credit]]
  /\ UNCHANGED <<name, row, page, draft, renamer, catchup, missed>>

\* Slip: the recheck does not take the person's lock.
RecheckUnlocked(u) == TRUE

\* Slip: the recheck waits for its own request, as it would before the commit.
RecheckWaitsForItself(u) ==
  ~PersonLocked(u) /\ ~\E w \in Writer : recheck[w] # Idle /\ recheck[w].person = u

\* The recheck's locks: the person's, as a name change takes it.
RecheckMayRead(u) == ~PersonLocked(u)

\* Person first: the name read under that lock cannot change before the recheck ends.
RecheckLocks(w) ==
  /\ recheck[w] # Idle /\ recheck[w].person # None /\ ~recheck[w].locked
  /\ RecheckMayRead(recheck[w].person)
  /\ recheck' = [recheck EXCEPT ![w].locked = TRUE]
  /\ UNCHANGED <<name, row, page, draft, renamer, catchup, missed>>

\* Then the row, if it still follows that person.
RecheckWrites(w) ==
  /\ recheck[w] # Idle /\ recheck[w].locked
  /\ LET r == recheck[w].row
         u == recheck[w].person
     IN IF FollowsAccount(r, u)
        THEN /\ ~RowLocked(r)
             /\ row' = [row EXCEPT ![r] = Followed(@, AccountName(u, name))]
             /\ missed' = missed \ {r}
        ELSE UNCHANGED <<row, missed>>
  /\ recheck' = [recheck EXCEPT ![w] = Idle]
  /\ UNCHANGED <<name, page, draft, renamer, catchup>>

\* The process dies after the commit, or the recheck raises: on_commit(robust=True) only
\* logs it.
RecheckLost(w) ==
  /\ recheck[w] # Idle
  /\ missed' = missed \cup {recheck[w].row}
  /\ recheck' = [recheck EXCEPT ![w] = Idle]
  /\ UNCHANGED <<name, row, page, draft, renamer, catchup>>

-----------------------------------------------------------------------------
(* Account-name changes *)

\* The sync or a login saves a new name under the person's lock, and lists the rows that
\* follow it; an unusable name is carried nowhere.
RenameStarts(n, u, new) ==
  /\ renamer[n] = Idle /\ new # name[u]
  /\ ~PersonLocked(u)
  /\ renamer' = [renamer EXCEPT ![n] =
       [person |-> u, name |-> new,
        rows |-> IF new \in Spelling THEN {r \in Row : FollowsAccount(r, u)} ELSE {}]]
  /\ UNCHANGED <<name, row, page, draft, recheck, catchup, missed>>

\* Each listed row is locked, read again, and renamed if it still follows.
RenameCommits(n) ==
  /\ renamer[n] # Idle
  /\ LET u == renamer[n].person
         rows == {r \in renamer[n].rows : FollowsAccount(r, u)}
     IN /\ \A r \in rows : ~RowLocked(r)
        /\ row' = [r \in Row |-> IF r \in rows
                                 THEN [row[r] EXCEPT !.shown = <<u, renamer[n].name>>]
                                 ELSE row[r]]
        /\ name' = [name EXCEPT ![u] = renamer[n].name]
        /\ missed' = missed \ rows
  /\ renamer' = [renamer EXCEPT ![n] = Idle]
  /\ UNCHANGED <<page, draft, recheck, catchup>>

RenameAborts(n) ==
  /\ renamer[n] # Idle
  /\ renamer' = [renamer EXCEPT ![n] = Idle]
  /\ UNCHANGED <<name, row, page, draft, recheck, catchup, missed>>

-----------------------------------------------------------------------------
(* sync_author_display_names --apply *)

\* Whom to lock: the people credited when the statement starts.
CatchupReadsPeople(c) ==
  /\ catchup[c] = Idle
  /\ catchup' = [catchup EXCEPT ![c] =
       [people |-> {row[r].credit : r \in Row} \ {None}, locked |-> FALSE, rows |-> {},
        names |-> name]]
  /\ UNCHANGED <<name, row, page, draft, recheck, renamer, missed>>

\* Those people are locked, then every row credited by then; then the names are read.
CatchupReadsRows(c) ==
  /\ catchup[c] # Idle /\ ~catchup[c].locked
  /\ \A u \in catchup[c].people : ~PersonLocked(u)
  /\ LET rows == {r \in Row : row[r].credit # None}
     IN /\ \A r \in rows : ~RowLocked(r)
        /\ catchup' = [catchup EXCEPT ![c] =
             [people |-> catchup[c].people, locked |-> TRUE, rows |-> rows, names |-> name]]
  /\ UNCHANGED <<name, row, page, draft, recheck, renamer, missed>>

\* Slip: a name somebody chose is brought over too.
EligibleAlsoCustom(a, account) ==
  account # None /\ ~(a.source = "byline" /\ a.shown # a.byline)

\* Not custom, a usable name, and not edited before provenance was recorded.
Eligible(a, account) ==
  /\ a.source # "custom" /\ account # None
  /\ ~(a.source = "byline" /\ a.shown # a.byline)

CatchupCommits(c) ==
  /\ CatchupHolds(c)
  /\ LET Account(r) == AccountName(row[r].credit, catchup[c].names)
         brought == {r \in catchup[c].rows : Eligible(row[r], Account(r))}
     IN /\ row' = [r \in Row |-> IF r \in brought THEN Accounted(row[r], Account(r)) ELSE row[r]]
  /\ catchup' = [catchup EXCEPT ![c] = Idle]
  /\ UNCHANGED <<name, page, draft, recheck, renamer, missed>>

CatchupAborts(c) ==
  /\ catchup[c] # Idle
  /\ catchup' = [catchup EXCEPT ![c] = Idle]
  /\ UNCHANGED <<name, row, page, draft, recheck, renamer, missed>>

-----------------------------------------------------------------------------

Submitted == Label \cup {None}
Use == {None, Automatic, Keep}

Next ==
  \/ \E w \in Writer, r \in Row : OpensPage(w, r)
  \/ \E w \in Writer, r \in Row, credit \in Credit, byline \in Byline,
        submitted \in Submitted, use \in Use :
       AdminWrites(w, r, credit, byline, submitted, use)
  \/ \E w \in Writer, r \in Row, u \in Person, submitted \in Submitted, use \in Use :
       SelfWrites(w, r, u, submitted, use)
  \/ \E w \in Writer : EchoWrites(w)
  \/ \E w \in Writer, r \in Row, u \in Person : Approves(w, r, u)
  \/ \E w \in Writer : Follows(w)
  \/ \E w \in Writer : Commits(w)
  \/ \E w \in Writer : Aborts(w)
  \/ \E w \in Writer : RecheckReads(w)
  \/ \E w \in Writer : RecheckLocks(w)
  \/ \E w \in Writer : RecheckWrites(w)
  \/ \E w \in Writer : RecheckLost(w)
  \/ \E n \in Renamer, u \in Person, new \in AccountNames : RenameStarts(n, u, new)
  \/ \E n \in Renamer : RenameCommits(n)
  \/ \E n \in Renamer : RenameAborts(n)
  \/ \E c \in Catchup : CatchupReadsPeople(c)
  \/ \E c \in Catchup : CatchupReadsRows(c)
  \/ \E c \in Catchup : CatchupCommits(c)
  \/ \E c \in Catchup : CatchupAborts(c)

Spec == Init /\ [][Next]_vars

\* A transaction in progress ends, one way or the other, and PostgreSQL grants a lock in
\* the order of its queue; a committed request goes on to its recheck.  Nothing says that
\* a request is made, a name is changed or the command is run.
Fairness ==
  /\ \A w \in Writer : /\ WF_vars(Follows(w)) /\ WF_vars(Commits(w) \/ Aborts(w))
                       /\ WF_vars(RecheckReads(w))
                       /\ SF_vars(RecheckLocks(w)) /\ SF_vars(RecheckWrites(w))
  /\ \A n \in Renamer : WF_vars(RenameCommits(n) \/ RenameAborts(n))
  /\ \A c \in Catchup : WF_vars(CatchupCommits(c) \/ CatchupAborts(c))

FairSpec == Spec /\ Fairness

-----------------------------------------------------------------------------
(* Properties *)

FollowsPerson(r) == row[r].source = "account" /\ row[r].credit # None
                    /\ name[row[r].credit] \in Spelling
UpToDate(r) == row[r].shown = <<row[r].credit, name[row[r].credit]>>

\* A row on its person's account name shows the name that person has now, unless a recheck
\* of it is still to come or was lost: a name change and a credit that do not see each
\* other leave a recheck behind (display_names.py, recheck_after_commit).
AccountNamesFollow ==
  \A r \in Row :
    FollowsPerson(r) /\ r \notin missed /\ (\A w \in Writer : recheck[w] = Idle \/ recheck[w].row # r)
    => UpToDate(r)

\* A row on an account name is credited, and shows a name of the person it is credited to,
\* never one of the person it was credited to before (_apply_display_name).
AccountShowsCredited ==
  \A r \in Row : row[r].source = "account"
                 => row[r].credit \in Person /\ row[r].shown \in {row[r].credit} \X Spelling

\* A name somebody typed is replaced only by a request that chooses another, or by removing
\* the credit: no credit, name change, recheck or catch-up does it.
CustomNamesKept ==
  [][\A r \in Row : row[r].source = "custom" /\ row'[r].shown # row[r].shown =>
       \E w \in Writer : /\ draft[w] # Idle /\ draft[w].row = r /\ draft'[w] = Idle
                         /\ \/ draft[w].asked
                            \/ row[r].credit # None /\ draft[w].new.credit = None]_vars

\* A row that fell behind its person's name catches up, whoever keeps writing it, unless
\* its recheck was lost.
NamesCatchUp ==
  \A r \in Row : (FollowsPerson(r) /\ ~UpToDate(r))
                 ~> (r \in missed \/ ~FollowsPerson(r) \/ UpToDate(r))

=============================================================================
