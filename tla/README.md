# publication-tracker: specifications, model checking and proofs

publication-tracker keeps the papers of FABRIC users: who wrote them (author
rows in the order printed), which of those authors are FABRIC people
(`Author.fabric_uuid`), who decided that and on what evidence (the claim ledger),
and which name each author is shown under. It is a Django application on
PostgreSQL at READ COMMITTED, served by several uwsgi processes and threads, with
a cron side-car that runs the directory sync and the claim scorer. All
coordination is in the database: row locks (`select_for_update`), advisory locks
and `on_commit` callbacks.

Paths below are relative to `src/publicationtrkr/`.

## 1. The system

| Component | State | Operations | What makes it correct | Module |
|---|---|---|---|---|
| Publication write path, `apps/publications/utils/publication_builder.py` | `Publication.authors`, `Author` rows | create, update (pairing an old list with a new one) | lists and rows agree; no row with history is renamed or removed | Attribution |
| Author mutations, `.../author_mutations.py` | the same, `AuthorCorrection` | create, edit, self-claim, delete an author; delete a publication | the same; an attribution changes only with a snapshot | Attribution, RowLocks |
| Claim ledger, `.../claim_ledger.py` | `AuthorClaim` | withdraw, record, approve, reject, relocate | a credit has a claim; a decision is never lost; a page decides only about what it showed | Attribution, Ledger |
| Scorer, `management/commands/score_author_claims.py` | what a run has read; suggestions | read, persist per pair, withdraw stale ones | never writes from a stale read, never touches a decision | Attribution, ClaimQueue |
| Claim scoring, `.../claim_scoring.py`, `name_matching.py` | none | parse and compare names, four weighted signals | no queueing across a contradicted name without the project; nobody missed under their own name | ClaimScoring |
| Display names, `.../display_names.py`, `utils/names.py`, `management/commands/sync_author_display_names.py` | `display_name`, `display_name_source`, pending rechecks | credit, choose, follow, recheck, catch up | a followed name is the current one of the credited person; a typed name stays | DisplayNames |
| Repair command, `management/commands/repair_author_records.py` | all of the above | apply a reviewed plan to a publication | nobody loses a credit, nothing decided is lost | Repair |
| Views, forms, REST API | none of their own | the entry points | | with each of the above |
| Bulk ingest, `.../bulk_ingest.py` | the report of a request | many creates, each in its own transaction | the report is what was stored, in the order of the document | BulkIngest |
| Authentication, `utils/fabric_auth.py` | revocation-list and key caches, `ApiUser` | token checks, login refresh | a revoked token is refused in time; a bad answer is outlived; a refresh loses nobody else's write | TokenGate, DirectorySync |
| Directory sync, `apps/apiuser/management/commands/sync_fabric_users.py` | `ApiUser`, the watermark | windows, upserts, metrics | no person is skipped for good | DirectorySync |
| Membership history, `apps/apiuser/utils/memberships.py`, `management/commands/import_project_memberships.py` | `ApiUserProjectMembership` | upsert of observations, import of old dumps | independent of their order; never behind the row it describes | Membership |
| Advisory locks and tracker, `apps/apiuser/utils/locks.py`, `models.py` | | one sync and one scorer at a time | | Attribution, DirectorySync |
| Settings, middleware, migrations, templates, containers | | | not modelled: configuration and presentation | |

How they interact. Views and the API call the mutation and builder functions,
which call the ledger and the naming rules inside one transaction. The scorer
writes the ledger's suggestions; the claim queue decides them; a decision writes
the author row, which the scorer reads. The sync and the login refresh change
`ApiUser.name`, which follows onto author rows, and the projects, which go into the
membership history that the scorer reads. A write that leaves a row on an account
name schedules a recheck for after its commit. Every request with a token passes the
token gate before the login refresh. A bulk upload is a sequence of creates.

What is hard here is what is read before it is locked: an edit reads which
publication to lock; a queue page is decided minutes after it was rendered; a
scoring run works from what it read at its start; a credit reads the account name
without locking the person; two requests refresh a cache with answers of different
ages; an import counts against reads made before its transaction. `PROJECT.json`
lists each at its line under `hazards`.

## 2. The modules

| Module | Uses | Models | Abstract or detailed |
|---|---|---|---|
| `Ledger` | | what the claim ledger promises of one author row | abstract |
| `Attribution` | `Ledger` (instance `L`) | write path, author mutations, ledger, queue, scorer | implements `Ledger` |
| `Repair` | `Attribution` | `repair_author_records` beside all of these | |
| `DisplayNames` | | naming rules, rechecks, name changes, catch-up | |
| `DirectorySync` | | sync runs and login refreshes | |
| `Membership` | | the membership history under its three writers | |
| `TokenGate` | | revocation list, signing keys, concurrent refreshes | |
| `ClaimScoring` | | name parsing and the signals, operators only | |
| `ClaimQueue` | `ClaimScoring` | what scoring runs queue as the evidence changes | |
| `BulkIngest` | | uploads record by record | |
| `RowLocks` | | the row locks of the writers of several rows, one by one | |

Each has an `MC` module with its instance; `*Proofs` modules hold the theorems.

### Attribution and Ledger

The publication write path, author mutations, claim ledger, claim queue and
scorer, composed: one action is one transaction, because every transaction that
writes an author row or decides one of its claims holds that row's lock, and the
publication's when a list changes. A process that reads before it locks has state
of its own.

| Variable | Code |
|---|---|
| `authors[p]` | `Publication.authors`, `NoPub` when there is no such publication |
| `author[r]` | the `Author` row: byline, publication, credit, `author_order` |
| `claim[<<r, u>>]` | the `AuthorClaim` of that pair (unique per pair): key, status, source, and the byline and publication a suggestion was computed from |
| `recorded` | the `AuthorCorrection` rows of the last transaction |
| `edit[e]` | `mutate_author` between line 138, where it reads the publication, and the locks |
| `queue[q]` | a page of `author_claim_list`, between its two queries or open |
| `scorer[s]` | a run of `score_author_claims` |

| Actions | Code |
|---|---|
| `CreatePublication`, `UpdatePublication` | `publication_builder.create_publication`, `update_publication` with `_sync_authors` |
| `DeletePublication`, `AdminDeletes` | `delete_publication`, the delete branch of `mutate_author` |
| `EditStarts`, `AdminEdits`, `SelfClaims`, `AdminCreates`, `EditEnds` | `mutate_author`; `EditEnds` is every refusal, error and lost connection |
| `QueueReads`, `QueueShows`, `ApproveSuggestion`, `RejectSuggestion`, `QueueEnds` | `author_claim_list` GET (`_claim_queue_page`: the authors, then their suggestions) and POST, `claim_ledger` |
| `ScoreReadsAuthors`, `ScoreReadsClaims`, `ScorePersists`, `ScoreWithdraws`, `ScoreDies` | `score_author_claims` without `--full` |

Abstracted: score and signals are the byline and publication they are computed
from (`basis`); which people score is any choice of at most `MaxSuggestions` per
author; timestamps, actors and reasons are left out. A primary key is reused only
when no row and no process has it, which is the sequence up to renaming, and keeps
the instance finite. `ScoreReadsClaims` reads both claim queries of a run at one
moment; `persist_suggestion` reads the claim again, so a difference between the two
is not visible afterwards. A page does read at two moments, in no transaction: `seen` is what
the first query found of the author and `scored` what the suggestion of the second was
computed from; `torn` is history, a page whose author was renamed or moved in between. The
publication, the third query, is looked up by the uuid the first one read. The ledger's own refusal of an already claimed author
in `approve_suggestion` is kept in the guard, although `CreditSettlesQueue` says it
is out of reach without `--full`. `--full` itself, which scores credited authors
too, is in ClaimQueue only.

`Ledger` says what all this is for, without publications, lists, suggestions, requests
or runs: a credit has a decision behind it; decisions only accumulate and only an
uncredited row is credited, except in a step that records what the row was. The mapping
is `credit` = the person an existing row credits, `decision` = the status of a decided
claim, `recorded` = the snapshots. `LedgerKept` is the abstract specification as a
property of Attribution.

### Repair

One plan entry of `repair_author_records` is one action beside every action of
Attribution: the command locks the publication and its rows first and runs an entry in a
transaction. The action follows the code's six steps, from the checks (people dropped or
invented, a surplus row that holds something decided) through the detaching, the
relocation of claims to slots that exist, the list edit with explicit slots, the
re-attachment and the stray claims, to the corrections it records and the verification
(`CreditsOf(written, slots) = target`) whose failure rolls everything back. Plans are any
list of bylines with any assignment of distinct people; `Init` and the writers give the
records they meet. Left out: the `expect_authors` check, which only says that the plan was
reviewed against this record; the bibliographic fields; the display names it resets; and
`_delete_orphan`, for a row that no list names, which cannot arise while
`MembershipConsistent` holds (proved for repairs too, section 4).

### DisplayNames

Which name a row shows. Publications and claims are left out; transactions are
split at their locked reads, unlocked reads and commit, and the locks they hold in
between are derived from the processes' state (`RowLocked`, `PersonLocked`).

| Variable | Code |
|---|---|
| `name[u]` | committed `ApiUser.name`; `Spelling` are the names `check_account_name` accepts, `Unusable` the others |
| `row[r]` | credit, byline, `display_name`, `display_name_source` |
| `page[w]` | the form or GET a requester will send back |
| `draft[w]` | a request that holds the row and has not committed |
| `recheck[w]` | the `on_commit` recheck: scheduled, person read, person locked |
| `renamer[n]` | a sync or login transaction that changes an account name |
| `catchup[c]` | `sync_author_display_names --apply` |
| `missed` | history: rows whose recheck was lost, until a later write |

An account name is a pair `<<person, spelling>>`, so two people never share one:
a stricter reading than the code's strings, under which showing the previous
person's name is always visible. `Settled` is `_apply_display_name`, `Followed` is
`follow_account_name`, and each of the other rules keeps its function's name in
its comment. `AdminWrites` with no credit and no choice is also what a list edit
does to the byline of a row it reuses.

Rows exist from the start, as they were before `display_name_source` was
introduced; creating and deleting rows is Attribution's subject. A lock is taken
in the step that first relies on it. The catch-up takes its row locks together,
and the recheck takes the person's and then the row's, as two steps.

### DirectorySync

How Core API's people reach the `ApiUser` table: runs of `sync_fabric_users`, beside
logins that refresh the requester's own row.

| Variable | Code |
|---|---|
| `clock`, `latest`, `visible` | external: the time; when each record was last updated; which version of it Core API answers with |
| `user[u]` | the `ApiUser` row: `profile` are the fields both writers take from the record, `active` one of those only the sync takes, `session` is `has_logged_in` with `cilogon_id` |
| `watermark` | `TaskTimeoutTracker.value` |
| `run[r]` | a sync: `Starting` before the advisory lock, `Walking` with it (windows left, the table as read, the people of the current window) |
| `login[l]` | a refresh between its read of the row, its request and its save |
| `raced` | history: people whose row a login saved from what had changed since it read it |

| Actions | Code |
|---|---|
| `StartsIncremental`, `StartsFull`, `StartsSince` | `handle` and `_resolve_start` for each command line: the watermark and the clock are read before the lock |
| `RunLocks` | `advisory_lock`, and the read of the whole table in `_sync` |
| `RunFetches`, `RunSaves`, `RunErrs` | one window; one person created, updated or found unchanged; one row that fails |
| `RunFinishes`, `RunAborts` | the watermark; a window that cannot be read, or a killed process |
| `LoginReads`, `LoginFetches`, `LoginSaves`, `LoginEnds` | `auth_user_by_cookie` / `auth_user_by_token`, `save_refreshed_user` |

A record is identified with the time of its last update: `Synced` compares the stamps
field by field with the row the run read at its start, which is what `changed` and
`save(update_fields=...)` do when every update changes every field. An update is
stamped when it begins and is visible when it commits, at most `Overlap` later: that
is the case the comment over `WATERMARK_OVERLAP` describes. The windows' ends are
sent to Core API without their fraction of a second, the same for the end of one and
the start of the next, and the fraction is less than the overlap; the model's clock
has no fractions. Project roles change without moving a record's time, so only
`--full` sees them: they, the Scholar/Scopus pass, `--dry-run`, `--if-due` and a
missing tracker row are left out. So is the short wait for a row lock: a save is one
transaction and one step.

### Membership

The history of project memberships. The upsert (`record_memberships`) is one statement and
one operator, `Upserted`; `Records` applies it to all of a person's projects. The state
of the writers is what they read before they write: the sync's table and answer, the
login's answer, the import's two reads (`known`, `current`). `observed` is history: every
observation committed, the thing a row is supposed to summarise. Dates are days; an
import's file gives each pair its first and last day, which is all that repeated upserts
of one pair keep. `SyncWrites` skips the list, never the history, of a person whose
projects it found unchanged, as the code does.

### TokenGate

The two checks `get_api_user` makes of a bearer token, over the two `TaskTimeoutTracker`
rows that cache the revocation list and the signing keys. `trl` and `psk` are the rows,
with an age in place of a time stamp; `request[q]` is a request in one of the phases
around its two outbound calls, and carries what it read before it asked (`seen`) and what
it was answered. Nothing is locked, so the only order is that of reads and saves. Time
passes only while every request waits for an answer, and no call takes longer than
`Http`, its timeout. The manager revokes, rotates, answers, answers with an error that is
JSON, or does not answer. Ages stop at the first value nothing tells from the next. Not
modelled: the cookie path, the other claims of a token, and a signature that does not
verify (a token that names a key bears that key's signature).

### ClaimScoring and ClaimQueue

`ClaimScoring` is the arithmetic of a suggestion: a name is a sequence of tokens, a token
the words that hyphens join; `Kept` is a list comprehension, the tokens at some positions in
their order; `SurnameTokens` and `GivenTokens` are `parse_name` in both
orders, `SurnamesMatch` the gate, `GivenNamePoints` the given-name table, and `ScorePair`
the sum, in units of 1/10000 so that the code's rounding is exact. Folding of case,
accents and punctuation is taken as done; middle names are parsed by the code but compared
with nothing. `Reach` is the co-authorship graph one step deep.

`ClaimQueue` runs it: people join and leave projects and go inactive (`Observe`,
`SetActive`), rows are claimed, rejected and released, and `Run` is a scoring run, plain
or `--full`, as one action. Interleavings are Attribution's subject and scores are this
module's; approved and self-asserted claims are one status here.

### BulkIngest

A document is a shape and a sequence of items. `parses` is whether the parser took it: a JSON
body that is no list is refused whole, and BibTeX that does not parse is one failure without
an index, item 0, whatever its entries are. An item is a record, unreadable, or passed over
in silence, as a blank line of a `.jsonl` file is, or a BibTeX entry of a type the parser does
not know. `HandedOver` are those the reader makes a record or a failure of, and `Index` counts
among them.

`collect_records` is `Collects`; each record of `ingest` then asks the registry if it must
(`AsksProject`, kept in the request's memo) and fails, is created, is skipped as a
duplicate or raises, one transaction each. The worker may die between any two. `store` is
`Publication` under its two unique constraints, `authors` the publications that have
`Author` rows; single creates, edits and deletes go on beside. `Sorted` is Python's stable
sort by `_position`, which a JSON record can set itself by having a `line` key: of the
arrangements of the results, the one in the order of their positions with ties as they came
(`Arranged`, `Stably`); TLC compares arranging with a sort on small sets. The
registry may change its answer from call to call.

### RowLocks

The other modules take a transaction's locks together. This one takes them one by one, in
the order each writer's statements do, and asks whether two transactions can wait for each
other. Transactions are their lock sequences (`Orders`): an edit, which locks its row before
the rows of its list; an edit that moves the row; a list edit or a delete; a repair; a name
change; a recheck; the catch-up. What they write is left out.

### MC modules

They hold instances: model values, symmetry sets, the dumps, documents and names. For
Attribution and Repair there is also a view without `recorded`: no guard reads it, and
action properties read it only primed. The view leaves out `seen` of a torn page too, which
no guard and no property reads.

## 3. The runs

| Run | Configuration | Checks |
|---|---|---|
| `ledger` | `MCAttributionLedger` | `TypeOK`, `AttributionAccounted`, `CreditSettlesQueue`, `SuggestionsDescribeRow`, `QueuePageHolds`, `LedgerKept` (refinement), `DecisionsKept` |
| `lists` | `MCRepairLists` | `MembershipConsistent`, `OtherDecisionsKept`, `CreditLeavesByCorrection`, `PeopleCarried`, `NamesakesKeepOrder` |
| `names` | `MCDisplayNamesFollow` | `TypeOK`, `AccountNamesFollow`, `CustomNamesKept`, `NamesCatchUp` (liveness) |
| `catchup` | `MCDisplayNamesCatchup` | `AccountShowsCredited`, `CustomNamesKept` |
| `sync` | `MCDirectorySyncRuns` | `NothingSkipped`, `EveryoneArrives` (liveness) |
| `sync_logins` | `MCDirectorySyncLogins` | `TypeOK`, `NothingSkipped`, `SessionKept`, `EveryoneArrives` |
| `tokens` | `MCTokenGate` | `RevocationBinds`, `StoredListIsCurrent`, `KeysRecover` (liveness) |
| `membership` | `MCMembership` | `RowsSummarise`, `CurrentIsRecorded`, `ImportReportExact` |
| `queue` | `MCClaimQueue` | `ConflictNeedsProject`, `OwnNameQueued`, `QuietRerun`, `LeavingLowersNothing` |
| `ingest` | `MCBulkIngest` | `StoreSound`, `ReportIsWhatLanded`, `ReportInOrder`, `OneAnswerPerProject` |
| `repair_rejected` | `MCRepairRejected` | `DecisionsKept`, violated: section 6 |
| `locks` | `MCRowLocks` | `NoWaitCycle`, violated: section 6 |

Bounds.

* `ledger` has one author row that can be on either of two publications under
  either of two bylines, two people, one edit, one queue page and one scoring run:
  every race is about one row, and needs a second person only for a rival credit
  or suggestion, a second byline and publication for a stale one. Three claim keys are
  two suggestions and the key a page holds of one that was withdrawn. One suggestion per author
  and run makes the cut-off bite with two people; two suggestions for one row still stand
  together after a run that dies before it withdraws the stale one.
* `lists` has three rows over two lists of at most two, so that a list edit or a repair can
  keep, reuse, insert or delete a row while another list holds one; two bylines make
  repeated names the usual case, on one list or on both sides of an edit; two requests in flight are what it takes for a row to
  move under one of them; one person can be credited on several rows. Longer lists are
  left to the proofs of `MembershipConsistent` and `NamesakesKeepOrder`, which bound nothing.
* `names` has two requests and one name change over two spellings of one person's name, so
  that a credit, a second credit and a change can overlap; `catchup` trades the second
  request for the command, and has a second person, an unusable name and a second byline.
* `sync` has two runs, one of which may hold what it read before the other had the lock, a
  backfill of two windows and one failure anywhere; `sync_logins` trades the second run
  for a login. People do not interact in the sync except that one person's failure holds
  the watermark back for all, which one person shows as well. Three ticks are a record
  updated, a run that reads it, and a run whose window begins after it.
* `tokens` has two requests, two tokens with a key each, of which one may be revoked, and
  every timeout at one tick, the least that has a before and an after: answers one call old
  and a cache one timeout old exist, in either order.
* `membership` has one person (pairs of two people share nothing but the import, which
  treats them alike), two projects, two dumps, older and newer than what the other writers
  record, and no more writes once there are four different observations: enough for all
  three sources on one pair in any order.
* `queue` has two papers of two rows, one with a project, and two people who share a
  surname component and nothing else that is certain: one printed with an initial, one
  with a suffix. That is the least in which somebody is reached through a co-author.
* `ingest` has eight documents: a duplicate inside, unreadable items and items passed over,
  an invalid record, projects named rightly, wrongly and not at all, records that number
  themselves, one over the cap, BibTeX and JSON that do not parse; two uploads, so that they
  race, and one single create.

`MaxClock`, `MaxFailures`, `MaxObserved`, `MaxDecided`, `MaxDate` and `Revocable` are the
bounds on behaviour; elsewhere no run bounds the number of transactions: the state spaces
are finite and explored to the end. Deadlock is checked but in `ingest`, where everything
may have been uploaded, and in `locks`, where it is the subject.

Fairness in `names` (`FairSpec`). A transaction in progress ends by commit or
abort (weak), a committed request goes on to its recheck (weak), and a recheck that
waits for a lock which keeps being released gets it (strong: PostgreSQL queues lock
requests). Nothing says that a request is ever made or a name changed. The recheck
takes its two locks one after the other; as a single step that wants both free at
once it could be overtaken for ever by requests and name changes in turn, which is
not how the code waits.

In `sync` and `sync_logins`: time passes, Core API commits an update it has
begun, cron starts an incremental run again and again, and a run that is not killed
goes on. Failures are finitely many, any `MaxFailures` of them; nothing says that a
full run or a login ever happens. `EveryoneArrives` further assumes that logins cease:
a row that keeps being saved by logins is theirs.

In `tokens`: time goes on. That implies that a call in progress ends, by its timeout, and
nothing about what is answered. `KeysRecover` assumes that from some time on the manager
answers with its keys and goes on publishing the token's; it holds although other tokens
may keep naming keys nobody has, and use up the refetch allowance.

The conclusions of `names` except rows in `missed`: the recheck is
not persistent, and a process that dies between the commit and the recheck leaves
the old name. The property says exactly when that excuse applies and when it ends.
`AccountNamesFollow` is checked without the catch-up command, see section 6.

## 4. What is proved

For every value of the constants, under the modules' named assumptions (bounds are
naturals, the values that stand for something absent are not that thing, a dump is a
finite set of dates, the people on record are finite and their uuids ordered, a name is
three sequences of tokens), which TLC evaluates on the instances:

| Theorem | Module | Says |
|---|---|---|
| `TypeCorrect` (`TypeOK`) | `AttributionProofs` | Every reachable state is well typed, for any number of publications, rows, people and processes; author_order in particular never leaves the naturals. |
| `MembershipAlwaysConsistent` (`MembershipConsistent`) | `AttributionProofs` | Author lists, publication_uuid and author_order agree after every transaction, for lists of any length and any number of concurrent edits. |
| `AttributionAlwaysAccounted` (`AttributionAccounted`) | `AttributionProofs` | Every credit has an approved or self-asserted claim behind it, whichever path wrote it. |
| `CreditAlwaysSettlesQueue` (`CreditSettlesQueue`) | `AttributionProofs` | No credited row has a standing suggestion, whatever scoring runs are in progress. |
| `SuggestionsAlwaysDescribeRow` (`SuggestionsDescribeRow`) | `AttributionProofs` | Every standing suggestion was computed from the byline and publication its row has now. |
| `QueuePageAlwaysHolds` (`QueuePageHolds`) | `AttributionProofs` | A suggestion that a queue page can still decide has the score and reasons the page shows, computed for the byline and publication its row has now; these are also the ones shown, unless the row was renamed or moved between the page's own two queries: for any number of pages, scoring runs and edits. |
| `ImplementsLedger` (`LedgerKept`) | `AttributionProofs` | Attribution implements the abstract Ledger: every step of every writer is a step of the ledger or leaves it alone. |
| `DecisionsAlwaysKept` (`DecisionsKept`) | `AttributionProofs` | No decision on a pair is lost or replaced but in a step that records a correction with it (without the repair). |
| `CreditAlwaysLeavesByCorrection` (`CreditLeavesByCorrection`) | `AttributionProofs` | A credit is taken away or moved only in a step that records a correction. |
| `RowsAlwaysSummarise` (`RowsSummarise`) | `MembershipProofs` | A membership row is the earliest and the latest of the observations of its pair in whatever order they came, for any number of people, projects, logins and observations. |
| `CurrentAlwaysRecorded` (`CurrentIsRecorded`) | `MembershipProofs` | Every current membership is in the history, however the writers interleave. |
| `ImportReportAlwaysExact` (`ImportReportExact`) | `MembershipProofs` | An import that is applied reports exactly the rows it added, although it decided on reads made before its transaction. |
| `GateTypeCorrect` | `TokenGateProofs` | The state of the token gate is always well typed: caches, ages and requests stay in their ranges. |
| `RevocationAlwaysBinds` (`RevocationBinds`) | `TokenGateProofs` | For any timeouts and any number of requests and tokens, a token revoked for longer than the cache's timeout and one call's is admitted only by a request whose own refresh failed. |
| `StoredListAlwaysCurrent` (`StoredListIsCurrent`) | `TokenGateProofs` | Whatever order answers arrive in, a list that is stored has every token that was revoked before the last call began. |
| `NamesTypeCorrect` (`TypeOK`) | `DisplayNamesProofs` | Rows, drafts, rechecks, name changes and runs of the catch-up command are well typed in every reachable state. |
| `AccountAlwaysShowsCredited` (`AccountShowsCredited`) | `DisplayNamesProofs` | A row on an account name shows one of the person it credits now, for any number of rows, people, requests, name changes and runs of the command. |
| `CustomNamesAlwaysKept` (`CustomNamesKept`) | `DisplayNamesProofs` | A typed name is replaced only by the commit of a request that asked for another or removed the credit. |
| `AccountNamesAlwaysFollow` (`AccountNamesFollow`) | `DisplayNamesProofs` | Without the catch-up command, a row on its person's account name shows the current one unless a recheck of it is still to come or was lost, through any race of credits and name changes. |
| `SyncTypeCorrect` (`TypeOK`) | `DirectorySyncProofs` | Runs, logins, rows and the watermark are well typed in every reachable state, whatever the arguments of --since. |
| `SessionAlwaysKept` (`SessionKept`) | `DirectorySyncProofs` | The sync never deletes the row of somebody who has logged in nor takes away what the login wrote, although it saves from rows it read before. |
| `NothingAlwaysSkipped` (`NothingSkipped`) | `DirectorySyncProofs` | Without --since, nobody whose record was last updated before the watermark is missing from the table, but for what a login overwrote, for any number of runs that overlap, fail or are killed, and any window and overlap. |
| `RepairedListsConsistent` (`MembershipConsistent`) | `RepairProofs` | Author lists, publication_uuid and author_order agree after every transaction also when repairs of any plan run beside all other writers. |
| `OtherDecisionsAlwaysKept` (`OtherDecisionsKept`) | `RepairProofs` | Repairs included, no decision is lost or replaced without a correction, but for the one case the run repair_rejected shows: a rejection of the very person the row is credited to. |
| `RepairedCreditLeavesByCorrection` (`CreditLeavesByCorrection`) | `RepairProofs` | Repairs included, a credit is taken away or moved only in a step that records a correction. |
| `PeopleAlwaysCarried` (`PeopleCarried`) | `RepairProofs` | Neither a new list of names nor a repair takes anybody off a publication, for any lists, plans and people. |
| `NamesakesAlwaysKeepOrder` (`NamesakesKeepOrder`) | `RepairProofs` | Neither a new list of names nor a repair lets one of two rows of the same byline on a publication pass the other, for lists of any length. |
| `IngestInvariant` | `BulkIngestProofs` | The inductive invariant of uploads: what the store, the requests and the records a request has left have to do with each other at every step. |
| `StoreStaysSound` (`StoreSound`) | `BulkIngestProofs` | No two publications share title and link, and no author row is without its publication, however uploads, creates, edits, deletes and deaths of workers meet. |
| `ReportsWhatLanded` (`ReportIsWhatLanded`) | `BulkIngestProofs` | An answer has one entry for each item the reader handed over, record or failure (an unparsable BibTeX document is one failure), and its created entries are the publications this request stored, for documents of any length. |
| `ReportsInOrder` (`ReportInOrder`) | `BulkIngestProofs` | Unless its records number themselves, an upload gets its report, in the order of the document. |
| `OneAnswerKept` (`OneAnswerPerProject`) | `BulkIngestProofs` | A request asks about a project once and stores its records under what it was told, whatever the registry answers later. |
| `QueueInvariant` | `ClaimQueueProofs` | Until something else is written, the queue is what the last scoring run would make of the evidence again. |
| `RerunIsQuiet` (`QuietRerun`) | `ClaimQueueProofs` | A second run with nothing changed in between writes nothing, for any names, papers and people. |
| `LeavingIsFree` (`LeavingLowersNothing`) | `ClaimQueueProofs` | A step that changes only what people are observed on lowers no score. |
| `ConflictsNeedProject` (`ConflictNeedsProject`) | `ClaimQueueProofs` | Whatever the co-authorships and identifiers, a person whose given name contradicts the byline is queued only if they were on the paper's project. |
| `OwnNameAlwaysQueued` (`OwnNameQueued`) | `ClaimQueueProofs` | A row printed with a person's full name in either order is decided or queued for them after a run, or others took the places: for names of any number of tokens, hyphens, particles and suffixes, and any number of people. |

**Attribution, types and lists.** `TypeOK` alone is not inductive: `Renumber` writes a
position into `author_order` only of rows that exist, so it needs the lists to name
live rows, which is `MembershipConsistent`. `MembershipConsistent` in turn needs that a
list names no row twice, which follows from `author_order`: two positions would be
one. So `ListInv` is both, and that claims belong to live rows, without which a fresh
row could be born with claims. The proof first establishes what each list operator does to
one list (`WithoutRow`, `PlacedRow`, `RenumberedRows`), then what a saved, written or
deleted row does to the agreement of lists and rows (`SavedRow`, `WrittenList`,
`DeletedRow`, `DeletedRows`), and then takes the actions one by one.

**Attribution, the ledger.** `LedgerInv` is `ListInv` with the three ledger properties,
stated of an author table and a claims table (`LedgerSound`), so that the effect of each
ledger verb is a lemma about a pair of tables (`WithdrawnClaims`, `RecordedClaims`,
`DecidedClaims`, `CascadedClaims`). What makes it inductive for the scorer is that
`persist_suggestion` reads the row and the pair again under the row's lock: nothing
about what the run read earlier is needed. `QueuePageHolds` needs to be strengthened to
what a page's key means: as long as the claim with that key is a suggestion of that pair,
the row is what the suggestion on the page was scored for (`PagesHold`); every writer that
renames or moves a row withdraws its suggestions, and a key that a page still holds is not
given out again. What the page shows of the author is the same thing unless the page is torn
(`PagesWhole`).

**Attribution implements Ledger.** For every action, each row either grows or its snapshot
is recorded (`Kept`), which only needs `ListInv` of the state before, but for a credited row
whose claim is a rejection (`Doubtful`), which `LedgerInv` excludes; with
`AttributionAccounted` of the state after, that is a step of `Ledger`. `DecisionsKept` and
`CreditLeavesByCorrection` are read off the same lemmas.

**Repair.** The ledger properties do not all survive a repair (section 6), so what is proved
of `RepairSpec` rests on `ListInv` alone. A repair keeps it because the slots it fills are a
list without repetition and every row it drops held nothing decided. Its claims move between
the rows of one publication, and each row it touches is either unchanged or in the snapshot of
what it was: that is what the loop over `before` and `after` in the code is for, and what
`OtherDecisionsKept` and `CreditLeavesByCorrection` need. The one row that can lose a decision
unrecorded is one whose rejection contradicts its credit (`Contradicted`); it cannot arise
without a repair, which is why `DecisionsKept` is a theorem of `Spec` and a violation of
`RepairSpec`. Which slot a person has before and after (`SlotIn`, the last one) and which
stray claim is moved (the one with the least key) are choices whose witnesses are shown to
exist as well-founded minima. For `PeopleCarried`, a list edit may neither rename nor delete a
row with history, hence none with a credit, and a repair ends with its own check that the
credits are the plan's, whose people are those of the list before.

`NamesakesKeepOrder` is proved with the same invariant, of the position a row has in its list
before and after. A list edit pairs the k-th use of a name with the k-th row that bears it,
and of two uses the later has the higher number (`LaterUse`), so matched namesakes keep their
order. A left-over row is never re-used under the name it has (`ReusedRenames`): were the name
open on both sides, the one with the lower number would have found its match, since a name
used k times has a j-th use for every smaller j (`NthUse`). A repair's slots are the old
ones, and an author created in between moves those behind it by one.

**Membership.** `MembershipInv` adds that every pair the import or the sync has read as
present is still in the table (`ReadsRecorded`): rows are never deleted, which is why an
import whose inserted count equals the count it expected inserted exactly the rows it
expected; that step is an argument about cardinalities of finite sets.

**TokenGate.** `GateInv` bounds what each answer on its way can be missing
(`AnswersCurrent`): a token revoked for longer than the request has been waiting is in it.
Hence a stored list is missing only tokens revoked within its age and one call
(`ListCurrent`), whatever order answers were stored in.

**DisplayNames.** `NamesInv` is the types, the soundness of every row and of every draft
that will become one, and what the locks exclude: one draft per row, no draft of a row the
command holds, one name change per person, and none while a recheck holds that person.
Each naming rule is a lemma about one row (`SettledSound`, `FollowedSound`), each kind of
step a lemma about the row it writes. A draft keeps a typed name or was asked not to
(`KeepsTyped`), which survives until the commit because the row is locked.
`AccountNamesFollow` needs one thing more (`FollowRow`): a name change in progress has
listed every row that follows the name, or a recheck waits that will see to the row. It is
proved for `Catchup = {}`, the assumption of the theorem; with the command it does not
hold (section 6).

**DirectorySync.** Type correctness needs one fact about data: a row that a run has read is
still there when the run saves it (`RowsStay`). `NothingSkipped` speaks of the watermark
only, but a run may start from a watermark that has since been replaced, so `SyncInv` says
of every mark a run may start from what `NothingSkipped` says of the watermark, and that
everything before it has been published (`MarksSafe`; `ClockSound` is where `Overlap`
enters). A walk without errors has saved everybody before its next mark or has them in a
window to come (`WalkCovers`; that the windows leave no gap is `WindowsCover`, about
remainders of integers). What the run knows of a row is still so where it matters
(`ReadsHold`, needs one walk at a time, the advisory lock), and a record that changed
after the run fetched it is ahead of every mark (`StaleAhead`), so writing the older version
harms nothing that was promised. Each action is a lemma; the two ways a person is
processed share `ProcessedKeeps`. The theorem assumes `SinceDates \subseteq {Earliest}`:
a later `--since` breaks it (section 6).

**BulkIngest.** `IngestInv` says of every request, at every record, which of the items handed
over have an entry in its results (`Halfway`, `Complete`), that those created are what it stored (`Landing`),
and that the memo is what it was told (`Asking`, `AsTold`); strangers' creates, edits and
deletes keep all of it (`StrangersKeep`). A create is refused or finds its key free, which is
`StoreSound`. The entries of a document whose records do not number themselves have distinct
positions, and results sorted by them are in the order of the document: two results out of
order would contradict the arrangement. That an arrangement exists is not induction over the
list but a least counterexample.

**ClaimQueue.** `QueueInv` is that until something else is written, the queue is what the last
run would make of it again (`Settles`), and that the history covers the current projects.
The first needs that a run decides nothing, so that the ranking before and after it is the
same; it gives `QuietRerun` at once, and lets every property of the queue be argued from one
ranking. `ConflictNeedsProject` is then arithmetic over the weights. `OwnNameQueued` is an
argument about names: dropping the suffixes of a full name leaves its given and family
names (`IdentityOfPrefix`, `DirectTokens`), the particles before the last token do not run
into a given name that is not a particle (`SurnameAfterGiven`), so both orders read as the
same first given name and share the last token of the family name (`NameRead`), which scores
3600 of the 2400 needed. Whoever is a candidate and not on the list is behind
`MaxSuggestions` others (`ListIsFull`): of the candidates left out, the one with the fewest
ahead has all of those on the list.

All safety properties that the passing runs check are proved. Only model-checked are
`NamesCatchUp`, `EveryoneArrives` and `KeysRecover`, which need fairness (fairness and
ENABLED are outside the prover's reach). Proved without the repair only: the properties of
the ledger and the queue page, of which `AttributionAccounted`, `CreditSettlesQueue` and
`DecisionsKept` fail with it.

## 5. Mutations

Beside the definition it concerns, a module holds the plausible mistakes that would break
a property (marked "Slip"): the queue finding a suggestion by pair instead of key,
the scorer trusting an old credit, a list edit forgetting decisions, the recheck run inside
the transaction it should follow, a revocation list that fails open, a history that follows
the current list. `PROJECT.json` pairs each property of each passing run with one, and TLC
finds the property violated under it.

## 6. Findings

* `repair_rejected`: when a repair credits a person on a slot, it moves the oldest decided
  claim they have elsewhere on the publication onto it, a rejection too. If that rejection is
  older than the claim behind their credit, and the slot is new, the row is credited to
  somebody whose claim on it is rejected. When they save that row, `record_self_claim` turns
  the rejection into a self-assertion, and since the credit has not changed no correction is
  recorded (`author_mutations.py:221`), although the comment there says "Keep the prior
  decision if recording this claim supersedes it". `OtherDecisionsKept` is `DecisionsKept` but
  for that row, and holds.
* `locks`: a name change locks the rows of its person in primary-key order and its
  documentation says every other author writer does (`display_names.py:14-15`). An edit of
  an author locks that row first (`author_mutations.py:144`) and the rows of its list after
  it, in list order, when `_save_membership` updates them (`:123-124`). Somebody who edits the
  second author of a list waits for the first, which a name change of both may have locked
  while it waits for the second. No list need be out of key order for that: those of the
  run are in it. PostgreSQL aborts one: an error to a request, or a failed row in a sync.

Known limits of the code that the modules show and no run above is about. Either the instances
of the passing runs leave the case out or the property named excepts it:

* a login saves every field of the row it read before its request to Core API, `active`
  among them, so a deactivation the sync wrote meanwhile is undone until a later run reads
  the person (`fabric_auth.py:271`); the properties of DirectorySync except the people this
  has happened to (`raced`), until then;
* a queue page reads its authors before their suggestions, in separate statements of no
  transaction (`views.py:355-378`): a row that is renamed and scored again in between stands
  there under its old byline with a suggestion computed for the new one, which can be
  decided. `QueuePageHolds` then promises only that the suggestion is about the row as it is
  (`torn`);
* "every record is reported on" (`bulk_ingest.py:11-13`) holds of what the BibTeX reader hands
  over: a document that does not parse, one undefined macro being enough, is one failure for
  all its entries (`bibtex_utils.py:245`), and an entry of a type the parser does not know is
  in no report (`:49`, its default). `ReportIsWhatLanded` is about `HandedOver`;
* a run with `--since` later than the watermark moves the watermark past people no run has
  read (`sync_fabric_users.py:382`); the instances have `SinceDates = {0}`;
* the catch-up locks the people credited when its first statement starts; somebody credited
  after it whose name changes before it commits is left on the old name with no recheck to
  come (`sync_author_display_names.py:96`); `AccountNamesFollow` is checked with
  `Catchup = {}`;
* a PUT that echoes a GET pins the name it shows when the account name changed in between
  (`author_mutations.py:95`, action `EchoWrites`);
* the scorer reads authors with `fabric_uuid IS NULL`, so an author cleared with `''` is
  not scored again (`score_author_claims.py:165`); `Unclaimed` has both values in the
  module, one in the instances;
* an approved row lifts its co-authors by `WEIGHT_PROPAGATION`, which together with a bare
  surname is enough for the queue (1260 + 1500 over a threshold of 2400);
  `ConflictNeedsProject` is about given names that contradict each other;
* a first given name the directory has as an initial scores 1620 against itself, less than
  the threshold: `OwnNameQueued` excepts it, and names of which another part than the suffix
  reads as a suffix (`FullName`);
* `da Silva` and `da Costa` pass the surname gate, having the particle in common
  (`name_matching.py:98-113`); a given name that is a particle is read as part of the
  surname, the exception `OwnNameQueued` states;
* the candidates of an author are cut to five before decided pairs are skipped
  (`score_author_claims.py:266`), the other exception it states;
* a JSON record with a `line` of its own is sorted by it, and if that is text beside numbers
  the sort raises after the records were stored, so there is no report
  (`bulk_ingest.py:239`); `ReportInOrder` excepts such documents;
* a repair that credits a row leaves other people's suggestions on it
  (`repair_author_records.py:324`), which every other writer of a credit withdraws:
  `CreditSettlesQueue` is checked without the repair.

## 7. Not modelled, and what is left

* Presentation: templates, search, pagination, serializers' field validation, settings,
  middleware, containers; nothing there changes the state the properties are about.
* Text handling: BibTeX parsing, accent folding, `check_account_name`'s rules. They are
  the classes of inputs they sort into (parsed or not, an item read, unreadable or passed
  over; equal or not, usable or not).
* `--dry-run`, reports, `--if-due`, the Scholar/Scopus pass: they read, or write fields
  nothing else depends on.
* Data migrations other than the one that seeds the history: each runs once, alone.

What would come next, in order: `SuggestionsDescribeRow` and `QueuePageHolds` beside repairs,
checked and proved; that locking rows in one order excludes every cycle, as a theorem of
RowLocks; the sync's cadence.
