----------------------------- MODULE Membership -----------------------------
(***************************************************************************)
(* The history of project memberships beside the current list on each      *)
(* ApiUser row, under its three writers: the directory sync, the login     *)
(* refresh and the import of old dumps.                                    *)
(*                                                                         *)
(* The upsert is one statement, and a writer's transaction locks every     *)
(* history row it touches, so transactions are actions.  What each writer  *)
(* reads before its transaction is state: the sync's copy of the table,    *)
(* the login's answer from Core API, the import's two reads.               *)
(***************************************************************************)
EXTENDS Integers, FiniteSets

CONSTANTS
  Person,      \* ApiUser rows
  Project,
  Login,       \* login refreshes in flight
  File,        \* dumps: File # {}, each gives every pair its dates, or Null
  MaxDate,     \* bound on the clock
  MaxObserved, \* no more is written after that many different observations
  Null

Pair == Person \X Project
Source == {"seed", "sync", "login"}

\* A dump lists a pair on some days; only its first and its last day there matter.  It
\* is a finite file.
ASSUME Dumps ==
  /\ MaxDate \in Nat /\ MaxObserved \in Nat
  /\ File \subseteq [Pair -> {Null} \cup [from : Int, to : Int]]
  /\ \A f \in File, k \in Pair : f[k] # Null => f[k].from <= f[k].to
  /\ \A f \in File : IsFiniteSet({k \in Pair : f[k] # Null})
  /\ Null \notin [from : Int, to : Int]
  /\ Null \notin [first : Int, last : Int, source : Source]

VARIABLES
  now,       \* the clock
  projects,  \* projects[u]: ApiUser.projects
  row,       \* row[<<u, g>>]: the ApiUserProjectMembership row of the pair, or Null
  observed,  \* every observation committed so far
  sync,      \* the running directory sync: its start, the table it read, the answer
  login,     \* login[l]: whose login it is and what Core API answered
  import,    \* the running import: its stage, file, and what it has read
  report     \* what the last import said it added

vars == <<now, projects, row, observed, sync, login, import, report>>

Lists    == [Person -> SUBSET Project]
Row      == [first : Int, last : Int, source : Source]
Observation == [pair : Pair, date : Int, source : Source]
Resting  == [stage |-> "idle"]
NoReport == [new |-> {}, former |-> {}]

TypeOK ==
  /\ now \in Nat
  /\ projects \in Lists
  /\ row \in [Pair -> {Null} \cup Row]
  /\ observed \subseteq Observation
  /\ sync \in {Resting} \cup [stage : {"read"}, at : Nat, table : Lists]
              \cup [stage : {"answered"}, at : Nat, table : Lists, answer : Lists]
  /\ login \in [Login -> {Resting} \cup [stage : {"answered"}, person : Person,
                                         answer : SUBSET Project]]
  /\ import \in {Resting} \cup [stage : {"users"}, current : Lists]
                \cup [stage : {"known"}, current : Lists, known : SUBSET Pair]
  /\ report \in [new : SUBSET Pair, former : SUBSET Pair]

Room == Cardinality(observed) < MaxObserved
Current(lists) == {k \in Pair : k[2] \in lists[k[1]]}

-----------------------------------------------------------------------------
(* record_memberships *)

\* Slip: the incoming source always wins.
UpsertedSource(r, date, source) ==
  IF r = Null THEN [first |-> date, last |-> date, source |-> source]
  ELSE [first |-> IF date < r.first THEN date ELSE r.first,
        last |-> IF date > r.last THEN date ELSE r.last,
        source |-> source]

\* One observation of a pair: the earliest date and who supplied it, the latest date.
Upserted(r, date, source) ==
  IF r = Null THEN [first |-> date, last |-> date, source |-> source]
  ELSE [first |-> IF date < r.first THEN date ELSE r.first,
        last |-> IF date > r.last THEN date ELSE r.last,
        source |-> IF date < r.first THEN source ELSE r.source]

\* All of a person's current projects at once; an empty list writes nothing.
Records(u, list, date, source) ==
  /\ row' = [k \in Pair |-> IF k[1] = u /\ k[2] \in list
                            THEN Upserted(row[k], date, source) ELSE row[k]]
  /\ observed' = observed \cup {[pair |-> <<u, g>>, date |-> date, source |-> source] :
                                  g \in list}

\* Migration 0006 seeds the history with every current membership.
Init ==
  /\ now = 0
  /\ projects \in Lists
  /\ row = [k \in Pair |-> IF k \in Current(projects)
                           THEN Upserted(Null, 0, "seed") ELSE Null]
  /\ observed = {[pair |-> k, date |-> 0, source |-> "seed"] : k \in Current(projects)}
  /\ sync = Resting
  /\ login = [l \in Login |-> Resting]
  /\ import = Resting
  /\ report = NoReport

-----------------------------------------------------------------------------
Tick ==
  /\ now < MaxDate
  /\ now' = now + 1
  /\ UNCHANGED <<projects, row, observed, sync, login, import, report>>

-----------------------------------------------------------------------------
(* sync_fabric_users: one run at a time, under the advisory lock *)

SyncStarts ==
  /\ sync = Resting
  /\ sync' = [stage |-> "read", at |-> now, table |-> projects]
  /\ UNCHANGED <<now, projects, row, observed, login, import, report>>

\* Core API answers with whatever it has.
SyncFetches(answer) ==
  /\ sync.stage = "read"
  /\ sync' = [stage |-> "answered", at |-> sync.at, table |-> sync.table,
              answer |-> answer]
  /\ UNCHANGED <<now, projects, row, observed, login, import, report>>

\* One person: the list is written only if it differs from the one read at the start,
\* and recorded in any case, dated when the run started.
SyncWrites(u) ==
  LET list == sync.answer[u]
  IN /\ sync.stage = "answered" /\ Room
     /\ projects' = IF list = sync.table[u] THEN projects
                    ELSE [projects EXCEPT ![u] = list]
     /\ Records(u, list, sync.at, "sync")
     /\ UNCHANGED <<now, sync, login, import, report>>

\* The run is over, fails or is killed; people not reached stay as they were.
SyncEnds ==
  /\ sync.stage # "idle"
  /\ sync' = Resting
  /\ UNCHANGED <<now, projects, row, observed, login, import, report>>

-----------------------------------------------------------------------------
(* auth_user_by_token / _by_cookie, then save_refreshed_user *)

LoginAsks(l, u, answer) ==
  /\ login[l] = Resting
  /\ login' = [login EXCEPT ![l] = [stage |-> "answered", person |-> u,
                                    answer |-> answer]]
  /\ UNCHANGED <<now, projects, row, observed, sync, import, report>>

\* Slip: the list is saved and left to the nightly sync to record.
LoginSavesOnly(l) ==
  /\ login[l] # Resting /\ Room
  /\ projects' = [projects EXCEPT ![login[l].person] = login[l].answer]
  /\ login' = [login EXCEPT ![l] = Resting]
  /\ UNCHANGED <<now, row, observed, sync, import, report>>

\* The whole row is saved and its projects recorded, dated at the save.
LoginSaves(l) ==
  /\ login[l] # Resting /\ Room
  /\ projects' = [projects EXCEPT ![login[l].person] = login[l].answer]
  /\ Records(login[l].person, login[l].answer, now, "login")
  /\ login' = [login EXCEPT ![l] = Resting]
  /\ UNCHANGED <<now, sync, import, report>>

LoginFails(l) ==
  /\ login[l] # Resting
  /\ login' = [login EXCEPT ![l] = Resting]
  /\ UNCHANGED <<now, projects, row, observed, sync, import, report>>

-----------------------------------------------------------------------------
(* import_project_memberships *)

ImportReadsUsers ==
  /\ import = Resting
  /\ import' = [stage |-> "users", current |-> projects]
  /\ report' = NoReport
  /\ UNCHANGED <<now, projects, row, observed, sync, login>>

ImportReadsKnown ==
  /\ import.stage = "users"
  /\ import' = [stage |-> "known", current |-> import.current,
                known |-> {k \in Pair : row[k] # Null}]
  /\ UNCHANGED <<now, projects, row, observed, sync, login, report>>

Mentions(file)  == {k \in Pair : file[k] # Null}
New(file)       == Mentions(file) \ import.known
Inserted(file)  == {k \in Mentions(file) : row[k] = Null}

\* Slip: the two counts are not compared.
AnyCount(file) == TRUE

\* "inserted N row(s) but expected M; rolled back".
CountsAgree(file) == Cardinality(Inserted(file)) = Cardinality(New(file))

ImportApplies(file) ==
  /\ import.stage = "known" /\ Room
  /\ CountsAgree(file)
  /\ row' = [k \in Pair |->
               IF file[k] = Null THEN row[k]
               ELSE Upserted(Upserted(row[k], file[k].from, "seed"), file[k].to, "seed")]
  /\ observed' = observed
       \cup {[pair |-> k, date |-> file[k].from, source |-> "seed"] : k \in Mentions(file)}
       \cup {[pair |-> k, date |-> file[k].to, source |-> "seed"] : k \in Mentions(file)}
  /\ report' = [new |-> New(file), former |-> New(file) \ Current(import.current)]
  /\ import' = Resting
  /\ UNCHANGED <<now, projects, sync, login>>

\* A dry run, a bad file, a count that disagrees, a crash: everything is rolled back.
ImportRollsBack ==
  /\ import # Resting
  /\ import' = Resting
  /\ UNCHANGED <<now, projects, row, observed, sync, login, report>>

-----------------------------------------------------------------------------

Next ==
  \/ Tick
  \/ SyncStarts
  \/ \E answer \in Lists : SyncFetches(answer)
  \/ \E u \in Person : SyncWrites(u)
  \/ SyncEnds
  \/ \E l \in Login, u \in Person, answer \in SUBSET Project : LoginAsks(l, u, answer)
  \/ \E l \in Login : LoginSaves(l)
  \/ \E l \in Login : LoginFails(l)
  \/ ImportReadsUsers
  \/ ImportReadsKnown
  \/ \E file \in File : ImportApplies(file)
  \/ ImportRollsBack

Spec == Init /\ [][Next]_vars

-----------------------------------------------------------------------------
(* Properties *)

\* A row is the summary of what was observed of its pair, whatever the order it came
\* in: the earliest date, the latest one, and somebody who supplied the earliest.
RowsSummarise ==
  \A k \in Pair :
    LET seen == {o \in observed : o.pair = k}
    IN IF row[k] = Null THEN seen = {}
       ELSE /\ \A o \in seen : row[k].first <= o.date /\ o.date <= row[k].last
            /\ \E o \in seen : o.date = row[k].first /\ o.source = row[k].source
            /\ \E o \in seen : o.date = row[k].last

\* History never trails the row it describes: every project on an ApiUser row is in the
\* history, however sync, logins and imports interleave.  Scoring relies on it when a
\* membership is later removed.
CurrentIsRecorded == \A k \in Current(projects) : row[k] # Null

\* An import that is applied reports exactly what it added: the pairs it calls new are
\* the ones that were not in the history, and the ones it calls not current are not on
\* an ApiUser row at that moment, although both were read before its transaction.
ImportReportExact ==
  [][report' \notin {report, NoReport} =>
       /\ report'.new = {k \in Pair : row[k] = Null /\ row'[k] # Null}
       /\ report'.former = {k \in report'.new : k \notin Current(projects)}]_vars

=============================================================================
