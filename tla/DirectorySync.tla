--------------------------- MODULE DirectorySync ---------------------------
(***************************************************************************)
(* How the people of Core API reach the ApiUser table: runs of             *)
(* sync_fabric_users, which read the records updated in a range of time    *)
(* and remember in a watermark how far they got, and logins, which fetch   *)
(* their own record and save the whole row.                                *)
(*                                                                         *)
(* A record's content is identified by the time of its last update, and    *)
(* any two versions differ in every field; what changes without moving     *)
(* that time (project roles) is only ever read by --full and is left out.  *)
(* A request to Core API, a saved person and a lock are steps of their     *)
(* own; so is the reading of the watermark and the clock, which a run does *)
(* before it has the advisory lock.                                        *)
(***************************************************************************)
EXTENDS Integers, FiniteSets

CONSTANTS
  Person,       \* fabric_uuid values
  Run,          \* sync_fabric_users processes
  Login,        \* requests that refresh the requester's row
  SinceDates,   \* arguments of --since
  Earliest,     \* FULL_SYNC_EARLIEST, before any record
  Overlap,      \* WATERMARK_OVERLAP
  Width,        \* JOURNEY_TRACKER_MAX_WINDOW_DAYS
  MaxClock,     \* bound on time
  MaxFailures,  \* bound on failed requests, failed rows and killed runs
  None,         \* no watermark, nothing fetched, a value nobody has written
  NoRow,        \* no ApiUser row
  Idle

VARIABLES
  clock,      \* the present
  latest,     \* latest[u]: when the record of u was last updated
  visible,    \* visible[u]: that of the version Core API answers with
  user,       \* user[u]: the ApiUser row of u
  watermark,  \* TaskTimeoutTracker.value
  run,        \* run[r]: a sync in progress
  login,      \* login[l]: a login in progress
  failures,   \* how many of MaxFailures have happened
  raced       \* people whose row a login saved from what had changed since it read it

vars == <<clock, latest, visible, user, watermark, run, login, failures, raced>>

-----------------------------------------------------------------------------
(* Types *)

Time  == Earliest..MaxClock
Stamp == Time \cup {None}
Mark  == (Earliest - Overlap)..MaxClock  \* where a run may start
Window == Mark \X Time

\* profile: the fields both writers take from the record.  active: one of those only the
\* sync does; None is the model's default.  session: cilogon_id and has_logged_in.
UserRow == [profile : Time, active : Stamp, session : BOOLEAN]
Row == UserRow \cup {NoRow}

Starting == [start : Mark, now : Time, newest : BOOLEAN]
Walking  == [now : Time, newest : BOOLEAN, left : SUBSET Window,
             existing : [Person -> Row], people : SUBSET (Person \X Time),
             seen : SUBSET Person, errors : BOOLEAN]

LoginState == [person : Person, read : Row, fetched : Stamp]

ASSUME Bounds ==
  /\ Earliest \in Int /\ MaxClock \in Int /\ Earliest <= MaxClock
  /\ Overlap \in Nat /\ MaxFailures \in Nat
  /\ Width \in Nat \ {0}
  /\ SinceDates \subseteq Time

ASSUME Absent ==
  /\ None \notin Int
  /\ NoRow \notin UserRow
  /\ Idle \notin Starting /\ Idle \notin Walking /\ Idle \notin LoginState

TypeOK ==
  /\ clock \in Time
  /\ latest \in [Person -> Time]
  /\ visible \in [Person -> Time]
  /\ user \in [Person -> Row]
  /\ watermark \in Mark \cup {None}
  /\ run \in [Run -> Starting \cup Walking \cup {Idle}]
  /\ login \in [Login -> LoginState \cup {Idle}]
  /\ failures \in 0..MaxFailures
  /\ raced \subseteq Person

Init ==
  /\ clock = Earliest
  /\ latest = [u \in Person |-> Earliest]
  /\ visible = latest
  /\ user = [u \in Person |-> NoRow]
  /\ watermark = None
  /\ run = [r \in Run |-> Idle]
  /\ login = [l \in Login |-> Idle]
  /\ failures = 0
  /\ raced = {}

-----------------------------------------------------------------------------
(* Core API.  A record carries the time its update began, and is answered with once the  *)
(* update has committed, at most Overlap later.                                          *)

Pending(u) == latest[u] # visible[u]

Tick ==
  /\ clock < MaxClock
  /\ \A u \in Person : Pending(u) => clock < latest[u] + Overlap
  /\ clock' = clock + 1
  /\ UNCHANGED <<latest, visible, user, watermark, run, login, failures, raced>>

RecordChanges(u) ==
  /\ clock > Earliest /\ latest[u] < clock /\ clock < MaxClock
  /\ ~Pending(u)
  /\ latest' = [latest EXCEPT ![u] = clock]
  /\ UNCHANGED <<clock, visible, user, watermark, run, login, failures, raced>>

RecordPublishes(u) ==
  /\ Pending(u)
  /\ visible' = [visible EXCEPT ![u] = latest[u]]
  /\ UNCHANGED <<clock, latest, user, watermark, run, login, failures, raced>>

-----------------------------------------------------------------------------
(* sync_fabric_users *)

\* iter_windows: consecutive chunks of [start, end), none wider than Width.
Windows(start, end) ==
  {w \in Window :
     /\ start <= w[1] /\ w[1] < end /\ (w[1] - start) % Width = 0
     /\ w[2] = IF w[1] + Width < end THEN w[1] + Width ELSE end}

\* A run reads the watermark and the clock, and tries for the lock later.
RunStarts(r, start, newest) ==
  /\ run[r] = Idle
  /\ run' = [run EXCEPT ![r] = [start |-> start, now |-> clock, newest |-> newest]]
  /\ UNCHANGED <<clock, latest, visible, user, watermark, login, failures, raced>>

\* _resolve_start, by command line.  Without a watermark the walk is a backfill, newest
\* people first.
StartsIncremental(r) ==
  IF watermark = None THEN RunStarts(r, Earliest, TRUE) ELSE RunStarts(r, watermark, FALSE)
StartsFull(r) == RunStarts(r, Earliest, TRUE)
StartsSince(r, since) == since < clock /\ RunStarts(r, since, FALSE)

WalkingNow(r) == run[r] # Idle /\ "left" \in DOMAIN run[r]
StartingNow(r) == run[r] # Idle /\ "start" \in DOMAIN run[r]

\* Slip: a run that has yet to try for the lock counts as holding it.
LockBusyEarly(r) == \E other \in Run \ {r} : run[other] # Idle

LockBusy(r) == \E other \in Run : WalkingNow(other)

\* pg_try_advisory_lock: a run that does not get it exits.  One that does reads the whole
\* ApiUser table.
RunLocks(r) ==
  /\ StartingNow(r)
  /\ run' = [run EXCEPT ![r] =
       IF LockBusy(r) THEN Idle
       ELSE [now |-> run[r].now, newest |-> run[r].newest,
             left |-> Windows(run[r].start, run[r].now),
             existing |-> user, people |-> {}, seen |-> {}, errors |-> FALSE]]
  /\ UNCHANGED <<clock, latest, visible, user, watermark, login, failures, raced>>

NextWindow(r) ==
  CHOOSE w \in run[r].left : \A other \in run[r].left :
    IF run[r].newest THEN other[1] <= w[1] ELSE w[1] <= other[1]

\* get_journey_tracker_people: everyone whose record was updated in the window.
PeopleIn(w) ==
  {p \in Person \X Time : p[2] = visible[p[1]] /\ w[1] <= p[2] /\ p[2] < w[2]}

RunFetches(r) ==
  /\ WalkingNow(r) /\ run[r].people = {} /\ run[r].left # {}
  /\ LET w == NextWindow(r)
     IN run' = [run EXCEPT ![r] =
          [run[r] EXCEPT !.left = run[r].left \ {w}, !.people = PeopleIn(w)]]
  /\ UNCHANGED <<clock, latest, visible, user, watermark, login, failures, raced>>

\* Slip: the whole row is saved as the run read it, the login's fields included.
SyncedWhole(row, existing, stamp) == [existing EXCEPT !.profile = stamp, !.active = stamp]

\* Slip: only a changed profile makes the sync write the row.
SyncedByProfile(row, existing, stamp) ==
  IF existing.profile # stamp THEN [row EXCEPT !.profile = stamp, !.active = stamp] ELSE row

\* save(update_fields=changed): what differs from the row as the run read it.
Synced(row, existing, stamp) ==
  [row EXCEPT !.profile = IF existing.profile # stamp THEN stamp ELSE @,
              !.active  = IF existing.active # stamp THEN stamp ELSE @]

\* The run is done with p, and has counted an error if p could not be saved.
Processed(walk, p, failed) ==
  [walk EXCEPT !.people = walk.people \ {p}, !.seen = walk.seen \cup {p[1]},
               !.errors = walk.errors \/ failed]

Current(row, u) == row # NoRow /\ row.profile = visible[u] /\ row.active = visible[u]

\* A person not seen before in this run is created, or updated where the record differs.
\* Creating somebody who has logged in since the run read the table violates the
\* uniqueness of uuid, and counts as an error.
RunSaves(r, p) ==
  /\ WalkingNow(r) /\ p \in run[r].people
  /\ LET u == p[1]
         existing == run[r].existing[u]
         creates  == u \notin run[r].seen /\ existing = NoRow /\ user[u] = NoRow
         collides == u \notin run[r].seen /\ existing = NoRow /\ user[u] # NoRow
         updates  == u \notin run[r].seen /\ existing # NoRow
         after == CASE creates -> [profile |-> p[2], active |-> p[2], session |-> FALSE]
                    [] updates -> Synced(user[u], existing, p[2])
                    [] OTHER   -> user[u]
     IN /\ user' = [user EXCEPT ![u] = after]
        /\ run' = [run EXCEPT ![r] = Processed(run[r], p, collides)]
        /\ raced' = IF Current(after, u) THEN raced \ {u} ELSE raced
  /\ UNCHANGED <<clock, latest, visible, watermark, login, failures>>

\* A row that cannot be saved is reported, and the run goes on.
RunErrs(r, p) ==
  /\ WalkingNow(r) /\ p \in run[r].people /\ p[1] \notin run[r].seen
  /\ failures < MaxFailures
  /\ failures' = failures + 1
  /\ run' = [run EXCEPT ![r] = Processed(run[r], p, TRUE)]
  /\ UNCHANGED <<clock, latest, visible, user, watermark, login, raced>>

\* Slip: the watermark advances although rows have failed.
AdvancesAnyway(r) == TRUE

\* With row errors the watermark stays, so that the next run reads those people again.
Advances(r) == ~run[r].errors

\* Slips: no overlap, or one of the wrong sign.
MarkWithoutOverlap(r) == run[r].now
MarkAhead(r) == run[r].now + Overlap

MarkAfter(r) == run[r].now - Overlap

RunFinishes(r) ==
  /\ WalkingNow(r) /\ run[r].people = {} /\ run[r].left = {}
  /\ watermark' = IF Advances(r) THEN MarkAfter(r) ELSE watermark
  /\ run' = [run EXCEPT ![r] = Idle]
  /\ UNCHANGED <<clock, latest, visible, user, login, failures, raced>>

\* A window that cannot be read aborts the run, and so does the end of the process; what
\* it saved stays, and the lock goes.
RunAborts(r) ==
  /\ WalkingNow(r) /\ failures < MaxFailures
  /\ failures' = failures + 1
  /\ run' = [run EXCEPT ![r] = Idle]
  /\ UNCHANGED <<clock, latest, visible, user, watermark, login, raced>>

-----------------------------------------------------------------------------
(* A login whose access has expired: auth_user_by_cookie, auth_user_by_token *)

LoginReads(l, u) ==
  /\ login[l] = Idle
  /\ login' = [login EXCEPT ![l] = [person |-> u, read |-> user[u], fetched |-> None]]
  /\ UNCHANGED <<clock, latest, visible, user, watermark, run, failures, raced>>

LoginFetches(l) ==
  /\ login[l] # Idle /\ login[l].fetched = None
  /\ login' = [login EXCEPT ![l].fetched = visible[login[l].person]]
  /\ UNCHANGED <<clock, latest, visible, user, watermark, run, failures, raced>>

\* save_refreshed_user saves every field of the row as it was read.  A row that was not
\* there is inserted, unless the sync has created it meanwhile.
LoginSaves(l) ==
  /\ login[l] # Idle /\ login[l].fetched # None
  /\ LET u == login[l].person
         read == login[l].read
         refused == read = NoRow /\ user[u] # NoRow
     IN /\ user' = IF refused THEN user
                   ELSE [user EXCEPT ![u] = [profile |-> login[l].fetched, session |-> TRUE,
                                             active |-> IF read = NoRow THEN None
                                                        ELSE read.active]]
        /\ raced' = IF ~refused /\ (read # user[u] \/ login[l].fetched # visible[u])
                    THEN raced \cup {u} ELSE raced
  /\ login' = [login EXCEPT ![l] = Idle]
  /\ UNCHANGED <<clock, latest, visible, watermark, run, failures>>

\* Core API does not answer, or the request is given up.
LoginEnds(l) ==
  /\ login[l] # Idle
  /\ login' = [login EXCEPT ![l] = Idle]
  /\ UNCHANGED <<clock, latest, visible, user, watermark, run, failures, raced>>

-----------------------------------------------------------------------------

Next ==
  \/ Tick
  \/ \E u \in Person : RecordChanges(u)
  \/ \E u \in Person : RecordPublishes(u)
  \/ \E r \in Run : StartsIncremental(r)
  \/ \E r \in Run : StartsFull(r)
  \/ \E r \in Run, since \in SinceDates : StartsSince(r, since)
  \/ \E r \in Run : RunLocks(r)
  \/ \E r \in Run : RunFetches(r)
  \/ \E r \in Run, p \in Person \X Time : RunSaves(r, p)
  \/ \E r \in Run, p \in Person \X Time : RunErrs(r, p)
  \/ \E r \in Run : RunFinishes(r)
  \/ \E r \in Run : RunAborts(r)
  \/ \E l \in Login, u \in Person : LoginReads(l, u)
  \/ \E l \in Login : LoginFetches(l)
  \/ \E l \in Login : LoginSaves(l)
  \/ \E l \in Login : LoginEnds(l)

Spec == Init /\ [][Next]_vars

\* Time passes and Core API commits what it has begun; cron starts an incremental run again
\* and again, and a run goes on.  Failures are finitely many (MaxFailures); nothing is
\* assumed of logins, or of full runs.
Fairness ==
  /\ WF_vars(Tick)
  /\ \A u \in Person : WF_vars(RecordPublishes(u))
  /\ WF_vars(\E r \in Run : StartsIncremental(r))
  /\ \A r \in Run : /\ WF_vars(RunLocks(r)) /\ WF_vars(RunFetches(r))
                    /\ WF_vars(\E p \in Person \X Time : RunSaves(r, p))
                    /\ WF_vars(RunFinishes(r))

FairSpec == Spec /\ Fairness

-----------------------------------------------------------------------------
(* Properties *)

\* Nobody falls behind the watermark: a record last updated before it is in the table as
\* Core API has it, but for what a login has overwritten.  A window that was not read, a
\* row that was not saved and a record that was being updated all hold the watermark back
\* (_sync).
NothingSkipped ==
  watermark # None =>
    \A u \in Person : visible[u] < watermark /\ u \notin raced => Current(user[u], u)

\* Whoever has logged in keeps what the login wrote: the sync never writes those fields,
\* although it saves from rows it read before the login.
SessionKept ==
  [][\A u \in Person : user[u] # NoRow /\ user[u].session
                       => user'[u] # NoRow /\ user'[u].session]_vars

\* Once logins cease, the nightly runs bring everybody to the present and keep them there,
\* however many of them failed before.
EveryoneArrives ==
  (<>[](\A l \in Login : login[l] = Idle))
    => <>[](\A u \in Person : latest[u] < clock - Overlap /\ u \notin raced
                              => Current(user[u], u))

=============================================================================
