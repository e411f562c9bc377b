----------------------------- MODULE TokenGate -----------------------------
(***************************************************************************)
(* Which bearer tokens get_api_user lets through: first the revocation     *)
(* list, then the signing keys, both of the credential manager and both    *)
(* cached in a TaskTimeoutTracker row.  A request that is let through goes *)
(* on to the person's own row, the login of module DirectorySync; one that *)
(* is refused goes on as if it had brought no token.                       *)
(*                                                                         *)
(* No request holds a lock while it asks the manager.  What it stores is   *)
(* what the manager knew when it answered, under the time at which it is   *)
(* stored, so answers reach a cache late and in any order.                 *)
(*                                                                         *)
(* Time is kept as ages, each up to the largest that is told apart.  Only  *)
(* an outbound call takes time: at most Http, as its timeout has it.       *)
(***************************************************************************)
EXTENDS Integers, FiniteSets

CONSTANTS
  Token,        \* bearer tokens, each of which names its key
  Kid,          \* signing keys
  KidOf,        \* KidOf[t]: the key that t names in its header
  Request,      \* requests that can be in flight at once
  ListTimeout,  \* TRL_TIMEOUT_IN_SECONDS
  KeyTimeout,   \* PSK_TIMEOUT_IN_SECONDS
  RefetchGap,   \* JWKS_KID_MISS_REFETCH_SECONDS
  Http,         \* FABRIC_HTTP_TIMEOUT_SECONDS
  Revocable,    \* bound: the tokens that may be revoked
  None,         \* no token, no list, no request
  Refused       \* a request that goes on as if it had brought no token

VARIABLES
  revoked,  \* revoked[t]: how long the manager has had t on its list, or None
  certs,    \* the keys the manager signs with
  trl,      \* the cached revocation list, and its age
  psk,      \* the cached keys, and their age
  request   \* request[q]: a request whose token is being looked at, or None

vars == <<revoked, certs, trl, psk, request>>

-----------------------------------------------------------------------------
(* Types *)

RevokedFor == 0..(ListTimeout + Http + 1)
ListAge    == 0..(ListTimeout + 1)
KeyAge     == 0..(KeyTimeout + 1)

\* A list that was never read is None; keys that were not, or came
\* with an error answer, are {}.
List == {None} \cup SUBSET Token

Waiting == {"askList", "gotList", "askKeys", "gotKeys"}
RequestState == [token : Token, phase : Waiting \cup {"keys"}, wait : 0..Http, seen : List,
                 list : SUBSET Token, keys : SUBSET Kid]

ASSUME Bounds ==
  /\ ListTimeout \in Nat /\ KeyTimeout \in Nat /\ RefetchGap \in 0..KeyTimeout
  /\ Http \in Nat /\ Revocable \subseteq Token
  /\ KidOf \in [Token -> Kid]
  /\ None \notin Token /\ None \notin Int /\ \A list \in SUBSET Token : list # None
  /\ None \notin RequestState /\ Refused \notin RequestState

TypeOK ==
  /\ revoked \in [Token -> RevokedFor \cup {None}]
  /\ certs \in SUBSET Kid
  /\ trl \in [list : List, age : ListAge]
  /\ psk \in [keys : SUBSET Kid, age : KeyAge]
  /\ request \in [Request -> RequestState \cup {None, Refused}]

\* init_task_timeout_tracker: both rows start timed out, without a value.
Init ==
  /\ revoked = [t \in Token |-> None]
  /\ certs \in {{k} : k \in Kid}
  /\ trl = [list |-> None, age |-> ListTimeout + 1]
  /\ psk = [keys |-> {}, age |-> KeyTimeout + 1]
  /\ request = [q \in Request |-> None]

-----------------------------------------------------------------------------
(* The credential manager, and time *)

Revokes(t) ==
  /\ t \in Revocable /\ revoked[t] = None
  /\ revoked' = [revoked EXCEPT ![t] = 0]
  /\ UNCHANGED <<certs, trl, psk, request>>

Rotates(keys) ==
  /\ keys # certs /\ keys # {}
  /\ certs' = keys
  /\ UNCHANGED <<revoked, trl, psk, request>>

Live(q) == request[q] \notin {None, Refused}

Older(age, ages) == IF age = None \/ age + 1 \notin ages THEN age ELSE age + 1

Tick ==
  /\ \A q \in Request : Live(q) => request[q].phase \in Waiting /\ request[q].wait < Http
  /\ revoked' = [t \in Token |-> Older(revoked[t], RevokedFor)]
  /\ trl' = [trl EXCEPT !.age = Older(@, ListAge)]
  /\ psk' = [psk EXCEPT !.age = Older(@, KeyAge)]
  /\ request' = [q \in Request |-> IF Live(q) THEN [request[q] EXCEPT !.wait = @ + 1]
                                   ELSE request[q]]
  /\ UNCHANGED certs

-----------------------------------------------------------------------------
(* How a request goes on *)

In(q, phase) == Live(q) /\ request[q].phase = phase

\* In a new phase, nothing is kept of the one before.
To(req, phase) == [req EXCEPT !.phase = phase, !.wait = 0, !.seen = None, !.list = {},
                              !.keys = {}]

\* Slip: no list at all refuses nothing.
AfterListOpen(req, list) ==
  IF list # None /\ req.token \in list THEN Refused ELSE To(req, "keys")

\* is_token_revoked, which fails closed.
AfterList(req, list) ==
  IF list = None \/ req.token \in list THEN Refused ELSE To(req, "keys")

\* _signing_key_for, and the signature; with both, the request is let through.
AfterKeys(req, keys) == IF KidOf[req.token] \in keys THEN None ELSE Refused

Goes(q, req) == request' = [request EXCEPT ![q] = req]

-----------------------------------------------------------------------------
(* get_token_revocation_list *)

\* Slip: a list that was read once is good for ever.
ListFreshAlways == trl.list # None

ListFresh == trl.age <= ListTimeout /\ trl.list # None

Arrived(t, phase) == [token |-> t, phase |-> phase, wait |-> 0, seen |-> None, list |-> {},
                      keys |-> {}]

\* A request with token t reads the row first.
ReadsList(q, t) ==
  /\ ~Live(q)
  /\ Goes(q, IF ListFresh THEN AfterList(Arrived(t, "keys"), trl.list)
             ELSE [Arrived(t, "askList") EXCEPT !.seen = trl.list])
  /\ UNCHANGED <<revoked, certs, trl, psk>>

ManagerLists(q) ==
  /\ In(q, "askList")
  /\ Goes(q, [request[q] EXCEPT !.phase = "gotList", !.list = {t \in Token : revoked[t] # None}])
  /\ UNCHANGED <<revoked, certs, trl, psk>>

\* Slip: the row is stamped, and keeps the list it had.
KeptListStamped(req) == [list |-> IF req.seen = None THEN req.list ELSE req.seen, age |-> 0]

KeptList(req) == [list |-> req.list, age |-> 0]

KeepsList(q) ==
  /\ In(q, "gotList")
  /\ trl' = KeptList(request[q])
  /\ Goes(q, AfterList(request[q], request[q].list))
  /\ UNCHANGED <<revoked, certs, psk>>

\* No answer, or one that is no list: the list this request read before it asked.
ListFails(q) ==
  /\ In(q, "askList") \/ In(q, "gotList")
  /\ Goes(q, AfterList(request[q], request[q].seen))
  /\ UNCHANGED <<revoked, certs, trl, psk>>

-----------------------------------------------------------------------------
(* get_oidc_sub_from_token *)

\* A stored error answer reads back as one key that bears no name.
MustFetch(req) ==
  \/ psk.age > KeyTimeout
  \/ KidOf[req.token] \notin psk.keys /\ psk.age >= RefetchGap

ReadsKeys(q) ==
  /\ In(q, "keys")
  /\ Goes(q, IF MustFetch(request[q]) THEN To(request[q], "askKeys")
             ELSE AfterKeys(request[q], psk.keys))
  /\ UNCHANGED <<revoked, certs, trl, psk>>

ManagerCerts(q) ==
  /\ In(q, "askKeys")
  /\ Goes(q, [request[q] EXCEPT !.phase = "gotKeys", !.keys = certs])
  /\ UNCHANGED <<revoked, certs, trl, psk>>

\* An error answer with a JSON body: its status is not looked at, and it has no keys.
ManagerErrs(q) ==
  /\ In(q, "askKeys")
  /\ Goes(q, [request[q] EXCEPT !.phase = "gotKeys", !.keys = {}])
  /\ UNCHANGED <<revoked, certs, trl, psk>>

\* Slip: only the first of the keys is read, as before 1.12.1.
KeySetFirst(req) == IF req.keys = {} THEN {} ELSE {CHOOSE k \in req.keys : TRUE}

KeySet(req) == req.keys

KeepsKeys(q) ==
  /\ In(q, "gotKeys")
  /\ psk' = [keys |-> KeySet(request[q]), age |-> 0]
  /\ Goes(q, AfterKeys(request[q], KeySet(request[q])))
  /\ UNCHANGED <<revoked, certs, trl>>

KeysFail(q) ==
  /\ In(q, "askKeys") \/ In(q, "gotKeys")
  /\ Goes(q, Refused)
  /\ UNCHANGED <<revoked, certs, trl, psk>>

-----------------------------------------------------------------------------

Next ==
  \/ \E t \in Token : Revokes(t)
  \/ \E keys \in SUBSET Kid : Rotates(keys)
  \/ Tick
  \/ \E q \in Request, t \in Token : ReadsList(q, t)
  \/ \E q \in Request : ManagerLists(q)
  \/ \E q \in Request : KeepsList(q)
  \/ \E q \in Request : ListFails(q)
  \/ \E q \in Request : ReadsKeys(q)
  \/ \E q \in Request : ManagerCerts(q)
  \/ \E q \in Request : ManagerErrs(q)
  \/ \E q \in Request : KeepsKeys(q)
  \/ \E q \in Request : KeysFail(q)

Spec == Init /\ [][Next]_vars

\* Time does not stop: no request stays for ever between two calls or in one.
FairSpec == Spec /\ []<><<Tick>>_vars

-----------------------------------------------------------------------------
(* Properties *)

\* The list check lets q through, and q's refresh of the list has failed.
Admitted(q) == /\ ~(In(q, "keys") \/ In(q, "askKeys") \/ In(q, "gotKeys"))
               /\ request'[q] \notin {None, Refused} /\ request'[q].phase = "keys"
Unanswered(q) == Live(q) /\ trl' = trl

\* Revocation binds within the cache's timeout and one call's, however the answers of
\* concurrent refreshes come in, except to a request whose own refresh fails; and before
\* any list was read no token is let through at all (get_token_revocation_list).
RevocationBinds ==
  [][\A q \in Request : Admitted(q) =>
       /\ trl'.list # None
       /\ \/ revoked[request'[q].token] = None
          \/ revoked[request'[q].token] <= ListTimeout + Http
          \/ Unanswered(q)]_vars

\* What a failed refresh falls back to describes every token revoked up to the moment it
\* was written, but for the last call's time: no store brings back a list older than that.
StoredListIsCurrent ==
  [][trl'.list # None /\ trl'.age = 0 /\ trl' # trl =>
       \A t \in Token : revoked[t] # None /\ revoked[t] > Http => t \in trl'.list]_vars

KeyRefused(q) == /\ In(q, "keys") \/ In(q, "askKeys") \/ In(q, "gotKeys")
                 /\ request'[q] = Refused
KeysErr(q) == ManagerErrs(q) \/ KeysFail(q)

\* A token signed with a key the manager goes on publishing is in the end never refused for
\* its key: neither a cached key set from before a rotation nor an error answer stored as
\* one outlasts the refetch gap, whatever keys other tokens name.
KeysRecover ==
  <>[][\A q \in Request : ~KeysErr(q)]_vars =>
    \A t \in Token : <>[](KidOf[t] \in certs) =>
      <>[][\A q \in Request : KeyRefused(q) => request[q].token # t]_vars

=============================================================================
