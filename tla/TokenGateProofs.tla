--------------------------- MODULE TokenGateProofs ---------------------------
(***************************************************************************)
(* Proofs about TokenGate: how long a revoked token can still be let       *)
(* through, for any number of requests, tokens and any timeouts.           *)
(***************************************************************************)
EXTENDS TokenGate, TLAPS

-----------------------------------------------------------------------------
(* The invariant *)

\* An answer misses only tokens revoked since the manager was asked ...
AnswersCurrent ==
  \A q \in Request : In(q, "gotList") =>
    \A t \in Token : revoked[t] # None /\ revoked[t] > request[q].wait => t \in request[q].list

\* ... so a list in use misses only those revoked since it was stored, or in the one
\* call before ...
ListCurrent ==
  trl.list # None /\ trl.age <= ListTimeout =>
    \A t \in Token : revoked[t] # None /\ revoked[t] > trl.age + Http => t \in trl.list

\* ... and a list that a request fell back on was stored once, hence there is one.
SeenStored == \A q \in Request : Live(q) /\ request[q].seen # None => trl.list # None

GateInv == TypeOK /\ AnswersCurrent /\ ListCurrent /\ SeenStored

LEMMA RequestTyped ==
  ASSUME TypeOK, NEW q \in Request, Live(q)
  PROVE  /\ request[q] \in RequestState
         /\ request[q].token \in Token /\ request[q].phase \in Waiting \cup {"keys"}
         /\ request[q].wait \in 0..Http /\ request[q].seen \in List
         /\ request[q].list \in SUBSET Token /\ request[q].keys \in SUBSET Kid
BY DEF TypeOK, Live, RequestState

LEMMA RequestsApart == \A req \in RequestState : req \notin {None, Refused}
BY Bounds

\* A request goes on into a state of its own, and the others stay.
LEMMA GoneOn ==
  ASSUME TypeOK, NEW q \in Request, NEW req \in RequestState \cup {None, Refused}, Goes(q, req)
  PROVE  /\ request' \in [Request -> RequestState \cup {None, Refused}]
         /\ request'[q] = req
         /\ \A other \in Request \ {q} : request'[other] = request[other]
BY DEF TypeOK, Goes

LEMMA ToKeys ==
  ASSUME NEW req \in RequestState, NEW phase \in Waiting \cup {"keys"}
  PROVE  /\ To(req, phase) \in RequestState
         /\ To(req, phase).phase = phase /\ To(req, phase).seen = None
         /\ To(req, phase).token = req.token
<1>1. 0 \in 0..Http
  BY Bounds
<1> QED
  BY <1>1 DEF To, RequestState, List

LEMMA ListChecked ==
  ASSUME NEW req \in RequestState, NEW list \in List
  PROVE  /\ AfterList(req, list) \in RequestState \cup {Refused}
         /\ AfterList(req, list) # Refused =>
              /\ AfterList(req, list) \in RequestState
              /\ AfterList(req, list).phase = "keys" /\ AfterList(req, list).seen = None
              /\ AfterList(req, list).token = req.token
              /\ list # None /\ req.token \notin list
<1>1. CASE list = None \/ req.token \in list
  BY <1>1 DEF AfterList
<1>2. CASE ~(list = None \/ req.token \in list)
  <2>1. AfterList(req, list) = To(req, "keys")
    BY <1>2 DEF AfterList
  <2> QED
    BY <1>2, <2>1, ToKeys
<1> QED
  BY <1>1, <1>2

LEMMA KeysChecked ==
  ASSUME NEW req, NEW keys
  PROVE  AfterKeys(req, keys) \in {None, Refused}
BY DEF AfterKeys

LEMMA Aged ==
  /\ \A x \in RevokedFor \cup {None} :
       /\ Older(x, RevokedFor) \in RevokedFor \cup {None}
       /\ Older(x, RevokedFor) = None <=> x = None
       /\ x # None => Older(x, RevokedFor) <= x + 1
  /\ \A x \in ListAge :
       /\ Older(x, ListAge) \in ListAge
       /\ \/ Older(x, ListAge) = x + 1
          \/ Older(x, ListAge) = x /\ x = ListTimeout + 1
  /\ \A x \in KeyAge : Older(x, KeyAge) \in KeyAge
<1>1. ListTimeout \in Nat /\ KeyTimeout \in Nat /\ Http \in Nat /\ None \notin Int
  BY Bounds
<1>2. ASSUME NEW x \in RevokedFor \cup {None}
      PROVE  /\ Older(x, RevokedFor) \in RevokedFor \cup {None}
             /\ Older(x, RevokedFor) = None <=> x = None
             /\ x # None => Older(x, RevokedFor) <= x + 1
  <2>1. CASE x = None
    BY <2>1 DEF Older
  <2>2. CASE x # None
    <3>1. x \in Int /\ x \in RevokedFor /\ x + 1 \in Int
      BY <1>1, <2>2 DEF RevokedFor
    <3>2. Older(x, RevokedFor) = IF x + 1 \notin RevokedFor THEN x ELSE x + 1
      BY <2>2 DEF Older
    <3> QED
      BY <1>1, <2>2, <3>1, <3>2
  <2> QED
    BY <2>1, <2>2
<1>3. ASSUME NEW x \in ListAge
      PROVE  /\ Older(x, ListAge) \in ListAge
             /\ \/ Older(x, ListAge) = x + 1
                \/ Older(x, ListAge) = x /\ x = ListTimeout + 1
  <2>1. x # None
    BY <1>1 DEF ListAge
  <2> QED
    BY <1>1, <2>1 DEF Older, ListAge
<1>4. ASSUME NEW x \in KeyAge PROVE Older(x, KeyAge) \in KeyAge
  BY DEF Older
<1> QED
  BY <1>2, <1>3, <1>4

-----------------------------------------------------------------------------
(* One lemma for each kind of step *)

\* A step of one request, which may store a list.
LEMMA StepKeepsGate ==
  ASSUME GateInv, revoked' = revoked, certs' = certs, NEW q \in Request,
         NEW req \in RequestState \cup {None, Refused}, Goes(q, req),
         psk' \in [keys : SUBSET Kid, age : KeyAge],
         trl' = trl \/ (trl' \in [list : SUBSET Token, age : ListAge] /\ ListCurrent'),
         req \in RequestState /\ req.phase = "gotList" =>
           \A t \in Token : revoked[t] # None /\ revoked[t] > req.wait => t \in req.list,
         req \in RequestState /\ req.seen # None => trl.list # None
  PROVE  GateInv'
<1>1. /\ request' \in [Request -> RequestState \cup {None, Refused}]
      /\ request'[q] = req
      /\ \A other \in Request \ {q} : request'[other] = request[other]
  BY GoneOn DEF GateInv
<1>2. trl.list # None => trl'.list # None
  BY Bounds
<1>3. TypeOK'
  BY <1>1 DEF GateInv, TypeOK, List
<1>4. AnswersCurrent'
  <2> SUFFICES ASSUME NEW p \in Request, In(p, "gotList")', NEW t \in Token,
                      revoked[t] # None, revoked[t] > request'[p].wait
               PROVE  t \in request'[p].list
    BY DEF AnswersCurrent
  <2>1. CASE p = q
    BY <1>1, <2>1 DEF In, Live
  <2>2. CASE p # q
    BY <1>1, <2>2 DEF GateInv, AnswersCurrent, In, Live
  <2> QED
    BY <2>1, <2>2
<1>5. ListCurrent'
  BY DEF GateInv, ListCurrent
<1>6. SeenStored'
  <2> SUFFICES ASSUME NEW p \in Request, Live(p)', request'[p].seen # None
               PROVE  trl.list # None
    BY <1>2 DEF SeenStored
  <2>1. CASE p = q
    BY <1>1, <2>1 DEF Live
  <2>2. CASE p # q
    BY <1>1, <2>2 DEF GateInv, SeenStored, Live
  <2> QED
    BY <2>1, <2>2
<1> QED
  BY <1>3, <1>4, <1>5, <1>6 DEF GateInv

\* A revocation list stored by a request misses only what was revoked in its call.
LEMMA StoredCurrent ==
  ASSUME GateInv, NEW q \in Request, KeepsList(q)
  PROVE  /\ request[q] \in RequestState /\ request[q].list \in SUBSET Token
         /\ trl' = [list |-> request[q].list, age |-> 0] /\ request[q].list # None
         /\ \A t \in Token : revoked[t] # None /\ revoked[t] > Http => t \in request[q].list
<1>1. Live(q) /\ In(q, "gotList") /\ trl' = [list |-> request[q].list, age |-> 0]
  BY DEF KeepsList, In, KeptList
<1>2. /\ request[q] \in RequestState /\ request[q].list \in SUBSET Token
      /\ request[q].wait \in 0..Http
  BY <1>1, RequestTyped DEF GateInv
<1>3. \A t \in Token : revoked[t] # None => revoked[t] \in Int
  BY DEF GateInv, TypeOK, RevokedFor
<1>4. Http \in Nat
  BY Bounds
<1>5. \A t \in Token : revoked[t] # None /\ revoked[t] > Http => t \in request[q].list
  BY <1>1, <1>2, <1>3, <1>4 DEF GateInv, AnswersCurrent
<1> QED
  BY <1>1, <1>2, <1>5, Bounds

LEMMA ReadsListKeepsGate ==
  ASSUME GateInv, NEW q \in Request, NEW t \in Token, ReadsList(q, t)
  PROVE  GateInv'
<1> DEFINE start == Arrived(t, "keys")
           asks  == [Arrived(t, "askList") EXCEPT !.seen = trl.list]
           req   == IF ListFresh THEN AfterList(start, trl.list) ELSE asks
<1>1. trl.list \in List /\ 0 \in 0..Http
  BY Bounds DEF GateInv, TypeOK
<1>2. start \in RequestState /\ asks \in RequestState /\ asks.phase = "askList"
      /\ asks.seen = trl.list
  BY <1>1 DEF Arrived, RequestState, Waiting, List
<1> HIDE DEF start, asks
<1>3. /\ AfterList(start, trl.list) \in RequestState \cup {Refused}
      /\ AfterList(start, trl.list) # Refused =>
           /\ AfterList(start, trl.list).phase = "keys"
           /\ AfterList(start, trl.list).seen = None
  BY <1>1, <1>2, ListChecked
<1>4. /\ req \in RequestState \cup {Refused}
      /\ req \in RequestState => req.phase # "gotList" /\ (req.seen # None => trl.list # None)
  BY <1>2, <1>3, RequestsApart
<1>5. Goes(q, req) /\ UNCHANGED <<revoked, certs, trl, psk>>
  BY DEF ReadsList, start, asks
<1> HIDE DEF req
<1>6. psk' \in [keys : SUBSET Kid, age : KeyAge]
  BY <1>5 DEF GateInv, TypeOK
<1> QED
  BY <1>4, <1>5, <1>6, StepKeepsGate

LEMMA ListAnswersKeepGate ==
  ASSUME GateInv, NEW q \in Request, ManagerLists(q) \/ KeepsList(q) \/ ListFails(q)
  PROVE  GateInv'
<1>1. Live(q)
  BY DEF ManagerLists, KeepsList, ListFails, In
<1>2. /\ request[q] \in RequestState /\ request[q].list \in List /\ request[q].seen \in List
      /\ request[q].wait \in 0..Http
  BY <1>1, RequestTyped DEF GateInv, List
<1>3. psk \in [keys : SUBSET Kid, age : KeyAge]
  BY DEF GateInv, TypeOK
<1>4. CASE ManagerLists(q)
  <2> DEFINE req == [request[q] EXCEPT !.phase = "gotList",
                                       !.list = {t \in Token : revoked[t] # None}]
  <2>1. /\ req \in RequestState /\ req.list = {t \in Token : revoked[t] # None}
        /\ req.seen = request[q].seen
    BY <1>2 DEF RequestState, Waiting
  <2>2. Goes(q, req) /\ UNCHANGED <<revoked, certs, trl, psk>>
    BY <1>4 DEF ManagerLists
  <2>3. req.seen # None => trl.list # None
    BY <1>1, <2>1 DEF GateInv, SeenStored
  <2>4. \A t \in Token : revoked[t] # None => t \in req.list
    BY <2>1
  <2> HIDE DEF req
  <2> QED
    BY <1>3, <2>1, <2>2, <2>3, <2>4, StepKeepsGate
<1>5. CASE KeepsList(q)
  <2> DEFINE req == AfterList(request[q], request[q].list)
  <2>1. /\ req \in RequestState \cup {Refused}
        /\ req \in RequestState => req.phase = "keys" /\ req.seen = None
    BY <1>2, ListChecked, RequestsApart
  <2>2. Goes(q, req) /\ UNCHANGED <<revoked, certs, psk>>
    BY <1>5 DEF KeepsList
  <2>3. /\ trl' = [list |-> request[q].list, age |-> 0] /\ request[q].list \in SUBSET Token
        /\ \A t \in Token : revoked[t] # None /\ revoked[t] > Http => t \in request[q].list
    BY <1>5, StoredCurrent
  <2>4. trl' \in [list : SUBSET Token, age : ListAge]
    BY <2>3, Bounds DEF ListAge
  <2>5. ListCurrent'
    BY <2>2, <2>3, Bounds DEF ListCurrent
  <2> HIDE DEF req
  <2> QED
    BY <1>3, <2>1, <2>2, <2>4, <2>5, StepKeepsGate
<1>6. CASE ListFails(q)
  <2> DEFINE req == AfterList(request[q], request[q].seen)
  <2>1. /\ req \in RequestState \cup {Refused}
        /\ req \in RequestState => req.phase = "keys" /\ req.seen = None
    BY <1>2, ListChecked, RequestsApart
  <2>2. Goes(q, req) /\ UNCHANGED <<revoked, certs, trl, psk>>
    BY <1>6 DEF ListFails
  <2> HIDE DEF req
  <2> QED
    BY <1>3, <2>1, <2>2, StepKeepsGate
<1> QED
  BY <1>4, <1>5, <1>6

LEMMA KeyStepsKeepGate ==
  ASSUME GateInv, NEW q \in Request,
         ReadsKeys(q) \/ ManagerCerts(q) \/ ManagerErrs(q) \/ KeepsKeys(q) \/ KeysFail(q)
  PROVE  GateInv'
<1>1. Live(q)
  BY DEF ReadsKeys, ManagerCerts, ManagerErrs, KeepsKeys, KeysFail, In
<1>2. request[q] \in RequestState /\ request[q].keys \in SUBSET Kid
  BY <1>1, RequestTyped DEF GateInv
<1>3. /\ psk \in [keys : SUBSET Kid, age : KeyAge] /\ certs \in SUBSET Kid
      /\ request[q].seen # None => trl.list # None
  BY <1>1 DEF GateInv, TypeOK, SeenStored
<1>4. PICK req \in RequestState \cup {None, Refused} :
        /\ Goes(q, req)
        /\ req \in RequestState => req.phase # "gotList" /\ (req.seen # None => trl.list # None)
  <2>1. CASE ReadsKeys(q)
    <3> DEFINE asks == To(request[q], "askKeys")
               done == AfterKeys(request[q], psk.keys)
    <3>1. Goes(q, asks) \/ Goes(q, done)
      BY <2>1 DEF ReadsKeys
    <3>2. asks \in RequestState /\ asks.phase = "askKeys" /\ asks.seen = None
      BY <1>2, ToKeys DEF Waiting
    <3>3. done \in {None, Refused}
      BY KeysChecked
    <3> HIDE DEF asks, done
    <3>4. CASE Goes(q, asks)
      BY <3>2, <3>4
    <3>5. CASE Goes(q, done)
      BY <3>3, <3>5, RequestsApart
    <3> QED
      BY <3>1, <3>4, <3>5
  <2>2. ASSUME NEW keys \in SUBSET Kid,
               Goes(q, [request[q] EXCEPT !.phase = "gotKeys", !.keys = keys])
        PROVE  \E req \in RequestState \cup {None, Refused} :
                 /\ Goes(q, req)
                 /\ req \in RequestState =>
                      req.phase # "gotList" /\ (req.seen # None => trl.list # None)
    <3> DEFINE answered == [request[q] EXCEPT !.phase = "gotKeys", !.keys = keys]
    <3>1. /\ answered \in RequestState /\ answered.phase = "gotKeys"
          /\ answered.seen = request[q].seen
      BY <1>2 DEF RequestState, Waiting
    <3>2. Goes(q, answered)
      BY <2>2
    <3> HIDE DEF answered
    <3>3. answered.phase # "gotList" /\ (answered.seen # None => trl.list # None)
      BY <1>3, <3>1
    <3> QED
      BY <3>1, <3>2, <3>3
  <2>3. CASE ManagerCerts(q) \/ ManagerErrs(q)
    <3>1. CASE ManagerCerts(q)
      <4>1. Goes(q, [request[q] EXCEPT !.phase = "gotKeys", !.keys = certs])
        BY <3>1 DEF ManagerCerts
      <4> QED
        BY <1>3, <2>2, <4>1
    <3>2. CASE ManagerErrs(q)
      <4>1. Goes(q, [request[q] EXCEPT !.phase = "gotKeys", !.keys = {}])
        BY <3>2 DEF ManagerErrs
      <4>2. {} \in SUBSET Kid
        OBVIOUS
      <4> QED
        BY <2>2, <4>1, <4>2
    <3> QED
      BY <2>3, <3>1, <3>2
  <2>4. CASE KeepsKeys(q)
    BY <2>4, KeysChecked, RequestsApart DEF KeepsKeys
  <2>5. CASE KeysFail(q)
    BY <2>5, RequestsApart DEF KeysFail
  <2> QED
    BY <2>1, <2>3, <2>4, <2>5
<1>5. UNCHANGED <<revoked, certs, trl>>
  BY DEF ReadsKeys, ManagerCerts, ManagerErrs, KeepsKeys, KeysFail
<1>6. psk' \in [keys : SUBSET Kid, age : KeyAge]
  BY <1>2, <1>3, Bounds
  DEF ReadsKeys, ManagerCerts, ManagerErrs, KeepsKeys, KeysFail, KeySet, KeyAge
<1> QED
  BY <1>4, <1>5, <1>6, StepKeepsGate

LEMMA TickKeepsGate == GateInv /\ Tick => GateInv'
<1> SUFFICES ASSUME GateInv, Tick PROVE GateInv'
  OBVIOUS
<1>1. /\ TypeOK
      /\ \A q \in Request : Live(q) => request[q].phase \in Waiting /\ request[q].wait < Http
      /\ revoked' = [t \in Token |-> Older(revoked[t], RevokedFor)]
      /\ trl' = [trl EXCEPT !.age = Older(@, ListAge)]
      /\ psk' = [psk EXCEPT !.age = Older(@, KeyAge)]
      /\ request' = [q \in Request |-> IF Live(q) THEN [request[q] EXCEPT !.wait = @ + 1]
                                       ELSE request[q]]
      /\ certs' = certs
  BY DEF GateInv, Tick
<1>2. ASSUME NEW q \in Request, Live(q)
      PROVE  /\ request'[q] \in RequestState /\ request'[q].phase = request[q].phase
             /\ request'[q].wait = request[q].wait + 1 /\ request'[q].list = request[q].list
             /\ request'[q].seen = request[q].seen /\ request[q].wait \in Int
  <2>1. request[q] \in RequestState /\ request[q].wait \in 0..Http /\ request[q].wait < Http
    BY <1>1, <1>2, RequestTyped
  <2>2. request'[q] = [request[q] EXCEPT !.wait = @ + 1] /\ request[q].wait + 1 \in 0..Http
    BY <1>1, <1>2, <2>1, Bounds
  <2> QED
    BY <2>1, <2>2 DEF RequestState
<1>3. ASSUME NEW q \in Request
      PROVE  Live(q)' <=> Live(q)
  <2>1. CASE Live(q)
    BY <1>2, <2>1, RequestsApart DEF Live
  <2>2. CASE ~Live(q)
    BY <1>1, <2>2 DEF Live
  <2> QED
    BY <2>1, <2>2
<1>4. ASSUME NEW t \in Token
      PROVE  /\ revoked'[t] \in RevokedFor \cup {None}
             /\ revoked'[t] # None => /\ revoked[t] # None
                                      /\ revoked[t] \in Int /\ revoked'[t] \in Int
                                      /\ revoked'[t] <= revoked[t] + 1
  BY <1>1, Aged DEF TypeOK, RevokedFor
<1>5. /\ trl'.list = trl.list /\ trl.age \in ListAge /\ trl'.age = Older(trl.age, ListAge)
      /\ trl' \in [list : List, age : ListAge]
  BY <1>1, Aged DEF TypeOK
<1>6. TypeOK'
  <2>1. request' \in [Request -> RequestState \cup {None, Refused}]
    BY <1>1, <1>2 DEF TypeOK, Live
  <2>2. psk' \in [keys : SUBSET Kid, age : KeyAge]
    BY <1>1, Aged DEF TypeOK
  <2> QED
    BY <1>1, <1>4, <1>5, <2>1, <2>2 DEF TypeOK
<1>7. AnswersCurrent'
  <2> SUFFICES ASSUME NEW q \in Request, In(q, "gotList")', NEW t \in Token,
                      revoked'[t] # None, revoked'[t] > request'[q].wait
               PROVE  t \in request'[q].list
    BY DEF AnswersCurrent
  <2>1. Live(q) /\ In(q, "gotList")
    BY <1>2, <1>3 DEF In
  <2>2. revoked[t] # None /\ revoked[t] > request[q].wait
    BY <1>2, <1>4, <2>1
  <2> QED
    BY <1>2, <2>1, <2>2 DEF GateInv, AnswersCurrent
<1>8. ListCurrent'
  <2> SUFFICES ASSUME trl'.list # None, trl'.age <= ListTimeout, NEW t \in Token,
                      revoked'[t] # None, revoked'[t] > trl'.age + Http
               PROVE  t \in trl'.list
    BY DEF ListCurrent
  <2>1. trl'.age = trl.age + 1 /\ trl.age \in Int
    <3>1. trl'.age = trl.age + 1 \/ (trl'.age = trl.age /\ trl.age = ListTimeout + 1)
      BY <1>5, Aged
    <3>2. trl.age \in Int /\ ListTimeout \in Nat
      BY <1>5, Bounds DEF ListAge
    <3> QED
      BY <3>1, <3>2
  <2>2. trl.list # None /\ trl.age <= ListTimeout /\ revoked[t] # None
        /\ revoked[t] > trl.age + Http
    BY <1>4, <1>5, <2>1, Bounds
  <2> QED
    BY <1>5, <2>2 DEF GateInv, ListCurrent
<1>9. SeenStored'
  BY <1>2, <1>3, <1>5 DEF GateInv, SeenStored
<1> QED
  BY <1>6, <1>7, <1>8, <1>9 DEF GateInv

-----------------------------------------------------------------------------
(* The theorems *)

LEMMA GateInitially == Init => GateInv
<1> SUFFICES ASSUME Init PROVE GateInv
  OBVIOUS
<1>1. TypeOK
  <2>1. {} \in SUBSET Kid /\ ListTimeout + 1 \in ListAge /\ KeyTimeout + 1 \in KeyAge
    BY Bounds DEF ListAge, KeyAge
  <2>2. certs \in SUBSET Kid
    BY DEF Init
  <2> QED
    BY <2>1, <2>2 DEF Init, TypeOK, List
<1>2. AnswersCurrent /\ ListCurrent /\ SeenStored
  BY DEF Init, AnswersCurrent, ListCurrent, SeenStored, In, Live
<1> QED
  BY <1>1, <1>2 DEF GateInv

LEMMA ManagerKeepsGate ==
  ASSUME GateInv,
         \/ \E t \in Token : Revokes(t)
         \/ \E keys \in SUBSET Kid : Rotates(keys)
         \/ UNCHANGED vars
  PROVE  GateInv'
<1>1. UNCHANGED <<trl, psk, request>> /\ certs' \in SUBSET Kid
  BY DEF Revokes, Rotates, vars, GateInv, TypeOK
<1>2. ASSUME NEW t \in Token
      PROVE  /\ revoked'[t] \in RevokedFor \cup {None}
             /\ revoked'[t] = revoked[t] \/ revoked'[t] = 0
  <2>1. 0 \in RevokedFor
    BY Bounds DEF RevokedFor
  <2> QED
    BY <2>1 DEF Revokes, Rotates, vars, GateInv, TypeOK
<1>3. revoked' \in [Token -> RevokedFor \cup {None}]
  BY <1>2 DEF Revokes, Rotates, vars, GateInv, TypeOK
<1>4. TypeOK'
  BY <1>1, <1>3 DEF GateInv, TypeOK
<1>5. AnswersCurrent'
  <2> SUFFICES ASSUME NEW q \in Request, In(q, "gotList"), NEW t \in Token,
                      revoked'[t] # None, revoked'[t] > request[q].wait
               PROVE  t \in request[q].list
    BY <1>1 DEF AnswersCurrent, In, Live
  <2>1. request[q].wait \in 0..Http
    BY RequestTyped DEF In, GateInv
  <2>2. revoked'[t] = revoked[t]
    BY <1>2, <2>1, Bounds
  <2> QED
    BY <2>2 DEF GateInv, AnswersCurrent
<1>6. ListCurrent'
  <2> SUFFICES ASSUME trl.list # None, trl.age <= ListTimeout, NEW t \in Token,
                      revoked'[t] # None, revoked'[t] > trl.age + Http
               PROVE  t \in trl.list
    BY <1>1 DEF ListCurrent
  <2>1. trl.age \in Nat
    BY DEF GateInv, TypeOK, ListAge
  <2>2. revoked'[t] = revoked[t]
    BY <1>2, <2>1, Bounds
  <2> QED
    BY <2>2 DEF GateInv, ListCurrent
<1>7. SeenStored'
  BY <1>1 DEF GateInv, SeenStored, Live
<1> QED
  BY <1>4, <1>5, <1>6, <1>7 DEF GateInv

LEMMA GateKept == GateInv /\ [Next]_vars => GateInv'
<1> SUFFICES ASSUME GateInv, [Next]_vars PROVE GateInv'
  OBVIOUS
<1>1. ASSUME NEW q \in Request, \/ ReadsKeys(q) \/ ManagerCerts(q) \/ ManagerErrs(q)
                                \/ KeepsKeys(q) \/ KeysFail(q)
      PROVE  GateInv'
  BY <1>1, KeyStepsKeepGate
<1>2. ASSUME NEW q \in Request, ManagerLists(q) \/ KeepsList(q) \/ ListFails(q)
      PROVE  GateInv'
  BY <1>2, ListAnswersKeepGate
<1>3. ASSUME NEW q \in Request, NEW t \in Token, ReadsList(q, t) PROVE GateInv'
  BY <1>3, ReadsListKeepsGate
<1> QED
  BY <1>1, <1>2, <1>3, TickKeepsGate, ManagerKeepsGate DEF Next

LEMMA GateAlways == Spec => []GateInv
BY GateInitially, GateKept, PTL DEF Spec

\* Any values of the timeouts, any number of requests in flight (TaskTimeoutTracker and
\* the two stores of get_api_user).
THEOREM GateTypeCorrect == Spec => []TypeOK
<1>1. GateInv => TypeOK
  BY DEF GateInv
<1> QED
  BY <1>1, GateAlways, PTL

\* Who is let through by the list check in a step, and on what grounds.
LEMMA AdmittedBy ==
  ASSUME GateInv, [Next]_vars, NEW q \in Request, Admitted(q)
  PROVE  \/ \E t \in Token : ReadsList(q, t)
         \/ KeepsList(q)
         \/ ListFails(q)
<1>1. TypeOK
  BY DEF GateInv
<1>2. ~(Live(q) /\ request[q].phase = "keys") /\ Live(q)' /\ request'[q].phase = "keys"
  BY DEF Admitted, In, Live
<1>3. ASSUME request'[q] = request[q] PROVE FALSE
  BY <1>2, <1>3 DEF Live
<1>4. ASSUME NEW p \in Request, p # q,
             \/ \E t \in Token : ReadsList(p, t)
             \/ ManagerLists(p) \/ KeepsList(p) \/ ListFails(p)
             \/ ReadsKeys(p) \/ ManagerCerts(p) \/ ManagerErrs(p) \/ KeepsKeys(p) \/ KeysFail(p)
      PROVE  FALSE
  <2>1. \E req : request' = [request EXCEPT ![p] = req]
    BY <1>4 DEF ReadsList, ManagerLists, KeepsList, ListFails, ReadsKeys, ManagerCerts,
       ManagerErrs, KeepsKeys, KeysFail, Goes
  <2>2. request'[q] = request[q]
    BY <1>1, <1>4, <2>1 DEF TypeOK
  <2> QED
    BY <1>3, <2>2
<1>5. ~ManagerLists(q)
  <2> SUFFICES ASSUME ManagerLists(q) PROVE FALSE
    OBVIOUS
  <2>1. request[q] \in RequestState
    BY <1>1, RequestTyped DEF ManagerLists, In
  <2>2. request'[q].phase = "gotList"
    BY <1>1, <2>1 DEF ManagerLists, Goes, TypeOK, RequestState
  <2> QED
    BY <1>2, <2>2
<1>6. ~(ReadsKeys(q) \/ ManagerCerts(q) \/ ManagerErrs(q) \/ KeepsKeys(q) \/ KeysFail(q))
  BY DEF Admitted, ReadsKeys, ManagerCerts, ManagerErrs, KeepsKeys, KeysFail
<1>7. ~Tick
  <2> SUFFICES ASSUME Tick PROVE FALSE
    OBVIOUS
  <2>1. request'[q] = IF Live(q) THEN [request[q] EXCEPT !.wait = @ + 1] ELSE request[q]
    BY DEF Tick
  <2>2. CASE Live(q)
    <3>1. request[q] \in RequestState
      BY <1>1, <2>2, RequestTyped
    <3>2. request'[q].phase = request[q].phase
      BY <2>1, <2>2, <3>1 DEF RequestState
    <3> QED
      BY <1>2, <2>2, <3>2
  <2> QED
    BY <1>3, <2>1, <2>2
<1>8. /\ ~UNCHANGED vars
      /\ ~\E t \in Token : Revokes(t)
      /\ ~\E keys \in SUBSET Kid : Rotates(keys)
  BY <1>3 DEF vars, Revokes, Rotates
<1> QED
  BY <1>4, <1>5, <1>6, <1>7, <1>8 DEF Next

\* A token whose revocation the manager has known for longer than the list's timeout and
\* one call's is not let through, but by a request whose own refresh fails, and none is
\* before a list was read (get_token_revocation_list, is_token_revoked).
THEOREM RevocationAlwaysBinds == Spec => RevocationBinds
<1> DEFINE Bound(q) == /\ trl'.list # None
                       /\ \/ revoked[request'[q].token] = None
                          \/ revoked[request'[q].token] <= ListTimeout + Http
                          \/ Unanswered(q)
<1>1. GateInv /\ [Next]_vars => \A q \in Request : Admitted(q) => Bound(q)
  <2> SUFFICES ASSUME GateInv, [Next]_vars, NEW q \in Request, Admitted(q) PROVE Bound(q)
    OBVIOUS
  <2>1. TypeOK /\ request'[q] # Refused /\ ListTimeout \in Nat /\ Http \in Nat
        /\ \A t \in Token : revoked[t] # None => revoked[t] \in Int
    BY Bounds DEF GateInv, Admitted, TypeOK, RevokedFor
  <2>2. ASSUME NEW t \in Token, ReadsList(q, t) PROVE Bound(q)
    <3> DEFINE start == Arrived(t, "keys")
               asks  == [Arrived(t, "askList") EXCEPT !.seen = trl.list]
    <3>1. trl.list \in List /\ 0 \in 0..Http
      BY Bounds DEF GateInv, TypeOK
    <3>2. start \in RequestState /\ start.token = t /\ asks.phase = "askList"
      BY <3>1 DEF Arrived, RequestState, List
    <3>3. /\ request'[q] = IF ListFresh THEN AfterList(start, trl.list) ELSE asks
          /\ trl' = trl
      BY <2>1, <2>2 DEF ReadsList, Goes, TypeOK
    <3> HIDE DEF start, asks
    <3>4. ListFresh
      BY <3>2, <3>3 DEF Admitted
    <3>5. request'[q].token = t /\ t \notin trl.list /\ trl.list # None
      BY <2>1, <3>1, <3>2, <3>3, <3>4, ListChecked
    <3>6. trl.age <= ListTimeout /\ trl.age \in Int
      BY <2>1, <3>4 DEF ListFresh, TypeOK, ListAge
    <3>7. revoked[t] # None => revoked[t] <= trl.age + Http
      BY <2>1, <3>5, <3>6 DEF GateInv, ListCurrent
    <3> QED
      BY <2>1, <3>3, <3>5, <3>6, <3>7
  <2>3. CASE KeepsList(q)
    <3>1. /\ request[q] \in RequestState /\ request[q].list \in SUBSET Token
          /\ trl' = [list |-> request[q].list, age |-> 0] /\ request[q].list # None
          /\ \A t \in Token : revoked[t] # None /\ revoked[t] > Http => t \in request[q].list
      BY <2>3, StoredCurrent
    <3>2. request'[q] = AfterList(request[q], request[q].list)
      BY <2>1, <2>3 DEF KeepsList, Goes, TypeOK
    <3>3. /\ request'[q].token = request[q].token /\ request[q].token \in Token
          /\ request[q].token \notin request[q].list
      BY <2>1, <3>1, <3>2, ListChecked DEF List, RequestState
    <3> QED
      BY <2>1, <3>1, <3>3
  <2>4. CASE ListFails(q)
    <3>1. Live(q) /\ trl' = trl
      BY <2>4 DEF ListFails, In
    <3>2. request[q] \in RequestState /\ request[q].seen \in List
      BY <2>1, <3>1, RequestTyped
    <3>3. request'[q] = AfterList(request[q], request[q].seen)
      BY <2>1, <2>4 DEF ListFails, Goes, TypeOK
    <3>4. request[q].seen # None
      BY <2>1, <3>2, <3>3, ListChecked
    <3> QED
      BY <3>1, <3>4 DEF GateInv, SeenStored, Unanswered
  <2> QED
    BY <2>2, <2>3, <2>4, AdmittedBy
<1> QED
  BY <1>1, GateAlways, PTL DEF Spec, RevocationBinds

\* However the answers of concurrent refreshes come in, a list that is stored lists every
\* token revoked before the call that fetched it (the store in get_token_revocation_list).
THEOREM StoredListAlwaysCurrent == Spec => StoredListIsCurrent
<1>1. GateInv /\ [Next]_vars =>
        (trl'.list # None /\ trl'.age = 0 /\ trl' # trl =>
           \A t \in Token : revoked[t] # None /\ revoked[t] > Http => t \in trl'.list)
  <2> SUFFICES ASSUME GateInv, [Next]_vars, trl'.age = 0, trl' # trl, NEW t \in Token,
                      revoked[t] # None, revoked[t] > Http
               PROVE  t \in trl'.list
    OBVIOUS
  <2>1. ~Tick
    <3> SUFFICES ASSUME Tick PROVE FALSE
      OBVIOUS
    <3>1. trl \in [list : List, age : ListAge] /\ trl.age \in ListAge
      BY DEF GateInv, TypeOK
    <3>2. trl'.age = Older(trl.age, ListAge)
      BY <3>1 DEF Tick
    <3>3. trl'.age = trl.age + 1 \/ (trl'.age = trl.age /\ trl.age = ListTimeout + 1)
      BY <3>1, <3>2, Aged
    <3>4. trl.age \in Nat /\ ListTimeout \in Nat
      BY <3>1, Bounds DEF ListAge
    <3> QED
      BY <3>3, <3>4
  <2>2. PICK q \in Request : KeepsList(q)
    BY <2>1 DEF Next, vars, Revokes, Rotates, ReadsList, ManagerLists, ListFails, ReadsKeys,
       ManagerCerts, ManagerErrs, KeepsKeys, KeysFail
  <2> QED
    BY <2>2, StoredCurrent
<1> QED
  BY <1>1, GateAlways, PTL DEF Spec, StoredListIsCurrent

=============================================================================
