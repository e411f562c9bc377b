----------------------------- MODULE BulkIngest -----------------------------
(***************************************************************************)
(* Many publications from one document.  Each record is created in a       *)
(* transaction of its own, so an upload runs record by record beside other *)
(* uploads, single creates, edits and deletes, and may die between two     *)
(* records.  What it answers is its report: one entry for each item that   *)
(* the reader of the document handed over, in the document's order.        *)
(***************************************************************************)
EXTENDS Integers, Sequences, FiniteSets

CONSTANTS
  Upload,      \* bulk requests
  Form,        \* single creates
  Title, Link,
  Project, Name,
  Document,    \* what may be uploaded: [shape, parses, items]
  MaxRecords,  \* BULK_MAX_RECORDS
  MaxAsked,    \* bound: calls of one request to Core API about one project
  Text,        \* a `line` that is not a number
  Null

Shape == {"json", "jsonl", "bibtex"}
Key   == [title : Title, link : {Null} \cup Link]

\* An item is passed over (a blank line; an entry that the BibTeX parser does not know
\* the type of, or takes for a comment), unreadable, or a record.  `line` is a key a JSON
\* record may hold itself.
Item == [kind : {"passed over", "unreadable"}]
   \cup [kind : {"record"}, valid : BOOLEAN, key : Key, project : {Null} \cup Project,
         name : {Null} \cup Name, line : {Null, Text} \cup Int]

ASSUME Documents ==
  /\ MaxRecords \in Nat /\ MaxAsked \in Nat
  /\ Text \notin Int
  /\ Document \subseteq [shape : Shape, parses : BOOLEAN, items : Seq(Item)]
  /\ \A doc \in Document :
       /\ doc.shape = "jsonl" => doc.parses
       /\ doc.shape = "json" => \A i \in DOMAIN doc.items : doc.items[i].kind # "passed over"

VARIABLES
  store,   \* Publication: uuid -> its key, project and name
  authors, \* Author rows, by the uuid of their publication
  gone,    \* uuids of deleted publications
  forms,   \* single creates already made
  up,      \* up[u]: the state of a bulk request
  asked    \* asked[<<u, p>>]: Core API calls of request u about project p

vars == <<store, authors, gone, forms, up, asked>>

Uuid == (Upload \cup Form) \X Nat
Idle == [stage |-> "idle"]

Init ==
  /\ store = << >>
  /\ authors = {}
  /\ gone = {}
  /\ forms = {}
  /\ up = [u \in Upload |-> Idle]
  /\ asked = [k \in Upload \X Project |-> 0]

-----------------------------------------------------------------------------
(* The store *)

\* unique(title, link), and unique(title) where there is no link.
Taken(k) == \E id \in DOMAIN store : store[id].key = k

Stored(id, publication) ==
  /\ store' = [x \in DOMAIN store \cup {id} |-> IF x = id THEN publication ELSE store[x]]
  /\ authors' = authors \cup {id}

\* Slip: the Author rows are saved before the publication, outside its transaction.
RefusedAfterAuthors(id) == store' = store /\ authors' = authors \cup {id}

\* IntegrityError: the transaction takes the Author rows with it.
Refused(id) == store' = store /\ authors' = authors

-----------------------------------------------------------------------------
(* Reading the document *)

\* The members of a finite set S in the order R, a set of pairs (earlier, later).
Arranged(S, R) ==
  CHOOSE s \in [1 .. Cardinality(S) -> S] :
    \A m, n \in 1 .. Cardinality(S) : m < n => <<s[m], s[n]>> \in R

Numbers(S)    == {p \in S \X S : p[1] < p[2]}
InSequence(S) == Arranged(S, Numbers(S))

\* A BibTeX document that does not parse - one undefined macro is enough - is one failure
\* without an index, here item 0, whatever its entries are.
Readable(doc)   == {i \in DOMAIN doc.items : doc.parses /\ doc.items[i].kind = "record"}
Unreadable(doc) == IF doc.parses THEN {i \in DOMAIN doc.items : doc.items[i].kind = "unreadable"}
                   ELSE {0}
HandedOver(doc) == Readable(doc) \cup Unreadable(doc)

\* The index of a JSON or BibTeX item counts what was handed over before it.
Index(doc, i) == Cardinality({j \in HandedOver(doc) : j < i})

\* The number the report sorts an item by: the line of a .jsonl file, else the index -
\* unless a JSON record brings a `line` of its own.
Position(doc, i) ==
  IF ~doc.parses THEN -1
  ELSE IF doc.shape = "jsonl" THEN i
  ELSE IF doc.shape = "json" /\ i \in Readable(doc) /\ doc.items[i].line # Null
  THEN doc.items[i].line
  ELSE Index(doc, i)

Entry(doc, i, status) == [item |-> i, position |-> Position(doc, i), status |-> status]

\* collect_records: over the cap, or of a JSON body that is no list, nothing is written;
\* items that cannot be read do not count, and are reported first.
Collects(u, doc) ==
  /\ up[u] = Idle
  /\ up' = [up EXCEPT ![u] =
       IF (doc.shape = "json" /\ ~doc.parses) \/ Cardinality(Readable(doc)) > MaxRecords
       THEN [stage |-> "refused"]
       ELSE [stage |-> "ingesting", doc |-> doc,
             todo |-> InSequence(Readable(doc)),
             memo |-> << >>,
             results |-> [n \in 1 .. Cardinality(Unreadable(doc)) |->
                            Entry(doc, InSequence(Unreadable(doc))[n], "failed")]]]
  /\ UNCHANGED <<store, authors, gone, forms, asked>>

-----------------------------------------------------------------------------
(* ingest, one record *)

Ingesting(u) == up[u].stage = "ingesting" /\ up[u].todo # << >>
Record(u)    == up[u].doc.items[Head(up[u].todo)]
Id(u)        == <<u, Head(up[u].todo)>>

\* Slip: a name that was not found is asked for again.
KeepsFound(memo, p, answer) ==
  IF answer = Null THEN memo
  ELSE [x \in DOMAIN memo \cup {p} |-> IF x = p THEN answer ELSE memo[x]]

\* memoized_project_name_resolver keeps whatever came back, None included.
Remembers(memo, p, answer) ==
  [x \in DOMAIN memo \cup {p} |-> IF x = p THEN answer ELSE memo[x]]

\* The project is named and has not been asked for by this request.
Unasked(u) == Record(u).project # Null /\ Record(u).project \notin DOMAIN up[u].memo

\* Core API answers with the project's name of the day, or not usefully.
AsksProject(u, answer) ==
  LET p == Record(u).project
  IN /\ Ingesting(u) /\ Record(u).valid /\ Unasked(u)
     /\ asked[<<u, p>>] < MaxAsked
     /\ up' = [up EXCEPT ![u].memo = Remembers(up[u].memo, p, answer)]
     /\ asked' = [asked EXCEPT ![<<u, p>>] = asked[<<u, p>>] + 1]
     /\ UNCHANGED <<store, authors, gone, forms>>

Found(u) == IF Record(u).project = Null THEN Null ELSE up[u].memo[Record(u).project]

\* A supplied name is an assertion to verify, not a reason to skip the lookup.
NameHolds(u) == Found(u) # Null /\ Record(u).name \in {Null, Found(u)}

Acceptable(u) ==
  /\ Record(u).valid
  /\ Record(u).project # Null => NameHolds(u)

\* Slip: a duplicate takes the rest of the batch down.
ReportedLast(u, status) ==
  up' = [up EXCEPT ![u] = [up[u] EXCEPT
    !.todo = IF status = "skipped" THEN << >> ELSE Tail(up[u].todo),
    !.results = Append(up[u].results, Entry(up[u].doc, Head(up[u].todo), status))]]

\* Every outcome of a record is an entry, and the loop goes on.
Reported(u, status) ==
  up' = [up EXCEPT ![u] = [up[u] EXCEPT
    !.todo = Tail(up[u].todo),
    !.results = Append(up[u].results, Entry(up[u].doc, Head(up[u].todo), status))]]

\* validate_publication_data refuses the record, or its project is not found or is
\* called otherwise.
RecordFails(u) ==
  /\ Ingesting(u)
  /\ Record(u).valid => ~Unasked(u)
  /\ ~Acceptable(u)
  /\ Reported(u, "failed")
  /\ UNCHANGED <<store, authors, gone, forms, asked>>

RecordCreated(u) ==
  /\ Ingesting(u)
  /\ Record(u).valid => ~Unasked(u)
  /\ Acceptable(u) /\ ~Taken(Record(u).key)
  /\ Stored(Id(u), [key |-> Record(u).key, project |-> Record(u).project,
                    name |-> IF Record(u).name # Null THEN Record(u).name ELSE Found(u)])
  /\ Reported(u, "created")
  /\ UNCHANGED <<gone, forms, asked>>

RecordSkipped(u) ==
  /\ Ingesting(u)
  /\ Record(u).valid => ~Unasked(u)
  /\ Acceptable(u) /\ Taken(Record(u).key)
  /\ Refused(Id(u))
  /\ Reported(u, "skipped")
  /\ UNCHANGED <<gone, forms, asked>>

\* Any other exception of the create: the database is not there for a moment.
RecordRaises(u) ==
  /\ Ingesting(u)
  /\ Record(u).valid => ~Unasked(u)
  /\ Acceptable(u)
  /\ Refused(Id(u))
  /\ Reported(u, "failed")
  /\ UNCHANGED <<gone, forms, asked>>

-----------------------------------------------------------------------------
(* The report *)

Positions(r) == {r[n].position : n \in DOMAIN r}

\* Python does not order a number and a text.
Sortable(r) == Text \in Positions(r) => Positions(r) = {Text}

\* Slip: the failures stay in front, where they were collected.
Unsorted(r) == r

\* Python's sort is stable.
Stably(r) ==
  {p \in (DOMAIN r) \X (DOMAIN r) :
     \/ r[p[1]].position < r[p[2]].position
     \/ r[p[1]].position = r[p[2]].position /\ p[1] < p[2]}

Sorted(r) ==
  IF Text \in Positions(r) THEN r
  ELSE [n \in DOMAIN r |-> r[Arranged(DOMAIN r, Stably(r))[n]]]

Answers(u) ==
  /\ up[u].stage = "ingesting" /\ up[u].todo = << >>
  /\ up' = [up EXCEPT ![u] =
       IF Sortable(up[u].results)
       THEN [stage |-> "answered", doc |-> up[u].doc, results |-> Sorted(up[u].results)]
       ELSE [stage |-> "raised", doc |-> up[u].doc]]
  /\ UNCHANGED <<store, authors, gone, forms, asked>>

\* The worker is killed between two records; what it stored stays.
Dies(u) ==
  /\ up[u].stage = "ingesting"
  /\ up' = [up EXCEPT ![u] = [stage |-> "died"]]
  /\ UNCHANGED <<store, authors, gone, forms, asked>>

-----------------------------------------------------------------------------
(* Everybody else *)

\* PublicationViewSet.create of a record without a project; a duplicate is a 400.
Creates(f, k) ==
  /\ f \notin forms
  /\ forms' = forms \cup {f}
  /\ \/ ~Taken(k) /\ Stored(<<f, 0>>, [key |-> k, project |-> Null, name |-> Null])
     \/ Taken(k) /\ Refused(<<f, 0>>)
  /\ UNCHANGED <<gone, up, asked>>

\* update_publication may give it another title or link, under the same constraints.
Retitles(id, k) ==
  /\ id \in DOMAIN store /\ ~Taken(k)
  /\ store' = [store EXCEPT ![id].key = k]
  /\ UNCHANGED <<authors, gone, forms, up, asked>>

Deletes(id) ==
  /\ id \in DOMAIN store
  /\ store' = [x \in DOMAIN store \ {id} |-> store[x]]
  /\ authors' = authors \ {id}
  /\ gone' = gone \cup {id}
  /\ UNCHANGED <<forms, up, asked>>

Ingests(u) ==
  \/ \E answer \in {Null} \cup Name : AsksProject(u, answer)
  \/ RecordFails(u)
  \/ RecordCreated(u)
  \/ RecordSkipped(u)
  \/ RecordRaises(u)
  \/ Answers(u)

Next ==
  \/ \E u \in Upload, doc \in Document : Collects(u, doc)
  \/ \E u \in Upload : Ingests(u)
  \/ \E u \in Upload : Dies(u)
  \/ \E f \in Form, k \in Key : Creates(f, k)
  \/ \E id \in DOMAIN store, k \in Key : Retitles(id, k)
  \/ \E id \in DOMAIN store : Deletes(id)

Spec == Init /\ [][Next]_vars

-----------------------------------------------------------------------------
(* Properties *)

Entries(u) == IF up[u].stage \in {"ingesting", "answered"}
              THEN {up[u].results[n] : n \in DOMAIN up[u].results} ELSE {}
Items(u, status) == {e.item : e \in {x \in Entries(u) : x.status = status}}

\* However uploads, creates, edits and deletes meet: no two publications share title and
\* link, and no Author row is left without its publication.  Nineteen such rows had to be
\* cleaned up in production.
StoreSound ==
  /\ \A x, y \in DOMAIN store : store[x].key = store[y].key => x = y
  /\ authors = DOMAIN store

\* One record cannot fail another, and a partial success is a real outcome: an answer
\* has exactly one entry for each item that the reader of the document handed over - for
\* a BibTeX document that does not parse, one for all of it - and its created entries are
\* the publications this request stored, some perhaps deleted since.  (An item that the
\* parser passed over is in no report.)
ReportIsWhatLanded ==
  \A u \in Upload : up[u].stage \in {"ingesting", "answered"} =>
    LET landed == {i \in DOMAIN up[u].doc.items : <<u, i>> \in DOMAIN store \cup gone}
    IN /\ Items(u, "created") = landed
       /\ up[u].stage = "answered" =>
            /\ Len(up[u].results) = Cardinality(HandedOver(up[u].doc))
            /\ {e.item : e \in Entries(u)} = HandedOver(up[u].doc)

SelfNumbered(doc) ==
  {i \in Readable(doc) : doc.shape = "json" /\ doc.items[i].line # Null}


\* The answer to "the upload said 3 skipped" is "which three": unless the records number
\* themselves, there is a report and it is in the order of the document, whatever failed
\* where.  (Records that do may leave it out of order, or without an order: the sort
\* raises, and what has landed is not reported.)
ReportInOrder ==
  \A u \in Upload :
    up[u].stage \in {"answered", "raised"} /\ SelfNumbered(up[u].doc) = {} =>
      /\ up[u].stage = "answered"
      /\ \A m, n \in DOMAIN up[u].results :
           m < n => up[u].results[m].item < up[u].results[n].item

\* One request asks Core API about a project once and keeps to the answer: its records
\* in that project are all stored under one name, the one it was told, or none is.
OneAnswerPerProject ==
  /\ \A u \in Upload, p \in Project : asked[<<u, p>>] <= 1
  /\ \A u \in Upload : up[u].stage = "ingesting" =>
       \A id \in DOMAIN store : id[1] = u /\ store[id].project # Null =>
         /\ store[id].project \in DOMAIN up[u].memo
         /\ store[id].name = up[u].memo[store[id].project]

=============================================================================
