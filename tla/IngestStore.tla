----------------------------- MODULE IngestStore -----------------------------
(***************************************************************************)
(* The central server's usage store (internal/store/central.go,            *)
(* internal/store/api_integrations_store.go): ingest receipts, usage rows  *)
(* unique by fingerprint, hourly archive and the fingerprints of what was  *)
(* archived.                                                               *)
(*                                                                         *)
(* Devices deliver batches at least once: any device may send any batch    *)
(* again, in any order.  A batch is one transaction over the records of    *)
(* `work`; only Commit makes it the database `db`.  The other writers      *)
(* (local ingest, retention) are transactions of their own, which SQLite   *)
(* never interleaves with the writes of an open one.                       *)
(***************************************************************************)
EXTENDS Integers, Sequences, FiniteSets, Functions

CONSTANTS
  Devices,
  Lines,      \* the usage events that devices may send, see LineType
  Batches,    \* the sequences of lines that make up one request
  Cutoffs,    \* retention cutoffs
  NoRow, NoReceipt

Keys == {l.key : l \in Lines}        \* event ids
Prints == {l.fp : l \in Lines}       \* usage fingerprints

(* A usage event: its id, its immutable identity (capture time stands for   *)
(* kind, provider and account too), the fingerprint that its payload        *)
(* hashes to, and its payload: token count and metadata fields.             *)
LineType == [key : Keys, at : Nat, fp : Prints, tokens : Nat, meta : SUBSET STRING]

Row == [id : Nat, at : Nat, tokens : Nat, meta : SUBSET STRING]
ReceiptType == [line : Lines, fp : Prints, row : Nat]

(* The sums that retention moves to the archive, and an hourly row of an    *)
(* archive of another installation, under its identity there.               *)
HourlyType == [requests : Nat, tokens : Nat, times : SUBSET Nat]
ImportedType == [origin : STRING, rec : Nat \ {0}, requests : Nat, tokens : Nat,
                 times : SUBSET Nat, prints : SUBSET Prints]
RecordType == [origin : STRING, rec : Nat \ {0}, row : Nat]

ASSUME StoreConstants ==
  /\ IsFiniteSet(Lines) /\ Lines \subseteq LineType
  /\ Batches \subseteq Seq(Lines)
  /\ Cutoffs \subseteq Nat
  /\ NoRow \notin Row
  /\ NoReceipt \notin ReceiptType

VARIABLES
  db,        \* the committed database
  work,      \* the database as the open transaction sees it
  sender,    \* the device whose batch is being stored
  todo,      \* its events not stored yet
  results,   \* ingest.EventResult of the stored ones
  replies    \* the response being sent

vars == <<db, work, sender, todo, results, replies>>

Empty ==
  [rows     |-> [f \in Prints |-> NoRow],   \* api_integration_usage_events
   tombs    |-> {},                         \* ..._compacted_fingerprints
   hourly   |-> [requests |-> 0, tokens |-> 0, times |-> {}],
   records  |-> {},                         \* data_transfer_records of usage rows
   imported |-> {},                         \* hourly rows of other installations
   receipts |-> [d \in Devices |-> [k \in Keys |-> NoReceipt]],
   nextId   |-> 1,                          \* AUTOINCREMENT
   inserts  |-> [f \in Prints |-> 0],       \* history: rows ever inserted
   booked   |-> 0,                          \* history: tokens ever inserted
   taken    |-> {}]                         \* history: archives imported

Init ==
  /\ db = Empty /\ work = Empty
  /\ sender \in Devices /\ todo = <<>> /\ results = <<>> /\ replies = <<>>

Open == todo # <<>> \/ results # <<>>

-----------------------------------------------------------------------------
(* jsonIsEnrichment: everything the stored payload says, and more.          *)
Enriches(new, old) ==
  /\ new.tokens = old.tokens
  /\ old.meta \subseteq new.meta /\ old.meta # new.meta

SamePayload(l, m) == l.tokens = m.tokens /\ l.meta = m.meta /\ l.fp = m.fp

RowOf(l, id) == [id |-> id, at |-> l.at, tokens |-> l.tokens, meta |-> l.meta]

(* INSERT of a new usage row; the histories only count it. *)
Inserted(x, l) ==
  [x EXCEPT !.rows[l.fp] = RowOf(l, x.nextId), !.nextId = @ + 1,
            !.inserts[l.fp] = @ + 1, !.booked = @ + l.tokens]

(* The receipt names the raw row of its usage, or (row 0) the tombstone.    *)
Receipted(x, d, l, row) ==
  [x EXCEPT !.receipts[d][l.key] = [line |-> l, fp |-> l.fp, row |-> row]]

Answer(l, status) ==
  /\ results' = Append(results, [line |-> l, status |-> status])
  /\ todo' = Tail(todo)
  /\ UNCHANGED <<db, sender, replies>>

Event == Head(todo)
Receipt == work.receipts[sender][Event.key]

-----------------------------------------------------------------------------
(* Server.batches, then StoreIngestBatch: begin the transaction.            *)
BeginBatch(d, b) ==
  /\ ~Open
  /\ sender' = d /\ todo' = b /\ replies' = <<>>
  /\ UNCHANGED <<db, work, results>>

(* storeIngestEvent, one action per outcome.                                *)
StoreNew ==
  /\ todo # <<>> /\ Receipt = NoReceipt
  /\ Event.fp \notin work.tombs /\ work.rows[Event.fp] = NoRow
  /\ work' = Receipted(Inserted(work, Event), sender, Event, work.nextId)
  /\ Answer(Event, "accepted")

(* Another event of this or another device already brought this usage.      *)
StoreKnownUsage ==
  /\ todo # <<>> /\ Receipt = NoReceipt
  /\ work.rows[Event.fp] # NoRow
  /\ work' = Receipted(work, sender, Event, work.rows[Event.fp].id)
  /\ Answer(Event, "duplicate")

(* The trigger prevent_compacted_api_integration_reinsert ignored the insert. *)
StoreArchivedUsage ==
  /\ todo # <<>> /\ Receipt = NoReceipt
  /\ Event.fp \in work.tombs /\ work.rows[Event.fp] = NoRow
  /\ work' = Receipted(work, sender, Event, 0)
  /\ Answer(Event, "duplicate")

RejectIdentity ==
  /\ todo # <<>> /\ Receipt # NoReceipt
  /\ Receipt.line.at # Event.at
  /\ Answer(Event, "rejected")
  /\ UNCHANGED work

SameIdentity == todo # <<>> /\ Receipt # NoReceipt /\ Receipt.line.at = Event.at

StoreReplay ==
  /\ SameIdentity
  /\ \/ SamePayload(Event, Receipt.line)
     \/ Enriches(Event, Receipt.line) /\ Receipt.row = 0
  /\ Answer(Event, "duplicate")
  /\ UNCHANGED work

Raw(x) == {f \in Prints : x.rows[f] # NoRow}

(* What the dashboard adds up: the tokens of raw rows and of hourly rows.   *)
Tokens(x, S) == SumFunctionOnSet([f \in S |-> x.rows[f].tokens], S)
HourlyTokens(H) == SumFunctionOnSet([h \in H |-> h.tokens], H)

HasRow(x, id) == \E f \in Prints : x.rows[f] # NoRow /\ x.rows[f].id = id
PrintOf(x, id) == CHOOSE f \in Prints : x.rows[f] # NoRow /\ x.rows[f].id = id

(* enrichUsageEvent replaces the metadata of the row the receipt names, and *)
(* the receipt remembers the richer payload.                                *)
StoreEnrichment ==
  /\ SameIdentity
  /\ Enriches(Event, Receipt.line) /\ Receipt.row # 0
  /\ HasRow(work, Receipt.row)
  /\ work' = [work EXCEPT !.rows[PrintOf(work, Receipt.row)].meta = Event.meta,
                          !.receipts[sender][Event.key].line = Event]
  /\ Answer(Event, "enriched")

RejectPayload ==
  /\ SameIdentity
  /\ ~SamePayload(Event, Receipt.line)
  /\ Enriches(Event, Receipt.line) => Receipt.row # 0 /\ ~HasRow(work, Receipt.row)
  /\ Answer(Event, "rejected")
  /\ UNCHANGED work

(* Mutant: the response is sent although the commit failed.                 *)
Commit_ErrorIgnored ==
  /\ Open /\ todo = <<>>
  /\ db' = db /\ work' = db /\ replies' = results
  /\ results' = <<>>
  /\ UNCHANGED <<sender, todo>>

(* The batch becomes durable, then the response carries its results.        *)
Commit ==
  /\ Open /\ todo = <<>>
  /\ db' = work /\ replies' = results
  /\ results' = <<>>
  /\ UNCHANGED <<work, sender, todo>>

(* A statement or the commit fails, or the server dies: 503 or no answer.   *)
Rollback ==
  /\ Open
  /\ work' = db
  /\ todo' = <<>> /\ results' = <<>> /\ replies' = <<>>
  /\ UNCHANGED <<db, sender>>

-----------------------------------------------------------------------------
(* InsertAPIIntegrationUsageEvent, for the server's own log files: a known  *)
(* fingerprint merges its metadata (json_patch), an archived one is ignored. *)
LocalInsert(l) ==
  /\ ~Open
  /\ db' = IF l.fp \in db.tombs THEN db
           ELSE IF db.rows[l.fp] = NoRow THEN Inserted(db, l)
           ELSE [db EXCEPT !.rows[l.fp].meta = @ \cup l.meta]
  /\ work' = db' /\ replies' = <<>>
  /\ UNCHANGED <<sender, todo, results>>

(* CompactAPIIntegrationUsageEvents: aggregate, tombstone and delete the    *)
(* rows captured before the cutoff, in one transaction.                     *)
Expired(c) == {f \in Prints : db.rows[f] # NoRow /\ db.rows[f].at < c}

(* Mutant: the archive keeps no fingerprints.                               *)
Compact_NoTombstones(c) ==
  /\ ~Open
  /\ Expired(c) # {}
  /\ db' = [db EXCEPT
       !.hourly = [requests |-> @.requests + Cardinality(Expired(c)),
                   tokens |-> @.tokens + Tokens(db, Expired(c)),
                   times |-> @.times \cup {db.rows[f].at : f \in Expired(c)}],
       !.records = {e \in @ : \A f \in Expired(c) : e.row # db.rows[f].id},
       !.rows = [f \in Prints |-> IF f \in Expired(c) THEN NoRow ELSE @[f]]]
  /\ work' = db' /\ replies' = <<>>
  /\ UNCHANGED <<sender, todo, results>>

(* Mutant: an hourly row that exists is replaced instead of added to.       *)
Compact_Replaces(c) ==
  /\ ~Open
  /\ Expired(c) # {}
  /\ db' = [db EXCEPT
       !.hourly = [requests |-> Cardinality(Expired(c)),
                   tokens |-> Tokens(db, Expired(c)),
                   times |-> @.times \cup {db.rows[f].at : f \in Expired(c)}],
       !.records = {e \in @ : \A f \in Expired(c) : e.row # db.rows[f].id},
       !.tombs = @ \cup Expired(c),
       !.rows = [f \in Prints |-> IF f \in Expired(c) THEN NoRow ELSE @[f]]]
  /\ work' = db' /\ replies' = <<>>
  /\ UNCHANGED <<sender, todo, results>>

Compact(c) ==
  /\ ~Open
  /\ Expired(c) # {}
  /\ db' = [db EXCEPT
       !.hourly = [requests |-> @.requests + Cardinality(Expired(c)),
                   tokens |-> @.tokens + Tokens(db, Expired(c)),
                   times |-> @.times \cup {db.rows[f].at : f \in Expired(c)}],
       !.records = {e \in @ : \A f \in Expired(c) : e.row # db.rows[f].id},
       !.tombs = @ \cup Expired(c),
       !.rows = [f \in Prints |-> IF f \in Expired(c) THEN NoRow ELSE @[f]]]
  /\ work' = db' /\ replies' = <<>>
  /\ UNCHANGED <<sender, todo, results>>

Next ==
  \/ \E d \in Devices, b \in Batches : BeginBatch(d, b)
  \/ StoreNew \/ StoreKnownUsage \/ StoreArchivedUsage
  \/ RejectIdentity \/ StoreReplay \/ StoreEnrichment \/ RejectPayload
  \/ Commit \/ Rollback
  \/ \E l \in Lines : LocalInsert(l)
  \/ \E c \in Cutoffs : Compact(c)

Spec == Init /\ [][Next]_vars

-----------------------------------------------------------------------------
Statuses == {"accepted", "duplicate", "enriched", "rejected"}
AnswerType == [line : Lines, status : Statuses]

Typed(x) ==
  /\ x.rows \in [Prints -> Row \cup {NoRow}]
  /\ x.tombs \subseteq Prints
  /\ x.receipts \in [Devices -> [Keys -> ReceiptType \cup {NoReceipt}]]
  /\ x.nextId \in Nat
  /\ x.hourly \in HourlyType
  /\ x.imported \subseteq ImportedType /\ IsFiniteSet(x.imported)
  /\ x.records \subseteq RecordType
  /\ x.inserts \in [Prints -> Nat]
  /\ x.booked \in Nat

(* Types of the two databases, the request and the response.                *)
TypeOK ==
  /\ Typed(db) /\ Typed(work)
  /\ sender \in Devices
  /\ todo \in Seq(Lines)
  /\ results \in Seq(AnswerType)
  /\ replies \in Seq(AnswerType)

(* A usage counts once, whichever devices report it, under whichever event  *)
(* ids, replayed before or after its row was archived: it is either a raw   *)
(* row or part of the archive, and it was inserted exactly that often.      *)
CountedOnce ==
  \A f \in Prints :
    /\ db.inserts[f] <= 1
    /\ db.inserts[f] = 1 <=> db.rows[f] # NoRow \/ f \in db.tombs
    /\ ~(db.rows[f] # NoRow /\ f \in db.tombs)

(* Archiving moves tokens and requests, it never creates or drops any: what *)
(* the dashboard sums over raw rows and hourly rows is what was inserted.   *)
UsageConserved ==
  /\ db.booked = db.hourly.tokens + Tokens(db, Raw(db)) + HourlyTokens(db.imported)
  /\ db.hourly.requests = Cardinality(db.tombs)

(* A device discards an event when the answer is accepted, duplicate or     *)
(* enriched: by then the receipt is durable and its usage is counted, even  *)
(* when only another device's event or an archived row carries it.          *)
AnsweredIsCounted ==
  /\ \A i \in 1..Len(replies) :
       replies[i].status # "rejected" =>
         db.receipts[sender][replies[i].line.key] # NoReceipt
  /\ \A d \in Devices, k \in Keys :
       db.receipts[d][k] # NoReceipt => db.inserts[db.receipts[d][k].fp] = 1
=============================================================================
