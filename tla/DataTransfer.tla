---------------------------- MODULE DataTransfer ----------------------------
(***************************************************************************)
(* Portable history (internal/store/transfer.go): another installation     *)
(* exports its usage into an archive, and the server imports archives, in  *)
(* any order and again, between the batches, the local ingest and the      *)
(* retention of IngestStore.  An exported row carries the identity it has  *)
(* where it was first stored, and data_transfer_records maps it to a row   *)
(* here.  An import is one transaction, so it is an operator from a        *)
(* database to the result of the transaction; a refused one changes        *)
(* nothing.                                                                *)
(***************************************************************************)
EXTENDS IngestStore, SequencesExt

CONSTANTS
  Self,      \* the installation id of this server
  Archives   \* the archives that may be imported: [raw, hourly, observed]

(* A raw row is [origin, rec, usage], its identity and its usage; an hourly  *)
(* row [origin, rec, requests, tokens, times, prints], the prints being      *)
(* history only; an observed row is one that a device delivered.             *)
UsageType == [at : Nat, fp : Prints, tokens : Nat, meta : SUBSET STRING]
RawType == [origin : STRING, rec : Nat \ {0}, usage : UsageType]

ASSUME ArchiveType ==
  \A a \in Archives :
    /\ a.raw \in Seq(RawType)
    /\ \A i, j \in DOMAIN a.raw : a.raw[i].usage.fp = a.raw[j].usage.fp => i = j
    /\ \A r \in a.observed : r.rec \in Nat \ {0}
    /\ a.hourly \subseteq ImportedType /\ IsFiniteSet(a.hourly)

(* Archives of other installations bring no row of this server's own, and    *)
(* their ids (source_record_id, never reused) name one usage each.           *)
OneIdentity ==
  /\ \A a \in Archives : \A i \in DOMAIN a.raw : a.raw[i].origin # Self
  /\ \A a, b \in Archives : \A i \in DOMAIN a.raw, j \in DOMAIN b.raw :
       a.raw[i].origin = b.raw[j].origin /\ a.raw[i].rec = b.raw[j].rec
         => a.raw[i].usage.fp = b.raw[j].usage.fp

(* The same of hourly rows.  An hour that was compacted further between two  *)
(* archives is outside: importTransferTable skips the row it knows.          *)
OneHour ==
  /\ \A a \in Archives : \A h \in a.hourly : h.origin # Self
  /\ \A a, b \in Archives : \A g \in a.hourly, h \in b.hourly :
       g.origin = h.origin /\ g.rec = h.rec => g = h

-----------------------------------------------------------------------------
(* findImportedLocalID: the row that an exported identity stands for here,  *)
(* 0 if there is none.                                                      *)
LocalRow(x, self, r) ==
  LET mapped == {e \in x.records : e.origin = r.origin /\ e.rec = r.rec}
  IN  IF mapped # {} THEN (CHOOSE e \in mapped : TRUE).row
      ELSE IF r.origin = self /\ HasRow(x, r.rec) THEN r.rec ELSE 0

(* validateImportedUsageIdentity: the stored row is the same usage.         *)
SameUsage(x, id, u) ==
  LET row == x.rows[PrintOf(x, id)] IN row.at = u.at /\ row.tokens = u.tokens

(* importTransferTable for the raw rows of an archive, by their position:   *)
(* those that are here under their fingerprint, and those that are new. The *)
(* others are known by their identity, or archived here.                    *)
Unmapped(x, self, a) == {i \in DOMAIN a.raw : LocalRow(x, self, a.raw[i]) = 0}

Here(x, self, a) ==
  {i \in Unmapped(x, self, a) : x.rows[a.raw[i].usage.fp] # NoRow}

Fresh(x, self, a) ==
  {i \in Unmapped(x, self, a) :
     x.rows[a.raw[i].usage.fp] = NoRow /\ a.raw[i].usage.fp \notin x.tombs}

\* the id that AUTOINCREMENT gives the new row at position i
NewId(x, self, a, i) == x.nextId + Cardinality({j \in Fresh(x, self, a) : j < i})

RecordOrigin(r, id) == [origin |-> r.origin, rec |-> r.rec, row |-> id]

ImportRaw(x, self, a) ==
  LET new == Fresh(x, self, a)
      position(f) == CHOOSE i \in new : a.raw[i].usage.fp = f
      prints == {a.raw[i].usage.fp : i \in new}
  IN  [x EXCEPT
        !.rows = [f \in Prints |->
                    IF f \in prints
                    THEN RowOf(a.raw[position(f)].usage, NewId(x, self, a, position(f)))
                    ELSE x.rows[f]],
        !.nextId = x.nextId + Cardinality(new),
        !.records = x.records
          \cup {RecordOrigin(a.raw[i], x.rows[a.raw[i].usage.fp].id) : i \in Here(x, self, a)}
          \cup {RecordOrigin(a.raw[i], NewId(x, self, a, i)) : i \in new},
        !.inserts = [f \in Prints |-> IF f \in prints THEN x.inserts[f] + 1 ELSE x.inserts[f]],
        !.booked = x.booked + SumFunctionOnSet([i \in new |-> a.raw[i].usage.tokens], new)]

(* A row that is known or here must be the same usage.                      *)
RawAgrees(x, self, a) ==
  /\ \A i \in DOMAIN a.raw \ Unmapped(x, self, a) :
       SameUsage(x, LocalRow(x, self, a.raw[i]), a.raw[i].usage)
  /\ \A i \in Here(x, self, a) :
       SameUsage(x, x.rows[a.raw[i].usage.fp].id, a.raw[i].usage)

(* An hourly row is taken once, as it is, with the scope of its origin.     *)
NewHourly(x, self, a) ==
  {h \in a.hourly : h.origin # self /\ \A g \in x.imported : g.origin # h.origin \/ g.rec # h.rec}

ImportHourly(x, new) ==
  [x EXCEPT !.imported = @ \cup new,
            !.booked = @ + HourlyTokens(new)]

(* Raw rows and an hourly row of one origin that cover the same time.       *)
Overlap(x) ==
  \E h \in x.imported, e \in x.records, f \in Prints :
    /\ e.origin = h.origin
    /\ x.rows[f] # NoRow /\ x.rows[f].id = e.row
    /\ \E s, t \in h.times : s <= x.rows[f].at /\ x.rows[f].at <= t

Import(x, self, a) ==
  LET raw == ImportRaw(x, self, a)
      y == ImportHourly(raw, NewHourly(raw, self, a))
  IN  [db |-> y,
       ok |-> /\ RawAgrees(x, self, a)
              /\ \A r \in a.observed : LocalRow(y, self, r) # 0
              /\ ~Overlap(y)]

ImportData(a) ==
  LET result == Import(db, Self, a) IN
    /\ ~Open
    /\ result.ok
    /\ db' = [result.db EXCEPT !.taken = @ \cup {a}]
    /\ work' = db' /\ replies' = <<>>
    /\ UNCHANGED <<sender, todo, results>>

-----------------------------------------------------------------------------
(* exportTransferTable: the identity of a row is its first mapped one, or   *)
(* this installation's own.                                                 *)
OriginOf(x, self, id) ==
  LET mapped == {e \in x.records : e.row = id}
  IN  IF mapped = {} THEN [origin |-> self, rec |-> id]
      ELSE LET e == CHOOSE e \in mapped : TRUE IN [origin |-> e.origin, rec |-> e.rec]

Exported(x, self, f) ==
  [origin |-> OriginOf(x, self, x.rows[f].id).origin,
   rec |-> OriginOf(x, self, x.rows[f].id).rec,
   usage |-> [at |-> x.rows[f].at, fp |-> f, tokens |-> x.rows[f].tokens, meta |-> x.rows[f].meta]]

OwnHourly(x, self) ==
  IF x.hourly.requests = 0 THEN {}
  ELSE {[origin |-> self, rec |-> 1, requests |-> x.hourly.requests, tokens |-> x.hourly.tokens,
         times |-> x.hourly.times, prints |-> x.tombs]}

(* Mutant: an imported hourly row is exported as one of this installation.  *)
ExportHourly_AsOwn(x, self) ==
  OwnHourly(x, self) \cup {[h EXCEPT !.origin = self, !.rec = @ + 1] : h \in x.imported}

ExportHourly(x, self) == OwnHourly(x, self) \cup x.imported

Received(x) ==
  {f \in Prints : x.rows[f] # NoRow
     /\ \E d \in Devices, k \in Keys :
          x.receipts[d][k] # NoReceipt /\ x.receipts[d][k].row = x.rows[f].id}

Export(x, self) ==
  LET raw == Raw(x)
  IN  [raw |-> [i \in 1..Cardinality(raw) |-> Exported(x, self, SetToSeq(raw)[i])],
       hourly |-> ExportHourly(x, self),
       observed |-> {OriginOf(x, self, x.rows[f].id) : f \in Received(x)}]

-----------------------------------------------------------------------------
TransferNext == Next \/ \E a \in Archives : ImportData(a)

TransferSpec == Init /\ [][TransferNext]_vars

-----------------------------------------------------------------------------
(* How often a usage counts in what the dashboard sums.                     *)
TimesCounted(x, f) ==
  (IF x.rows[f] # NoRow THEN 1 ELSE 0) + (IF f \in x.tombs THEN 1 ELSE 0)
    + Cardinality({h \in x.imported : f \in h.prints})

(* An archive that was imported adds nothing when it is imported again,     *)
(* whatever has arrived and whatever retention has archived since.          *)
ReimportAddsNothing ==
  \A a \in db.taken :
    LET again == Import(db, Self, a) IN
      again.ok => \A f \in Prints : TimesCounted(again.db, f) = TimesCounted(db, f)

(* A third installation that imports both this server's export and an       *)
(* archive the server has imported, in either order, counts a usage no      *)
(* more often than the server, while its raw row has not been archived.     *)
RelayedOnce ==
  \A a \in db.taken, f \in Prints :
    LET third(s, t) == LET one == Import(Empty, "third", s)
                           two == Import(one.db, "third", t)
                       IN  IF two.ok THEN two.db ELSE one.db
        own == Export(db, Self)
    IN  f \notin db.tombs =>
          \A c \in {third(a, own), third(own, a)} :
            TimesCounted(c, f) <= Max({1, TimesCounted(db, f)})

(* Portable history is taken once: from an archive again, and over a relay. *)
TransferredOnce == Open \/ (ReimportAddsNothing /\ RelayedOnce)
=============================================================================
