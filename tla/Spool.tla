-------------------------------- MODULE Spool --------------------------------
(***************************************************************************)
(* The collector's durable spool (internal/collector/spool.go) at the      *)
(* granularity of its file-system operations.                              *)
(*                                                                         *)
(* A spool directory holds one segment file per UTC day, and state.json,   *)
(* the cursor of acknowledged records per segment.  The collector daemon   *)
(* ("runner") is one goroutine: every operation runs to completion before  *)
(* the next one, but the process can die between any two file operations.  *)
(* A second process, `onwatch collector status`, opens the same directory  *)
(* without taking the collector's lock.                                    *)
(*                                                                         *)
(* A record is one unit of size; an incomplete final record (a torn write) *)
(* is the field torn of its segment and also counts as one unit.           *)
(***************************************************************************)
EXTENDS Integers, Sequences, FiniteSets, FiniteSetsExt

CONSTANTS
  Events,      \* events the collector may append
  None,        \* "no event" / "no segment"
  MaxSegs,     \* bound: segment files created in a behaviour
  MaxDays,     \* bound: UTC days a behaviour lasts
  SpoolMax,    \* Spool.maxBytes, in records
  BatchLimit   \* Config.BatchSize

ASSUME SpoolConstants ==
  /\ None \notin Events
  /\ MaxSegs \in Nat \ {0}
  /\ MaxDays \in Nat \ {0}
  /\ SpoolMax \in Nat \ {0}
  /\ BatchLimit \in Nat \ {0}

Segs == 1..MaxSegs

VARIABLES
  live,       \* disk: the segments that exist
  files,      \* disk: complete records of each segment
  torn,       \* disk: the event whose write was cut short at a segment's end
  saved,      \* disk: cursorState.Offsets in state.json (absent = 0)
  partials,   \* disk: torn records preserved in partial-*.jsonl
  segDay,     \* the UTC day in a segment's name (0 = not created yet)
  nextSeg,    \* the next name os.CreateTemp will return
  day,        \* the current UTC day
  mem,        \* runner: Spool.state.Offsets
  pc,         \* runner: the file operation it performs next
  op,         \* runner: the call a sweep belongs to
  ev,         \* runner: the event being appended
  cur,        \* runner: the segment being appended to, or being removed
  dirty,      \* runner: `changed` of removeAckedClosedFilesLocked
  upto,       \* runner: end offsets of the batch in flight
  batch,      \* runner: events of the batch in flight
  accepted,   \* history: events whose Append returned nil
  delivered,  \* history: events the server has answered for
  spc,        \* status process: its next file operation
  sOff,       \* status process: its copy of the cursor
  sTodo,      \* status process: listed segments not examined yet
  sCur,       \* status process: the segment it is about to remove
  sDirty      \* status process: `changed`

diskVars   == <<live, files, torn, saved, partials, segDay, nextSeg>>
runnerVars == <<mem, pc, op, ev, cur, dirty, upto, batch>>
historyVars == <<accepted, delivered>>
statusVars == <<spc, sOff, sTodo, sCur, sDirty>>
vars == <<diskVars, runnerVars, historyVars, statusVars, day>>

NoOffsets == [s \in Segs |-> 0]

(* The positions of the records that a cursor has not passed. *)
Beyond(off) == UNION {{s} \X ((off[s] + 1)..Len(files[s])) : s \in live}

Record(p) == files[p[1]][p[2]]

(* Mutant: the sweep takes a segment with one unacknowledged record left.   *)
FullyAcked_OffByOne(s, off) == torn[s] = None /\ off[s] + 1 >= Len(files[s])

(* The size test shared by the sweep and by status: a torn tail makes the  *)
(* file longer than any cursor, so such a segment is never reclaimed.      *)
FullyAcked(s, off) == torn[s] = None /\ off[s] >= Len(files[s])

Size(s) == Len(files[s]) + (IF torn[s] = None THEN 0 ELSE 1)

Units == UNION {{s} \X (1..Size(s)) : s \in live}

DiskUsed == Cardinality(Units)

-----------------------------------------------------------------------------
Init ==
  /\ live = {} /\ files = [s \in Segs |-> <<>>] /\ torn = [s \in Segs |-> None]
  /\ saved = NoOffsets /\ partials = {} /\ segDay = [s \in Segs |-> 0]
  /\ nextSeg = 1 /\ day = 1
  /\ mem = NoOffsets /\ pc = "down" /\ op = "none" /\ ev = None /\ cur = 0
  /\ dirty = FALSE /\ upto = NoOffsets /\ batch = {}
  /\ accepted = {} /\ delivered = {}
  /\ spc = "exited" /\ sOff = NoOffsets /\ sTodo = {} /\ sCur = 0 /\ sDirty = FALSE

(* The runner is between two calls on the spool: locals are dead. *)
Return ==
  /\ pc' = "idle" /\ op' = "none" /\ ev' = None /\ cur' = 0
  /\ dirty' = FALSE /\ upto' = NoOffsets /\ batch' = {}

-----------------------------------------------------------------------------
(* NewSpool, then Runtime.Run: take the lock and repair torn tails.         *)
Start ==
  /\ pc = "down"
  /\ mem' = saved
  /\ pc' = "recover"
  /\ UNCHANGED <<diskVars, op, ev, cur, dirty, upto, batch, historyVars, statusVars, day>>

(* recoverPartialTails writes the incomplete suffix to partial-*.jsonl ...  *)
BackupTail(s) ==
  /\ pc = "recover"
  /\ s \in live /\ torn[s] # None /\ torn[s] \notin partials
  /\ partials' = partials \cup {torn[s]}
  /\ UNCHANGED <<live, files, torn, saved, segDay, nextSeg, runnerVars, historyVars, statusVars, day>>

(* Mutant: truncate without waiting for the backup.                         *)
TruncateTail_NoBackup(s) ==
  /\ pc = "recover"
  /\ s \in live /\ torn[s] # None
  /\ torn' = [torn EXCEPT ![s] = None]
  /\ UNCHANGED <<live, files, saved, partials, segDay, nextSeg, runnerVars, historyVars, statusVars, day>>

(* ... and only then truncates the segment.                                 *)
TruncateTail(s) ==
  /\ pc = "recover"
  /\ s \in live /\ torn[s] # None /\ torn[s] \in partials
  /\ torn' = [torn EXCEPT ![s] = None]
  /\ UNCHANGED <<live, files, saved, partials, segDay, nextSeg, runnerVars, historyVars, statusVars, day>>

Recovered ==
  /\ pc = "recover"
  /\ \A s \in live : torn[s] = None
  /\ pc' = "idle"
  /\ UNCHANGED <<diskVars, mem, op, ev, cur, dirty, upto, batch, historyVars, statusVars, day>>

-----------------------------------------------------------------------------
(* removeAckedClosedFilesLocked, called first by Append and Status and last *)
(* by Ack: stat a file, remove it, and save the cursor when one was removed. *)
SweepStat ==
  /\ pc = "sweep"
  /\ \E s \in live :
       /\ FullyAcked(s, mem)
       /\ \A t \in live : FullyAcked(t, mem) => s <= t
       /\ cur' = s
  /\ pc' = "unlink"
  /\ UNCHANGED <<diskVars, mem, op, ev, dirty, upto, batch, historyVars, statusVars, day>>

SweepUnlink ==
  /\ pc = "unlink" /\ cur \in live
  /\ live' = live \ {cur}
  /\ files' = [files EXCEPT ![cur] = <<>>]
  /\ mem' = [mem EXCEPT ![cur] = 0]
  /\ dirty' = TRUE
  /\ pc' = "sweep" /\ cur' = 0
  /\ UNCHANGED <<torn, saved, partials, segDay, nextSeg, op, ev, upto, batch, historyVars, statusVars, day>>

(* os.Remove fails (another process removed the file first, or the disk     *)
(* refuses): the call returns the error and the cursor is not saved.        *)
SweepUnlinkFails ==
  /\ pc = "unlink"
  /\ Return
  /\ UNCHANGED <<diskVars, mem, historyVars, statusVars, day>>

AfterSweep ==
  IF op = "append"
  THEN pc' = "place" /\ dirty' = FALSE /\ UNCHANGED <<op, ev, cur, upto, batch>>
  ELSE Return

SweepDone ==
  /\ pc = "sweep"
  /\ \A s \in live : ~FullyAcked(s, mem)
  /\ IF dirty
     THEN \/ saved' = mem /\ AfterSweep      \* temp file, fsync, rename
          \/ UNCHANGED saved /\ Return       \* the save failed: so does the call
     ELSE UNCHANGED saved /\ AfterSweep
  /\ UNCHANGED <<live, files, torn, partials, segDay, nextSeg, mem, historyVars, statusVars, day>>

-----------------------------------------------------------------------------
(* Spool.Append                                                             *)
AppendEvent(e) ==
  /\ pc = "idle"
  /\ pc' = "sweep" /\ op' = "append" /\ ev' = e
  /\ UNCHANGED <<diskVars, mem, cur, dirty, upto, batch, historyVars, statusVars, day>>

AppendFull ==
  /\ pc = "place"
  /\ DiskUsed + 1 > SpoolMax
  /\ Return
  /\ UNCHANGED <<diskVars, mem, historyVars, statusVars, day>>

Today == {s \in live : segDay[s] = day}

(* Mutant: the cap check forgets the size of the new record.                *)
AppendReuse_PastCap ==
  /\ pc = "place"
  /\ DiskUsed <= SpoolMax
  /\ \E s \in Today :
       /\ \A t \in Today : t <= s
       /\ cur' = s
  /\ pc' = "open"
  /\ UNCHANGED <<diskVars, mem, op, ev, dirty, upto, batch, historyVars, statusVars, day>>

AppendReuse ==
  /\ pc = "place"
  /\ DiskUsed + 1 <= SpoolMax
  /\ \E s \in Today :
       /\ \A t \in Today : t <= s
       /\ cur' = s
  /\ pc' = "open"
  /\ UNCHANGED <<diskVars, mem, op, ev, dirty, upto, batch, historyVars, statusVars, day>>

(* Mutant: one fixed name per day, as if the name had no random suffix.     *)
AppendCreate_ReusesName ==
  /\ pc = "place"
  /\ DiskUsed + 1 <= SpoolMax
  /\ Today = {}
  /\ day \in Segs
  /\ live' = live \cup {day}
  /\ segDay' = [segDay EXCEPT ![day] = day]
  /\ nextSeg' = nextSeg
  /\ cur' = day
  /\ pc' = "open"
  /\ UNCHANGED <<files, torn, saved, partials, mem, op, ev, dirty, upto, batch, historyVars, statusVars, day>>

(* Never reuse a removed segment name: os.CreateTemp picks a fresh one.     *)
AppendCreate ==
  /\ pc = "place"
  /\ DiskUsed + 1 <= SpoolMax
  /\ Today = {}
  /\ nextSeg <= MaxSegs
  /\ live' = live \cup {nextSeg}
  /\ segDay' = [segDay EXCEPT ![nextSeg] = day]
  /\ nextSeg' = nextSeg + 1
  /\ cur' = nextSeg
  /\ pc' = "open"
  /\ UNCHANGED <<files, torn, saved, partials, mem, op, ev, dirty, upto, batch, historyVars, statusVars, day>>

(* The final byte must be a newline; then O_APPEND|O_CREATE.                *)
AppendOpen ==
  /\ pc = "open"
  /\ IF cur \in live /\ torn[cur] # None
     THEN Return /\ UNCHANGED live
     ELSE /\ live' = live \cup {cur}
          /\ pc' = "write"
          /\ UNCHANGED <<op, ev, cur, dirty, upto, batch>>
  /\ UNCHANGED <<files, torn, saved, partials, segDay, nextSeg, mem, historyVars, statusVars, day>>

(* A write through the open descriptor reaches the directory only while the *)
(* name still exists: after an unlink the record goes with the inode.       *)
Written ==
  IF cur \in live
  THEN files' = [files EXCEPT ![cur] = Append(@, ev)]
  ELSE UNCHANGED files

AppendWrite ==
  /\ pc = "write"
  /\ Written
  /\ accepted' = accepted \cup {ev}
  /\ Return
  /\ UNCHANGED <<live, torn, saved, partials, segDay, nextSeg, mem, delivered, statusVars, day>>

(* A short write, or a complete write whose fsync fails: Append reports an  *)
(* error for a record that may nevertheless be on disk.                     *)
AppendFails ==
  /\ pc = "write"
  /\ \/ UNCHANGED <<files, torn>>
     \/ Written /\ UNCHANGED torn
     \/ cur \in live /\ torn' = [torn EXCEPT ![cur] = ev] /\ UNCHANGED files
  /\ Return
  /\ UNCHANGED <<live, saved, partials, segDay, nextSeg, mem, historyVars, statusVars, day>>

-----------------------------------------------------------------------------
(* Spool.Status, called by heartbeatOnce and collectOnce.                   *)
Status ==
  /\ pc = "idle"
  /\ pc' = "sweep" /\ op' = "status"
  /\ UNCHANGED <<diskVars, mem, ev, cur, dirty, upto, batch, historyVars, statusVars, day>>

(* Spool.Batch: a prefix of the unacknowledged records in segment order, cut *)
(* by the event limit, by the byte limit (hence any shorter prefix) and      *)
(* before a repeated event id.                                               *)
InBatch(u) == {p \in Beyond(mem) : p[2] <= u[p[1]]}

IsBatch(u) ==
  /\ \A s \in Segs : IF s \in live THEN u[s] \in mem[s]..Len(files[s]) ELSE u[s] = mem[s]
  /\ \A s, t \in live : s < t /\ u[t] > mem[t] => u[s] = Len(files[s])
  /\ \A p, q \in InBatch(u) : p # q => Record(p) # Record(q)
  /\ InBatch(u) # {} /\ Cardinality(InBatch(u)) <= BatchLimit

Upload ==
  /\ pc = "idle"
  /\ \E u \in [Segs -> 0..SpoolMax] :
       /\ IsBatch(u)
       /\ upto' = u
       /\ batch' = {Record(p) : p \in InBatch(u)}
  /\ pc' = "sent"
  /\ UNCHANGED <<diskVars, mem, op, ev, cur, dirty, historyVars, statusVars, day>>

(* The server takes responsibility for the batch (stores it, or rejects it  *)
(* for quarantine); the answer may still be lost.                           *)
ServerAnswers ==
  /\ pc = "sent"
  /\ delivered' = delivered \cup batch
  /\ pc' = "answered"
  /\ UNCHANGED <<diskVars, mem, op, ev, cur, dirty, upto, batch, accepted, statusVars, day>>

(* No usable answer: Spool.SetError saves the cursor as it is (or fails to). *)
UploadFails ==
  /\ pc \in {"sent", "answered"}
  /\ saved' \in {saved, mem}
  /\ Return
  /\ UNCHANGED <<live, files, torn, partials, segDay, nextSeg, mem, historyVars, statusVars, day>>

(* Spool.Ack: the cursor moves in memory and on disk together.              *)
Acked == [s \in Segs |-> IF upto[s] > mem[s] THEN upto[s] ELSE mem[s]]

Ack ==
  /\ pc = "answered"
  /\ mem' = Acked /\ saved' = Acked
  /\ pc' = "sweep" /\ op' = "ack" /\ upto' = NoOffsets /\ batch' = {}
  /\ UNCHANGED <<live, files, torn, partials, segDay, nextSeg, ev, cur, dirty, historyVars, statusVars, day>>

AckSaveFails ==
  /\ pc = "answered"
  /\ Return
  /\ UNCHANGED <<diskVars, mem, historyVars, statusVars, day>>

-----------------------------------------------------------------------------
Crash ==
  /\ pc # "down"
  /\ pc' = "down" /\ op' = "none" /\ ev' = None /\ cur' = 0
  /\ dirty' = FALSE /\ upto' = NoOffsets /\ batch' = {}
  /\ UNCHANGED <<diskVars, mem, historyVars, statusVars, day>>

Midnight ==
  /\ day < MaxDays
  /\ day' = day + 1
  /\ UNCHANGED <<diskVars, runnerVars, historyVars, statusVars>>

Next ==
  \/ Start \/ Recovered
  \/ \E s \in Segs : BackupTail(s) \/ TruncateTail(s)
  \/ SweepStat \/ SweepUnlink \/ SweepUnlinkFails \/ SweepDone
  \/ \E e \in Events : AppendEvent(e)
  \/ AppendFull \/ AppendReuse \/ AppendCreate \/ AppendOpen \/ AppendWrite \/ AppendFails
  \/ Status \/ Upload \/ ServerAnswers \/ UploadFails \/ Ack \/ AckSaveFails
  \/ Crash \/ Midnight

Spec == Init /\ [][Next]_vars

-----------------------------------------------------------------------------
(* `onwatch collector status` (printCollectorStatus): NewSpool and Status in *)
(* a process of its own, one file operation at a time.                       *)
StatusLoad ==
  /\ spc = "exited"
  /\ sOff' = saved /\ sTodo' = live /\ sDirty' = FALSE
  /\ spc' = "stat"
  /\ UNCHANGED <<diskVars, runnerVars, historyVars, day, sCur>>

StatusStat ==
  /\ spc = "stat" /\ sTodo # {}
  /\ LET s == Min(sTodo) IN
       /\ sTodo' = sTodo \ {s}
       /\ IF s \in live /\ FullyAcked(s, sOff)
          THEN spc' = "unlink" /\ sCur' = s
          ELSE UNCHANGED <<spc, sCur>>
  /\ UNCHANGED <<diskVars, runnerVars, historyVars, day, sOff, sDirty>>

StatusUnlink ==
  /\ spc = "unlink"
  /\ IF sCur \in live
     THEN /\ live' = live \ {sCur}
          /\ files' = [files EXCEPT ![sCur] = <<>>]
          /\ torn' = [torn EXCEPT ![sCur] = None]
          /\ sOff' = [sOff EXCEPT ![sCur] = 0]
          /\ sDirty' = TRUE /\ spc' = "stat"
     ELSE /\ spc' = "exited" /\ UNCHANGED <<live, files, torn, sOff, sDirty>>
  /\ sCur' = 0
  /\ UNCHANGED <<saved, partials, segDay, nextSeg, runnerVars, historyVars, day, sTodo>>

StatusSave ==
  /\ spc = "stat" /\ sTodo = {}
  /\ saved' = IF sDirty THEN sOff ELSE saved
  /\ spc' = "exited" /\ sDirty' = FALSE /\ sOff' = NoOffsets
  /\ UNCHANGED <<live, files, torn, partials, segDay, nextSeg, runnerVars, historyVars, day, sTodo, sCur>>

NextWithStatus == Next \/ StatusLoad \/ StatusStat \/ StatusUnlink \/ StatusSave

SpecWithStatus == Init /\ [][NextWithStatus]_vars

-----------------------------------------------------------------------------
TypeOK ==
  /\ live \subseteq Segs
  /\ files \in [Segs -> Seq(Events)]
  /\ torn \in [Segs -> Events \cup {None}]
  /\ saved \in [Segs -> Nat] /\ mem \in [Segs -> Nat] /\ upto \in [Segs -> Nat]
  /\ partials \subseteq Events
  /\ segDay \in [Segs -> Nat] /\ nextSeg \in 1..(MaxSegs + 1) /\ day \in 1..MaxDays
  /\ pc \in {"down", "recover", "idle", "sweep", "unlink", "place", "open", "write", "sent", "answered"}
  /\ op \in {"none", "append", "status", "ack"}
  /\ ev \in Events \cup {None} /\ cur \in Segs \cup {0} /\ dirty \in BOOLEAN
  /\ batch \subseteq Events /\ accepted \subseteq Events /\ delivered \subseteq Events
  /\ spc \in {"exited", "stat", "unlink"} /\ sOff \in [Segs -> Nat]
  /\ sTodo \subseteq Segs /\ sCur \in Segs \cup {0} /\ sDirty \in BOOLEAN

(* "A full spool ... preserves every unacknowledged event": an event whose  *)
(* Append succeeded is on disk beyond the cursor the collector uses now and *)
(* beyond the one a restart would load, until the server has answered for   *)
(* it - through crashes between a removal and the save of the cursor, torn  *)
(* writes, failed saves and lost answers.                                   *)
Pending(off) == {Record(p) : p \in Beyond(off)}

UnackedPreserved ==
  \A e \in accepted \ delivered :
    /\ e \in Pending(saved)
    /\ pc # "down" => e \in Pending(mem)

(* Neither cursor ever passes a record the server has not answered for      *)
(* (Ack moves it to the end of an answered batch, and the cursor of a       *)
(* removed segment that a crash left in state.json covers no new record).   *)
CursorBehindDelivery ==
  \A s \in live : \A i \in 1..Len(files[s]) :
    i <= mem[s] \/ i <= saved[s] => files[s][i] \in delivered

(* The hard cap that Append enforces holds in every state, whatever was     *)
(* reclaimed, torn or written by a call that reported failure.              *)
WithinCap == DiskUsed <= SpoolMax

(* recoverPartialTails preserves an interrupted write before it removes it: *)
(* the only step that shortens a segment without removing it leaves the cut *)
(* bytes in a partial file.                                                 *)
TornPreserved ==
  [][\A s \in Segs : s \in live /\ s \in live' /\ torn[s] # None /\ torn'[s] # torn[s]
       => torn[s] \in partials']_vars

(* The cursor a restart would load never moves back over an acknowledged    *)
(* record of a segment that still exists: the daemon alone never uploads    *)
(* again what it saved as acknowledged.                                     *)
SavedCursorMonotone ==
  [][\A s \in live \cap live' : saved'[s] >= saved[s]]_vars

(* The file-level spool implements the durable queue: at every step, crash  *)
(* points included, what a restart would upload changes only by an accepted *)
(* or stray event coming in, or by events the server answered for going out. *)
Queue == INSTANCE DurableQueue WITH pending <- Pending(saved)

ImplementsQueue == Queue!Spec
=============================================================================
