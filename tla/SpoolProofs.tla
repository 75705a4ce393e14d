----------------------------- MODULE SpoolProofs -----------------------------
(***************************************************************************)
(* What the collector daemon's spool guarantees for every number of events, *)
(* segments and days: proofs about Spec of module Spool (the daemon alone,  *)
(* with crashes, torn writes, failed saves and lost answers).               *)
(***************************************************************************)
EXTENDS Spool, FiniteSetTheorems, TLAPS

-----------------------------------------------------------------------------
(* The inductive invariant. *)

(* What the runner's locals are worth at each of its program points. *)
Locals ==
  /\ op = "append" => ev \in Events
  /\ pc \in {"place", "open", "write"} => op = "append"
  /\ pc \in {"open", "write"} => cur \in live
  /\ pc = "unlink" => cur \in live /\ FullyAcked(cur, mem)

(* A name that was never created has no file, no record and no cursor; a    *)
(* removed segment keeps at most a stale cursor, and its name is not reused. *)
NamesFresh ==
  /\ \A s \in Segs : s \notin live => files[s] = <<>>
  /\ \A s \in Segs : s >= nextSeg => s \notin live /\ mem[s] = 0 /\ saved[s] = 0

(* Memory and disk agree on the segments that exist. *)
CursorsAgree == \A s \in live : mem[s] = saved[s] /\ saved[s] <= Len(files[s])

(* The records between the cursor and the end of the batch are the batch.   *)
BatchCovers ==
  /\ pc \in {"sent", "answered"} =>
       \A s \in Segs :
         /\ s \in live => upto[s] <= Len(files[s])
         /\ s \in live => \A i \in 1..Len(files[s]) :
                            mem[s] < i /\ i <= upto[s] => files[s][i] \in batch
         /\ s \notin live => upto[s] <= mem[s]
  /\ pc = "answered" => batch \subseteq delivered

Behind == \A s \in live : \A i \in 1..Len(files[s]) :
            i <= saved[s] => files[s][i] \in delivered

Kept == \A e \in accepted \ delivered :
          \E s \in live : \E i \in 1..Len(files[s]) : files[s][i] = e

IInv ==
  /\ TypeOK /\ Locals /\ NamesFresh /\ CursorsAgree
  /\ BatchCovers /\ Behind /\ Kept

-----------------------------------------------------------------------------
(* An empty spool directory satisfies the invariant. *)
LEMMA InitIInv == Init => IInv
<1> SUFFICES ASSUME Init PROVE IInv
  OBVIOUS
<1> USE DEF Init, NoOffsets
<1>1. TypeOK
  <2>1. files \in [Segs -> Seq(Events)]
    OBVIOUS
  <2>2. saved \in [Segs -> Nat] /\ mem \in [Segs -> Nat] /\ upto \in [Segs -> Nat]
        /\ sOff \in [Segs -> Nat] /\ segDay \in [Segs -> Nat]
    OBVIOUS
  <2>3. nextSeg \in 1..(MaxSegs + 1) /\ day \in 1..MaxDays
    BY SpoolConstants
  <2> QED
    BY <2>1, <2>2, <2>3 DEF TypeOK
<1>2. Locals /\ CursorsAgree /\ BatchCovers
  BY DEF Locals, CursorsAgree, BatchCovers
<1>3. NamesFresh /\ Behind /\ Kept
  BY DEF NamesFresh, Behind, Kept
<1> QED
  BY <1>1, <1>2, <1>3 DEF IInv

LEMMA ZeroOffsets == NoOffsets \in [Segs -> Nat]
  BY DEF NoOffsets

(* Steps that leave the disk, the cursors and the history alone: they only  *)
(* move the runner to its next program point.                               *)
Quiet ==
  \/ Recovered \/ SweepStat \/ SweepUnlinkFails \/ AppendFull \/ AppendReuse
  \/ Status \/ AckSaveFails \/ Crash \/ Midnight
  \/ \E e \in Events : AppendEvent(e)
  \/ UNCHANGED vars

LEMMA QuietSteps == IInv /\ Quiet => IInv'
<1> SUFFICES ASSUME IInv, Quiet PROVE IInv'
  OBVIOUS
<1> USE DEF IInv, diskVars, historyVars, statusVars, runnerVars, Return, NoOffsets
<1>1. UNCHANGED <<diskVars, mem, historyVars, statusVars>>
  BY DEF Quiet, vars, Recovered, SweepStat, SweepUnlinkFails, AppendFull, AppendReuse,
     Status, AckSaveFails, Crash, Midnight, AppendEvent
<1>2. NamesFresh' /\ CursorsAgree' /\ Behind' /\ Kept'
  BY <1>1 DEF NamesFresh, CursorsAgree, Behind, Kept
<1>3. TypeOK'
  <2>1. day' \in 1..MaxDays
    <3>1. day' = day \/ (day < MaxDays /\ day' = day + 1)
      BY DEF Quiet, vars, Recovered, SweepStat, SweepUnlinkFails,
         AppendFull, AppendReuse, Status, AckSaveFails, Crash, Midnight, AppendEvent
    <3>2. day \in 1..MaxDays
      BY DEF TypeOK
    <3> QED
      BY <3>1, <3>2, SpoolConstants
  <2>2. upto' \in {upto, NoOffsets} /\ batch' \in {batch, {}}
    BY DEF Quiet, vars, Recovered, SweepStat, SweepUnlinkFails,
       AppendFull, AppendReuse, Status, AckSaveFails, Crash, Midnight, AppendEvent
  <2>3. cur' \in Segs \cup {0} /\ ev' \in Events \cup {None} /\ dirty' \in BOOLEAN
    BY DEF TypeOK, Quiet, vars, Recovered, SweepStat, SweepUnlinkFails,
       AppendFull, AppendReuse, Status, AckSaveFails, Crash, Midnight, AppendEvent, Today
  <2>4. op' \in {"none", "append", "status", "ack"}
    BY DEF TypeOK, Quiet, vars, Recovered, SweepStat, SweepUnlinkFails,
       AppendFull, AppendReuse, Status, AckSaveFails, Crash, Midnight, AppendEvent
  <2>5. pc' \in {"down", "recover", "idle", "sweep", "unlink", "place", "open", "write",
                 "sent", "answered"}
    BY DEF TypeOK, Quiet, vars, Recovered, SweepStat, SweepUnlinkFails,
       AppendFull, AppendReuse, Status, AckSaveFails, Crash, Midnight, AppendEvent
  <2>6. upto' \in [Segs -> Nat]
    BY <2>2, ZeroOffsets DEF TypeOK
  <2>7. batch' \subseteq Events
    BY <2>2 DEF TypeOK
  <2> QED
    BY <1>1, <2>1, <2>3, <2>4, <2>5, <2>6, <2>7 DEF TypeOK
<1>4. Locals'
  BY <1>1 DEF Locals, FullyAcked, Quiet, vars, Recovered, SweepStat, SweepUnlinkFails,
     AppendFull, AppendReuse, Status, AckSaveFails, Crash, Midnight, AppendEvent, Today
<1>5. BatchCovers'
  BY <1>1 DEF BatchCovers, Quiet, vars, Recovered, SweepStat, SweepUnlinkFails,
     AppendFull, AppendReuse, Status, AckSaveFails, Crash, Midnight, AppendEvent
<1> QED
  BY <1>2, <1>3, <1>4, <1>5

(* NewSpool loads the cursor that the disk holds. *)
LEMMA StartStep == IInv /\ Start => IInv'
<1> SUFFICES ASSUME IInv, Start PROVE IInv'
  OBVIOUS
<1> USE DEF IInv, Start, diskVars, historyVars, statusVars
<1>1. TypeOK'
  BY DEF TypeOK
<1>2. Locals' /\ BatchCovers'
  BY DEF Locals, BatchCovers
<1>3. NamesFresh' /\ CursorsAgree'
  BY DEF NamesFresh, CursorsAgree
<1>4. Behind' /\ Kept'
  BY DEF Behind, Kept
<1> QED
  BY <1>1, <1>2, <1>3, <1>4

(* The repair of torn tails touches neither records nor cursors. *)
LEMMA RepairStep ==
  ASSUME IInv, NEW s \in Segs, BackupTail(s) \/ TruncateTail(s)
  PROVE  IInv'
<1> USE DEF IInv, BackupTail, TruncateTail, runnerVars, historyVars, statusVars
<1>1. partials' \subseteq Events /\ torn' \in [Segs -> Events \cup {None}]
  BY DEF TypeOK
<1>2. TypeOK'
  BY <1>1 DEF TypeOK
<1>3. Locals' /\ BatchCovers'
  BY DEF Locals, BatchCovers
<1>4. NamesFresh' /\ CursorsAgree' /\ Behind' /\ Kept'
  BY DEF NamesFresh, CursorsAgree, Behind, Kept
<1> QED
  BY <1>2, <1>3, <1>4

(* A removed segment holds only records that the cursor has passed, hence    *)
(* only records the server has answered for.                                 *)
LEMMA UnlinkStep == IInv /\ SweepUnlink => IInv'
<1> SUFFICES ASSUME IInv, SweepUnlink PROVE IInv'
  OBVIOUS
<1> USE DEF IInv, SweepUnlink, historyVars, statusVars
<1>1. cur \in Segs /\ mem[cur] >= Len(files[cur]) /\ pc' = "sweep"
  BY DEF Locals, FullyAcked, TypeOK
<1>2. TypeOK'
  <2>1. files' \in [Segs -> Seq(Events)]
    BY <1>1 DEF TypeOK
  <2>2. mem' \in [Segs -> Nat]
    BY <1>1 DEF TypeOK
  <2> QED
    BY <2>1, <2>2 DEF TypeOK
<1>3. Locals' /\ BatchCovers'
  BY DEF Locals, BatchCovers
<1>4. NamesFresh'
  BY <1>1 DEF NamesFresh, TypeOK
<1>5. CursorsAgree' /\ Behind'
  BY <1>1 DEF CursorsAgree, Behind, TypeOK
<1>6. Kept'
  <2> SUFFICES ASSUME NEW e \in accepted \ delivered
               PROVE  \E s \in live' : \E i \in 1..Len(files'[s]) : files'[s][i] = e
    BY DEF Kept
  <2>1. PICK s \in live : \E i \in 1..Len(files[s]) : files[s][i] = e
    BY DEF Kept
  <2>2. s # cur
    BY <1>1, <2>1 DEF Behind, CursorsAgree, TypeOK
  <2> QED
    BY <2>1, <2>2 DEF TypeOK
<1> QED
  BY <1>2, <1>3, <1>4, <1>5, <1>6

(* The save that ends a sweep makes the disk agree with memory; where it is  *)
(* skipped or fails, they differ only on names that no longer exist.         *)
LEMMA SweepDoneStep == IInv /\ SweepDone => IInv'
<1> SUFFICES ASSUME IInv, SweepDone PROVE IInv'
  OBVIOUS
<1> USE DEF IInv, SweepDone, AfterSweep, Return, historyVars, statusVars
<1>1. saved' \in {saved, mem} /\ upto' \in {upto, NoOffsets} /\ batch' \in {batch, {}}
  OBVIOUS
<1>2. TypeOK'
  BY <1>1, ZeroOffsets DEF TypeOK
<1>3. Locals' /\ BatchCovers'
  BY DEF Locals, BatchCovers
<1>4. NamesFresh' /\ CursorsAgree' /\ Behind' /\ Kept'
  BY <1>1 DEF NamesFresh, CursorsAgree, Behind, Kept
<1> QED
  BY <1>2, <1>3, <1>4

(* A created segment has a name that no cursor, in memory or on disk, has    *)
(* ever mentioned: its records start unacknowledged.                         *)
LEMMA CreateStep == IInv /\ AppendCreate => IInv'
<1> SUFFICES ASSUME IInv, AppendCreate PROVE IInv'
  OBVIOUS
<1> USE DEF IInv, AppendCreate, historyVars, statusVars
<1>1. nextSeg \in Segs /\ nextSeg' \in 1..(MaxSegs + 1) /\ nextSeg' = nextSeg + 1
  BY SpoolConstants DEF TypeOK, Segs
<1>2. day \in Nat
  BY SpoolConstants DEF TypeOK
<1>3. TypeOK'
  BY <1>1, <1>2 DEF TypeOK
<1>4. Locals' /\ BatchCovers'
  BY DEF Locals, BatchCovers
<1>5. files[nextSeg] = <<>> /\ mem[nextSeg] = 0 /\ saved[nextSeg] = 0 /\ nextSeg \notin live
  BY <1>1 DEF NamesFresh, Segs
<1>6. NamesFresh'
  BY <1>1 DEF NamesFresh, Segs
<1>7. CursorsAgree' /\ Behind' /\ Kept'
  BY <1>5 DEF CursorsAgree, Behind, Kept
<1> QED
  BY <1>3, <1>4, <1>6, <1>7

LEMMA OpenStep == IInv /\ AppendOpen => IInv'
<1> SUFFICES ASSUME IInv, AppendOpen PROVE IInv'
  OBVIOUS
<1> USE DEF IInv, AppendOpen, Return, historyVars, statusVars
<1>1. live' = live /\ upto' \in {upto, NoOffsets} /\ batch' \in {batch, {}}
  BY DEF Locals
<1>2. TypeOK'
  BY <1>1, ZeroOffsets DEF TypeOK
<1>3. Locals' /\ BatchCovers'
  BY DEF Locals, BatchCovers
<1>4. NamesFresh' /\ CursorsAgree' /\ Behind' /\ Kept'
  BY <1>1 DEF NamesFresh, CursorsAgree, Behind, Kept
<1> QED
  BY <1>2, <1>3, <1>4

(* A record added at the end of an existing segment is beyond its cursor and *)
(* disturbs no other record.                                                 *)
LEMMA WrittenRecord ==
  ASSUME IInv, pc = "write", Written
  PROVE  /\ cur \in live /\ cur \in Segs /\ ev \in Events
         /\ files' \in [Segs -> Seq(Events)]
         /\ files'[cur] = Append(files[cur], ev)
         /\ \A s \in Segs \ {cur} : files'[s] = files[s]
<1> USE DEF IInv, Written
<1>1. cur \in live /\ cur \in Segs /\ ev \in Events
  BY DEF Locals, TypeOK
<1>2. Append(files[cur], ev) \in Seq(Events)
  BY <1>1 DEF TypeOK
<1> QED
  BY <1>1, <1>2 DEF TypeOK

LEMMA RecordAdded ==
  ASSUME IInv, pc = "write", Written, UNCHANGED <<live, saved, mem, nextSeg, delivered>>,
         accepted' \subseteq accepted \cup {ev}
  PROVE  NamesFresh' /\ CursorsAgree' /\ Behind' /\ Kept'
<1>1. cur \in live /\ cur \in Segs /\ (\A s \in Segs \ {cur} : files'[s] = files[s])
  BY WrittenRecord
<1>2. live \subseteq Segs /\ files \in [Segs -> Seq(Events)] /\ saved \in [Segs -> Nat]
  BY DEF IInv, TypeOK
<1>3. Len(files[cur]) \in Nat /\ Len(files'[cur]) = Len(files[cur]) + 1
      /\ files'[cur][Len(files[cur]) + 1] = ev
      /\ \A i \in 1..Len(files[cur]) : files'[cur][i] = files[cur][i]
  BY <1>1, <1>2, WrittenRecord
<1>4. NamesFresh'
  BY <1>1, <1>2 DEF IInv, NamesFresh
<1>5. saved[cur] \in Nat /\ saved[cur] <= Len(files[cur]) /\ mem[cur] = saved[cur]
  BY <1>1, <1>2 DEF IInv, CursorsAgree
<1>6. CursorsAgree' /\ Behind'
  <2> SUFFICES ASSUME NEW s \in live
               PROVE  /\ mem[s] = saved[s] /\ saved[s] <= Len(files'[s])
                      /\ \A i \in 1..Len(files'[s]) : i <= saved[s] => files'[s][i] \in delivered
    BY DEF CursorsAgree, Behind
  <2>1. CASE s = cur
    <3>1. \A i \in 1..Len(files'[s]) : i <= saved[s] => i \in 1..Len(files[s])
      BY <1>3, <1>5, <2>1
    <3>2. \A i \in 1..Len(files[s]) : i <= saved[s] => files[s][i] \in delivered
      BY DEF IInv, Behind
    <3> QED
      BY <1>3, <1>5, <2>1, <3>1, <3>2
  <2>2. CASE s # cur
    BY <1>1, <1>2, <2>2 DEF IInv, CursorsAgree, Behind
  <2> QED
    BY <2>1, <2>2
<1>7. Kept'
  <2> SUFFICES ASSUME NEW e \in accepted \cup {ev}, e \notin delivered
               PROVE  \E s \in live : \E i \in 1..Len(files'[s]) : files'[s][i] = e
    BY DEF Kept
  <2>1. CASE e = ev
    BY <1>1, <1>3, <2>1
  <2>2. CASE e # ev
    <3>1. PICK s \in live : \E i \in 1..Len(files[s]) : files[s][i] = e
      BY <2>2 DEF IInv, Kept
    <3>2. CASE s = cur
      BY <1>1, <1>3, <3>1, <3>2
    <3>3. CASE s # cur
      BY <1>1, <1>2, <3>1, <3>3
    <3> QED
      BY <3>2, <3>3
  <2> QED
    BY <2>1, <2>2
<1> QED
  BY <1>4, <1>6, <1>7

LEMMA WriteStep == IInv /\ AppendWrite => IInv'
<1> SUFFICES ASSUME IInv, AppendWrite PROVE IInv'
  OBVIOUS
<1> USE DEF IInv, AppendWrite, Return, statusVars
<1>1. TypeOK'
  BY WrittenRecord, ZeroOffsets DEF TypeOK
<1>2. Locals' /\ BatchCovers'
  BY DEF Locals, BatchCovers
<1> QED
  BY <1>1, <1>2, RecordAdded

LEMMA FailedWriteStep == IInv /\ AppendFails => IInv'
<1> SUFFICES ASSUME IInv, AppendFails PROVE IInv'
  OBVIOUS
<1> USE DEF IInv, AppendFails, Return, historyVars, statusVars
<1>1. torn' \in [Segs -> Events \cup {None}]
  BY DEF TypeOK, Locals
<1>2. files' \in [Segs -> Seq(Events)]
  BY WrittenRecord DEF TypeOK
<1>3. TypeOK'
  BY <1>1, <1>2, ZeroOffsets DEF TypeOK
<1>4. Locals' /\ BatchCovers'
  BY DEF Locals, BatchCovers
<1>5. CASE Written
  BY <1>3, <1>4, <1>5, RecordAdded
<1>6. CASE UNCHANGED files
  BY <1>3, <1>4, <1>6 DEF NamesFresh, CursorsAgree, Behind, Kept
<1> QED
  BY <1>5, <1>6

(* Membership in the unacknowledged positions. *)
LEMMA BeyondMember ==
  ASSUME NEW off, NEW s \in live, NEW i \in (off[s] + 1)..Len(files[s])
  PROVE  <<s, i>> \in Beyond(off) /\ Record(<<s, i>>) = files[s][i]
  BY DEF Beyond, Record

LEMMA BeyondRange ==
  ASSUME TypeOK, NEW off \in [Segs -> Nat], NEW p \in Beyond(off)
  PROVE  /\ p[1] \in live /\ p[2] \in 1..Len(files[p[1]]) /\ p[2] > off[p[1]]
         /\ Record(p) = files[p[1]][p[2]] /\ Record(p) \in Events
<1>1. PICK s \in live : p \in {s} \X ((off[s] + 1)..Len(files[s]))
  BY DEF Beyond
<1>2. s \in Segs /\ off[s] \in Nat /\ Len(files[s]) \in Nat /\ files[s] \in Seq(Events)
  BY DEF TypeOK
<1>3. p[1] = s /\ p[2] \in (off[s] + 1)..Len(files[s])
  BY <1>1
<1>4. p[2] \in 1..Len(files[s]) /\ p[2] > off[s]
  BY <1>2, <1>3
<1>5. files[s][p[2]] \in Events
  BY <1>2, <1>4
<1> QED
  BY <1>3, <1>4, <1>5 DEF Record

LEMMA UploadStep == IInv /\ Upload => IInv'
<1> SUFFICES ASSUME IInv, Upload PROVE IInv'
  OBVIOUS
<1> USE DEF IInv, historyVars, statusVars, diskVars
<1>1. PICK u \in [Segs -> 0..SpoolMax] :
        IsBatch(u) /\ upto' = u /\ batch' = {Record(p) : p \in InBatch(u)}
  BY DEF Upload
<1>2. upto' \in [Segs -> Nat]
  BY <1>1, SpoolConstants
<1>3. batch' \subseteq Events
  BY <1>1, BeyondRange DEF InBatch, TypeOK
<1>4. TypeOK'
  BY <1>2, <1>3 DEF TypeOK, Upload
<1>5. Locals'
  BY DEF Locals, Upload, FullyAcked
<1>6. NamesFresh' /\ CursorsAgree' /\ Behind' /\ Kept'
  BY DEF NamesFresh, CursorsAgree, Behind, Kept, Upload
<1>7. ASSUME NEW s \in Segs, s \in live
      PROVE  /\ upto'[s] <= Len(files[s])
             /\ \A i \in 1..Len(files[s]) :
                  mem[s] < i /\ i <= upto'[s] => files[s][i] \in batch'
  <2>1. upto'[s] \in mem[s]..Len(files[s]) /\ mem[s] \in Nat /\ Len(files[s]) \in Nat
    BY <1>1, <1>7 DEF IsBatch, TypeOK
  <2>2. ASSUME NEW i \in 1..Len(files[s]), mem[s] < i, i <= upto'[s]
        PROVE  files[s][i] \in batch'
    <3>1. <<s, i>> \in Beyond(mem) /\ Record(<<s, i>>) = files[s][i]
      BY <1>7, <2>1, <2>2, BeyondMember
    <3>2. <<s, i>> \in InBatch(u)
      BY <1>1, <2>2, <3>1 DEF InBatch
    <3> QED
      BY <1>1, <3>1, <3>2
  <2> QED
    BY <2>1, <2>2
<1>8. ASSUME NEW s \in Segs, s \notin live PROVE upto'[s] <= mem[s]
  <2>1. upto'[s] = mem[s] /\ mem[s] \in Nat
    BY <1>1, <1>8 DEF IsBatch, TypeOK
  <2> QED
    BY <2>1
<1>9. BatchCovers'
  BY <1>7, <1>8 DEF BatchCovers, Upload
<1> QED
  BY <1>4, <1>5, <1>6, <1>9

LEMMA AnswerSteps == IInv /\ (ServerAnswers \/ UploadFails) => IInv'
<1> SUFFICES ASSUME IInv, ServerAnswers \/ UploadFails PROVE IInv'
  OBVIOUS
<1> USE DEF IInv, ServerAnswers, UploadFails, Return, historyVars, statusVars, diskVars
<1>1. saved' \in {saved, mem} /\ upto' \in {upto, NoOffsets} /\ batch' \in {batch, {}}
  OBVIOUS
<1>2. delivered' \subseteq Events /\ delivered \subseteq delivered'
  BY DEF TypeOK
<1>3. TypeOK'
  BY <1>1, <1>2, ZeroOffsets DEF TypeOK
<1>4. Locals' /\ BatchCovers'
  BY DEF Locals, BatchCovers, FullyAcked
<1>5. NamesFresh' /\ CursorsAgree' /\ Behind' /\ Kept'
  BY <1>1, <1>2 DEF NamesFresh, CursorsAgree, Behind, Kept
<1> QED
  BY <1>3, <1>4, <1>5

(* The acknowledged cursor covers the records of the answered batch and no   *)
(* other: everything it passes has been delivered.                           *)
LEMMA AckStep == IInv /\ Ack => IInv'
<1> SUFFICES ASSUME IInv, Ack PROVE IInv'
  OBVIOUS
<1> USE DEF IInv, Ack, historyVars, statusVars
<1>1. Acked \in [Segs -> Nat] /\ upto \in [Segs -> Nat] /\ mem \in [Segs -> Nat]
  BY DEF Acked, TypeOK
<1>2. TypeOK'
  BY <1>1, ZeroOffsets DEF TypeOK
<1>3. Locals' /\ BatchCovers'
  BY DEF Locals, BatchCovers
<1>4. \A s \in Segs : s \notin live => Acked[s] = mem[s]
  BY <1>1 DEF Acked, BatchCovers
<1>5. nextSeg \in Nat /\ Segs \subseteq Nat
  BY SpoolConstants DEF TypeOK, Segs
<1>6. NamesFresh'
  <2>1. ASSUME NEW s \in Segs, s >= nextSeg
        PROVE  s \notin live /\ mem[s] = 0 /\ Acked[s] = 0
    BY <1>4, <2>1 DEF NamesFresh
  <2> QED
    BY <2>1 DEF NamesFresh
<1>7. ASSUME NEW s \in live
      PROVE  /\ Acked[s] <= Len(files[s])
             /\ \A i \in 1..Len(files[s]) : i <= Acked[s] => files[s][i] \in delivered
  <2>1. /\ s \in Segs /\ mem[s] = saved[s] /\ mem[s] <= Len(files[s]) /\ upto[s] <= Len(files[s])
        /\ mem[s] \in Nat /\ upto[s] \in Nat
    BY <1>1 DEF CursorsAgree, BatchCovers, TypeOK
  <2>2. Acked[s] = upto[s] \/ Acked[s] = mem[s]
    BY <2>1 DEF Acked
  <2>3. ASSUME NEW i \in 1..Len(files[s]), i <= Acked[s] PROVE files[s][i] \in delivered
    <3>1. CASE i <= mem[s]
      BY <2>1, <3>1 DEF Behind
    <3>2. CASE mem[s] < i
      <4>1. i <= upto[s]
        BY <2>1, <2>2, <2>3, <3>2
      <4> QED
        BY <2>1, <3>2, <4>1 DEF BatchCovers
    <3> QED
      BY <2>1, <3>1, <3>2
  <2> QED
    BY <2>1, <2>2, <2>3
<1>8. CursorsAgree' /\ Behind' /\ Kept'
  BY <1>7 DEF CursorsAgree, Behind, Kept
<1> QED
  BY <1>2, <1>3, <1>6, <1>8

LEMMA NextIInv == IInv /\ [Next]_vars => IInv'
<1> SUFFICES ASSUME IInv, [Next]_vars PROVE IInv'
  OBVIOUS
<1>1. CASE Quiet
  BY <1>1, QuietSteps
<1>2. CASE Start
  BY <1>2, StartStep
<1>3. ASSUME NEW s \in Segs, BackupTail(s) \/ TruncateTail(s) PROVE IInv'
  BY <1>3, RepairStep
<1>4. CASE SweepUnlink
  BY <1>4, UnlinkStep
<1>5. CASE SweepDone
  BY <1>5, SweepDoneStep
<1>6. CASE AppendCreate
  BY <1>6, CreateStep
<1>7. CASE AppendOpen
  BY <1>7, OpenStep
<1>8. CASE AppendWrite
  BY <1>8, WriteStep
<1>9. CASE AppendFails
  BY <1>9, FailedWriteStep
<1>10. CASE Upload
  BY <1>10, UploadStep
<1>11. CASE ServerAnswers \/ UploadFails
  BY <1>11, AnswerSteps
<1>12. CASE Ack
  BY <1>12, AckStep
<1> QED
  BY <1>1, <1>2, <1>3, <1>4, <1>5, <1>6, <1>7, <1>8, <1>9, <1>10, <1>11, <1>12
     DEF Next, Quiet

THEOREM SpoolInvariant == Spec => []IInv
  BY InitIInv, NextIInv, PTL DEF Spec

-----------------------------------------------------------------------------
(* Type correctness of the spool, for any number of segments and days. *)
THEOREM SpoolTypeCorrect == Spec => []TypeOK
<1>1. IInv => TypeOK
  BY DEF IInv
<1> QED
  BY <1>1, SpoolInvariant, PTL

(* No cursor, in memory or in state.json, ever passes a record that the      *)
(* server has not answered for.                                              *)
THEOREM CursorNeverAhead == Spec => []CursorBehindDelivery
<1>1. IInv => CursorBehindDelivery
  BY DEF IInv, CursorBehindDelivery, Behind, CursorsAgree
<1> QED
  BY <1>1, SpoolInvariant, PTL

LEMMA KeptIsPending ==
  ASSUME IInv, NEW e \in accepted \ delivered
  PROVE  e \in Pending(saved) /\ e \in Pending(mem)
<1>1. PICK s \in live : \E i \in 1..Len(files[s]) : files[s][i] = e
  BY DEF IInv, Kept
<1>2. PICK i \in 1..Len(files[s]) : files[s][i] = e
  BY <1>1
<1>3. /\ s \in Segs /\ saved[s] \in Nat /\ mem[s] = saved[s] /\ Len(files[s]) \in Nat
      /\ ~(i <= saved[s])
  BY <1>2 DEF IInv, TypeOK, CursorsAgree, Behind
<1>4. i \in (saved[s] + 1)..Len(files[s]) /\ i \in (mem[s] + 1)..Len(files[s])
  BY <1>2, <1>3
<1>5. /\ <<s, i>> \in Beyond(saved) /\ <<s, i>> \in Beyond(mem)
      /\ Record(<<s, i>>) = e
  BY <1>2, <1>4, BeyondMember
<1> QED
  BY <1>5 DEF Pending

(* "A full spool stops new collection and preserves every unacknowledged     *)
(* event" (docs/central-hosting-operations.md): an event whose Append        *)
(* returned nil stays on disk beyond both cursors until the server answers   *)
(* for it - when no second process works on the directory.                   *)
THEOREM UnackedNeverLost == Spec => []UnackedPreserved
<1>1. IInv => UnackedPreserved
  BY KeptIsPending DEF UnackedPreserved
<1> QED
  BY <1>1, SpoolInvariant, PTL

(* The daemon alone never moves the cursor that a restart would load back    *)
(* over an acknowledged record of a segment that still exists: every save    *)
(* writes a cursor that agrees with the old one or an acknowledgement.       *)
THEOREM SavedCursorNeverRegresses == Spec => SavedCursorMonotone
<1>1. IInv /\ [Next]_vars => \A s \in live \cap live' : saved'[s] >= saved[s]
  <2> SUFFICES ASSUME IInv, [Next]_vars, NEW s \in live \cap live'
               PROVE  saved'[s] >= saved[s]
    OBVIOUS
  <2>1. s \in Segs /\ mem[s] = saved[s] /\ saved[s] \in Nat /\ upto[s] \in Nat
    BY DEF IInv, TypeOK, CursorsAgree
  <2>2. saved' \in {saved, mem, Acked}
    BY DEF Next, vars, diskVars, Start, BackupTail, TruncateTail, Recovered, SweepStat,
       SweepUnlink, SweepUnlinkFails, SweepDone, AppendEvent, AppendFull, AppendReuse,
       AppendCreate, AppendOpen, AppendWrite, AppendFails, Status, Upload, ServerAnswers,
       UploadFails, Ack, AckSaveFails, Crash, Midnight
  <2>3. Acked[s] >= saved[s]
    BY <2>1 DEF Acked
  <2> QED
    BY <2>1, <2>2, <2>3
<1> QED
  BY <1>1, SpoolInvariant, PTL DEF Spec, SavedCursorMonotone

-----------------------------------------------------------------------------
(* What the interrupted write and the refinement need beyond IInv: a        *)
(* segment that is written to has no torn tail, and a batch on its way is   *)
(* still queued.                                                            *)
WritesCleanly == pc = "write" => torn[cur] = None

BatchIsQueued == pc = "sent" => batch \subseteq Pending(mem)

LEMMA SentStep ==
  ASSUME IInv, WritesCleanly, BatchIsQueued, [Next]_vars
  PROVE  WritesCleanly' /\ BatchIsQueued'
<1> USE DEF diskVars, runnerVars, historyVars, statusVars
<1>1. CASE AppendOpen
  BY <1>1 DEF IInv, Locals, AppendOpen, Return, WritesCleanly, BatchIsQueued
<1>2. CASE Upload
  <2>1. PICK u \in [Segs -> 0..SpoolMax] : batch' = {Record(p) : p \in InBatch(u)}
    BY <1>2 DEF Upload
  <2>2. UNCHANGED <<live, files, mem>> /\ pc' = "sent"
    BY <1>2 DEF Upload
  <2>3. batch' \subseteq Pending(mem)
    BY <2>1 DEF InBatch, Pending
  <2>4. Pending(mem)' = Pending(mem)
    BY <2>2 DEF Pending, Beyond, Record
  <2> QED
    BY <2>2, <2>3, <2>4 DEF WritesCleanly, BatchIsQueued
<1>3. CASE Midnight \/ UNCHANGED vars
  BY <1>3 DEF Midnight, vars, WritesCleanly, BatchIsQueued, Pending, Beyond, Record
<1>4. CASE \/ Start \/ Recovered \/ SweepStat \/ SweepUnlink \/ SweepUnlinkFails \/ SweepDone
           \/ AppendFull \/ AppendReuse \/ AppendCreate \/ AppendWrite \/ AppendFails \/ Status
           \/ ServerAnswers \/ UploadFails \/ Ack \/ AckSaveFails \/ Crash
           \/ \E e \in Events : AppendEvent(e)
           \/ \E s \in Segs : BackupTail(s) \/ TruncateTail(s)
  <2>1. pc' \notin {"write", "sent"}
    BY <1>4 DEF Start, Recovered, SweepStat, SweepUnlink, SweepUnlinkFails, SweepDone, AfterSweep,
       Return, AppendFull, AppendReuse, AppendCreate, AppendWrite, AppendFails, Status,
       ServerAnswers, UploadFails, Ack, AckSaveFails, Crash, AppendEvent, BackupTail, TruncateTail
  <2> QED
    BY <2>1 DEF WritesCleanly, BatchIsQueued
<1> QED
  BY <1>1, <1>2, <1>3, <1>4 DEF Next

LEMMA SentInvariant == Spec => [](IInv /\ WritesCleanly /\ BatchIsQueued)
<1>1. Init => WritesCleanly /\ BatchIsQueued
  BY DEF Init, WritesCleanly, BatchIsQueued
<1>2. IInv /\ WritesCleanly /\ BatchIsQueued /\ [Next]_vars => (WritesCleanly /\ BatchIsQueued)'
  BY SentStep
<1> QED
  BY <1>1, <1>2, SpoolInvariant, PTL DEF Spec

(* The start of the daemon cuts a torn record only after its bytes are in a *)
(* partial file, and nothing else in a run of the daemon cuts one: a write  *)
(* never meets a torn tail.                                                 *)
THEOREM TornNeverDropped == Spec => TornPreserved
<1> DEFINE A == \A s \in Segs : s \in live /\ s \in live' /\ torn[s] # None /\ torn'[s] # torn[s]
                               => torn[s] \in partials'
<1>1. IInv /\ WritesCleanly /\ [Next]_vars => A
  <2> SUFFICES ASSUME IInv, WritesCleanly, [Next]_vars PROVE A
    OBVIOUS
  <2>1. CASE AppendFails
    BY <2>1 DEF AppendFails, WritesCleanly, IInv, TypeOK
  <2>2. ASSUME NEW s \in Segs, TruncateTail(s) PROVE A
    BY <2>2 DEF TruncateTail, IInv, TypeOK
  <2>3. CASE UNCHANGED torn
    BY <2>3
  <2>4. AppendFails \/ (\E s \in Segs : TruncateTail(s)) \/ UNCHANGED torn
    BY DEF Next, vars, diskVars, Start, BackupTail, Recovered, SweepStat,
       SweepUnlink, SweepUnlinkFails, SweepDone, AppendEvent, AppendFull, AppendReuse,
       AppendCreate, AppendOpen, AppendWrite, Status, Upload, ServerAnswers,
       UploadFails, Ack, AckSaveFails, Crash, Midnight
  <2> QED
    BY <2>1, <2>2, <2>3, <2>4
<1> QED
  BY <1>1, SentInvariant, PTL DEF Spec, TornPreserved

-----------------------------------------------------------------------------
(* The cap. Room for the record was tested in the same call that writes it, *)
(* and nothing grows in between; a removed segment leaves no torn tail that *)
(* a new one could begin with.                                              *)
CapInv ==
  /\ IsFiniteSet(Units) /\ DiskUsed <= SpoolMax
  /\ pc \in {"open", "write"} => DiskUsed + 1 <= SpoolMax
  /\ \A s \in Segs : s \notin live => torn[s] = None

LEMMA SizeIs ==
  ASSUME TypeOK, TypeOK', NEW s \in Segs
  PROVE  /\ Size(s) \in Nat /\ Size(s)' \in Nat
         /\ Len(files[s]) \in Nat /\ Len(files'[s]) \in Nat
         /\ Size(s) = IF torn[s] = None THEN Len(files[s]) ELSE Len(files[s]) + 1
         /\ Size(s)' = IF torn'[s] = None THEN Len(files'[s]) ELSE Len(files'[s]) + 1
<1>1. files \in [Segs -> Seq(Events)] /\ files' \in [Segs -> Seq(Events)]
  BY DEF TypeOK
<1>2. Len(files[s]) \in Nat /\ Len(files'[s]) \in Nat
  BY <1>1
<1>3. /\ torn[s] = None => Size(s) = Len(files[s]) + 0
      /\ torn[s] # None => Size(s) = Len(files[s]) + 1
      /\ torn'[s] = None => Size(s)' = Len(files'[s]) + 0
      /\ torn'[s] # None => Size(s)' = Len(files'[s]) + 1
  BY Zenon DEF Size
<1> QED
  BY <1>2, <1>3

LEMMA DiskShrinks ==
  ASSUME TypeOK, TypeOK', CapInv,
         \A s \in live' : Size(s)' = 0 \/ (s \in live /\ Size(s)' <= Size(s))
  PROVE  IsFiniteSet(Units') /\ DiskUsed' <= DiskUsed /\ DiskUsed' \in Nat /\ DiskUsed \in Nat
<1>1. \A s \in Segs : Size(s) \in Nat /\ Size(s)' \in Nat
  BY SizeIs
<1>2. Units' \subseteq Units
  <2> SUFFICES ASSUME NEW p \in Units' PROVE p \in Units
    OBVIOUS
  <2>1. PICK s \in live' : p \in {s} \X (1..Size(s)')
    BY DEF Units
  <2>2. s \in Segs
    BY DEF TypeOK
  <2>3. s \in live /\ p \in {s} \X (1..Size(s))
    BY <1>1, <2>1, <2>2
  <2> QED
    BY <2>3 DEF Units
<1>3. IsFiniteSet(Units') /\ Cardinality(Units') <= Cardinality(Units)
  BY <1>2, FS_Subset DEF CapInv
<1> QED
  BY <1>3, FS_CardinalityType DEF CapInv, DiskUsed

LEMMA DiskGrows ==
  ASSUME TypeOK, TypeOK', CapInv, live' = live, NEW c \in live,
         \A s \in live \ {c} : Size(s)' <= Size(s), Size(c)' <= Size(c) + 1
  PROVE  IsFiniteSet(Units') /\ DiskUsed' <= DiskUsed + 1 /\ DiskUsed' \in Nat /\ DiskUsed \in Nat
<1> DEFINE new == <<c, Size(c) + 1>>
<1>1. \A s \in Segs : Size(s) \in Nat /\ Size(s)' \in Nat
  BY SizeIs
<1>2. Units' \subseteq Units \cup {new}
  <2> SUFFICES ASSUME NEW p \in Units' PROVE p \in Units \cup {new}
    OBVIOUS
  <2>1. PICK s \in live : p \in {s} \X (1..Size(s)')
    BY DEF Units
  <2>2. s \in Segs
    BY DEF TypeOK
  <2>3. PICK i \in 1..Size(s)' : p = <<s, i>>
    BY <2>1
  <2>4. CASE i \in 1..Size(s)
    BY <2>3, <2>4 DEF Units
  <2>5. CASE i \notin 1..Size(s)
    <3>1. s = c
      BY <1>1, <2>2, <2>5
    <3>2. i = Size(c) + 1
      <4>1. Size(c) \in Nat /\ Size(c)' \in Nat /\ Size(c)' <= Size(c) + 1
        BY <1>1, <2>2, <3>1
      <4>2. i \in 1..Size(c)' /\ i \notin 1..Size(c)
        BY <2>5, <3>1
      <4> QED
        BY <4>1, <4>2
    <3> QED
      BY <2>3, <3>1, <3>2
  <2> QED
    BY <2>4, <2>5
<1>3. /\ IsFiniteSet(Units \cup {new})
      /\ Cardinality(Units \cup {new}) <= Cardinality(Units) + 1
  <2>1. IsFiniteSet(Units) /\ Cardinality(Units) \in Nat
    BY FS_CardinalityType DEF CapInv
  <2>2. /\ IsFiniteSet(Units \cup {new})
        /\ \/ Cardinality(Units \cup {new}) = Cardinality(Units)
           \/ Cardinality(Units \cup {new}) = Cardinality(Units) + 1
    BY <2>1, FS_AddElement, Zenon
  <2> HIDE DEF new
  <2> QED
    BY <2>1, <2>2
<1>4. IsFiniteSet(Units') /\ Cardinality(Units') <= Cardinality(Units \cup {new})
  BY <1>2, <1>3, FS_Subset
<1>5. /\ Cardinality(Units) \in Nat /\ Cardinality(Units') \in Nat
      /\ Cardinality(Units \cup {new}) \in Nat
  BY <1>3, <1>4, FS_CardinalityType DEF CapInv
<1> QED
  BY <1>3, <1>4, <1>5 DEF DiskUsed

LEMMA RoomStays ==
  \A old, new, max \in Nat :
    new <= old => (old <= max => new <= max) /\ (old + 1 <= max => new + 1 <= max)
OBVIOUS

LEMMA CapStep ==
  ASSUME IInv, CapInv, [Next]_vars
  PROVE  CapInv'
<1> USE DEF diskVars, runnerVars, historyVars, statusVars
<1>a. TypeOK /\ TypeOK' /\ Locals /\ SpoolMax \in Nat
  BY NextIInv, SpoolConstants DEF IInv
<1>b. \A s \in Segs :
        /\ Size(s) \in Nat /\ Len(files[s]) \in Nat /\ Len(files'[s]) \in Nat
        /\ Size(s) = IF torn[s] = None THEN Len(files[s]) ELSE Len(files[s]) + 1
        /\ Size(s)' = IF torn'[s] = None THEN Len(files'[s]) ELSE Len(files'[s]) + 1
  BY <1>a, SizeIs
<1>e. live \subseteq Segs /\ live' \subseteq Segs /\ None \notin Events
  BY <1>a, SpoolConstants DEF TypeOK
<1>c. ASSUME \A s \in live' : Size(s)' = 0 \/ (s \in live /\ Size(s)' <= Size(s)),
             pc' \in {"open", "write"} => DiskUsed + 1 <= SpoolMax,
             \A s \in Segs : s \notin live' => torn'[s] = None
      PROVE  CapInv'
  <2>1. IsFiniteSet(Units') /\ DiskUsed' <= DiskUsed /\ DiskUsed' \in Nat /\ DiskUsed \in Nat
    BY <1>a, <1>c, DiskShrinks
  <2>2. DiskUsed' <= SpoolMax /\ (pc' \in {"open", "write"} => DiskUsed' + 1 <= SpoolMax)
    <3>1. DiskUsed <= SpoolMax /\ SpoolMax \in Nat
      BY <1>a DEF CapInv
    <3>2. DiskUsed' <= SpoolMax /\ (DiskUsed + 1 <= SpoolMax => DiskUsed' + 1 <= SpoolMax)
      BY <2>1, <3>1, RoomStays, Zenon
    <3> QED
      BY <1>c, <3>2
  <2> QED
    BY <1>c, <2>1, <2>2 DEF CapInv
<1>d. UNCHANGED <<live, files, torn>> =>
        /\ \A s \in live' : s \in live /\ Size(s)' <= Size(s)
        /\ \A s \in Segs : s \notin live' => torn'[s] = None
  BY <1>b, <1>e DEF CapInv
<1>1. CASE AppendWrite \/ AppendFails
  <2> DEFINE Grown(c) == /\ \A s \in live \ {c} : Size(s)' <= Size(s)
                         /\ Size(c)' <= Size(c) + 1
                         /\ \A s \in Segs : s \notin live' => torn'[s] = None
  <2>c. PICK c \in Segs : c = cur
    BY <1>1, <1>a, <1>e DEF AppendWrite, AppendFails, Locals
  <2>1. /\ pc = "write" /\ live' = live /\ cur \in live /\ cur \in Segs
        /\ pc' = "idle" /\ ev \in Events
    BY <1>1, <1>a DEF AppendWrite, AppendFails, Return, Locals, TypeOK
  <2>2. \/ files' = [files EXCEPT ![cur] = Append(@, ev)] /\ torn' = torn
        \/ files' = files /\ torn' = torn
        \/ files' = files /\ torn' = [torn EXCEPT ![cur] = ev]
    BY <1>1, <2>1 DEF AppendWrite, AppendFails, Written
  <2>3. Grown(c)
    <3>1. CASE files' = [files EXCEPT ![cur] = Append(@, ev)] /\ torn' = torn
      <4>1. Len(files'[cur]) = Len(files[cur]) + 1 /\ Len(files[cur]) \in Nat
        BY <1>a, <2>1, <3>1 DEF TypeOK
      <4>2. \A s \in live \ {cur} : files'[s] = files[s] /\ s \in Segs
        BY <1>a, <3>1 DEF TypeOK
      <4> QED
        BY <1>b, <1>e, <2>1, <2>c, <3>1, <4>1, <4>2 DEF CapInv
    <3>2. CASE files' = files /\ torn' = torn
      BY <1>b, <1>e, <2>1, <2>c, <3>2 DEF CapInv
    <3>3. CASE files' = files /\ torn' = [torn EXCEPT ![cur] = ev]
      <4>1. \A s \in Segs \ {cur} : torn'[s] = torn[s]
        BY <1>a, <3>3 DEF TypeOK
      <4> QED
        BY <1>b, <1>e, <2>1, <2>c, <3>3, <4>1 DEF CapInv
    <3> QED
      BY <2>2, <3>1, <3>2, <3>3
  <2>4. IsFiniteSet(Units') /\ DiskUsed' <= DiskUsed + 1 /\ DiskUsed' \in Nat /\ DiskUsed \in Nat
    BY <1>a, <2>1, <2>3, <2>c, DiskGrows
  <2> QED
    BY <1>a, <2>1, <2>3, <2>4 DEF CapInv
<1>2. CASE SweepUnlink
  <2>1. /\ cur \in live /\ torn[cur] = None /\ torn' = torn /\ live' = live \ {cur}
        /\ pc' = "sweep" /\ files' = [files EXCEPT ![cur] = <<>>]
    BY <1>2, <1>a DEF SweepUnlink, Locals, FullyAcked
  <2>2. \A s \in live' : s \in live /\ Size(s)' <= Size(s)
    <3>1. \A s \in live' : s \in live /\ files'[s] = files[s]
      BY <1>a, <2>1 DEF TypeOK
    <3> QED
      BY <1>b, <1>e, <2>1, <3>1
  <2> QED
    BY <1>c, <2>1, <2>2 DEF CapInv
<1>3. CASE AppendCreate
  <2>1. /\ nextSeg \in Segs /\ nextSeg >= nextSeg /\ live' = live \cup {nextSeg}
        /\ DiskUsed + 1 <= SpoolMax /\ UNCHANGED <<files, torn>>
    BY <1>3, <1>a DEF AppendCreate, TypeOK, Segs
  <2>2. PICK n \in Segs : n = nextSeg
    BY <2>1
  <2>3. files[n] = <<>> /\ torn[n] = None
    BY <2>1, <2>2 DEF IInv, NamesFresh, CapInv
  <2>4. Size(n)' = 0
    BY <1>b, <2>1, <2>3
  <2>5. \A s \in live : Size(s)' <= Size(s)
    BY <1>b, <1>e, <2>1
  <2>6. \A s \in live' : Size(s)' = 0 \/ (s \in live /\ Size(s)' <= Size(s))
    BY <2>1, <2>2, <2>4, <2>5
  <2>7. \A s \in Segs : s \notin live' => torn'[s] = None
    BY <2>1 DEF CapInv
  <2> QED
    BY <1>c, <2>1, <2>6, <2>7
<1>4. CASE AppendOpen
  <2>1. UNCHANGED <<live, files, torn>> /\ DiskUsed + 1 <= SpoolMax
    BY <1>4, <1>a DEF AppendOpen, Locals, CapInv
  <2> QED
    BY <1>c, <1>d, <2>1
<1>5. CASE AppendReuse
  BY <1>5, <1>c, <1>d DEF AppendReuse
<1>6. ASSUME NEW s \in Segs, TruncateTail(s) PROVE CapInv'
  <2>1. /\ UNCHANGED <<live, files, pc>> /\ torn' = [torn EXCEPT ![s] = None]
        /\ pc = "recover"
    BY <1>6 DEF TruncateTail
  <2>2. \A t \in live' : t \in live /\ Size(t)' <= Size(t)
    <3>1. \A t \in Segs : torn'[t] \in {torn[t], None}
      BY <1>a, <2>1 DEF TypeOK
    <3> QED
      BY <1>b, <1>e, <2>1, <3>1
  <2> QED
    BY <1>a, <1>c, <2>1, <2>2 DEF CapInv, TypeOK
<1>7. CASE Midnight \/ UNCHANGED vars
  BY <1>7, <1>c, <1>d DEF Midnight, vars, CapInv
<1>8. CASE \/ Start \/ Recovered \/ SweepStat \/ SweepUnlinkFails \/ SweepDone \/ AppendFull
           \/ Status \/ Upload \/ ServerAnswers \/ UploadFails \/ Ack \/ AckSaveFails \/ Crash
           \/ \E e \in Events : AppendEvent(e)
           \/ \E s \in Segs : BackupTail(s)
  <2>1. pc' \notin {"open", "write"} /\ UNCHANGED <<live, files, torn>>
    BY <1>8 DEF Start, Recovered, SweepStat, SweepUnlinkFails, SweepDone, AfterSweep, Return,
       AppendFull, Status, Upload, ServerAnswers, UploadFails, Ack, AckSaveFails, Crash,
       AppendEvent, BackupTail
  <2> QED
    BY <1>c, <1>d, <2>1
<1> QED
  BY <1>1, <1>2, <1>3, <1>4, <1>5, <1>6, <1>7, <1>8 DEF Next

(* The hard cap holds for any number of segments, days and failures: what a *)
(* failed or torn write leaves behind was paid for before it was written.   *)
THEOREM CapHolds == Spec => []WithinCap
<1>1. Init => CapInv
  <2> SUFFICES ASSUME Init PROVE CapInv
    OBVIOUS
  <2>1. Units = {}
    BY DEF Init, Units
  <2> QED
    BY <2>1, FS_EmptySet, SpoolConstants DEF Init, CapInv, DiskUsed
<1>2. IInv /\ CapInv /\ [Next]_vars => CapInv'
  BY CapStep
<1>3. CapInv => WithinCap
  BY DEF CapInv, WithinCap
<1> QED
  BY <1>1, <1>2, <1>3, SpoolInvariant, PTL DEF Spec

-----------------------------------------------------------------------------
(* The refinement.                                                          *)

(* What a directory with segments L, records F and cursor off would upload. *)
Queued(L, F, off) ==
  {e \in Events : \E s \in L : \E i \in 1..Len(F[s]) : off[s] < i /\ F[s][i] = e}

LEMMA PositionsQueued ==
  ASSUME NEW L \in SUBSET Segs, NEW F \in [Segs -> Seq(Events)], NEW off \in [Segs -> Nat]
  PROVE  {F[p[1]][p[2]] : p \in UNION {{s} \X ((off[s] + 1)..Len(F[s])) : s \in L}}
           = Queued(L, F, off)
<1> DEFINE P == UNION {{s} \X ((off[s] + 1)..Len(F[s])) : s \in L}
<1>1. ASSUME NEW p \in P PROVE F[p[1]][p[2]] \in Queued(L, F, off)
  <2>1. PICK s \in L : p \in {s} \X ((off[s] + 1)..Len(F[s]))
    OBVIOUS
  <2>2. s \in Segs /\ off[s] \in Nat /\ F[s] \in Seq(Events) /\ Len(F[s]) \in Nat
    OBVIOUS
  <2>3. p[1] = s /\ p[2] \in (off[s] + 1)..Len(F[s])
    BY <2>1
  <2>4. p[2] \in 1..Len(F[s]) /\ off[s] < p[2]
    BY <2>2, <2>3
  <2>5. F[s][p[2]] \in Events
    BY <2>2, <2>4
  <2> QED
    BY <2>3, <2>4, <2>5 DEF Queued
<1>2. ASSUME NEW e \in Queued(L, F, off) PROVE \E p \in P : F[p[1]][p[2]] = e
  <2>1. PICK s \in L : \E i \in 1..Len(F[s]) : off[s] < i /\ F[s][i] = e
    BY DEF Queued
  <2>2. PICK i \in 1..Len(F[s]) : off[s] < i /\ F[s][i] = e
    BY <2>1
  <2>3. off[s] \in Nat /\ Len(F[s]) \in Nat /\ i \in (off[s] + 1)..Len(F[s])
    BY <2>2
  <2>4. <<s, i>> \in P
    BY <2>3
  <2> QED
    BY <2>2, <2>4
<1> QED
  BY <1>1, <1>2

LEMMA PendingQueued ==
  /\ TypeOK => Pending(saved) = Queued(live, files, saved) /\ Pending(mem) = Queued(live, files, mem)
  /\ TypeOK' => Pending(saved)' = Queued(live', files', saved')
<1>1. ASSUME TypeOK
      PROVE  Pending(saved) = Queued(live, files, saved) /\ Pending(mem) = Queued(live, files, mem)
  BY <1>1, PositionsQueued DEF TypeOK, Pending, Beyond, Record
<1>2. ASSUME TypeOK'
      PROVE  Pending(saved)' = Queued(live', files', saved')
  BY <1>2, PositionsQueued DEF TypeOK, Pending, Beyond, Record
<1> QED
  BY <1>1, <1>2

(* Cursors that agree on the segments that exist queue the same.            *)
LEMMA SameQueued ==
  ASSUME NEW L, NEW F, NEW off, NEW new, \A s \in L : off[s] = new[s]
  PROVE  Queued(L, F, off) = Queued(L, F, new)
BY DEF Queued

(* A record written behind the cursor of its segment adds itself.           *)
LEMMA RecordQueued ==
  ASSUME IInv, pc = "write", Written
  PROVE  /\ ev \in Events
         /\ Queued(live, files', saved) = Queued(live, files, saved) \cup {ev}
<1>1. /\ cur \in live /\ ev \in Events /\ files'[cur] = Append(files[cur], ev)
      /\ \A s \in live \ {cur} : files'[s] = files[s]
  BY WrittenRecord DEF IInv, TypeOK
<1>2. files[cur] \in Seq(Events) /\ saved[cur] \in Nat /\ saved[cur] <= Len(files[cur])
  BY <1>1 DEF IInv, TypeOK, CursorsAgree
<1>3. /\ Len(files[cur]) \in Nat /\ Len(files'[cur]) = Len(files[cur]) + 1
      /\ files'[cur][Len(files[cur]) + 1] = ev
      /\ \A i \in 1..Len(files[cur]) : files'[cur][i] = files[cur][i]
  BY <1>1, <1>2
<1>4. ev \in Queued(live, files', saved)
  BY <1>1, <1>2, <1>3 DEF Queued
<1>5. \A i \in 1..Len(files'[cur]) : i \in 1..Len(files[cur]) \/ files'[cur][i] = ev
  BY <1>3
<1>6. \A i \in 1..Len(files[cur]) : i \in 1..Len(files'[cur])
  BY <1>3
<1>7. ASSUME NEW e \in Queued(live, files, saved)
      PROVE  e \in Queued(live, files', saved)
  <2>1. PICK s \in live : \E i \in 1..Len(files[s]) : saved[s] < i /\ files[s][i] = e
    BY DEF Queued
  <2>2. \E i \in 1..Len(files'[s]) : saved[s] < i /\ files'[s][i] = e
    BY <1>1, <1>3, <1>6, <2>1
  <2> QED
    BY <2>2 DEF Queued
<1>8. ASSUME NEW e \in Queued(live, files', saved)
      PROVE  e \in Queued(live, files, saved) \cup {ev}
  <2>1. PICK s \in live : \E i \in 1..Len(files'[s]) : saved[s] < i /\ files'[s][i] = e
    BY DEF Queued
  <2>2. e = ev \/ \E i \in 1..Len(files[s]) : saved[s] < i /\ files[s][i] = e
    BY <1>1, <1>3, <1>5, <2>1
  <2> QED
    BY <2>2 DEF Queued
<1> QED
  BY <1>1, <1>4, <1>7, <1>8

(* The file-level spool implements the durable queue: a step of the daemon, *)
(* a crash or a failure accepts, strays, delivers or forgets events, or     *)
(* changes nothing of what a restart would upload.                          *)
THEOREM SpoolImplementsQueue == Spec => ImplementsQueue
<1> DEFINE pend == Pending(saved)
<1> USE DEF diskVars, historyVars, statusVars, runnerVars
<1>1. Init => Queue!Init
  <2> SUFFICES ASSUME Init PROVE Queue!Init
    OBVIOUS
  <2>1. Pending(saved) = {}
    BY DEF Init, Pending, Beyond
  <2> QED
    BY <2>1 DEF Init, Queue!Init
<1>2. IInv /\ BatchIsQueued /\ [Next]_vars => [Queue!Next]_(Queue!vars)
  <2> SUFFICES ASSUME IInv, BatchIsQueued, [Next]_vars
               PROVE  Queue!Next \/ UNCHANGED Queue!vars
    OBVIOUS
  <2>a. TypeOK /\ TypeOK' /\ CursorsAgree
    BY NextIInv DEF IInv
  <2>b. /\ pend = Queued(live, files, saved)
        /\ pend' = Queued(live', files', saved')
        /\ Pending(mem) = pend
    BY <2>a, PendingQueued, SameQueued DEF CursorsAgree
  <2>c. pend \subseteq Events /\ pend' \subseteq Events
    BY <2>b DEF Queued
  <2> HIDE DEF pend
  <2>d. UNCHANGED <<accepted, delivered>> /\ pend' = pend => UNCHANGED Queue!vars
    BY DEF Queue!vars, pend
  <2>e. \A e \in Events : (accepted' = accepted \cup {e} \/ accepted' = accepted)
                         /\ pend' = pend \cup {e} /\ delivered' = delivered => Queue!Next
    BY DEF Queue!Next, Queue!Accept, Queue!Stray, pend
  <2>1. CASE AppendWrite \/ AppendFails
    <3>1. pc = "write" /\ UNCHANGED <<live, saved, delivered>>
      BY <2>1 DEF AppendWrite, AppendFails
    <3>2. CASE Written
      <4>1. ev \in Events /\ pend' = pend \cup {ev}
        BY <2>a, <2>b, <3>1, <3>2, RecordQueued
      <4> QED
        BY <2>1, <2>e, <3>1, <4>1 DEF AppendWrite, AppendFails
    <3>3. CASE UNCHANGED files /\ AppendFails
      BY <2>b, <2>d, <3>1, <3>3 DEF AppendFails
    <3> QED
      BY <2>1, <3>2, <3>3 DEF AppendWrite, AppendFails
  <2>2. CASE SweepUnlink
    <3>1. cur \in live /\ saved[cur] >= Len(files[cur]) /\ live' = live \ {cur}
      BY <2>2 DEF SweepUnlink, IInv, Locals, FullyAcked, CursorsAgree
    <3>2. \A s \in live' : files'[s] = files[s]
      BY <2>2, <2>a, <3>1 DEF SweepUnlink, TypeOK
    <3>3. saved[cur] \in Nat /\ Len(files[cur]) \in Nat
      BY <2>a, <3>1 DEF TypeOK
    <3>4. \A i \in 1..Len(files[cur]) : ~(saved[cur] < i)
      BY <3>1, <3>3
    <3>5. Queued(live', files', saved) = Queued(live, files, saved)
      BY <3>1, <3>2, <3>4 DEF Queued
    <3> QED
      BY <2>2, <2>b, <2>d, <3>5 DEF SweepUnlink
  <2>3. CASE SweepDone \/ UploadFails
    <3>1. UNCHANGED <<live, files, accepted, delivered>> /\ saved' \in {saved, mem}
      BY <2>3 DEF SweepDone, UploadFails, AfterSweep
    <3>2. \A s \in live : saved[s] = saved'[s]
      BY <2>a, <3>1 DEF CursorsAgree
    <3> QED
      BY <2>b, <2>d, <3>1, <3>2, SameQueued
  <2>4. CASE AppendCreate
    <3>1. /\ nextSeg \in Segs /\ live' = live \cup {nextSeg}
          /\ UNCHANGED <<files, saved, accepted, delivered>>
      BY <2>4, <2>a DEF AppendCreate, TypeOK, Segs
    <3>2. files[nextSeg] = <<>>
      <4>1. nextSeg >= nextSeg
        BY <3>1 DEF Segs
      <4> QED
        BY <3>1, <4>1 DEF IInv, NamesFresh
    <3>3. Queued(live', files', saved') = Queued(live, files, saved)
      BY <3>1, <3>2 DEF Queued
    <3> QED
      BY <2>b, <2>d, <3>1, <3>3
  <2>5. CASE ServerAnswers
    <3>1. pend' = pend /\ accepted' = accepted /\ delivered' = delivered \cup batch
      BY <2>5, <2>b DEF ServerAnswers
    <3>2. batch \in SUBSET Events /\ batch \subseteq pend
      BY <2>5, <2>a, <2>b DEF ServerAnswers, BatchIsQueued, TypeOK
    <3> QED
      BY <3>1, <3>2 DEF Queue!Next, Queue!Deliver, pend
  <2>6. CASE Ack
    <3>1. /\ UNCHANGED <<live, files, accepted, delivered>> /\ saved' = Acked
          /\ batch \subseteq delivered /\ pc = "answered"
      BY <2>6 DEF Ack, IInv, BatchCovers
    <3>2. ASSUME NEW s \in live, NEW i \in 1..Len(files[s])
          PROVE  /\ Acked[s] < i => saved[s] < i
                 /\ saved[s] < i /\ ~(Acked[s] < i) => files[s][i] \in delivered
      <4>1. /\ s \in Segs /\ mem[s] = saved[s] /\ mem[s] \in Nat /\ upto[s] \in Nat
            /\ i \in Nat
        BY <2>a DEF CursorsAgree, TypeOK
      <4>2. Acked[s] = IF upto[s] > mem[s] THEN upto[s] ELSE mem[s]
        BY <4>1 DEF Acked
      <4>3. mem[s] < i /\ i <= upto[s] => files[s][i] \in batch
        BY <3>1, <4>1 DEF IInv, BatchCovers
      <4> QED
        BY <3>1, <4>1, <4>2, <4>3
    <3>3. pend' \subseteq pend /\ pend \ pend' \subseteq delivered
      BY <2>b, <3>1, <3>2 DEF Queued
    <3>4. pend \ pend' \in SUBSET Events /\ pend' = pend \ (pend \ pend')
      BY <2>c, <3>3
    <3>5. Queue!Forget(pend \ pend')
      BY <3>1, <3>3, <3>4 DEF Queue!Forget, pend
    <3> QED
      BY <3>4, <3>5 DEF Queue!Next
  <2>7. CASE UNCHANGED <<live, files, saved, accepted, delivered>>
    BY <2>7, <2>b, <2>d
  <2>8. CASE AppendOpen
    BY <2>8, <2>7 DEF AppendOpen, IInv, Locals
  <2>9. CASE Quiet \/ Start \/ Upload \/ \E s \in Segs : BackupTail(s) \/ TruncateTail(s)
    BY <2>9, <2>7 DEF Quiet, Start, Upload, BackupTail, TruncateTail, vars, Recovered, SweepStat,
       SweepUnlinkFails, AppendFull, AppendReuse, Status, AckSaveFails, Crash, Midnight, AppendEvent
  <2> QED
    BY <2>1, <2>2, <2>3, <2>4, <2>5, <2>6, <2>8, <2>9 DEF Next, Quiet
<1> QED
  BY <1>1, <1>2, SentInvariant, PTL DEF Spec, ImplementsQueue, Queue!Spec
=============================================================================
