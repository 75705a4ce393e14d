----------------------------- MODULE UsagePipeline -----------------------------
(***************************************************************************)
(* A usage line's way from the source reader's output files to the central *)
(* server (internal/agentusage/collector.go, internal/collector/runtime.go, *)
(* internal/ingestserver/server.go), with crashes of the collector, failed *)
(* and torn writes, requests that time out and are processed late, answers *)
(* that are lost, and a device token that stops and starts to be accepted. *)
(*                                                                         *)
(* The collector is one goroutine: between two ticks (pc = "idle") it      *)
(* chooses among collecting, uploading and a heartbeat.  Its spool is the  *)
(* sequence of unacknowledged events; module Spool shows how files keep    *)
(* it, and both implement DurableQueue.  The server's side of an event     *)
(* (receipts, deduplication) is module IngestStore; here it is stored.     *)
(***************************************************************************)
EXTENDS Integers, Sequences, FiniteSets, Functions

CONSTANTS
  Lines,        \* usage lines the source reader may write, one event each
  Unreadable,   \* lines that usageEnvelope refuses
  Refused,      \* events that the server rejects
  QueueMax,     \* the spool's hard cap, in events
  BatchLimit,   \* Config.BatchSize
  MaxDays,      \* bound: UTC days, one source-output file each
  MaxNew,       \* bound: new lines that one CollectOnce finds
  MaxFaults     \* bound: crashes, failed writes and lost answers

ASSUME PipelineConstants ==
  /\ Unreadable \subseteq Lines /\ Refused \subseteq Lines
  /\ QueueMax \in Nat \ {0} /\ BatchLimit \in Nat \ {0}
  /\ MaxDays \in Nat \ {0} /\ MaxNew \in Nat /\ MaxFaults \in Nat

Days == 1..MaxDays
SeenFile == 0   \* .agent-usage-seen, beside the output file of each day

(* A complete output line; glued: it begins with the rest of a torn one, so *)
(* that nobody can parse it.                                                *)
Texts == [line : Lines, glued : BOOLEAN]

VARIABLES
  files,        \* disk: source-output lines of each day (removed: empty)
  seenFile,     \* disk: .agent-usage-seen, the keys of lines written
  torn,         \* disk: the files that end in a torn record
  queue,        \* disk: the spool's unacknowledged events
  spoolTorn,    \* disk: the days whose spool segment ends in a torn record
  spent,        \* disk: the cap's share of acknowledged records and torn tails
  sourceQuar,   \* disk: source-quarantine.jsonl
  quar,         \* disk: quarantine.jsonl
  savedOff,     \* disk: localState.SourceOffsets
  savedPause,   \* disk: localState.AuthPaused
  day,          \* the current UTC day
  pc,           \* collector: "down", "idle", or what it is in the middle of
  off,          \* collector: sourceOffsets
  paused,       \* collector: authPaused
  seen,         \* collector: the source reader's seen keys
  loaded,       \* collector: seenLoaded
  cur,          \* collector: the source file it reads
  taken,        \* collector: events of the queue in the request
  answer,       \* the answer to that request
  rejected,     \* its rejected events that are not quarantined yet
  late,         \* requests the collector gave up on, still on their way
  stored,       \* server: events it has counted
  authorized,   \* server: the device's token is accepted
  faults,       \* faults so far
  accepted,     \* history: events whose Spool.Append returned nil
  judged,       \* history: events the server answered "rejected"
  denied        \* history: a saved 401 not followed by a good heartbeat

spoolVars  == <<queue, accepted, spoolTorn, spent>>
stateVars  == <<off, paused, savedOff, savedPause>>
readerVars == <<seenFile, torn, seen, loaded>>
sourceVars == <<files, readerVars, sourceQuar, cur, day>>
uploadVars == <<taken, answer, rejected, late, quar>>
serverVars == <<stored, judged, authorized>>
vars == <<spoolVars, stateVars, sourceVars, uploadVars, serverVars, pc, faults, denied>>

NoOffsets == [d \in Days |-> 0]

Init ==
  /\ files = [d \in Days |-> <<>>] /\ queue = <<>> /\ spoolTorn = {} /\ spent = 0 /\ sourceQuar = {} /\ quar = {}
  /\ savedOff = NoOffsets /\ savedPause = FALSE /\ day = 1
  /\ pc = "down" /\ off = NoOffsets /\ paused = FALSE /\ cur = 1
  /\ taken = 0 /\ answer = "none" /\ rejected = {} /\ late = {}
  /\ stored = {} /\ authorized = TRUE /\ faults = 0
  /\ seenFile = {} /\ torn = {} /\ seen = {} /\ loaded = FALSE /\ accepted = {} /\ judged = {} /\ denied = FALSE

NoFault == UNCHANGED faults
Fault == faults < MaxFaults /\ faults' = faults + 1

(* The call in progress returns; the request, if any, is over. *)
Idle ==
  /\ pc' = "idle" /\ taken' = 0 /\ answer' = "none" /\ rejected' = {}

(* saveLocalState writes every field that survives a restart. *)
SaveState(o, p) == savedOff' = o /\ savedPause' = p

(* A save whose failure the caller ignores. *)
TrySave ==
  \/ NoFault /\ SaveState(off, paused)
  \/ Fault /\ UNCHANGED <<savedOff, savedPause>>

-----------------------------------------------------------------------------
(* What is left of the cap's share n once a segment without unacknowledged  *)
(* records was removed: nothing, when no segment is torn or has any.        *)
Swept(q, broken, n) == IF q = <<>> /\ broken = {} THEN {0} ELSE 0..n

(* recoverPartialTails: the torn tails are set aside.  A recovery that fails *)
(* leaves the collector down.                                               *)
RecoverTails ==
  /\ spoolTorn' = {} /\ spent' \in Swept(queue, {}, spent)
  /\ UNCHANGED <<queue, accepted>>

(* Mutant: a restart that forgets AuthPaused.                               *)
Start_ForgetsPause ==
  /\ pc = "down"
  /\ off' = savedOff /\ paused' = FALSE
  /\ seen' = {} /\ loaded' = FALSE
  /\ RecoverTails
  /\ Idle
  /\ NoFault
  /\ UNCHANGED <<savedOff, savedPause, files, seenFile, torn, sourceQuar, cur, day>>
  /\ UNCHANGED <<late, quar, serverVars, denied>>

(* NewRuntime, loadLocalState, and what Run does before its loop.           *)
Start ==
  /\ pc = "down"
  /\ off' = savedOff /\ paused' = savedPause
  /\ seen' = {} /\ loaded' = FALSE
  /\ RecoverTails
  /\ Idle
  /\ NoFault
  /\ UNCHANGED <<savedOff, savedPause, files, seenFile, torn, sourceQuar, cur, day>>
  /\ UNCHANGED <<late, quar, serverVars, denied>>

-----------------------------------------------------------------------------
(* CollectOnce, the source reader.  After a start it knows the keys it has  *)
(* saved and those of the intact lines of today's file.                     *)
Intact(d) == {t.line : t \in {x \in Range(files[d]) : ~x.glued}}

Known == IF loaded THEN seen ELSE seenFile \cup Intact(day)

NewLines ==
  {s \in UNION {[1..n -> Lines \ Known] : n \in 0..MaxNew} : IsInjective(s)}

(* A key file that does not exist is seeded with what is known.  An error   *)
(* there is only logged, and a file that exists may be empty.               *)
Seeded ==
  IF ~loaded /\ seenFile = {} /\ SeenFile \notin torn THEN SUBSET Known ELSE {seenFile}

First(s, n) == {s[i] : i \in 1..n}

(* The first k lines of new are appended to today's file, the keys of the   *)
(* first n to the key file; what follows a torn record is glued to it.      *)
Appended(new, k) == [i \in 1..k |-> [line |-> new[i], glued |-> i = 1 /\ day \in torn]]

Write(new, k, n, cut) ==
  /\ files' = [files EXCEPT ![day] = @ \o Appended(new, k)]
  /\ \E old \in Seeded :
       seenFile' = old \cup {new[i] : i \in (IF SeenFile \in torn THEN 2 ELSE 1)..n}
  /\ torn' = (torn \ ((IF k > 0 THEN {day} ELSE {}) \cup (IF n > 0 THEN {SeenFile} ELSE {}))) \cup cut

(* collectOnce calls the reader unless the spool is full, and then reads    *)
(* the files from the oldest on whatever the reader returned.               *)
Room == Len(queue) + spent < QueueMax

Reader ==
  /\ pc = "idle" /\ Room
  /\ UNCHANGED <<spoolVars, stateVars, sourceQuar, day, uploadVars, serverVars, denied>>

ReadFiles(found) ==
  /\ seen' = Known \cup found /\ loaded' = TRUE
  /\ cur' = 1 /\ pc' = "read"

Collect ==
  /\ Reader
  /\ \E new \in NewLines :
       Write(new, Len(new), Len(new), {}) /\ ReadFiles(Range(new))
  /\ NoFault

(* appendLines fails in the lines of one source: those of the sources       *)
(* before it, m lines, are done with, its own keys are forgotten.           *)
AppendFails ==
  /\ Reader
  /\ \E new \in NewLines : \E k \in 0..Len(new) : \E m \in 0..k :
       /\ m < Len(new)
       /\ \E cut \in IF k < Len(new) THEN {{}, {day}} ELSE {{}} : Write(new, k, m, cut)
       /\ ReadFiles(First(new, m))
  /\ Fault

(* appendSeenKeys fails: the keys stay in memory. *)
KeysFail ==
  /\ Reader
  /\ \E new \in NewLines : \E n \in 0..(Len(new) - 1) : \E cut \in {{}, {SeenFile}} :
       Write(new, Len(new), n, cut) /\ ReadFiles(Range(new))
  /\ Fault

(* The process dies within CollectOnce. *)
CollectCrashes ==
  /\ Reader
  /\ \E new \in NewLines : \E k \in 0..Len(new) : \E n \in 0..k :
       \E cut \in {{}} \cup (IF k < Len(new) THEN {{day}} ELSE {}) \cup (IF n < k THEN {{SeenFile}} ELSE {}) :
         Write(new, k, n, cut)
  /\ pc' = "down" /\ Fault /\ UNCHANGED <<seen, loaded, cur>>

-----------------------------------------------------------------------------
(* The files are read line by line. *)
AtLine == pc = "read" /\ off[cur] < Len(files[cur])
Line == files[cur][off[cur] + 1].line
Readable == ~files[cur][off[cur] + 1].glued /\ Line \notin Unreadable

QuarantineLine ==
  /\ AtLine /\ ~Readable
  /\ sourceQuar' = sourceQuar \cup {Line}
  /\ pc' = "advance"
  /\ NoFault /\ UNCHANGED <<spoolVars, stateVars, files, readerVars, cur, day, uploadVars, serverVars, denied>>

(* Append refuses an event beyond the cap, and one for a segment that ends  *)
(* in a torn record ("repair required").                                    *)
Appendable == Room /\ day \notin spoolTorn

SpoolLine ==
  /\ AtLine /\ Readable
  /\ Appendable
  /\ queue' = Append(queue, Line) /\ accepted' = accepted \cup {Line}
  /\ pc' = "advance"
  /\ NoFault
  /\ UNCHANGED <<spoolTorn, spent, stateVars, sourceVars, uploadVars, serverVars, denied>>

SpoolRefuses ==
  /\ AtLine /\ Readable
  /\ ~Appendable
  /\ Idle
  /\ NoFault /\ UNCHANGED <<spoolVars, stateVars, sourceVars, late, quar, serverVars, denied>>

(* Append reports an error: the record did not reach the segment, or it did *)
(* all the same, or a part of it did.                                       *)
AppendBreaks ==
  \/ UNCHANGED <<queue, spoolTorn, spent>>
  \/ /\ Appendable
     /\ \/ queue' = Append(queue, Line) /\ UNCHANGED <<spoolTorn, spent>>
        \/ /\ spoolTorn' = spoolTorn \cup {day} /\ spent' \in {spent, spent + 1}
           /\ UNCHANGED queue

(* The quarantine may fail in the same ways, but for the torn record.       *)
LineFails ==
  /\ AtLine
  /\ \/ Readable /\ AppendBreaks /\ UNCHANGED sourceQuar
     \/ ~Readable /\ sourceQuar' \in {sourceQuar, sourceQuar \cup {Line}}
        /\ UNCHANGED <<queue, spoolTorn, spent>>
  /\ Idle /\ Fault
  /\ UNCHANGED <<accepted, stateVars, files, readerVars, cur, day, late, quar, serverVars, denied>>

(* The offset moves and is saved; after `processed` lines the pass yields.  *)
Advance ==
  /\ pc = "advance"
  /\ off' = [off EXCEPT ![cur] = @ + 1]
  /\ SaveState(off', paused)
  /\ pc' \in {"read", "idle"}
  /\ NoFault /\ UNCHANGED <<spoolVars, paused, sourceVars, uploadVars, serverVars, denied>>

AdvanceFails ==
  /\ pc = "advance"
  /\ Idle /\ Fault
  /\ UNCHANGED <<spoolVars, stateVars, sourceVars, late, quar, serverVars, denied>>

NextFile ==
  IF cur < day THEN pc' = "read" /\ cur' = cur + 1
               ELSE pc' = "idle" /\ UNCHANGED cur

(* Mutant: a fully read file is removed on its own day too.                 *)
EndOfFile_RemovesToday ==
  /\ pc = "read" /\ off[cur] >= Len(files[cur])
  /\ NextFile
  /\ IF files[cur] # <<>> /\ cur \notin torn
     THEN /\ files' = [files EXCEPT ![cur] = <<>>]
          /\ off' = [off EXCEPT ![cur] = 0]
          /\ \/ NoFault /\ SaveState(off', paused)
             \/ Fault /\ UNCHANGED <<savedOff, savedPause>>
     ELSE NoFault /\ UNCHANGED <<files, off, savedOff, savedPause>>
  /\ UNCHANGED <<spoolVars, paused, readerVars, sourceQuar, day, uploadVars, serverVars, denied>>

(* A fully read file of an earlier day is removed with its offset, unless a *)
(* torn line ends it; a failed remove or save is ignored.                   *)
EndOfFile ==
  /\ pc = "read" /\ off[cur] >= Len(files[cur])
  /\ NextFile
  /\ IF cur < day /\ files[cur] # <<>> /\ cur \notin torn
     THEN \/ /\ files' = [files EXCEPT ![cur] = <<>>]
             /\ off' = [off EXCEPT ![cur] = 0]
             /\ \/ NoFault /\ SaveState(off', paused)
                \/ Fault /\ UNCHANGED <<savedOff, savedPause>>
          \/ Fault /\ UNCHANGED <<files, off, savedOff, savedPause>>
     ELSE NoFault /\ UNCHANGED <<files, off, savedOff, savedPause>>
  /\ UNCHANGED <<spoolVars, paused, readerVars, sourceQuar, day, uploadVars, serverVars, denied>>

-----------------------------------------------------------------------------
(* uploadOnce sends a prefix of the spool, cut by the event limit, by the   *)
(* byte limit (any shorter prefix) and before a repeated event.             *)
NoRepeat(b) == \A i, j \in 1..Len(b) : i # j => b[i] # b[j]

Request == SubSeq(queue, 1, taken)

(* Mutant: the batch is not cut before a repeated event id.                 *)
Upload_WithRepeats ==
  /\ pc = "idle" /\ ~paused
  /\ queue # <<>>
  /\ taken' = IF Len(queue) < BatchLimit THEN Len(queue) ELSE BatchLimit
  /\ pc' = "sent" /\ answer' = "none" /\ rejected' = {}
  /\ NoFault /\ UNCHANGED <<spoolVars, stateVars, sourceVars, late, quar, serverVars, denied>>

Upload ==
  /\ pc = "idle" /\ ~paused
  /\ \E k \in 1..BatchLimit :
       /\ k <= Len(queue) /\ NoRepeat(SubSeq(queue, 1, k))
       /\ taken' = k
  /\ pc' = "sent" /\ answer' = "none" /\ rejected' = {}
  /\ NoFault /\ UNCHANGED <<spoolVars, stateVars, sourceVars, late, quar, serverVars, denied>>

(* Server.batches with a valid request: what Event.Validate or the store    *)
(* rejects (Refused, and whatever has aged meanwhile) is not stored.        *)
Rejections(b) == {R \in SUBSET Range(b) : Refused \cap Range(b) \subseteq R}

Process(b, R) ==
  /\ stored' = stored \cup (Range(b) \ R)
  /\ judged' = judged \cup R

Waiting == pc = "sent" /\ answer = "none"

ServerStores ==
  /\ Waiting /\ authorized /\ NoRepeat(Request)
  /\ \E R \in Rejections(Request) :
       Process(Request, R) /\ rejected' = R
  /\ answer' = "results"
  /\ NoFault /\ UNCHANGED <<spoolVars, stateVars, sourceVars, taken, late, quar, authorized, pc, denied>>

(* 400 for a repeated event id comes before 401. *)
ServerRefuses ==
  /\ Waiting /\ (~authorized \/ ~NoRepeat(Request))
  /\ answer' = IF NoRepeat(Request) THEN "unauthorized" ELSE "error"
  /\ NoFault /\ UNCHANGED <<spoolVars, stateVars, sourceVars, taken, rejected, late, quar, serverVars, pc, denied>>

ServerUnavailable ==
  /\ Waiting
  /\ answer' = "error"
  /\ Fault /\ UNCHANGED <<spoolVars, stateVars, sourceVars, taken, rejected, late, quar, serverVars, pc, denied>>

(* A request nobody waits for any more reaches the server, or never does.   *)
LateRequest(b) ==
  /\ b \in late
  /\ late' = late \ {b}
  /\ \/ authorized /\ \E R \in Rejections(b) : Process(b, R)
     \/ UNCHANGED <<stored, judged>>
  /\ NoFault /\ UNCHANGED <<spoolVars, stateVars, sourceVars, taken, answer, rejected, quar, authorized, pc, denied>>

Abandon == late' = IF Waiting /\ NoRepeat(Request) THEN late \cup {Request} ELSE late

(* The answer is lost or the client times out: retry later.                 *)
GiveUp ==
  /\ pc = "sent"
  /\ Abandon
  /\ Idle /\ Fault
  /\ UNCHANGED <<spoolVars, stateVars, sourceVars, quar, serverVars, denied>>

-----------------------------------------------------------------------------
(* A rejected event is preserved before anything is acknowledged. *)
QuarantineEvent ==
  /\ pc = "sent" /\ answer = "results"
  /\ \E e \in rejected : quar' = quar \cup {e} /\ rejected' = rejected \ {e}
  /\ NoFault /\ UNCHANGED <<spoolVars, stateVars, sourceVars, taken, answer, late, serverVars, pc, denied>>

(* Mutant: acknowledge a full batch whatever the request held.              *)
Ack_WholeBatch ==
  /\ pc = "sent" /\ answer = "results" /\ rejected = {}
  /\ queue' = SubSeq(queue, BatchLimit + 1, Len(queue))
  /\ spent' \in Swept(queue', spoolTorn, spent + Len(queue) - Len(queue'))
  /\ TrySave
  /\ Idle
  /\ UNCHANGED <<accepted, spoolTorn, off, paused, sourceVars, late, quar, serverVars, denied>>

(* Spool.Ack has saved the cursor; the offered configuration may still be   *)
(* refused and saveLocalState may still fail.                               *)
Ack ==
  /\ pc = "sent" /\ answer = "results" /\ rejected = {}
  /\ queue' = SubSeq(queue, taken + 1, Len(queue))
  /\ spent' \in Swept(queue', spoolTorn, spent + taken)
  /\ TrySave
  /\ Idle
  /\ UNCHANGED <<accepted, spoolTorn, off, paused, sourceVars, late, quar, serverVars, denied>>

(* The quarantine or Spool.Ack fails.                                       *)
AckFails ==
  /\ pc = "sent" /\ answer = "results"
  /\ Idle /\ Fault
  /\ UNCHANGED <<spoolVars, stateVars, sourceVars, late, quar, serverVars, denied>>

(* 401 or 403 pauses uploads; the result of saveLocalState is ignored.      *)
Deny ==
  /\ paused' = TRUE
  /\ \/ NoFault /\ SaveState(off, TRUE) /\ denied' = TRUE
     \/ Fault /\ UNCHANGED <<savedOff, savedPause, denied>>

UploadDenied ==
  /\ pc = "sent" /\ answer = "unauthorized"
  /\ Deny /\ Idle
  /\ UNCHANGED <<spoolVars, off, sourceVars, late, quar, serverVars>>

UploadError ==
  /\ pc = "sent" /\ answer = "error"
  /\ TrySave
  /\ Idle
  /\ UNCHANGED <<spoolVars, off, paused, sourceVars, late, quar, serverVars, denied>>

(* heartbeatOnce: only an answered heartbeat ends the pause.                *)
HeartbeatAccepted ==
  /\ pc = "idle" /\ authorized
  /\ paused' = FALSE /\ denied' = FALSE
  /\ \/ NoFault /\ SaveState(off, FALSE)
     \/ Fault /\ UNCHANGED <<savedOff, savedPause>>
  /\ UNCHANGED <<spoolVars, off, sourceVars, uploadVars, serverVars, pc>>

HeartbeatDenied ==
  /\ pc = "idle" /\ ~authorized
  /\ Deny
  /\ UNCHANGED <<spoolVars, off, sourceVars, uploadVars, serverVars, pc>>

-----------------------------------------------------------------------------
(* The process dies; the disk and a request under way remain.               *)
Crash ==
  /\ pc # "down"
  /\ Abandon
  /\ pc' = "down" /\ taken' = 0 /\ answer' = "none" /\ rejected' = {}
  /\ Fault
  /\ UNCHANGED <<spoolVars, stateVars, sourceVars, quar, serverVars, denied>>

(* The collector is stopped between two calls, for an upgrade or a repair.  *)
Stop ==
  /\ pc = "idle" /\ pc' = "down"
  /\ NoFault
  /\ UNCHANGED <<spoolVars, stateVars, sourceVars, uploadVars, serverVars, denied>>

(* RevokeDevice or RotateDeviceToken, and the operator's repair.            *)
Authorization ==
  /\ authorized' = ~authorized
  /\ NoFault
  /\ UNCHANGED <<spoolVars, stateVars, sourceVars, uploadVars, stored, judged, pc, denied>>

Midnight ==
  /\ day < MaxDays
  /\ day' = day + 1
  /\ NoFault
  /\ UNCHANGED <<spoolVars, stateVars, files, readerVars, sourceQuar, cur, uploadVars, serverVars, pc, denied>>

(* What the goroutine does once it has left the select statement.           *)
Continue ==
  \/ QuarantineLine \/ SpoolLine \/ SpoolRefuses \/ Advance \/ EndOfFile
  \/ QuarantineEvent \/ Ack \/ UploadDenied \/ UploadError

ServerAnswers == ServerStores \/ ServerRefuses

Heartbeat == HeartbeatAccepted \/ HeartbeatDenied

Next ==
  \/ Start \/ Collect \/ Upload \/ Heartbeat \/ Continue
  \/ AppendFails \/ KeysFail \/ CollectCrashes \/ LineFails \/ AdvanceFails \/ AckFails \/ GiveUp \/ Crash \/ Stop
  \/ ServerAnswers \/ ServerUnavailable
  \/ \E b \in late : LateRequest(b)
  \/ Authorization \/ Midnight

Spec == Init /\ [][Next]_vars

(* The service manager restarts the collector; the goroutine runs; select   *)
(* picks at random among the tickers that are due, and a due ticker stays   *)
(* due, so each is served again and again; the server answers.              *)
Fairness ==
  /\ WF_vars(Start) /\ WF_vars(Continue) /\ WF_vars(ServerAnswers)
  /\ SF_vars(Collect) /\ SF_vars(Upload) /\ SF_vars(Heartbeat)

FairSpec == Spec /\ Fairness

-----------------------------------------------------------------------------
WithinCap ==
  spoolTorn \subseteq Days /\ spent \in Nat /\ Len(queue) + spent <= QueueMax

TypeOK ==
  /\ files \in [Days -> Seq(Texts)] /\ queue \in Seq(Lines) /\ WithinCap
  /\ sourceQuar \subseteq Lines /\ quar \subseteq Lines
  /\ savedOff \in [Days -> Nat] /\ savedPause \in BOOLEAN /\ day \in Days
  /\ pc \in {"down", "idle", "read", "advance", "sent"}
  /\ off \in [Days -> Nat] /\ paused \in BOOLEAN /\ cur \in 1..day
  /\ taken \in 0..Len(queue) /\ answer \in {"none", "results", "unauthorized", "error"}
  /\ rejected \subseteq Lines /\ late \subseteq Seq(Lines)
  /\ stored \subseteq Lines /\ authorized \in BOOLEAN /\ faults \in 0..MaxFaults
  /\ seenFile \subseteq Lines /\ torn \subseteq {SeenFile} \cup Days
  /\ seen \subseteq Lines /\ loaded \in BOOLEAN
  /\ accepted \subseteq Lines /\ judged \subseteq Lines
  /\ denied \in BOOLEAN

(* Lines that the source reader does not write again. *)
Emitted == seen \cup seenFile

(* A line will be read again by whoever reads next: this run, or the next.  *)
Ahead(o, l) == \E d \in Days : \E i \in (o[d] + 1)..Len(files[d]) : files[d][i].line = l

(* No line is lost between two places: once the source reader takes it for  *)
(* written, and until the server has stored it or a quarantine file holds   *)
(* it, a line is in the spool or ahead of the source offset, the saved one  *)
(* as well as the one in use.  It covers the order append - save keys, the  *)
(* keys forgotten after a failed append, a line glued to a torn one, the    *)
(* order append - save offset - remove file, the rollback of a failed save, *)
(* and quarantine before acknowledgement.                                   *)
Settled(l) == l \in stored \cup quar \cup sourceQuar

NothingLost ==
  \A l \in Emitted :
    \/ Settled(l)
    \/ l \in Range(queue)
    \/ Ahead(savedOff, l) /\ (pc # "down" => Ahead(off, l))

(* "HTTP 401 or 403 pauses uploads": once the pause is saved, no request    *)
(* with events leaves this device until a heartbeat was answered, whatever  *)
(* restarts lie between.                                                    *)
PauseHolds == denied => pc # "sent"

(* The runtime keeps the promise of the durable queue: Append's success,    *)
(* the server's word (even one that comes after the collector stopped       *)
(* waiting) and the acknowledgement are Accept, Deliver and Forget.         *)
Queue == INSTANCE DurableQueue
           WITH Events <- Lines, pending <- Range(queue), delivered <- stored \cup judged

ImplementsQueue == Queue!Spec

(* Once the token stays accepted, every line the reader wrote is stored or  *)
(* quarantined and leaves the spool: neither a poison line, nor a repeated  *)
(* event, nor a full spool, nor a pause stops the lines behind it for good. *)
(* A torn record in the spool does: Append refuses until a restart has set  *)
(* it aside, and the collector never restarts itself for that.  The premise *)
(* is that somebody does, each time.                                        *)
Delivered(l) == Settled(l) /\ l \notin Range(queue)

EveryLineDelivered ==
  <>[]authorized /\ []<>(spoolTorn = {}) => \A l \in Lines : (l \in Emitted) ~> Delivered(l)
=============================================================================
