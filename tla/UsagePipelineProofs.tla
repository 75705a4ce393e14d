-------------------------- MODULE UsagePipelineProofs --------------------------
(***************************************************************************)
(* What the collector runtime and the upload protocol guarantee for every   *)
(* set of lines, spool size, batch limit, number of days and of faults.     *)
(***************************************************************************)
EXTENDS UsagePipeline, SequenceTheorems, TLAPS

-----------------------------------------------------------------------------
(* The inductive invariant. *)

(* Lines that nobody has to read from the source any more. *)
Kept == stored \cup quar \cup sourceQuar \cup Range(queue)

(* Between the record and the offset: the line is kept already. *)
LineKept == pc = "advance" => off[cur] < Len(files[cur]) /\ Line \in Kept

(* Only files of past days are removed, so an offset that a failed save left *)
(* behind on disk never meets a line: files of today and later hold at least *)
(* as many lines as either offset counts.                                    *)
OffsetsWithin ==
  /\ \A d \in Days : d > day => files[d] = <<>>
  /\ \A d \in Days : d >= day => off[d] <= Len(files[d]) /\ savedOff[d] <= Len(files[d])

ReadIsKept ==
  \A d \in Days : \A i \in 1..Len(files[d]) :
    i <= off[d] \/ i <= savedOff[d] => files[d][i].line \in Kept

Somewhere ==
  \A l \in Emitted : l \in Kept \/ \E d \in Days : \E i \in 1..Len(files[d]) : files[d][i].line = l

(* What an answer with results says about the request. *)
AnswerCovers ==
  /\ pc # "sent" => answer = "none" /\ rejected = {}
  /\ rejected \subseteq judged
  /\ answer = "results" =>
       /\ Range(Request) \subseteq stored \cup rejected \cup quar
       /\ Range(Request) \subseteq stored \cup judged

(* A request on its way holds nothing that was lost. *)
LateKept == \A b \in late : Range(b) \subseteq Range(queue) \cup stored \cup judged

PauseSaved == denied => savedPause /\ (pc # "down" => paused) /\ pc # "sent"

IInv ==
  /\ TypeOK /\ LineKept /\ OffsetsWithin /\ ReadIsKept /\ Somewhere
  /\ AnswerCovers /\ LateKept /\ PauseSaved

-----------------------------------------------------------------------------
(* Sequences: what Append, concatenation and a prefix do to the range. *)

LEMMA RangeAppend ==
  ASSUME NEW S, NEW q \in Seq(S), NEW e \in S
  PROVE  /\ Append(q, e) \in Seq(S) /\ Len(Append(q, e)) = Len(q) + 1
         /\ Range(Append(q, e)) = Range(q) \cup {e}
<1>1. Append(q, e) = q \o <<e>> /\ <<e>> \in Seq(S)
  BY AppendIsConcat
<1>2. Range(<<e>>) = {e}
  <2>1. DOMAIN <<e>> = {1} /\ <<e>>[1] = e
    OBVIOUS
  <2> QED
    BY <2>1, Zenon DEF Range
<1>3. Range(q \o <<e>>) = Range(q) \cup Range(<<e>>)
  <2> DEFINE last == <<e>>
  <2>1. last \in Seq(S)
    BY <1>1
  <2> HIDE DEF last
  <2>2. Range(q \o last) = Range(q) \cup Range(last)
    BY <2>1, RangeConcatenation
  <2> QED
    BY <2>2 DEF last
<1>4. Append(q, e) \in Seq(S) /\ Len(Append(q, e)) = Len(q) + 1
  BY AppendProperties
<1> QED
  BY <1>1, <1>2, <1>3, <1>4

LEMMA RangeSplit ==
  ASSUME NEW S, NEW q \in Seq(S), NEW k \in 0..Len(q)
  PROVE  /\ SubSeq(q, 1, k) \in Seq(S) /\ SubSeq(q, k + 1, Len(q)) \in Seq(S)
         /\ Len(SubSeq(q, k + 1, Len(q))) = Len(q) - k
         /\ Range(q) = Range(SubSeq(q, 1, k)) \cup Range(SubSeq(q, k + 1, Len(q)))
<1> DEFINE a == SubSeq(q, 1, k)
           b == SubSeq(q, k + 1, Len(q))
<1>0. Len(q) \in Nat /\ \A i \in 1..Len(q) : q[i] \in S
  BY ElementOfSeq, LenProperties
<1>1. a \in Seq(S) /\ Len(a) = k /\ \A i \in 1..k : a[i] = q[i]
  BY <1>0, SubSeqProperties
<1>2. b \in Seq(S) /\ Len(b) = Len(q) - k /\ \A i \in 1..(Len(q) - k) : b[i] = q[k + i]
  BY <1>0, SubSeqProperties
<1>3. Range(q) = {q[i] : i \in 1..Len(q)} /\ Range(a) = {a[i] : i \in 1..k}
      /\ Range(b) = {b[i] : i \in 1..(Len(q) - k)}
  <2> HIDE DEF a, b
  <2>1. Range(q) = {q[i] : i \in 1..Len(q)}
    BY RangeEquality
  <2>2. Range(a) = {a[i] : i \in 1..k}
    BY <1>1, RangeEquality
  <2>3. Range(b) = {b[i] : i \in 1..(Len(q) - k)}
    BY <1>2, RangeEquality
  <2> QED
    BY <2>1, <2>2, <2>3
<1>4. ASSUME NEW i \in 1..Len(q) PROVE q[i] \in Range(a) \cup Range(b)
  <2>1. CASE i <= k
    BY <2>1, <1>1, <1>3
  <2>2. CASE i > k
    <3>1. i - k \in 1..(Len(q) - k) /\ b[i - k] = q[i]
      BY <2>2, <1>0, <1>2
    <3> QED
      BY <3>1, <1>3
  <2> QED
    BY <2>1, <2>2
<1>5. ASSUME NEW i \in 1..k PROVE a[i] \in Range(q)
  BY <1>0, <1>1, <1>3
<1>6. ASSUME NEW i \in 1..(Len(q) - k) PROVE b[i] \in Range(q)
  <2>1. k + i \in 1..Len(q) /\ b[i] = q[k + i]
    BY <1>0, <1>2
  <2> QED
    BY <2>1, <1>3
<1>7. Range(a) \subseteq Range(q) /\ Range(b) \subseteq Range(q)
  BY <1>3, <1>5, <1>6
<1>8. Range(q) \subseteq Range(a) \cup Range(b)
  BY <1>3, <1>4
<1> QED
  BY <1>1, <1>2, <1>7, <1>8

-----------------------------------------------------------------------------
(* An empty collector satisfies the invariant. *)
LEMMA InitIInv == Init => IInv
<1> SUFFICES ASSUME Init PROVE IInv
  OBVIOUS
<1> USE DEF Init, NoOffsets, Days
<1>1. TypeOK
  <2>1. files \in [Days -> Seq(Texts)] /\ queue \in Seq(Lines) /\ Len(queue) = 0
        /\ late \subseteq Seq(Lines) /\ taken \in 0..Len(queue)
    OBVIOUS
  <2>2. off \in [Days -> Nat] /\ savedOff \in [Days -> Nat]
    OBVIOUS
  <2>3. WithinCap /\ day \in Days /\ cur \in 1..day /\ faults \in 0..MaxFaults
    BY <2>1, PipelineConstants DEF WithinCap
  <2>4. /\ savedPause \in BOOLEAN /\ paused \in BOOLEAN /\ authorized \in BOOLEAN /\ denied \in BOOLEAN
        /\ pc = "down" /\ answer = "none"
    OBVIOUS
  <2>5. /\ sourceQuar = {} /\ quar = {} /\ rejected = {} /\ stored = {}
        /\ seenFile = {} /\ torn = {} /\ seen = {} /\ loaded = FALSE /\ accepted = {} /\ judged = {}
    OBVIOUS
  <2> HIDE DEF Init, NoOffsets, Days
  <2> QED
    BY <2>1, <2>2, <2>3, <2>4, <2>5 DEF TypeOK
<1>2. OffsetsWithin /\ ReadIsKept
  BY DEF OffsetsWithin, ReadIsKept
<1> QED
  BY <1>1, <1>2 DEF IInv, LineKept, Somewhere, Emitted, AnswerCovers, LateKept, PauseSaved

-----------------------------------------------------------------------------
(* The line to be read next. *)
LEMMA LineTyped ==
  ASSUME TypeOK
  PROVE  /\ cur \in Days /\ off[cur] \in Nat /\ Len(files[cur]) \in Nat
         /\ AtLine => off[cur] + 1 \in 1..Len(files[cur]) /\ Line \in Lines
<1>1. cur \in Days /\ off[cur] \in Nat /\ Len(files[cur]) \in Nat
  BY PipelineConstants, LenProperties DEF Days, TypeOK
<1>2. AtLine => off[cur] + 1 \in 1..Len(files[cur])
  BY <1>1 DEF AtLine
<1>3. AtLine => files[cur][off[cur] + 1] \in Texts
  BY <1>1, <1>2, ElementOfSeq DEF TypeOK
<1> QED
  BY <1>1, <1>2, <1>3 DEF Line, Texts

(* What the source reader does to its files, whether it fails or not: lines *)
(* are added to today's file, and it takes no line for written that is not  *)
(* there.                                                                   *)
Read == Collect \/ AppendFails \/ KeysFail \/ CollectCrashes

Grown(app) ==
  /\ files' = [files EXCEPT ![day] = @ \o app]
  /\ Emitted' \subseteq Emitted \cup Intact(day) \cup {app[i].line : i \in 1..Len(app)}

Wrote(new, k) ==
  /\ Appended(new, k) \in Seq(Texts) /\ Len(Appended(new, k)) = k
  /\ \A i \in 1..k : Appended(new, k)[i].line = new[i] /\ new[i] \in Lines
  /\ seenFile' \subseteq Known \cup seenFile \cup First(new, k)
  /\ torn' \subseteq {SeenFile} \cup Days
  /\ Range(new) \subseteq Lines /\ Range(new) = First(new, Len(new)) /\ Len(new) \in Nat

LEMMA WriteStep ==
  ASSUME TypeOK, NEW new \in NewLines, NEW k \in 0..Len(new), NEW n \in 0..k,
         NEW cut \in {{}, {day}, {SeenFile}}, Write(new, k, n, cut)
  PROVE  Wrote(new, k)
<1>1. PICK N \in 0..MaxNew : new \in [1..N -> Lines \ Known]
  BY DEF NewLines
<1>2. new \in Seq(Lines) /\ Len(new) \in Nat /\ DOMAIN new = 1..Len(new)
  <2>1. N \in Nat
    BY PipelineConstants
  <2>2. new \in [1..N -> Lines]
    BY <1>1
  <2> QED
    BY <2>1, <2>2, SeqDef, LenProperties
<1>3. \A i \in 1..k : new[i] \in Lines
  BY <1>2, ElementOfSeq
<1>4. Appended(new, k) \in Seq(Texts) /\ Len(Appended(new, k)) = k
  <2>1. k \in Nat /\ Appended(new, k) \in [1..k -> Texts]
    BY <1>2, <1>3 DEF Appended, Texts
  <2> QED
    BY <2>1, SeqDef, LenProperties
<1>5. \A i \in 1..k : Appended(new, k)[i].line = new[i]
  BY DEF Appended
<1>6. seenFile' \subseteq Known \cup seenFile \cup First(new, k)
  <2>1. PICK old \in Seeded :
          seenFile' = old \cup {new[i] : i \in (IF SeenFile \in torn THEN 2 ELSE 1)..n}
    BY DEF Write
  <2>2. old \subseteq Known \cup seenFile
    BY DEF Seeded
  <2>3. (IF SeenFile \in torn THEN 2 ELSE 1)..n \subseteq 1..k
    BY <1>2
  <2> QED
    BY <2>1, <2>2, <2>3 DEF First
<1>7. torn' \subseteq {SeenFile} \cup Days
  <2>1. torn' \subseteq torn \cup cut
    BY DEF Write
  <2> QED
    BY <2>1 DEF TypeOK
<1>8. Range(new) = First(new, Len(new))
  BY <1>2, RangeEquality DEF First
<1>9. Range(new) \subseteq Lines
  BY <1>2, RangeOfSeq
<1> QED
  BY <1>2, <1>3, <1>4, <1>5, <1>6, <1>7, <1>8, <1>9 DEF Wrote

LEMMA KnownTyped ==
  ASSUME TypeOK
  PROVE  /\ Known \subseteq Lines /\ Known \subseteq Emitted \cup Intact(day)
<1>1. day \in Days /\ files[day] \in Seq(Texts)
  BY DEF TypeOK
<1>2. Range(files[day]) \subseteq Texts
  BY <1>1, RangeOfSeq
<1>3. Intact(day) \subseteq Lines
  BY <1>2 DEF Intact, Texts
<1> QED
  BY <1>3 DEF Known, Emitted, TypeOK

LEMMA ReadStep ==
  ASSUME TypeOK, Read
  PROVE  /\ seenFile' \subseteq Lines /\ torn' \subseteq {SeenFile} \cup Days
         /\ seen' \subseteq Lines /\ loaded' \in BOOLEAN
         /\ pc = "idle" /\ pc' \in {"read", "down"} /\ cur' \in {1, cur} /\ faults' \in 0..MaxFaults
         /\ UNCHANGED <<spoolVars, stateVars, sourceQuar, day, uploadVars, serverVars, denied>>
         /\ \E app \in Seq(Texts) : Grown(app)
<1>1. Reader /\ faults' \in 0..MaxFaults
  BY PipelineConstants DEF Read, Collect, AppendFails, KeysFail, CollectCrashes, TypeOK, NoFault, Fault
<1>2. PICK new \in NewLines, k \in Nat, n \in Nat, cut \in {{}, {day}, {SeenFile}} :
        /\ k \in 0..Len(new) /\ n \in 0..k /\ Write(new, k, n, cut)
        /\ \/ ReadFiles(First(new, n))
           \/ k = Len(new) /\ ReadFiles(Range(new))
           \/ pc' = "down" /\ UNCHANGED <<seen, loaded, cur>>
  <2>0. \A new \in NewLines : Len(new) \in Nat
    <3>1. ASSUME NEW new \in NewLines PROVE Len(new) \in Nat
      <4>1. PICK N \in 0..MaxNew : new \in [1..N -> Lines \ Known]
        BY DEF NewLines
      <4> QED
        BY <4>1, PipelineConstants, SeqDef, LenProperties
    <3> QED
      BY <3>1
  <2>1. CASE Collect
    <3>1. PICK new \in NewLines : Write(new, Len(new), Len(new), {}) /\ ReadFiles(Range(new))
      BY <2>1 DEF Collect
    <3>2. Len(new) \in 0..Len(new)
      BY <2>0
    <3> QED
      BY <3>1, <3>2
  <2>2. CASE AppendFails
    <3>1. PICK new \in NewLines :
            \E k \in 0..Len(new) : \E m \in 0..k :
              /\ \E cut \in {{}, {day}} : Write(new, k, m, cut)
              /\ ReadFiles(First(new, m))
      BY <2>2 DEF AppendFails
    <3>2. PICK k \in 0..Len(new) : \E m \in 0..k :
              /\ \E cut \in {{}, {day}} : Write(new, k, m, cut)
              /\ ReadFiles(First(new, m))
      BY <3>1
    <3>3. PICK m \in 0..k, cut \in {{}, {day}} : Write(new, k, m, cut) /\ ReadFiles(First(new, m))
      BY <3>2
    <3>4. k \in Nat /\ m \in Nat
      BY <2>0
    <3> QED
      BY <3>3, <3>4
  <2>3. CASE KeysFail
    <3>1. PICK new \in NewLines :
            \E n \in 0..(Len(new) - 1) : \E cut \in {{}, {SeenFile}} :
              Write(new, Len(new), n, cut) /\ ReadFiles(Range(new))
      BY <2>3 DEF KeysFail
    <3>2. PICK n \in 0..(Len(new) - 1), cut \in {{}, {SeenFile}} :
            Write(new, Len(new), n, cut) /\ ReadFiles(Range(new))
      BY <3>1
    <3>3. Len(new) \in Nat /\ Len(new) \in 0..Len(new) /\ n \in Nat /\ n \in 0..Len(new)
      BY <2>0
    <3> QED
      BY <3>2, <3>3
  <2>4. CASE CollectCrashes
    <3>1. PICK new \in NewLines :
            \E k \in 0..Len(new) : \E n \in 0..k : \E cut \in {{}, {day}, {SeenFile}} : Write(new, k, n, cut)
      BY <2>4 DEF CollectCrashes
    <3>2. PICK k \in 0..Len(new) :
            \E n \in 0..k : \E cut \in {{}, {day}, {SeenFile}} : Write(new, k, n, cut)
      BY <3>1
    <3>3. PICK n \in 0..k, cut \in {{}, {day}, {SeenFile}} : Write(new, k, n, cut)
      BY <3>2
    <3>4. k \in Nat /\ n \in Nat
      BY <2>0
    <3>5. pc' = "down" /\ UNCHANGED <<seen, loaded, cur>>
      BY <2>4 DEF CollectCrashes
    <3> QED
      BY <3>3, <3>4, <3>5
  <2> QED
    BY <2>1, <2>2, <2>3, <2>4 DEF Read
<1>2a. new \in NewLines /\ cut \in {{}, {day}, {SeenFile}} /\ k \in 0..Len(new) /\ n \in 0..k /\ Write(new, k, n, cut)
  BY <1>2
<1>3a. Wrote(new, k)
  BY <1>2a, WriteStep, Zenon
<1>3. /\ Appended(new, k) \in Seq(Texts) /\ Len(Appended(new, k)) = k
      /\ \A i \in 1..k : Appended(new, k)[i].line = new[i] /\ new[i] \in Lines
      /\ seenFile' \subseteq Known \cup seenFile \cup First(new, k)
      /\ torn' \subseteq {SeenFile} \cup Days
      /\ Range(new) \subseteq Lines /\ Range(new) = First(new, Len(new)) /\ Len(new) \in Nat
  BY <1>3a DEF Wrote
<1>4. First(new, n) \subseteq First(new, k) /\ First(new, k) \subseteq Lines
  BY <1>2a, <1>3 DEF First
<1>5. First(new, k) = {Appended(new, k)[i].line : i \in 1..k}
  BY <1>3 DEF First
<1>6. /\ seen' \subseteq Known \cup seen \cup First(new, k) /\ loaded' \in BOOLEAN
      /\ pc' \in {"read", "down"} /\ cur' \in {1, cur}
  BY <1>2, <1>3, <1>4 DEF ReadFiles, TypeOK
<1>7. Grown(Appended(new, k))
  <2>1. files' = [files EXCEPT ![day] = @ \o Appended(new, k)]
    BY <1>2 DEF Write
  <2>2. Emitted' \subseteq Emitted \cup Intact(day) \cup First(new, k)
    BY <1>3, <1>6, KnownTyped DEF Emitted
  <2> QED
    BY <2>1, <2>2, <1>3, <1>5 DEF Grown
<1>8. seen' \subseteq Lines /\ seenFile' \subseteq Lines
  BY <1>3, <1>4, <1>6, KnownTyped DEF TypeOK
<1> QED
  BY <1>1, <1>3, <1>6, <1>7, <1>8 DEF Reader

(* What is on the spool's disk stays within its cap: an acknowledgement only *)
(* turns unacknowledged records into acknowledged ones.                     *)
LEMMA SweptShare ==
  ASSUME NEW q, NEW broken, NEW n \in Nat, NEW m \in Swept(q, broken, n)
  PROVE  m \in Nat /\ m <= n
BY DEF Swept

LEMMA CapStep == TypeOK /\ [Next]_vars => WithinCap'
<1> SUFFICES ASSUME TypeOK, [Next]_vars PROVE WithinCap'
  OBVIOUS
<1>a. /\ queue \in Seq(Lines) /\ Len(queue) \in Nat /\ QueueMax \in Nat
      /\ spoolTorn \subseteq Days /\ spent \in Nat /\ Len(queue) + spent <= QueueMax
      /\ day \in Days
  BY PipelineConstants, LenProperties DEF TypeOK, WithinCap
<1>b. AtLine => Line \in Lines
  BY LineTyped
<1>c. UNCHANGED <<queue, spoolTorn, spent>> => WithinCap'
  BY <1>a DEF WithinCap
<1>1. CASE Start
  <2>1. spoolTorn' = {} /\ UNCHANGED queue /\ spent' \in Swept(queue, {}, spent)
    BY <1>1 DEF Start, RecoverTails
  <2>2. spent' \in Nat /\ spent' <= spent
    BY <2>1, <1>a, SweptShare
  <2> QED
    BY <2>1, <2>2, <1>a DEF WithinCap
<1>2. CASE AtLine /\ Room /\ queue' = Append(queue, Line) /\ UNCHANGED <<spoolTorn, spent>>
  <2>1. Len(queue') = Len(queue) + 1
    BY <1>2, <1>a, <1>b, AppendProperties
  <2> QED
    BY <1>2, <2>1, <1>a DEF WithinCap, Room
<1>3. CASE Room /\ spoolTorn' = spoolTorn \cup {day} /\ spent' \in {spent, spent + 1} /\ UNCHANGED queue
  BY <1>3, <1>a DEF WithinCap, Room
<1>4. CASE SpoolLine
  BY <1>4, <1>2 DEF SpoolLine, Appendable
<1>5. CASE LineFails
  BY <1>5, <1>c, <1>2, <1>3 DEF LineFails, AppendBreaks, Appendable
<1>6. CASE Ack
  <2>1. taken \in 0..Len(queue) /\ taken \in Nat
    BY <1>a DEF TypeOK
  <2>2. /\ spoolTorn' = spoolTorn /\ spent' \in Swept(queue', spoolTorn, spent + taken)
        /\ queue' = SubSeq(queue, taken + 1, Len(queue))
    BY <1>6 DEF Ack
  <2>3. Len(queue') = Len(queue) - taken
    BY <2>1, <2>2, <1>a, RangeSplit
  <2>4. spent' \in Nat /\ spent' <= spent + taken
    <3> DEFINE room == spent + taken
    <3>1. room \in Nat
      BY <2>1, <1>a
    <3>2. spent' \in Swept(queue', spoolTorn, room)
      BY <2>2
    <3> HIDE DEF room
    <3>3. spent' \in Nat /\ spent' <= room
      BY <3>1, <3>2, SweptShare
    <3> QED
      BY <3>3 DEF room
  <2>5. Len(queue') + spent' <= QueueMax
    BY <2>1, <2>3, <2>4, <1>a
  <2> QED
    BY <2>2, <2>4, <2>5, <1>a DEF WithinCap
<1> USE DEF spoolVars
<1>7. CASE Read
  BY <1>7, <1>c, ReadStep
<1>8. CASE QuarantineLine \/ SpoolRefuses \/ Advance \/ AdvanceFails \/ EndOfFile
  BY <1>8, <1>c DEF QuarantineLine, SpoolRefuses, Advance, AdvanceFails, EndOfFile
<1>9. CASE Upload \/ ServerStores \/ ServerRefuses \/ ServerUnavailable
  BY <1>9, <1>c DEF Upload, ServerStores, ServerRefuses, ServerUnavailable
<1>10. ASSUME NEW b \in late, LateRequest(b) PROVE WithinCap'
  BY <1>10, <1>c DEF LateRequest
<1>11. CASE GiveUp \/ QuarantineEvent \/ AckFails \/ UploadDenied \/ UploadError
  BY <1>11, <1>c DEF GiveUp, QuarantineEvent, AckFails, UploadDenied, UploadError
<1>12. CASE HeartbeatAccepted \/ HeartbeatDenied \/ Crash \/ Stop \/ Authorization \/ Midnight
  BY <1>12, <1>c DEF HeartbeatAccepted, HeartbeatDenied, Crash, Stop, Authorization, Midnight
<1>13. CASE UNCHANGED vars
  BY <1>13, <1>c DEF vars
<1> QED
  BY <1>1, <1>4, <1>5, <1>6, <1>7, <1>8, <1>9, <1>10, <1>11, <1>12, <1>13
     DEF Next, Read, Heartbeat, Continue, ServerAnswers

(* Types. *)
LEMMA TypeStep == TypeOK /\ [Next]_vars => TypeOK'
<1> SUFFICES ASSUME TypeOK, [Next]_vars PROVE TypeOK'
  OBVIOUS
<1>cap. WithinCap'
  BY CapStep
<1> USE DEF TypeOK
<1>a. Len(queue) \in Nat /\ QueueMax \in Nat /\ BatchLimit \in Nat /\ MaxFaults \in Nat
      /\ \A d \in Days : Len(files[d]) \in Nat
  BY PipelineConstants, LenProperties
<1>b. Days \subseteq Nat /\ 1 \in Days /\ \A d \in Days : d < MaxDays => d + 1 \in Days
  BY PipelineConstants DEF Days
<1>c. Range(queue) \subseteq Lines /\ \A b \in late : Range(b) \subseteq Lines
  BY RangeOfSeq
<1>d. Request \in Seq(Lines) /\ Range(Request) \subseteq Lines
  <2>1. Request \in Seq(Lines)
    BY RangeSplit, <1>a DEF Request
  <2> QED
    BY <2>1, RangeOfSeq
<1>e. AtLine => off[cur] + 1 \in 1..Len(files[cur]) /\ Line \in Lines /\ cur \in Days
  BY LineTyped
<1> USE DEF spoolVars, stateVars, readerVars, sourceVars, uploadVars, serverVars, Idle, NoFault, Fault, SaveState
<1>1. CASE Start
  <2>1. /\ off' = savedOff /\ paused' = savedPause /\ seen' = {} /\ loaded' = FALSE
        /\ pc' = "idle" /\ taken' = 0 /\ answer' = "none" /\ rejected' = {}
        /\ UNCHANGED <<queue, accepted, savedOff, savedPause, files, seenFile, torn, sourceQuar, cur, day>>
        /\ UNCHANGED <<late, quar, stored, judged, authorized, faults, denied>>
    BY <1>1 DEF Start, RecoverTails
  <2>2. seen' \subseteq Lines /\ rejected' \subseteq Lines /\ taken' \in 0..Len(queue')
    BY <2>1, <1>a
  <2>3. loaded' \in BOOLEAN /\ paused' \in BOOLEAN
    BY <2>1, Zenon
  <2> QED
    BY <1>cap, <2>1, <2>2, <2>3
<1>2. CASE Read
  <2>1. PICK app \in Seq(Texts) : files' = [files EXCEPT ![day] = @ \o app]
    BY <1>2, ReadStep DEF Grown
  <2>2. files' \in [Days -> Seq(Texts)]
    BY <2>1, ConcatProperties
  <2>3. cur' \in 1..day'
    <3>1. cur' \in {1, cur} /\ day' = day
      BY <1>2, ReadStep DEF sourceVars
    <3>2. day \in Nat /\ 1 <= day
      BY <1>b DEF Days
    <3> QED
      BY <3>1, <3>2
  <2>4. /\ seenFile' \subseteq Lines /\ torn' \subseteq {SeenFile} \cup Days
        /\ seen' \subseteq Lines /\ loaded' \in BOOLEAN
        /\ pc' \in {"read", "down"} /\ faults' \in 0..MaxFaults
        /\ UNCHANGED <<spoolVars, stateVars, sourceQuar, day, uploadVars, serverVars, denied>>
    BY <1>2, ReadStep
  <2> QED
    BY <1>cap, <2>2, <2>3, <2>4
<1>3. CASE QuarantineLine
  BY <1>cap, <1>3, <1>e DEF QuarantineLine
<1>4. CASE SpoolLine
  <2>1. Line \in Lines /\ queue' = Append(queue, Line)
    BY <1>4, <1>e DEF SpoolLine
  <2>2. queue' \in Seq(Lines) /\ Len(queue') = Len(queue) + 1
    BY <2>1, AppendProperties
  <2>3. taken \in 0..Len(queue')
    BY <1>a, <2>1, <2>2
  <2> QED
    BY <1>4, <1>cap, <2>1, <2>2, <2>3 DEF SpoolLine
<1>5. CASE SpoolRefuses
  BY <1>cap, <1>5, <1>a DEF SpoolRefuses
<1>6. CASE LineFails
  <2>1. queue' \in Seq(Lines) /\ Len(queue') \in Nat
    <3>1. CASE UNCHANGED queue
      BY <3>1, <1>a
    <3>2. CASE Line \in Lines /\ queue' = Append(queue, Line)
      BY <3>2, <1>a, RangeAppend
    <3> QED
      BY <1>6, <1>e, <3>1, <3>2 DEF LineFails, AppendBreaks
  <2>2. sourceQuar' \subseteq Lines
    BY <1>6, <1>e DEF LineFails
  <2> QED
    BY <1>6, <1>cap, <1>a, <2>1, <2>2 DEF LineFails
<1>7. CASE Advance
  <2>1. off' \in [Days -> Nat] /\ pc' \in {"read", "idle"}
    <3>1. cur \in Days /\ off[cur] + 1 \in Nat
      BY PipelineConstants DEF Days
    <3> QED
      BY <1>7, <3>1 DEF Advance
  <2> QED
    BY <1>cap, <1>7, <2>1 DEF Advance
<1>8. CASE AdvanceFails
  BY <1>cap, <1>8, <1>a DEF AdvanceFails
<1>9. CASE EndOfFile
  <2>1. cur' \in 1..day
    BY <1>cap, <1>9 DEF EndOfFile, NextFile, Days
  <2>2. files' \in [Days -> Seq(Texts)] /\ off' \in [Days -> Nat]
        /\ savedOff' \in [Days -> Nat] /\ savedPause' \in BOOLEAN /\ faults' \in 0..MaxFaults
    <3>1. cur \in Days /\ <<>> \in Seq(Texts)
      BY PipelineConstants DEF Days
    <3>2. /\ [files EXCEPT ![cur] = <<>>] \in [Days -> Seq(Texts)]
          /\ [off EXCEPT ![cur] = 0] \in [Days -> Nat]
      BY <3>1
    <3>3. files' \in [Days -> Seq(Texts)] /\ off' \in [Days -> Nat]
      BY <1>9, <3>2 DEF EndOfFile
    <3>4. faults' \in 0..MaxFaults
      BY <1>9, <1>a DEF EndOfFile
    <3>5. savedOff' \in {savedOff, off'} /\ savedPause' \in {savedPause, paused}
      BY <1>9 DEF EndOfFile
    <3> QED
      BY <3>3, <3>4, <3>5
  <2> QED
    BY <1>cap, <1>9, <2>1, <2>2 DEF EndOfFile, NextFile
<1>10. CASE Upload
  BY <1>cap, <1>10, <1>a DEF Upload
<1>11. CASE ServerStores
  BY <1>cap, <1>11, <1>d DEF ServerStores, Process, Rejections
<1>12. CASE ServerRefuses
  BY <1>cap, <1>12 DEF ServerRefuses
<1>13. CASE ServerUnavailable
  BY <1>cap, <1>13, <1>a DEF ServerUnavailable
<1>14. ASSUME NEW b \in late, LateRequest(b) PROVE TypeOK'
  BY <1>cap, <1>14, <1>c DEF LateRequest, Process, Rejections
<1>15. CASE GiveUp
  <2>1. late' \subseteq Seq(Lines)
    BY <1>cap, <1>15, <1>d DEF GiveUp, Abandon
  <2> QED
    BY <1>cap, <1>15, <1>a, <2>1 DEF GiveUp
<1>16. CASE QuarantineEvent
  BY <1>cap, <1>16 DEF QuarantineEvent
<1>17. CASE Ack
  <2>1. queue' \in Seq(Lines) /\ Len(queue') \in Nat
    BY <1>17, <1>a, RangeSplit DEF Ack
  <2>2. savedOff' \in [Days -> Nat] /\ savedPause' \in BOOLEAN /\ faults' \in 0..MaxFaults
    BY <1>17, <1>a DEF Ack, TrySave
  <2>3. taken' \in 0..Len(queue') /\ answer' = "none" /\ rejected' = {} /\ pc' = "idle"
    BY <1>17, <2>1 DEF Ack
  <2> QED
    BY <1>17, <1>cap, <2>1, <2>2, <2>3 DEF Ack
<1>18. CASE AckFails
  BY <1>cap, <1>18, <1>a DEF AckFails
<1>19. CASE UploadDenied
  <2>1. CASE NoFault /\ SaveState(off, TRUE) /\ denied' = TRUE
    BY <1>cap, <1>19, <2>1 DEF UploadDenied, Deny
  <2>2. CASE Fault /\ UNCHANGED <<savedOff, savedPause, denied>>
    BY <1>cap, <1>19, <1>a, <2>2 DEF UploadDenied, Deny
  <2> QED
    BY <1>cap, <1>19, <2>1, <2>2 DEF UploadDenied, Deny
<1>20. CASE UploadError
  BY <1>cap, <1>20, <1>a DEF UploadError, TrySave
<1>21. CASE HeartbeatAccepted
  <2>0. \/ UNCHANGED faults /\ savedOff' = off /\ savedPause' = FALSE
        \/ faults < MaxFaults /\ faults' = faults + 1 /\ UNCHANGED <<savedOff, savedPause>>
    BY <1>cap, <1>21, Zenon DEF HeartbeatAccepted
  <2>1. faults' \in 0..MaxFaults
    BY <1>a, <2>0
  <2>2. savedOff' \in [Days -> Nat] /\ savedPause' \in BOOLEAN
    BY <2>0, Zenon
  <2> QED
    BY <1>cap, <1>21, <2>1, <2>2 DEF HeartbeatAccepted
<1>22. CASE HeartbeatDenied
  <2>1. CASE NoFault /\ SaveState(off, TRUE) /\ denied' = TRUE
    BY <1>cap, <1>22, <2>1 DEF HeartbeatDenied, Deny
  <2>2. CASE Fault /\ UNCHANGED <<savedOff, savedPause, denied>>
    BY <1>cap, <1>22, <1>a, <2>2 DEF HeartbeatDenied, Deny
  <2> QED
    BY <1>cap, <1>22, <2>1, <2>2 DEF HeartbeatDenied, Deny
<1>23. CASE Crash
  <2>1. late' \subseteq Seq(Lines)
    BY <1>cap, <1>23, <1>d DEF Crash, Abandon
  <2> QED
    BY <1>cap, <1>23, <1>a, <2>1 DEF Crash
<1>27. CASE Stop
  BY <1>cap, <1>27, <1>a DEF Stop
<1>24. CASE Authorization
  BY <1>cap, <1>24 DEF Authorization
<1>25. CASE Midnight
  BY <1>cap, <1>25, <1>b DEF Midnight, Days
<1>26. CASE UNCHANGED vars
  BY <1>cap, <1>26 DEF vars
<1> QED
  BY <1>1, <1>2, <1>3, <1>4, <1>5, <1>6, <1>7, <1>8, <1>9, <1>10, <1>11, <1>12, <1>13, <1>14,
     <1>15, <1>16, <1>17, <1>18, <1>19, <1>20, <1>21, <1>22, <1>23, <1>24, <1>25, <1>26, <1>27
     DEF Next, Read, Heartbeat, Continue, ServerAnswers

-----------------------------------------------------------------------------
(* Places.  Nothing leaves the set of kept lines: only Ack shortens the     *)
(* queue, by events that are stored or quarantined.                         *)
LEMMA AckedPart ==
  ASSUME TypeOK
  PROVE  Range(queue) = Range(Request) \cup Range(SubSeq(queue, taken + 1, Len(queue)))
BY RangeSplit DEF TypeOK, Request

LEMMA KeptStable == IInv /\ [Next]_vars => Kept \subseteq Kept'
<1> SUFFICES ASSUME IInv, [Next]_vars PROVE Kept \subseteq Kept'
  OBVIOUS
<1> DEFINE Grows == /\ stored \subseteq stored' /\ quar \subseteq quar' /\ sourceQuar \subseteq sourceQuar'
                    /\ Range(queue) \subseteq Range(queue') \cup stored' \cup quar'
<1>1. SUFFICES Grows
  BY DEF Kept
<1> USE DEF spoolVars, stateVars, readerVars, sourceVars, uploadVars, serverVars, Idle
<1>2. CASE Ack
  <2>1. rejected = {} /\ Range(Request) \subseteq stored \cup quar
    BY <1>2 DEF Ack, IInv, AnswerCovers
  <2>2. Range(queue) \subseteq Range(Request) \cup Range(queue')
    BY <1>2, AckedPart DEF Ack, IInv
  <2> QED
    BY <1>2, <2>1, <2>2 DEF Ack
<1>3. CASE SpoolLine \/ LineFails
  <2>0. queue \in Seq(Lines) /\ (AtLine => Line \in Lines)
    BY LineTyped DEF IInv, TypeOK
  <2>1. AtLine /\ queue' \in {queue, Append(queue, Line)}
    BY <1>3 DEF SpoolLine, LineFails, AppendBreaks
  <2>2. Range(queue) \subseteq Range(queue')
    <3>1. CASE AtLine /\ queue' = Append(queue, Line)
      BY <2>0, <3>1, RangeAppend
    <3> QED
      BY <2>1, <3>1
  <2> QED
    BY <1>3, <2>2 DEF SpoolLine, LineFails
<1>4. CASE Start \/ Read \/ QuarantineLine \/ SpoolRefuses \/ Advance \/ AdvanceFails \/ EndOfFile
  <2>1. CASE Read
    BY <2>1, ReadStep DEF IInv
  <2> QED
    BY <1>4, <2>1 DEF Start, RecoverTails, QuarantineLine, SpoolRefuses, Advance, AdvanceFails, EndOfFile
<1>5. CASE Upload \/ ServerStores \/ ServerRefuses \/ ServerUnavailable
  BY <1>5 DEF Upload, ServerStores, ServerRefuses, ServerUnavailable, Process
<1>6. ASSUME NEW b \in late, LateRequest(b) PROVE Grows
  BY <1>6 DEF LateRequest, Process
<1>7. CASE GiveUp \/ QuarantineEvent \/ AckFails \/ UploadDenied \/ UploadError
  BY <1>7 DEF GiveUp, QuarantineEvent, AckFails, UploadDenied, UploadError
<1>8. CASE HeartbeatAccepted \/ HeartbeatDenied \/ Crash \/ Stop \/ Authorization \/ Midnight
  BY <1>8 DEF HeartbeatAccepted, HeartbeatDenied, Crash, Stop, Authorization, Midnight
<1>9. CASE UNCHANGED vars
  BY <1>9 DEF vars
<1> QED
  BY <1>2, <1>3, <1>4, <1>5, <1>6, <1>7, <1>8, <1>9 DEF Next, Read, Heartbeat, Continue, ServerAnswers

-----------------------------------------------------------------------------
(* The source side of the invariant. *)
SourceInv == LineKept /\ OffsetsWithin /\ ReadIsKept /\ Somewhere

(* A step that moves neither the files nor the clock can only exchange the *)
(* two offsets, which the invariant does not tell apart.                   *)
SourceStill ==
  /\ UNCHANGED <<files, day>> /\ Emitted' \subseteq Emitted
  /\ off' \in {off, savedOff} /\ savedOff' \in {off, savedOff}
  /\ pc' = "advance" => pc = "advance" /\ UNCHANGED <<cur, off>>

LEMMA StillStep ==
  ASSUME IInv, SourceStill, Kept \subseteq Kept'
  PROVE  SourceInv'
<1> USE DEF SourceStill, IInv
<1>1. LineKept'
  BY DEF LineKept, Line
<1>2. OffsetsWithin'
  BY DEF OffsetsWithin
<1>3. ReadIsKept'
  <2> SUFFICES ASSUME NEW d \in Days, NEW i \in 1..Len(files[d]), i <= off'[d] \/ i <= savedOff'[d]
              PROVE  files[d][i].line \in Kept'
    BY DEF ReadIsKept
  <2>1. i <= off[d] \/ i <= savedOff[d]
    OBVIOUS
  <2>2. files[d][i].line \in Kept
    BY <2>1 DEF ReadIsKept
  <2> QED
    BY <2>2
<1>4. Somewhere'
  BY DEF Somewhere
<1> QED
  BY <1>1, <1>2, <1>3, <1>4 DEF SourceInv

LEMMA SourceStep == IInv /\ [Next]_vars => SourceInv'
<1> SUFFICES ASSUME IInv, [Next]_vars PROVE SourceInv'
  OBVIOUS
<1>a. Kept \subseteq Kept'
  BY KeptStable
<1>b. TypeOK /\ TypeOK'
  BY TypeStep DEF IInv
<1>c. /\ cur \in Days /\ off[cur] \in Nat /\ Len(files[cur]) \in Nat
      /\ AtLine => off[cur] + 1 \in 1..Len(files[cur]) /\ Line \in Lines
  BY <1>b, LineTyped
<1>e. \A d \in Days : d \in Nat /\ off[d] \in Nat /\ savedOff[d] \in Nat /\ Len(files[d]) \in Nat
  <2>1. files \in [Days -> Seq(Texts)] /\ off \in [Days -> Nat] /\ savedOff \in [Days -> Nat]
    BY <1>b DEF TypeOK
  <2>2. \A d \in Days : files[d] \in Seq(Texts) /\ off[d] \in Nat /\ savedOff[d] \in Nat
    BY <2>1
  <2> QED
    BY <2>2, LenProperties DEF Days
<1>d. SUFFICES ASSUME ~SourceStill PROVE SourceInv'
  BY <1>a, StillStep
<1> USE DEF spoolVars, stateVars, readerVars, sourceVars, uploadVars, serverVars, Idle, SaveState, TrySave, SourceStill
<1>1. CASE Read
  <2>0. day \in Days /\ pc' # "advance" /\ UNCHANGED <<off, savedOff, day>>
    BY <1>1, <1>b, ReadStep DEF TypeOK
  <2>1. PICK new \in Seq(Texts) : Grown(new)
    BY <1>1, <1>b, ReadStep
  <2>2. Len(new) \in Nat
    BY LenProperties
  <2>3. /\ \A d \in Days : d # day => files'[d] = files[d]
        /\ files'[day] = files[day] \o new
    BY <2>0, <2>1, <1>b DEF TypeOK, Grown
  <2>4. /\ Len(files'[day]) = Len(files[day]) + Len(new) /\ Len(files[day]) \in Nat
        /\ \A i \in 1..Len(files[day]) : files'[day][i] = files[day][i]
        /\ \A i \in 1..Len(new) : files'[day][Len(files[day]) + i] = new[i]
    BY <2>0, <2>2, <2>3, <1>b, ConcatProperties, LenProperties DEF TypeOK
  <2>5. OffsetsWithin'
    <3>1. \A d \in Days : d >= day => off[d] <= Len(files[d]) /\ savedOff[d] <= Len(files[d])
      BY DEF IInv, OffsetsWithin
    <3>2. \A d \in Days : off[d] \in Nat /\ savedOff[d] \in Nat
      BY <1>b DEF TypeOK
    <3>3. \A d \in Days : d > day => files'[d] = <<>>
      BY <1>e, <2>0, <2>3 DEF IInv, OffsetsWithin
    <3>4. \A d \in Days : d >= day => off[d] <= Len(files'[d]) /\ savedOff[d] <= Len(files'[d])
      BY <2>0, <2>2, <2>3, <2>4, <3>1, <3>2
    <3> QED
      BY <2>0, <3>3, <3>4 DEF OffsetsWithin
  <2>6. ReadIsKept'
    <3> SUFFICES ASSUME NEW d \in Days, NEW i \in 1..Len(files'[d]), i <= off[d] \/ i <= savedOff[d]
                PROVE  files'[d][i].line \in Kept'
      BY <2>0 DEF ReadIsKept
    <3>1. i \in 1..Len(files[d]) /\ files'[d][i] = files[d][i]
      <4>1. CASE d # day
        BY <4>1, <2>3
      <4>2. CASE d = day
        <5>1. off[day] <= Len(files[day]) /\ savedOff[day] <= Len(files[day])
          BY <2>0, <1>b DEF IInv, OffsetsWithin, TypeOK, Days
        <5>2. off[day] \in Nat /\ savedOff[day] \in Nat
          BY <2>0, <1>b DEF TypeOK
        <5> QED
          BY <4>2, <5>1, <5>2, <2>4
      <4> QED
        BY <4>1, <4>2
    <3>2. files[d][i].line \in Kept
      BY <3>1 DEF IInv, ReadIsKept
    <3> QED
      BY <1>a, <3>1, <3>2 DEF Kept
  <2>7. Somewhere'
    <3> SUFFICES ASSUME NEW l \in Emitted', l \notin Kept'
                PROVE  \E d \in Days : \E i \in 1..Len(files'[d]) : files'[d][i].line = l
      BY DEF Somewhere
    <3>1. CASE l \in Emitted
      <4>0. PICK d \in Days : \E i \in 1..Len(files[d]) : files[d][i].line = l
        BY <1>a, <3>1 DEF IInv, Somewhere
      <4>1. PICK i \in 1..Len(files[d]) : files[d][i].line = l
        BY <4>0
      <4>2. i \in 1..Len(files'[d]) /\ files'[d][i].line = l
        BY <4>1, <2>0, <2>2, <2>3, <2>4
      <4> QED
        BY <4>2
    <3>2. CASE l \in Intact(day)
      <4>1. PICK t \in Range(files[day]) : t.line = l
        BY <3>2 DEF Intact
      <4>2. files[day] \in Seq(Texts)
        BY <2>0, <1>b DEF TypeOK
      <4>3. PICK i \in 1..Len(files[day]) : files[day][i] = t
        BY <4>1, <4>2, RangeEquality
      <4>4. i \in 1..Len(files'[day]) /\ files'[day][i] = t
        BY <4>3, <2>2, <2>4
      <4> QED
        BY <4>1, <4>4, <2>0
    <3>3. CASE \E i \in 1..Len(new) : new[i].line = l
      <4>1. PICK i \in 1..Len(new) : new[i].line = l
        BY <3>3
      <4>2. Len(files[day]) + i \in 1..Len(files'[day])
        BY <2>2, <2>4
      <4> QED
        BY <4>1, <4>2, <2>0, <2>4
    <3> QED
      BY <2>1, <3>1, <3>2, <3>3 DEF Grown
  <2> QED
    BY <2>0, <2>5, <2>6, <2>7 DEF SourceInv, LineKept
<1>2. CASE QuarantineLine \/ SpoolLine
  <2>1. /\ AtLine /\ UNCHANGED <<files, off, savedOff, cur, day, Emitted>>
    BY <1>2 DEF Emitted, QuarantineLine, SpoolLine
  <2>2. Line \in Kept'
    <3>1. CASE QuarantineLine
      BY <3>1 DEF QuarantineLine, Kept, Line
    <3>2. CASE SpoolLine
      <4>1. Line' = Line /\ queue \in Seq(Lines)
        BY <2>1, <1>b DEF Line, TypeOK
      <4>2. Line \in Range(queue')
        BY <3>2, <4>1, <2>1, <1>c, RangeAppend DEF SpoolLine
      <4> QED
        BY <4>1, <4>2 DEF Kept
    <3> QED
      BY <1>2, <3>1, <3>2
  <2>3. LineKept'
    BY <2>1, <2>2 DEF LineKept, AtLine, Line
  <2>4. OffsetsWithin' /\ ReadIsKept' /\ Somewhere'
    BY <2>1, <1>a DEF IInv, OffsetsWithin, ReadIsKept, Somewhere
  <2> QED
    BY <2>3, <2>4 DEF SourceInv
<1>3. CASE Advance
  <2>1. /\ off' = [off EXCEPT ![cur] = @ + 1] /\ savedOff' = off' /\ pc = "advance" /\ pc' # "advance"
        /\ UNCHANGED <<files, day, Emitted>>
    BY <1>3 DEF Advance, Emitted
  <2>2. off[cur] < Len(files[cur]) /\ Line \in Kept
    BY <2>1 DEF IInv, LineKept
  <2>3. off'[cur] = off[cur] + 1 /\ \A d \in Days : d # cur => off'[d] = off[d]
    BY <2>1, <1>b, <1>c DEF TypeOK
  <2>4. OffsetsWithin'
    BY <2>1, <2>2, <2>3, <1>c DEF IInv, OffsetsWithin
  <2>5. ReadIsKept'
    <3> SUFFICES ASSUME NEW d \in Days, NEW i \in 1..Len(files[d]), i <= off'[d]
                PROVE  files[d][i].line \in Kept'
      BY <2>1 DEF ReadIsKept
    <3>1. CASE i <= off[d]
      BY <3>1, <1>a DEF IInv, ReadIsKept
    <3>2. CASE i > off[d]
      <4>1. d = cur /\ i = off[cur] + 1
        BY <3>2, <2>3, <1>c, <1>e
      <4> QED
        BY <4>1, <2>2, <1>a DEF Line
    <3> QED
      BY <3>1, <3>2, <1>e
  <2>6. Somewhere'
    BY <2>1, <1>a DEF IInv, Somewhere
  <2> QED
    BY <2>1, <2>4, <2>5, <2>6 DEF SourceInv, LineKept
<1>4. CASE EndOfFile
  <2> USE DEF EndOfFile, NextFile
  <2>0. pc' # "advance" /\ UNCHANGED <<day, Emitted>> /\ pc = "read"
    BY <1>4 DEF Emitted
  <2>1. /\ cur < day /\ off[cur] >= Len(files[cur])
        /\ files' = [files EXCEPT ![cur] = <<>>] /\ off' = [off EXCEPT ![cur] = 0]
        /\ savedOff' \in {savedOff, off'}
    BY <1>4, <1>d DEF Emitted
  <2>2. /\ files'[cur] = <<>> /\ off'[cur] = 0 /\ Len(files'[cur]) = 0
        /\ \A d \in Days : d # cur => files'[d] = files[d] /\ off'[d] = off[d]
    <3>1. files \in [Days -> Seq(Texts)] /\ off \in [Days -> Nat] /\ cur \in Days
      BY <1>b, <1>c DEF TypeOK
    <3> QED
      BY <2>1, <3>1
  <2>3. OffsetsWithin'
    BY <2>0, <2>1, <2>2, <1>b, <1>c DEF IInv, OffsetsWithin, TypeOK, Days
  <2>4. ReadIsKept'
    <3> SUFFICES ASSUME NEW d \in Days, NEW i \in 1..Len(files'[d]), i <= off'[d] \/ i <= savedOff'[d]
                PROVE  files'[d][i].line \in Kept'
      BY DEF ReadIsKept
    <3>1. d # cur
      BY <2>2
    <3>2. files'[d] = files[d] /\ (i <= off[d] \/ i <= savedOff[d])
      BY <3>1, <2>1, <2>2
    <3>3. files[d][i].line \in Kept
      BY <3>2 DEF IInv, ReadIsKept
    <3> QED
      BY <1>a, <3>2, <3>3 DEF Kept
  <2>5. Somewhere'
    <3> SUFFICES ASSUME NEW l \in Emitted, l \notin Kept'
                PROVE  \E d \in Days : \E i \in 1..Len(files'[d]) : files'[d][i].line = l
      BY <2>0 DEF Somewhere
    <3>0. PICK d \in Days : \E i \in 1..Len(files[d]) : files[d][i].line = l
      BY <1>a DEF IInv, Somewhere
    <3>1. PICK i \in 1..Len(files[d]) : files[d][i].line = l
      BY <3>0
    <3>2. d # cur
      <4> SUFFICES ASSUME d = cur PROVE FALSE
        OBVIOUS
      <4>1. i <= off[d]
        BY <2>1, <1>c
      <4> QED
        BY <4>1, <3>1, <1>a DEF IInv, ReadIsKept
    <3> QED
      BY <3>1, <3>2, <2>2
  <2> QED
    BY <2>0, <2>3, <2>4, <2>5 DEF SourceInv, LineKept
<1>5. CASE Midnight
  <2>1. day' = day + 1 /\ UNCHANGED <<files, off, savedOff, pc, cur, Emitted>>
    BY <1>5 DEF Midnight, Emitted
  <2>2. OffsetsWithin'
    BY <2>1, <1>b DEF IInv, OffsetsWithin, TypeOK, Days
  <2>3. LineKept' /\ ReadIsKept' /\ Somewhere'
    BY <2>1, <1>a DEF IInv, LineKept, ReadIsKept, Somewhere, Line
  <2> QED
    BY <2>2, <2>3 DEF SourceInv
<1>6. CASE Start \/ SpoolRefuses \/ LineFails \/ AdvanceFails
  BY <1>6, <1>d DEF Emitted, Start, RecoverTails, SpoolRefuses, LineFails, AdvanceFails
<1>7. CASE Upload \/ ServerStores \/ ServerRefuses \/ ServerUnavailable
  BY <1>7, <1>d DEF Upload, ServerStores, ServerRefuses, ServerUnavailable, Emitted
<1>8. ASSUME NEW b \in late, LateRequest(b) PROVE FALSE
  BY <1>8, <1>d DEF LateRequest, Emitted
<1>9. CASE GiveUp \/ QuarantineEvent \/ Ack \/ AckFails \/ UploadDenied \/ UploadError
  BY <1>9, <1>d DEF GiveUp, QuarantineEvent, Ack, AckFails, UploadDenied, UploadError, Deny, Emitted
<1>10. CASE HeartbeatAccepted \/ HeartbeatDenied \/ Crash \/ Stop \/ Authorization
  BY <1>10, <1>d DEF HeartbeatAccepted, HeartbeatDenied, Crash, Stop, Authorization, Deny, Emitted
<1>11. CASE UNCHANGED vars
  BY <1>11, <1>d DEF vars, Emitted
<1> QED
  BY <1>1, <1>2, <1>3, <1>4, <1>5, <1>6, <1>7, <1>8, <1>9, <1>10, <1>11
     DEF Next, Read, Heartbeat, Continue, ServerAnswers

-----------------------------------------------------------------------------
(* The upload side. *)

(* A step that leaves the request alone can only add places to an event. *)
LEMMA UploadStep == IInv /\ [Next]_vars => AnswerCovers' /\ LateKept' /\ PauseSaved'
<1> SUFFICES ASSUME IInv, [Next]_vars PROVE AnswerCovers' /\ LateKept' /\ PauseSaved'
  OBVIOUS
<1>a. TypeOK /\ AnswerCovers /\ LateKept /\ PauseSaved
  BY DEF IInv
<1>b. Range(Request) \subseteq Range(queue)
  BY <1>a, AckedPart
<1> DEFINE Quiet ==
             /\ UNCHANGED <<taken, answer, rejected, quar, stored, judged, late>> /\ (pc' = "sent" <=> pc = "sent")
             /\ queue' = queue \/ (pc # "sent" /\ Range(queue) \subseteq Range(queue'))
             /\ denied' => denied /\ savedPause' /\ (pc' # "down" => paused')
           Ended ==
             /\ pc' \in {"idle", "down"} /\ taken' = 0 /\ answer' = "none" /\ rejected' = {}
             /\ late' \subseteq late \cup {Request}
             /\ UNCHANGED <<stored, judged, quar>>
             /\ Range(queue) \subseteq Range(queue') \cup stored \cup judged
             /\ denied' => savedPause' /\ (pc' # "down" => paused')
<1>q. Quiet => AnswerCovers' /\ LateKept' /\ PauseSaved'
  BY <1>a DEF AnswerCovers, LateKept, PauseSaved, Request
<1>r. Ended => AnswerCovers' /\ LateKept' /\ PauseSaved'
  <2> SUFFICES ASSUME Ended PROVE AnswerCovers' /\ LateKept' /\ PauseSaved'
    OBVIOUS
  <2>1. LateKept'
    BY <1>a, <1>b DEF LateKept
  <2>2. AnswerCovers' /\ PauseSaved'
    BY DEF AnswerCovers, PauseSaved
  <2> QED
    BY <2>1, <2>2
<1> USE DEF spoolVars, stateVars, readerVars, sourceVars, uploadVars, serverVars, Idle, SaveState, TrySave
<1>1. CASE Start \/ SpoolRefuses \/ AdvanceFails \/ AckFails \/ UploadError
  <2>1. Ended
    <3>1. CASE Start
      BY <3>1, <1>a DEF Start, RecoverTails, PauseSaved
    <3>2. CASE SpoolRefuses \/ AdvanceFails
      BY <3>2, <1>a DEF SpoolRefuses, AdvanceFails, AtLine, PauseSaved
    <3>3. CASE AckFails
      BY <3>3, <1>a DEF AckFails, PauseSaved
    <3>4. CASE UploadError
      BY <3>4, <1>a DEF UploadError, PauseSaved
    <3> QED
      BY <1>1, <3>1, <3>2, <3>3, <3>4
  <2> QED
    BY <2>1, <1>r
<1>2. CASE LineFails
  <2>1. queue' = queue \/ (AtLine /\ queue' = Append(queue, Line))
    BY <1>2 DEF LineFails, AppendBreaks
  <2>2. Range(queue) \subseteq Range(queue')
    <3>1. CASE AtLine /\ queue' = Append(queue, Line)
      BY <3>1, <1>a, LineTyped, RangeAppend DEF TypeOK
    <3> QED
      BY <2>1, <3>1
  <2>3. Ended
    BY <1>2, <2>2, <1>a DEF LineFails, AtLine, PauseSaved
  <2> QED
    BY <2>3, <1>r
<1>3. CASE SpoolLine
  <2>1. Range(queue) \subseteq Range(queue')
    BY <1>3, <1>a, LineTyped, RangeAppend DEF TypeOK, SpoolLine
  <2>2. Quiet
    BY <1>3, <2>1, <1>a DEF SpoolLine, AtLine, PauseSaved
  <2> QED
    BY <2>2, <1>q
<1>4. CASE Read \/ QuarantineLine \/ Advance \/ EndOfFile
  <2>1. CASE Read
    <3>1. Quiet
      BY <2>1, <1>a, ReadStep DEF PauseSaved
    <3> QED
      BY <3>1, <1>q
  <2>2. CASE ~Read
    <3>1. Quiet
      BY <1>4, <2>2, <1>a DEF QuarantineLine, Advance, EndOfFile, NextFile, AtLine, PauseSaved
    <3> QED
      BY <3>1, <1>q
  <2> QED
    BY <2>1, <2>2
<1>5. CASE Stop \/ Authorization \/ Midnight
  <2>1. Quiet
    BY <1>5, <1>a DEF Stop, Authorization, Midnight, PauseSaved
  <2> QED
    BY <2>1, <1>q
<1>6. CASE Upload
  <2>1. /\ ~denied' /\ answer' = "none" /\ rejected' = {}
        /\ UNCHANGED <<late, queue, stored, judged>>
    BY <1>6, <1>a DEF Upload, PauseSaved
  <2> QED
    BY <2>1, <1>a DEF AnswerCovers, LateKept, PauseSaved
<1>7. CASE ServerStores
  <2>1. PICK R \in Rejections(Request) : Process(Request, R) /\ rejected' = R
    BY <1>7 DEF ServerStores
  <2>2. Range(Request) \subseteq stored' \cup R /\ R \subseteq judged'
        /\ stored \subseteq stored' /\ judged \subseteq judged'
    BY <2>1 DEF Process, Rejections
  <2>3. UNCHANGED <<taken, queue, late, pc, denied, savedPause, paused, quar>> /\ pc = "sent"
    BY <1>7 DEF ServerStores, Waiting
  <2>4. Request' = Request
    BY <2>3 DEF Request
  <2> QED
    BY <2>1, <2>2, <2>3, <2>4, <1>a DEF AnswerCovers, LateKept, PauseSaved
<1>8. CASE ServerRefuses \/ ServerUnavailable
  <2>1. /\ answer' # "results" /\ pc = "sent"
        /\ UNCHANGED <<taken, queue, late, pc, denied, savedPause, paused, rejected, stored, judged>>
    BY <1>8 DEF ServerRefuses, ServerUnavailable, Waiting
  <2> QED
    BY <2>1, <1>a DEF AnswerCovers, LateKept, PauseSaved
<1>9. ASSUME NEW b \in late, LateRequest(b) PROVE AnswerCovers' /\ LateKept' /\ PauseSaved'
  <2>1. /\ UNCHANGED <<taken, answer, rejected, queue, pc, denied, savedPause, paused, quar>>
        /\ late' \subseteq late /\ stored \subseteq stored' /\ judged \subseteq judged'
    BY <1>9 DEF LateRequest, Process
  <2> QED
    BY <2>1, <1>a DEF AnswerCovers, LateKept, PauseSaved, Request
<1>10. CASE GiveUp \/ Crash
  <2>1. Ended
    BY <1>10, <1>a DEF GiveUp, Crash, Abandon, PauseSaved
  <2> QED
    BY <2>1, <1>r
<1>11. CASE QuarantineEvent
  <2>1. PICK e \in rejected : quar' = quar \cup {e} /\ rejected' = rejected \ {e}
    BY <1>11 DEF QuarantineEvent
  <2>2. UNCHANGED <<taken, answer, queue, late, pc, denied, savedPause, paused, stored, judged>> /\ pc = "sent"
    BY <1>11 DEF QuarantineEvent
  <2> QED
    BY <2>1, <2>2, <1>a DEF AnswerCovers, LateKept, PauseSaved, Request
<1>12. CASE Ack
  <2>1. Range(queue) \subseteq Range(queue') \cup stored \cup judged
    BY <1>12, <1>a, AckedPart DEF Ack, AnswerCovers
  <2>2. Ended
    BY <1>12, <2>1, <1>a DEF Ack, PauseSaved
  <2> QED
    BY <2>2, <1>r
<1>13. CASE UploadDenied
  <2>1. Ended
    BY <1>13, <1>a DEF UploadDenied, Deny, PauseSaved
  <2> QED
    BY <2>1, <1>r
<1>14. CASE HeartbeatAccepted \/ HeartbeatDenied
  <2>1. pc = "idle" /\ UNCHANGED <<taken, answer, rejected, late, quar, queue, stored, judged, pc>>
    BY <1>14 DEF HeartbeatAccepted, HeartbeatDenied
  <2>2. denied' => savedPause' /\ paused'
    BY <1>14, <1>a DEF HeartbeatAccepted, HeartbeatDenied, Deny, PauseSaved
  <2> QED
    BY <2>1, <2>2, <1>a DEF AnswerCovers, LateKept, PauseSaved, Request
<1>15. CASE UNCHANGED vars
  <2>1. Quiet
    BY <1>15, <1>a DEF vars, PauseSaved
  <2> QED
    BY <2>1, <1>q
<1> QED
  BY <1>1, <1>2, <1>3, <1>4, <1>5, <1>6, <1>7, <1>8, <1>9, <1>10, <1>11, <1>12, <1>13, <1>14, <1>15
     DEF Next, Read, Heartbeat, Continue, ServerAnswers

-----------------------------------------------------------------------------
(* The inductive invariant holds in every reachable state. *)
THEOREM PipelineInvariant == Spec => []IInv
<1>1. Init => IInv
  BY InitIInv
<1>2. IInv /\ [Next]_vars => IInv'
  BY TypeStep, SourceStep, UploadStep DEF IInv, SourceInv
<1> QED
  BY <1>1, <1>2, PTL DEF Spec

(* The state is well typed and the spool never exceeds its cap. *)
THEOREM PipelineTypeCorrect == Spec => []TypeOK
<1>1. IInv => TypeOK
  BY DEF IInv
<1> QED
  BY <1>1, PipelineInvariant, PTL

(* A line the source reader wrote is stored, quarantined, in the spool or    *)
(* ahead of both source offsets, whatever crashes and fails.                 *)
THEOREM NoLineLost == Spec => []NothingLost
<1>1. IInv => NothingLost
  <2> SUFFICES ASSUME IInv, NEW l \in Emitted, ~Settled(l), l \notin Range(queue)
              PROVE  Ahead(savedOff, l) /\ Ahead(off, l)
    BY DEF NothingLost
  <2>1. l \notin Kept
    BY DEF Kept, Settled
  <2>2. PICK d \in Days : \E i \in 1..Len(files[d]) : files[d][i].line = l
    BY <2>1 DEF IInv, Somewhere
  <2>3. PICK i \in 1..Len(files[d]) : files[d][i].line = l
    BY <2>2
  <2>4. off[d] \in Nat /\ savedOff[d] \in Nat /\ Len(files[d]) \in Nat
    BY LenProperties DEF IInv, TypeOK
  <2>5. i > off[d] /\ i > savedOff[d]
    BY <2>1, <2>3, <2>4 DEF IInv, ReadIsKept
  <2> QED
    BY <2>3, <2>4, <2>5 DEF Ahead
<1> QED
  BY <1>1, PipelineInvariant, PTL

(* Once a 401 is saved, no request with events leaves before an answered     *)
(* heartbeat, across restarts.                                               *)
THEOREM NoUploadWhilePaused == Spec => []PauseHolds
<1>1. IInv => PauseHolds
  BY DEF IInv, PauseSaved, PauseHolds
<1> QED
  BY <1>1, PipelineInvariant, PTL

-----------------------------------------------------------------------------
(* The runtime implements the durable queue: every step is an Accept, a      *)
(* Stray, a Deliver, a Forget or changes nothing the queue can see.          *)
THEOREM PipelineImplementsQueue == Spec => ImplementsQueue
<1> DEFINE pend == Range(queue)
           dlv == stored \cup judged
<1>1. Init => Queue!Init
  <2> SUFFICES ASSUME Init PROVE accepted = {} /\ Range(queue) = {} /\ stored \cup judged = {}
    BY DEF Queue!Init
  <2> QED
    BY DEF Init, Range
<1>2. IInv /\ [Next]_vars => [Queue!Next]_(Queue!vars)
  <2> SUFFICES ASSUME IInv, [Next]_vars PROVE Queue!Next \/ UNCHANGED Queue!vars
    OBVIOUS
  <2>a. TypeOK /\ LateKept /\ AnswerCovers
    BY DEF IInv
  <2>b. pend \subseteq Lines /\ stored \subseteq Lines /\ judged \subseteq Lines
    BY <2>a, RangeOfSeq DEF TypeOK
  <2>c. UNCHANGED <<accepted, queue, stored, judged>> => UNCHANGED Queue!vars
    BY DEF Queue!vars
  <2>d. ASSUME NEW e \in Lines, pend' = pend \cup {e}, dlv' = dlv, accepted' \in {accepted, accepted \cup {e}}
        PROVE  Queue!Next
    BY <2>d DEF Queue!Next, Queue!Accept, Queue!Stray
  <2>e. ASSUME NEW B \in SUBSET Lines, B \subseteq pend, dlv' = dlv \cup B, UNCHANGED <<accepted, queue>>
        PROVE  Queue!Next
    BY <2>e DEF Queue!Next, Queue!Deliver
  <2>f. ASSUME NEW b, Range(b) \subseteq pend \cup dlv, NEW R \in Rejections(b), Process(b, R),
               UNCHANGED <<accepted, queue>>
        PROVE  Queue!Next
    <3>1. dlv' = dlv \cup (Range(b) \ dlv)
      BY <2>f DEF Process, Rejections
    <3>2. Range(b) \ dlv \subseteq pend
      BY <2>f
    <3> QED
      BY <2>b, <2>e, <2>f, <3>1, <3>2
  <2> USE DEF spoolVars, stateVars, readerVars, sourceVars, uploadVars, serverVars
  <2>1. CASE SpoolLine \/ LineFails
    <3>1. AtLine /\ UNCHANGED <<stored, judged>>
      BY <2>1 DEF SpoolLine, LineFails
    <3>2. Line \in Lines /\ queue \in Seq(Lines)
      BY <3>1, <2>a, LineTyped DEF TypeOK
    <3>3. \/ queue' = Append(queue, Line) /\ accepted' \in {accepted, accepted \cup {Line}}
          \/ UNCHANGED <<accepted, queue>>
      BY <2>1 DEF SpoolLine, LineFails, AppendBreaks
    <3>4. CASE queue' = Append(queue, Line) /\ accepted' \in {accepted, accepted \cup {Line}}
      BY <3>1, <3>2, <3>4, <2>d, RangeAppend
    <3> QED
      BY <3>1, <3>3, <3>4, <2>c
  <2>2. CASE ServerStores
    <3>1. PICK R \in Rejections(Request) : Process(Request, R)
      BY <2>2 DEF ServerStores
    <3>2. UNCHANGED <<accepted, queue>> /\ Range(Request) \subseteq pend
      BY <2>2, <2>a, AckedPart DEF ServerStores
    <3> QED
      BY <3>1, <3>2, <2>f
  <2>3. ASSUME NEW b \in late, LateRequest(b) PROVE Queue!Next \/ UNCHANGED Queue!vars
    <3>1. UNCHANGED <<accepted, queue>> /\ Range(b) \subseteq pend \cup dlv
      BY <2>3, <2>a DEF LateRequest, LateKept
    <3>2. CASE UNCHANGED <<stored, judged>>
      BY <3>1, <3>2, <2>c
    <3>3. CASE \E R \in Rejections(b) : Process(b, R)
      BY <3>1, <3>3, <2>f
    <3> QED
      BY <2>3, <3>2, <3>3 DEF LateRequest
  <2>4. CASE Ack
    <3>1. UNCHANGED <<accepted, stored, judged>> /\ Range(Request) \subseteq dlv
      BY <2>4, <2>a DEF Ack, AnswerCovers
    <3>2. pend = Range(Request) \cup pend'
      BY <2>4, <2>a, AckedPart DEF Ack
    <3>3. pend' = pend \ (pend \ pend') /\ pend \ pend' \subseteq pend \cap dlv
      BY <3>1, <3>2
    <3>4. pend \ pend' \in SUBSET Lines
      BY <2>b
    <3>5. Queue!Forget(pend \ pend')
      BY <3>1, <3>3 DEF Queue!Forget
    <3> QED
      BY <3>4, <3>5 DEF Queue!Next
  <2>5. CASE Start \/ Read \/ QuarantineLine \/ SpoolRefuses \/ Advance \/ AdvanceFails \/ EndOfFile
    BY <2>5, <2>a, <2>c, ReadStep DEF Start, RecoverTails, QuarantineLine, SpoolRefuses, Advance, AdvanceFails, EndOfFile
  <2>6. CASE Upload \/ ServerRefuses \/ ServerUnavailable
    BY <2>6, <2>c DEF Upload, ServerRefuses, ServerUnavailable
  <2>7. CASE GiveUp \/ QuarantineEvent \/ AckFails \/ UploadDenied \/ UploadError
    BY <2>7, <2>c DEF GiveUp, QuarantineEvent, AckFails, UploadDenied, UploadError
  <2>8. CASE HeartbeatAccepted \/ HeartbeatDenied \/ Crash \/ Stop \/ Authorization \/ Midnight
    BY <2>8, <2>c DEF HeartbeatAccepted, HeartbeatDenied, Crash, Stop, Authorization, Midnight
  <2>9. CASE UNCHANGED vars
    BY <2>9, <2>c DEF vars
  <2> QED
    BY <2>1, <2>2, <2>3, <2>4, <2>5, <2>6, <2>7, <2>8, <2>9 DEF Next, Read, Heartbeat, Continue, ServerAnswers
<1> QED
  BY <1>1, <1>2, PipelineInvariant, PTL DEF Spec, ImplementsQueue, Queue!Spec
=============================================================================
