-------------------------- MODULE PollHealthProofs --------------------------
(***************************************************************************)
(* What the supervision of polls promises, for every threshold and any     *)
(* number of incidents, failed writes and restarts.  The row of the        *)
(* account, the message under way and what the channels last heard are     *)
(* kept by three parties (the store, the goroutine, the recipients); the   *)
(* invariant says what each two of them agree on, whichever of the writes  *)
(* between them failed.                                                    *)
(***************************************************************************)
EXTENDS PollHealth, TLAPS

HeardOf(i) == heard.recent /\ heard.kind = "poll_failure" /\ heard.incident = i

Carries(s, kind) == s # NoSend /\ s.kind = kind

(* Incidents are numbered as they open. *)
Numbered(r, s, n) ==
  /\ r.incident <= n /\ heard.incident <= n
  /\ Failing(r) => r.incident > 0
  /\ ~Failing(r) => ~r.delivered
  /\ s # NoSend => s.incident <= n
  /\ Carries(s, "poll_failure") => s.incident > 0

(* A row whose failure was heard within the cooldown is not due.            *)
Remembers(r) ==
  Failing(r) /\ HeardOf(r.incident) =>
    /\ r.attempt = "recent"
    /\ r.delivered => r.success = "recent" \/ r.later

(* While a failure message is under way its row, if the incident lasts, has *)
(* the attempt; the message was not heard of before it came back as sent.   *)
Claimed(r, s) ==
  Carries(s, "poll_failure") =>
    /\ Failing(r) /\ r.incident = s.incident => r.attempt = "recent" /\ r.later
    /\ HeardOf(s.incident) => s.phase = "sent" /\ s.sent

(* Who recovers was heard failing, and no delivered row meets a recovery.   *)
Announced(r, s) ==
  /\ r.delivered => heard.kind = "poll_failure" /\ ~Carries(s, "poll_recovered")
  /\ Carries(s, "poll_failure") =>
       /\ s.pending # "none" =>
            ~r.delivered /\ ~(Failing(r) /\ r.incident = s.incident)
       /\ s.pending = "announced" \/ (s.phase = "sent" /\ s.sent)
            => heard.kind = "poll_failure"
  /\ Carries(s, "poll_recovered") =>
       /\ s.pending = "none"
       /\ s.phase = "sending" => heard.kind = "poll_failure"

Agrees(r, s, n) == Numbered(r, s, n) /\ Remembers(r) /\ Claimed(r, s) /\ Announced(r, s)

(* Every alert beyond the one that is still to be dismissed was lost.       *)
Counted ==
  /\ lost <= faults
  /\ alerts <= lost + 1 /\ (alerts > lost => shown /\ job.step # "healthy")
  /\ shown => alerts > 0

(* What the call under way found, and which of row and call has the alert.  *)
Named ==
  /\ row.alert => Failing(row)
  /\ lost = 0 => (row.alert <=> Failing(row))
  /\ shown /\ job.step # "row" => row.alert
  /\ job.step \in {"claim", "healthy"} => Failing(row)
  /\ job.step = "row" =>
       /\ job.k > 0 /\ (Failing(row) \/ incidents < MaxIncidents)
       /\ row.alert \/ shown \/ lost = 0 => job.alerted

IInv == TypeOK /\ Counted /\ Named /\ Agrees(row, send, incidents)

-----------------------------------------------------------------------------
LEMMA InitKeeps == Init => IInv
<1> SUFFICES ASSUME Init PROVE IInv
  OBVIOUS
<1>1. TypeOK
  <2>1. Healthy \in Rows
    BY HealthConstants DEF Healthy, Rows, Ages
  <2>2. Silence \in [kind : {"none", "poll_failure", "poll_recovered"},
                    incident : 0..MaxIncidents, recent : BOOLEAN]
    BY HealthConstants DEF Silence
  <2>3. /\ row \in Rows /\ registered \in BOOLEAN /\ send \in Sends \cup {NoSend}
        /\ heard \in [kind : {"none", "poll_failure", "poll_recovered"},
                     incident : 0..MaxIncidents, recent : BOOLEAN]
        /\ told \subseteq 1..MaxIncidents /\ shown \in BOOLEAN
    BY <2>1, <2>2 DEF Init
  <2>4. /\ incidents \in 0..MaxIncidents /\ faults \in 0..MaxFaults /\ alerts \in 0..1 + MaxFaults
        /\ lost \in 0..MaxFaults /\ job \in Jobs
    BY HealthConstants DEF Init, NoJob, Jobs
  <2> QED
    BY <2>3, <2>4 DEF TypeOK
<1>2. Counted /\ Named
  BY HealthConstants DEF Init, Counted, Named, Healthy, NoJob, Failing
<1>3. Agrees(row, send, incidents)
  BY DEF Init, Agrees, Numbered, Remembers, Claimed, Announced, Carries, HeardOf,
         Healthy, Failing, Silence
<1> QED
  BY <1>1, <1>2, <1>3 DEF IInv

(* A row that is due is not one whose failure was heard within the cooldown. *)
LEMMA DueIsQuiet ==
  ASSUME NEW r, Failing(r), Remembers(r), Due(r)
  PROVE  ~HeardOf(r.incident)
  BY DEF Remembers, Due

(* The claim of a due row is the only failure message there can be.        *)
LEMMA ClaimKeeps ==
  ASSUME NEW r \in Rows, Failing(r), NEW n \in 0..MaxIncidents, NEW saved \in BOOLEAN,
         send \in Sends \cup {NoSend}, heard' = heard,
         Agrees(r, send, n), ClaimFailure(r, saved)
  PROVE  /\ row' \in Rows /\ send' \in Sends \cup {NoSend}
         /\ Failing(row') /\ row'.alert = r.alert
         /\ Agrees(row, send, n)'
<1>1. CASE Due(r) /\ send = NoSend /\ saved
  <2>1. row' = [r EXCEPT !.attempt = "recent", !.later = TRUE] /\ send' = Message("poll_failure", r)
    BY <1>1 DEF ClaimFailure
  <2>2. row' \in Rows
    BY <2>1 DEF Rows, Ages
  <2>3. send' \in Sends /\ send' # NoSend
    BY <2>1 DEF Message, Sends, Rows, Agrees, Numbered, NoSend
  <2>4. /\ Failing(row') /\ row'.alert = r.alert /\ row'.incident = r.incident
        /\ row'.delivered = r.delivered /\ row'.attempt = "recent" /\ row'.later = TRUE
    BY <2>1 DEF Rows, Failing
  <2>5. /\ send'.kind = "poll_failure" /\ send'.incident = r.incident
        /\ send'.phase = "sending" /\ send'.pending = "none"
    BY <2>1 DEF Message
  <2>6. ~HeardOf(r.incident)
    BY <1>1, DueIsQuiet DEF Agrees
  <2>7. Numbered(row, send, n)' /\ Remembers(row)' /\ Claimed(row, send)'
    BY <2>4, <2>5, <2>6 DEF Agrees, Numbered, Remembers, Claimed, Carries, HeardOf
  <2>8. Announced(row, send)'
    BY <2>3, <2>4, <2>5 DEF Agrees, Announced, Carries
  <2> QED
    BY <2>2, <2>3, <2>4, <2>7, <2>8 DEF Agrees
<1>2. CASE ~(Due(r) /\ send = NoSend /\ saved)
  <2>1. row' = r /\ send' = send
    BY <1>2 DEF ClaimFailure
  <2> QED
    BY <2>1 DEF Agrees, Numbered, Remembers, Claimed, Announced, Carries, HeardOf, Failing
<1> QED
  BY <1>1, <1>2

(* Facts of arithmetic about alerts and the lost ones among them. *)

LEMMA Bounds ==
  \A a, l, f, m \in Nat :
    a <= l + 1 /\ l <= f /\ f <= m => l \in 0..m /\ a \in 0..1 + m
  OBVIOUS

LEMMA Excused == \A a, l \in Nat : a <= l => a <= l + 1 /\ ~(a > l)
  OBVIOUS

LEMMA Slack ==
  \A a, l, m \in Nat : l <= m /\ a <= l + 1 => a <= m + 1 /\ (a > m => a > l)
  OBVIOUS

LEMMA OneLess == \A a, l \in Nat : a > 0 /\ a <= l + 1 => a - 1 \in Nat /\ a - 1 <= l
  OBVIOUS

LEMMA NotMore == \A a, l \in Nat : ~(a > l) => a <= l
  OBVIOUS

LEMMA OneMore == \A l, f \in Nat : l <= f => l <= l + 1 /\ l + 1 \in Nat /\ l + 1 <= f + 1
  OBVIOUS

(* What a call can have left to do. *)
LEMMA JobFacts ==
  /\ NoJob \in Jobs /\ NoJob.step = "none"
  /\ \A st \in {"claim", "healthy"} :
       [NoJob EXCEPT !.step = st] \in Jobs /\ [NoJob EXCEPT !.step = st].step = st
<1>1. 0 \in 0..Threshold
  BY HealthConstants
<1>2. NoJob \in Jobs /\ NoJob.step = "none"
  BY <1>1 DEF NoJob, Jobs
<1> QED
  BY <1>2 DEF Jobs

(* The parts of a state that satisfies the invariant. *)
LEMMA Together ==
  ASSUME row' \in Rows, send' \in Sends \cup {NoSend}, registered' \in BOOLEAN,
         heard' \in [kind : {"none", "poll_failure", "poll_recovered"},
                     incident : 0..MaxIncidents, recent : BOOLEAN],
         told' \subseteq 1..MaxIncidents, incidents' \in 0..MaxIncidents,
         job' \in Jobs, shown' \in BOOLEAN,
         alerts' \in Nat, lost' \in Nat, faults' \in 0..MaxFaults,
         Counted', Named', Agrees(row, send, incidents)'
  PROVE  IInv'
<1>1. lost' <= faults' /\ alerts' <= lost' + 1
  BY DEF Counted
<1>2. faults' \in Nat /\ faults' <= MaxFaults /\ MaxFaults \in Nat
  BY HealthConstants
<1>3. lost' \in 0..MaxFaults /\ alerts' \in 0..1 + MaxFaults
  BY <1>1, <1>2, Bounds
<1> QED
  BY <1>3 DEF IInv, TypeOK

(* What a step starts from. *)
LEMMA Given ==
  ASSUME IInv
  PROVE  /\ row \in Rows /\ send \in Sends \cup {NoSend} /\ registered \in BOOLEAN
         /\ heard \in [kind : {"none", "poll_failure", "poll_recovered"},
                       incident : 0..MaxIncidents, recent : BOOLEAN]
         /\ told \subseteq 1..MaxIncidents /\ incidents \in 0..MaxIncidents /\ incidents \in Nat
         /\ job \in Jobs /\ shown \in BOOLEAN /\ alerts \in Nat /\ lost \in Nat
         /\ faults \in 0..MaxFaults /\ faults \in Nat
         /\ Counted /\ Named /\ Agrees(row, send, incidents)
<1>1. TypeOK /\ Counted /\ Named /\ Agrees(row, send, incidents)
  BY DEF IInv
<1>2. alerts \in Nat /\ lost \in Nat /\ faults \in Nat /\ incidents \in Nat
  BY <1>1, HealthConstants DEF TypeOK
<1> QED
  BY <1>1, <1>2 DEF TypeOK

LEMMA FaultFacts ==
  ASSUME IInv, UNCHANGED faults \/ Fault
  PROVE  faults' \in 0..MaxFaults /\ faults' \in Nat /\ faults <= faults'
<1>1. faults \in 0..MaxFaults
  BY Given
<1> QED
  BY <1>1, HealthConstants DEF Fault

LEMMA WritesFacts ==
  ASSUME NEW ok, Writes(ok)
  PROVE  (UNCHANGED faults \/ Fault) /\ (~ok => Fault)
  BY DEF Writes

LEMMA FaultCounts == ASSUME IInv, Fault PROVE faults' = faults + 1
  BY DEF Fault

(* Steps that touch no alert leave the count of them, and what the row and  *)
(* the call under way, if it only claims a message, say of them.            *)
LEMMA CountKeeps ==
  ASSUME IInv, UNCHANGED alertVars, UNCHANGED incidents, faults' \in Nat, faults <= faults',
         job' = job \/ (job.step = "claim" /\ job' = NoJob),
         row'.alert = row.alert, row'.failures > 0 <=> row.failures > 0
  PROVE  Counted' /\ Named'
<1>1. /\ Counted /\ Named /\ lost \in Nat /\ faults \in Nat
      /\ UNCHANGED <<alerts, shown, lost>>
  BY Given DEF alertVars
<1>2. \/ job'.step = job.step /\ job'.alerted = job.alerted /\ job'.k = job.k
      \/ job.step = "claim" /\ job'.step = "none"
  BY DEF NoJob
<1>3. lost' <= faults'
  BY <1>1 DEF Counted
<1>4. Counted'
  BY <1>1, <1>2, <1>3 DEF Counted
<1>5. Named'
  BY <1>1, <1>2 DEF Named, Failing
<1> QED
  BY <1>4, <1>5

(* Steps that only count. *)
LEMMA CountingKeeps ==
  ASSUME IInv, Agrees(row, send, incidents)',
         row' \in Rows, send' \in Sends \cup {NoSend},
         UNCHANGED alertVars, UNCHANGED told, UNCHANGED incidents,
         heard' = heard \/ heard' = [heard EXCEPT !.recent = FALSE],
         registered' \in BOOLEAN, UNCHANGED faults \/ Fault,
         job' = job \/ (job.step = "claim" /\ job' = NoJob),
         row'.alert = row.alert, row'.failures > 0 <=> row.failures > 0
  PROVE  IInv'
<1>1. faults' \in 0..MaxFaults /\ faults' \in Nat /\ faults <= faults'
  BY FaultFacts
<1>2. Counted' /\ Named'
  BY <1>1, CountKeeps
<1>3. heard' \in [kind : {"none", "poll_failure", "poll_recovered"},
                  incident : 0..MaxIncidents, recent : BOOLEAN]
  BY Given
<1>4. job' \in Jobs
  BY Given, JobFacts
<1>5. /\ told' \subseteq 1..MaxIncidents /\ incidents' \in 0..MaxIncidents
      /\ shown' \in BOOLEAN /\ alerts' \in Nat /\ lost' \in Nat
  BY Given DEF alertVars
<1> QED
  BY <1>1, <1>2, <1>3, <1>4, <1>5, Together

(* A message that is cancelled is the same message. *)
LEMMA CancelledFacts ==
  ASSUME send \in Sends \cup {NoSend}
  PROVE  /\ Cancelled \in Sends \cup {NoSend}
         /\ Cancelled # NoSend <=> send # NoSend
         /\ send # NoSend => /\ Cancelled.kind = send.kind /\ Cancelled.incident = send.incident
                             /\ Cancelled.phase = send.phase /\ Cancelled.sent = send.sent
                             /\ Cancelled.pending = send.pending
<1>1. CASE send.phase = "sending"
  <2>1. send \in Sends /\ send # NoSend
    BY <1>1 DEF NoSend
  <2>2. Cancelled = [send EXCEPT !.cancelled = TRUE]
    BY <1>1 DEF Cancelled
  <2>3. Cancelled \in Sends /\ Cancelled.phase = "sending"
    BY <1>1, <2>1, <2>2 DEF Sends
  <2>4. Cancelled # NoSend
    BY <2>3 DEF NoSend
  <2> QED
    BY <2>1, <2>2, <2>3, <2>4 DEF Sends
<1>2. CASE send.phase # "sending"
  BY <1>2 DEF Cancelled
<1> QED
  BY <1>1, <1>2

(* Cancelled or gone, the message under way is told of nothing new.         *)
LEMMA CancelKeeps ==
  ASSUME IInv, send' = send \/ send' = Cancelled \/ send' = NoSend,
         UNCHANGED row, UNCHANGED heard, UNCHANGED incidents
  PROVE  send' \in Sends \cup {NoSend} /\ Agrees(row, send, incidents)'
<1>1. send \in Sends \cup {NoSend} /\ Agrees(row, send, incidents)
  BY Given
<1>2. CASE send' = NoSend
  BY <1>1, <1>2 DEF Agrees, Numbered, Remembers, Claimed, Announced, Carries, HeardOf
<1>3. CASE send' = send \/ send' = Cancelled
  <2>1. /\ send' \in Sends \cup {NoSend}
        /\ send' # NoSend <=> send # NoSend
        /\ send # NoSend => /\ send'.kind = send.kind /\ send'.incident = send.incident
                            /\ send'.phase = send.phase /\ send'.sent = send.sent
                            /\ send'.pending = send.pending
    BY <1>1, <1>3, CancelledFacts
  <2> QED
    BY <1>1, <2>1 DEF Agrees, Numbered, Remembers, Claimed, Announced, Carries, HeardOf
<1> QED
  BY <1>2, <1>3

LEMMA RegistryKeeps == IInv /\ (RegisterPoller \/ UnregisterPoller) => IInv'
<1> SUFFICES ASSUME IInv, RegisterPoller \/ UnregisterPoller PROVE IInv'
  OBVIOUS
<1>1. /\ send' = send \/ send' = Cancelled
      /\ UNCHANGED row /\ UNCHANGED alertVars /\ UNCHANGED job /\ UNCHANGED heard
      /\ UNCHANGED told /\ UNCHANGED incidents
      /\ registered' \in BOOLEAN /\ (UNCHANGED faults \/ Fault)
  BY DEF RegisterPoller, UnregisterPoller, messageVars
<1>2. send' \in Sends \cup {NoSend} /\ Agrees(row, send, incidents)'
  BY <1>1, CancelKeeps
<1>3. row' \in Rows
  BY <1>1, Given
<1> QED
  BY <1>1, <1>2, <1>3, CountingKeeps

(* An alert that is forgotten is one that was lost.                         *)
LEMMA ForgetKeeps ==
  ASSUME IInv, job.step # "healthy", Forget, Fault, UNCHANGED row, UNCHANGED incidents,
         job' = NoJob
  PROVE  /\ Counted' /\ Named'
         /\ alerts' \in Nat /\ lost' \in Nat /\ shown' \in BOOLEAN
<1>1. /\ Counted /\ Named /\ alerts \in Nat /\ lost \in Nat /\ faults \in Nat
      /\ shown \in BOOLEAN /\ job \in Jobs
  BY Given
<1>2. alerts' = alerts /\ faults' = faults + 1 /\ job'.step = "none"
  BY FaultCounts DEF Forget, NoJob
<1>3. CASE Unsaved
  <2>1. shown' = FALSE /\ lost' = lost + 1
    BY <1>3 DEF Forget
  <2>2. lost' \in Nat /\ lost' <= faults' /\ alerts' <= lost' /\ lost' # 0
    BY <1>1, <1>2, <2>1 DEF Counted
  <2>3. alerts' <= lost' + 1 /\ ~(alerts' > lost')
    BY <1>1, <1>2, <2>2, Excused
  <2>4. Counted'
    BY <2>1, <2>2, <2>3 DEF Counted
  <2>5. Named'
    BY <1>1, <1>2, <2>1, <2>2 DEF Named, Failing
  <2> QED
    BY <1>1, <1>2, <2>1, <2>2, <2>4, <2>5
<1>4. CASE ~Unsaved
  <2>1. shown' = shown /\ lost' = lost
    BY <1>1, <1>4 DEF Forget
  <2>2. lost' <= faults'
    BY <1>1, <1>2, <2>1 DEF Counted
  <2>3. Counted'
    BY <1>1, <1>2, <2>1, <2>2 DEF Counted
  <2>4. shown => row.alert
    BY <1>1, <1>4 DEF Named, Unsaved
  <2>5. Named'
    BY <1>1, <1>2, <2>1, <2>4 DEF Named, Failing
  <2> QED
    BY <1>1, <1>2, <2>1, <2>3, <2>5
<1> QED
  BY <1>3, <1>4

(* A kill between dismissal and reset leaves a row that names its alert.    *)
LEMMA ReturnKeeps ==
  ASSUME IInv, job.step = "healthy", UNCHANGED alertVars, Fault, UNCHANGED row,
         UNCHANGED incidents, job' = NoJob
  PROVE  Counted' /\ Named'
<1>1. /\ Counted /\ Named /\ lost \in Nat /\ faults \in Nat
      /\ UNCHANGED <<alerts, shown, lost>> /\ faults' = faults + 1 /\ job'.step = "none"
  BY Given, FaultCounts DEF alertVars, NoJob
<1>2. lost' <= faults'
  BY <1>1 DEF Counted
<1>3. Counted'
  BY <1>1, <1>2 DEF Counted
<1>4. Named'
  BY <1>1 DEF Named, Failing
<1> QED
  BY <1>3, <1>4

LEMMA RestartKeeps == IInv /\ Restart => IInv'
<1> SUFFICES ASSUME IInv, Restart PROVE IInv'
  OBVIOUS
<1>1. /\ registered' = FALSE /\ send' = NoSend /\ job' = NoJob /\ Forget /\ Fault
      /\ UNCHANGED row /\ UNCHANGED heard /\ UNCHANGED told /\ UNCHANGED incidents
  BY DEF Restart
<1>2. send' \in Sends \cup {NoSend} /\ Agrees(row, send, incidents)'
  BY <1>1, CancelKeeps
<1>3. Counted' /\ Named' /\ alerts' \in Nat /\ lost' \in Nat /\ shown' \in BOOLEAN
  <2>1. CASE job.step = "healthy"
    <3>1. UNCHANGED alertVars
      BY <1>1, <2>1, Given DEF Forget, Unsaved, alertVars
    <3> QED
      BY <1>1, <2>1, <3>1, ReturnKeeps, Given DEF alertVars
  <2>2. CASE job.step # "healthy"
    BY <1>1, <2>2, ForgetKeeps
  <2> QED
    BY <2>1, <2>2
<1>4. faults' \in 0..MaxFaults
  BY <1>1, FaultFacts
<1>5. job' \in Jobs /\ registered' \in BOOLEAN
  BY <1>1, JobFacts
<1>6. /\ row' \in Rows /\ told' \subseteq 1..MaxIncidents /\ incidents' \in 0..MaxIncidents
      /\ heard' \in [kind : {"none", "poll_failure", "poll_recovered"},
                     incident : 0..MaxIncidents, recent : BOOLEAN]
  BY <1>1, Given
<1> QED
  BY <1>2, <1>3, <1>4, <1>5, <1>6, Together

-----------------------------------------------------------------------------
(* Messages. *)

LEMMA DeliverKeeps == IInv /\ Deliver => IInv'
<1> SUFFICES ASSUME IInv, Deliver PROVE IInv'
  OBVIOUS
<1>0. PICK sent \in BOOLEAN :
        /\ send' = [send EXCEPT !.phase = "sent", !.sent = sent]
        /\ heard' = IF sent THEN [kind |-> send.kind, incident |-> send.incident, recent |-> TRUE] ELSE heard
        /\ told' = IF sent /\ send.kind = "poll_failure" THEN told \cup {send.incident} ELSE told
        /\ Writes(sent \/ send.cancelled)
  BY DEF Deliver
<1>1. /\ send.phase = "sending" /\ send # NoSend /\ send \in Sends
      /\ UNCHANGED row /\ UNCHANGED alertVars /\ UNCHANGED job
      /\ UNCHANGED registered /\ UNCHANGED incidents
  BY DEF Deliver, IInv, TypeOK, NoSend
<1>2. /\ send' \in Sends /\ send'.phase = "sent" /\ send'.sent = sent
      /\ send'.kind = send.kind /\ send'.incident = send.incident /\ send'.pending = send.pending
  BY <1>0, <1>1 DEF Sends
<1>3. send' # NoSend
  BY <1>2 DEF NoSend
<1>4. send.kind \in {"poll_failure", "poll_recovered"} /\ send.incident \in 0..MaxIncidents
  BY <1>1 DEF Sends
<1>5. heard' = heard \/ (sent /\ heard'.kind = send.kind /\ heard'.incident = send.incident)
  BY <1>0
<1>6. Agrees(row, send, incidents)
  BY DEF IInv
<1>7. Numbered(row, send, incidents)'
  BY <1>1, <1>2, <1>3, <1>5, <1>6 DEF Agrees, Numbered, Carries
<1>8. Remembers(row)'
  BY <1>1, <1>5, <1>6 DEF Agrees, Remembers, Claimed, Carries, HeardOf
<1>9. Claimed(row, send)'
  BY <1>0, <1>1, <1>2, <1>3, <1>6 DEF Agrees, Claimed, Carries, HeardOf
<1>10. Announced(row, send)'
  BY <1>0, <1>1, <1>2, <1>3, <1>4, <1>5, <1>6 DEF Agrees, Announced, Carries
<1>11. UNCHANGED faults \/ Fault
  BY <1>0, WritesFacts
<1>12. faults' \in 0..MaxFaults /\ faults' \in Nat /\ faults <= faults'
  BY <1>11, FaultFacts
<1>13. /\ heard' \in [kind : {"none", "poll_failure", "poll_recovered"},
                     incident : 0..MaxIncidents, recent : BOOLEAN]
       /\ told' \subseteq 1..MaxIncidents
  <2>1. CASE sent
    <3>1. heard' = [kind |-> send.kind, incident |-> send.incident, recent |-> TRUE]
      BY <1>0, <2>1
    <3>2. send.kind = "poll_failure" => send.incident \in 1..MaxIncidents
      BY <1>1, <1>4, <1>6, HealthConstants DEF Agrees, Numbered, Carries
    <3>3. told' \subseteq 1..MaxIncidents
      BY <1>0, <3>2 DEF IInv, TypeOK
    <3> QED
      BY <1>4, <3>1, <3>3
  <2>2. CASE ~sent
    BY <1>0, <2>2 DEF IInv, TypeOK
  <2> QED
    BY <2>1, <2>2
<1>14. Counted' /\ Named'
  BY <1>1, <1>12, CountKeeps
<1>15. Agrees(row, send, incidents)'
  BY <1>7, <1>8, <1>9, <1>10 DEF Agrees
<1>16. /\ row' \in Rows /\ registered' \in BOOLEAN /\ incidents' \in 0..MaxIncidents
       /\ job' \in Jobs /\ shown' \in BOOLEAN /\ alerts' \in Nat /\ lost' \in Nat
  BY <1>1, Given DEF alertVars
<1> QED
  BY <1>2, <1>12, <1>13, <1>14, <1>15, <1>16, Together

(* What the result of a failure message does to the row. *)
LEMMA ResultFacts ==
  ASSUME IInv, send # NoSend, send.phase = "sent"
  PROVE  LET s == Result IN
         /\ s \in Rows /\ s.alert = row.alert /\ s.failures = row.failures
         /\ s.incident = row.incident
         /\ \/ s = row
            \/ /\ Failing(row) /\ row.incident = send.incident /\ send.sent
               /\ s.success = "recent" /\ s.delivered /\ s.attempt = row.attempt
            \/ /\ Failing(row) /\ row.incident = send.incident /\ ~send.sent
               /\ s.delivered = row.delivered
<1>1. row \in Rows /\ send \in Sends
  BY DEF IInv, TypeOK
<1>2. CASE ~(Failing(row) /\ row.incident = send.incident)
  BY <1>1, <1>2 DEF Result
<1>3. CASE (Failing(row) /\ row.incident = send.incident) /\ send.sent
  <2>1. Result = [row EXCEPT !.success = "recent", !.later = FALSE, !.delivered = TRUE]
    BY <1>3 DEF Result
  <2> QED
    BY <1>1, <1>3, <2>1 DEF Rows, Ages
<1>4. CASE (Failing(row) /\ row.incident = send.incident) /\ ~send.sent /\ send.cancelled
  <2>1. Result = [row EXCEPT !.attempt = send.previous, !.later = send.later]
    BY <1>4 DEF Result
  <2>2. send.previous \in Ages /\ send.later \in BOOLEAN
    BY <1>1 DEF Sends
  <2> QED
    BY <1>1, <1>4, <2>1, <2>2 DEF Rows
<1>5. CASE (Failing(row) /\ row.incident = send.incident) /\ ~send.sent /\ ~send.cancelled
  BY <1>1, <1>5 DEF Result
<1> QED
  BY <1>2, <1>3, <1>4, <1>5

LEMMA RecoveryFacts ==
  LET m == Message("poll_recovered", Healthy) IN
  /\ m \in Sends /\ m # NoSend
  /\ m.kind = "poll_recovered" /\ m.incident = 0 /\ m.phase = "sending" /\ m.pending = "none"
<1> DEFINE m == Message("poll_recovered", Healthy)
<1>1. m = [phase |-> "sending", kind |-> "poll_recovered", incident |-> 0, cancelled |-> FALSE,
           sent |-> FALSE, previous |-> "none", later |-> FALSE, pending |-> "none"]
  BY DEF Message, Healthy
<1> HIDE DEF m
<1>2. m \in Sends
  BY <1>1, HealthConstants DEF Sends, Ages
<1>3. m.phase = "sending"
  BY <1>1
<1>4. m # NoSend
  BY <1>3 DEF NoSend
<1> QED
  BY <1>1, <1>2, <1>4 DEF m

LEMMA FinishKeeps == IInv /\ Finish => IInv'
<1> SUFFICES ASSUME IInv, Finish PROVE IInv'
  OBVIOUS
<1>0. PICK saved \in BOOLEAN :
        /\ row' = IF saved /\ send.kind = "poll_failure" THEN Result ELSE row
        /\ Writes(saved)
  BY DEF Finish
<1>1. /\ send.phase = "sent" /\ send # NoSend /\ send \in Sends
      /\ UNCHANGED alertVars /\ UNCHANGED job /\ UNCHANGED registered
      /\ UNCHANGED heard /\ UNCHANGED told /\ UNCHANGED incidents
  BY DEF Finish, IInv, TypeOK, NoSend
<1>2. send.kind \in {"poll_failure", "poll_recovered"}
      /\ send.pending \in {"none", "fresh", "announced"}
  BY <1>1 DEF Sends
<1>3. Agrees(row, send, incidents) /\ row \in Rows /\ incidents \in Nat
  BY HealthConstants DEF IInv, TypeOK
<1>4. /\ row' \in Rows /\ row'.alert = row.alert /\ row'.failures = row.failures
      /\ row'.incident = row.incident
      /\ \/ row' = row
         \/ /\ send.kind = "poll_failure"
            /\ Failing(row) /\ row.incident = send.incident /\ send.sent
            /\ row'.success = "recent" /\ row'.delivered /\ row'.attempt = row.attempt
         \/ /\ send.kind = "poll_failure"
            /\ Failing(row) /\ row.incident = send.incident /\ ~send.sent
            /\ row'.delivered = row.delivered
  <2>1. CASE saved /\ send.kind = "poll_failure"
    BY <1>0, <1>1, <2>1, ResultFacts
  <2>2. CASE ~(saved /\ send.kind = "poll_failure")
    BY <1>0, <1>3, <2>2
  <2> QED
    BY <2>1, <2>2
<1>5. \/ send' = NoSend
      \/ /\ send' \in Sends /\ send' # NoSend
         /\ send'.kind = "poll_recovered" /\ send'.incident = 0
         /\ send'.phase = "sending" /\ send'.pending = "none"
         /\ send.pending = "announced" \/ (send.pending = "fresh" /\ send.sent)
  BY RecoveryFacts DEF Finish
<1>6. send' # NoSend => send.kind = "poll_failure" /\ row' = row
                        /\ heard.kind = "poll_failure" /\ ~row.delivered
  BY <1>1, <1>2, <1>3, <1>4, <1>5 DEF Agrees, Announced, Carries
<1>7. Numbered(row, send, incidents)'
  BY <1>1, <1>3, <1>4, <1>5 DEF Agrees, Numbered, Carries, Failing
<1>8. Remembers(row)'
  BY <1>1, <1>3, <1>4 DEF Agrees, Remembers, Claimed, Carries, HeardOf, Failing
<1>9. Claimed(row, send)'
  BY <1>5 DEF Claimed, Carries
<1>10. Announced(row, send)'
  BY <1>1, <1>3, <1>4, <1>5, <1>6 DEF Agrees, Announced, Carries
<1>11. registered' \in BOOLEAN /\ (UNCHANGED faults \/ Fault)
  BY <1>0, <1>1, Given, WritesFacts
<1>12. Agrees(row, send, incidents)'
  BY <1>7, <1>8, <1>9, <1>10 DEF Agrees
<1>13. send' \in Sends \cup {NoSend}
  BY <1>5
<1>14. row'.failures > 0 <=> row.failures > 0
  BY <1>4
<1> QED
  BY <1>1, <1>4, <1>11, <1>12, <1>13, <1>14, CountingKeeps

-----------------------------------------------------------------------------
(* Outcomes. *)

(* The row of a failure that is not saved yet agrees with everything else.  *)
LEMMA FailedFacts ==
  ASSUME IInv, NEW k \in 1..Threshold, NEW alerted \in BOOLEAN,
         Failing(row) \/ incidents < MaxIncidents
  PROVE  LET r == Failed(k, alerted)
             n == IF Failing(row) THEN incidents ELSE incidents + 1
         IN  /\ n \in 0..MaxIncidents /\ incidents <= n
             /\ r \in Rows /\ Failing(r)
             /\ r.alert <=> row.alert \/ alerted
             /\ Agrees(r, send, n)
<1> DEFINE r == Failed(k, alerted)
           n == IF Failing(row) THEN incidents ELSE incidents + 1
           base == IF Failing(row) THEN row ELSE [row EXCEPT !.incident = incidents + 1]
           failures == Capped(row.failures + k)
           alert == row.alert \/ alerted
<1>1. row \in Rows /\ incidents \in 0..MaxIncidents /\ heard.incident \in 0..MaxIncidents
  BY DEF IInv, TypeOK
<1>2. n \in 0..MaxIncidents /\ incidents <= n
  BY <1>1, HealthConstants
<1>3. failures \in 1..Threshold
  <2>1. row.failures \in 0..Threshold
    BY <1>1 DEF Rows
  <2> QED
    BY <2>1, HealthConstants DEF Capped
<1>4. base \in Rows /\ base.incident = (IF Failing(row) THEN row.incident ELSE n)
      /\ base.delivered = row.delivered /\ base.attempt = row.attempt
      /\ base.success = row.success /\ base.later = row.later
  BY <1>1, <1>2 DEF Rows
<1>5. alert \in BOOLEAN
  OBVIOUS
<1>6. r = [base EXCEPT !.failures = failures, !.alert = alert]
  BY DEF Failed
<1> HIDE DEF base, failures, alert
<1>7. r \in Rows /\ r.failures = failures /\ r.alert = alert
      /\ r.incident = base.incident /\ r.delivered = row.delivered /\ r.attempt = row.attempt
      /\ r.success = row.success /\ r.later = row.later
  <2>1. failures \in 0..Threshold
    BY <1>3
  <2>2. r \in Rows
    BY <1>4, <1>5, <1>6, <2>1 DEF Rows
  <2>3. r.failures = failures /\ r.alert = alert
    BY <1>4, <1>6 DEF Rows
  <2>4. /\ r.incident = base.incident /\ r.delivered = base.delivered
        /\ r.attempt = base.attempt /\ r.success = base.success /\ r.later = base.later
    BY <1>4, <1>6 DEF Rows
  <2> QED
    BY <1>4, <2>2, <2>3, <2>4
<1>8. Failing(r)
  BY <1>3, <1>7, HealthConstants DEF Failing
<1>9. r.alert <=> row.alert \/ alerted
  BY <1>7 DEF alert
<1>10. Agrees(row, send, incidents)
  BY DEF IInv
<1>11. Agrees(r, send, n)
  <2> HIDE DEF r
  <2>1. CASE Failing(row)
    <3>1. n = incidents /\ r.incident = row.incident
      BY <1>4, <1>7, <2>1
    <3> QED
      BY <1>7, <1>8, <1>10, <2>1, <3>1
      DEF Agrees, Numbered, Remembers, Claimed, Announced, Carries, HeardOf
  <2>2. CASE ~Failing(row)
    <3>1. n = incidents + 1 /\ r.incident = n
      BY <1>4, <1>7, <2>2
    <3>2. heard.incident <= incidents /\ (send # NoSend => send.incident <= incidents)
          /\ ~row.delivered
      BY <1>10, <2>2 DEF Agrees, Numbered
    <3>3. send # NoSend => send.incident \in 0..MaxIncidents
      BY DEF IInv, TypeOK, Sends
    <3>4. heard.incident # n /\ (send # NoSend => send.incident # n)
      BY <1>1, <3>1, <3>2, <3>3, HealthConstants
    <3>5. n > 0 /\ heard.incident <= n /\ (send # NoSend => send.incident <= n)
      BY <1>1, <3>1, <3>2, <3>3, HealthConstants
    <3>6. Numbered(r, send, n)
      BY <1>2, <1>8, <1>10, <3>1, <3>5 DEF Agrees, Numbered
    <3>7. Remembers(r) /\ Claimed(r, send)
      BY <1>10, <3>1, <3>4 DEF Agrees, Remembers, Claimed, Carries, HeardOf
    <3>8. Announced(r, send)
      BY <1>7, <1>10, <3>1, <3>2, <3>4 DEF Agrees, Announced, Carries
    <3> QED
      BY <3>6, <3>7, <3>8 DEF Agrees
  <2> QED
    BY <2>1, <2>2
<1> QED
  BY <1>2, <1>7, <1>8, <1>9, <1>11

LEMMA RecordKeeps ==
  ASSUME IInv, NEW k \in 1..Threshold, Record(k)
  PROVE  IInv'
<1>0. PICK created \in IF row.alert THEN {FALSE} ELSE BOOLEAN :
        /\ job' = [step |-> "row", k |-> k, alerted |-> row.alert \/ created]
        /\ alerts' = IF created THEN alerts + 1 ELSE alerts
        /\ shown' = (shown \/ created)
        /\ lost' = IF row.alert \/ created THEN lost ELSE lost + 1
        /\ Writes(row.alert \/ created)
  BY DEF Record
<1> DEFINE alerted == row.alert \/ created
<1>1. /\ job.step = "none" /\ (Failing(row) \/ incidents < MaxIncidents)
      /\ UNCHANGED row /\ UNCHANGED registered /\ UNCHANGED send /\ UNCHANGED heard
      /\ UNCHANGED told /\ UNCHANGED incidents
  BY DEF Record, Free, NoJob, messageVars
<1>2. /\ Counted /\ Named /\ alerts \in Nat /\ lost \in Nat /\ faults \in Nat
      /\ shown \in BOOLEAN /\ row.alert \in BOOLEAN
  BY Given DEF Rows
<1>3. created \in BOOLEAN /\ (created => ~row.alert)
  OBVIOUS
<1>4. job'.step = "row" /\ job'.k = k /\ job'.alerted = alerted /\ alerted \in BOOLEAN
  BY <1>0
<1>5. job' \in Jobs
  <2>1. k \in 0..Threshold /\ alerted \in BOOLEAN
    BY HealthConstants
  <2> QED
    BY <1>0, <2>1 DEF Jobs
<1>6. /\ faults' \in 0..MaxFaults /\ faults' \in Nat /\ faults <= faults'
      /\ ~alerted => faults' = faults + 1
  BY <1>0, WritesFacts, FaultFacts, FaultCounts
<1>7. /\ created => ~shown /\ alerts <= lost
      /\ shown => row.alert
  BY <1>1, <1>2, <1>3 DEF Counted, Named
<1>8. lost' \in Nat /\ alerts' \in Nat /\ shown' \in BOOLEAN /\ lost' <= faults'
  <2>1. lost <= faults
    BY <1>2 DEF Counted
  <2>2. CASE alerted
    BY <1>0, <1>2, <1>3, <1>6, <2>1, <2>2
  <2>3. CASE ~alerted
    BY <1>0, <1>2, <1>3, <1>6, <2>1, <2>3
  <2> QED
    BY <2>2, <2>3
<1>9. Counted'
  <2>1. CASE created
    <3>1. alerts' = alerts + 1 /\ lost' = lost /\ shown' = TRUE
      BY <1>0, <2>1
    <3>2. alerts' <= lost' + 1 /\ alerts' > 0
      BY <1>2, <1>7, <2>1, <3>1
    <3> QED
      BY <1>4, <1>8, <3>1, <3>2 DEF Counted
  <2>2. CASE ~created
    <3>1. alerts' = alerts /\ shown' = shown /\ lost <= lost' /\ lost' \in Nat
      BY <1>0, <1>2, <1>3, <2>2
    <3>2. alerts <= lost + 1 /\ (alerts > lost => shown) /\ (shown => alerts > 0)
      BY <1>2 DEF Counted
    <3>3. alerts <= lost' + 1 /\ (alerts > lost' => alerts > lost)
      BY <1>2, <3>1, <3>2, Slack
    <3>4. alerts' <= lost' + 1 /\ (alerts' > lost' => shown')
      BY <3>1, <3>2, <3>3
    <3> QED
      BY <1>4, <1>8, <3>1, <3>2, <3>4 DEF Counted
  <2> QED
    BY <1>3, <2>1, <2>2
<1>10. Named'
  <2>1. lost' = 0 => alerted /\ lost = 0
    BY <1>0, <1>2
  <2>2. k > 0
    BY HealthConstants
  <2>3. shown' => alerted
    BY <1>0, <1>7
  <2> QED
    BY <1>1, <1>2, <1>4, <2>1, <2>2, <2>3 DEF Named, Failing
<1>11. Agrees(row, send, incidents)'
  BY <1>1, CancelKeeps
<1>12. /\ row' \in Rows /\ send' \in Sends \cup {NoSend} /\ registered' \in BOOLEAN
       /\ heard' \in [kind : {"none", "poll_failure", "poll_recovered"},
                      incident : 0..MaxIncidents, recent : BOOLEAN]
       /\ told' \subseteq 1..MaxIncidents /\ incidents' \in 0..MaxIncidents
  BY <1>1, Given
<1> QED
  BY <1>5, <1>6, <1>8, <1>9, <1>10, <1>11, <1>12, Together

LEMMA SaveRowKeeps == IInv /\ SaveRow => IInv'
<1> SUFFICES ASSUME IInv, SaveRow PROVE IInv'
  OBVIOUS
<1>1. /\ job.step = "row" /\ UNCHANGED registered
      /\ UNCHANGED send /\ UNCHANGED heard /\ UNCHANGED told
  BY DEF SaveRow, messageVars
<1>2. /\ job \in Jobs /\ Counted /\ Named /\ alerts \in Nat /\ lost \in Nat /\ shown \in BOOLEAN
      /\ row.alert \in BOOLEAN
  BY Given DEF Rows
<1>3. /\ send' \in Sends \cup {NoSend} /\ registered' \in BOOLEAN
      /\ heard' \in [kind : {"none", "poll_failure", "poll_recovered"},
                     incident : 0..MaxIncidents, recent : BOOLEAN]
      /\ told' \subseteq 1..MaxIncidents
  BY <1>1, Given
<1>4. CASE /\ row' = Failed(job.k, job.alerted)
           /\ incidents' = IF Failing(row) THEN incidents ELSE incidents + 1
           /\ job' = [NoJob EXCEPT !.step = "claim"]
           /\ UNCHANGED <<alertVars, faults>>
  <2>1. PICK k \in 1..Threshold : k = job.k
    BY <1>1, <1>2, HealthConstants DEF Named, Jobs
  <2>2. PICK alerted \in BOOLEAN : alerted = job.alerted
    BY <1>2 DEF Jobs
  <2>3. Failing(row) \/ incidents < MaxIncidents
    BY <1>1, <1>2 DEF Named
  <2>4. PICK n \in 0..MaxIncidents :
          /\ incidents' = n /\ row' \in Rows /\ Failing(row')
          /\ (row'.alert <=> row.alert \/ alerted) /\ Agrees(row', send, n)
    BY <1>4, <2>1, <2>2, <2>3, FailedFacts
  <2>5. Agrees(row, send, incidents)'
    BY <1>1, <2>4 DEF Agrees, Numbered, Remembers, Claimed, Announced, Carries, HeardOf, Failing
  <2>6. job'.step = "claim" /\ job' \in Jobs
    BY <1>4, JobFacts
  <2>7. UNCHANGED alerts /\ UNCHANGED shown /\ UNCHANGED lost /\ UNCHANGED faults
    BY <1>4 DEF alertVars
  <2>8. Counted'
    BY <1>1, <1>2, <2>6, <2>7 DEF Counted
  <2>9. row'.alert \in BOOLEAN
    BY <2>4 DEF Rows
  <2>10. Named'
    BY <1>1, <1>2, <2>2, <2>4, <2>6, <2>7, <2>9 DEF Named
  <2>11. incidents' \in 0..MaxIncidents /\ faults' \in 0..MaxFaults
    BY <2>4, <2>7, Given
  <2>12. alerts' \in Nat /\ lost' \in Nat /\ shown' \in BOOLEAN
    BY <1>2, <2>7
  <2> QED
    BY <1>3, <2>4, <2>5, <2>6, <2>8, <2>10, <2>11, <2>12, Together
<1>5. CASE job' = NoJob /\ Forget /\ Fault /\ UNCHANGED <<row, incidents>>
  <2>1. UNCHANGED row /\ UNCHANGED incidents
    BY <1>5
  <2>2. Counted' /\ Named' /\ alerts' \in Nat /\ lost' \in Nat /\ shown' \in BOOLEAN
    BY <1>1, <1>5, <2>1, ForgetKeeps
  <2>3. Agrees(row, send, incidents)'
    BY <1>1, <2>1, CancelKeeps
  <2>4. job' \in Jobs /\ faults' \in 0..MaxFaults
    BY <1>5, FaultFacts, JobFacts
  <2>5. row' \in Rows /\ incidents' \in 0..MaxIncidents
    BY <2>1, Given
  <2> QED
    BY <1>3, <2>2, <2>3, <2>4, <2>5, Together
<1> QED
  BY <1>4, <1>5 DEF SaveRow

LEMMA ClaimsKeep == IInv /\ (EvaluateReminder \/ Claim) => IInv'
<1> SUFFICES ASSUME IInv, EvaluateReminder \/ Claim PROVE IInv'
  OBVIOUS
<1>0. PICK saved \in BOOLEAN : ClaimFailure(row, saved) /\ Writes(saved)
  BY DEF EvaluateReminder, Claim
<1>1. /\ UNCHANGED alertVars /\ UNCHANGED registered
      /\ UNCHANGED heard /\ UNCHANGED told /\ UNCHANGED incidents
      /\ job' = job \/ (job.step = "claim" /\ job' = NoJob)
  BY DEF EvaluateReminder, Claim
<1>2. Failing(row)
  BY Given DEF EvaluateReminder, Claim, Named
<1>3. PICK n \in 0..MaxIncidents : n = incidents
  BY Given
<1>4. row \in Rows /\ send \in Sends \cup {NoSend} /\ Agrees(row, send, n)
  BY <1>3, Given
<1>5. /\ row' \in Rows /\ send' \in Sends \cup {NoSend}
      /\ Failing(row') /\ row'.alert = row.alert /\ Agrees(row, send, n)'
  BY <1>0, <1>1, <1>2, <1>4, ClaimKeeps
<1>6. Agrees(row, send, incidents)'
  BY <1>1, <1>3, <1>5
<1>7. registered' \in BOOLEAN /\ (UNCHANGED faults \/ Fault)
  BY <1>0, <1>1, Given, WritesFacts
<1>8. row'.failures > 0 <=> row.failures > 0
  BY <1>2, <1>5 DEF Failing
<1> QED
  BY <1>1, <1>5, <1>6, <1>7, <1>8, CountingKeeps

LEMMA SuccessKeeps == IInv /\ RecordPollSuccess => IInv'
<1> SUFFICES ASSUME IInv, RecordPollSuccess PROVE IInv'
  OBVIOUS
<1>0. PICK dismissed \in IF row.alert THEN BOOLEAN ELSE {TRUE} :
        /\ alerts' = IF shown /\ dismissed THEN alerts - 1 ELSE alerts
        /\ shown' = (shown /\ ~dismissed)
        /\ lost' = IF dismissed THEN lost ELSE lost + 1
        /\ Writes(dismissed)
  BY DEF RecordPollSuccess
<1>1. /\ job.step = "none" /\ Failing(row) /\ send' = Cancelled
      /\ job' = [NoJob EXCEPT !.step = "healthy"]
      /\ UNCHANGED row /\ UNCHANGED registered /\ UNCHANGED heard
      /\ UNCHANGED told /\ UNCHANGED incidents
  BY DEF RecordPollSuccess, Free, NoJob
<1>2. /\ Counted /\ Named /\ alerts \in Nat /\ lost \in Nat /\ faults \in Nat
      /\ shown \in BOOLEAN
  BY Given
<1>3. dismissed \in BOOLEAN
  OBVIOUS
<1>4. job'.step = "healthy" /\ job' \in Jobs
  BY <1>1, JobFacts
<1>5. /\ faults' \in 0..MaxFaults /\ faults' \in Nat /\ faults <= faults'
      /\ ~dismissed => faults' = faults + 1
  BY <1>0, WritesFacts, FaultFacts, FaultCounts
<1>6. /\ lost <= faults /\ alerts <= lost + 1 /\ (alerts > lost => shown)
      /\ shown => alerts > 0
  BY <1>2 DEF Counted
<1>7. /\ lost' \in Nat /\ lost <= lost' /\ lost' <= faults'
      /\ alerts' \in Nat /\ alerts' <= lost' /\ shown' \in BOOLEAN
      /\ shown' => shown /\ alerts' > 0
  <2>3. lost <= lost /\ (lost <= faults => lost <= faults')
    BY <1>2, <1>5
  <2>1. CASE dismissed
    <3>1. CASE shown
      <4>1. alerts' = alerts - 1 /\ lost' = lost /\ shown' = FALSE
        BY <1>0, <2>1, <3>1
      <4>2. alerts - 1 \in Nat /\ alerts - 1 <= lost
        BY <1>2, <1>6, <3>1, OneLess
      <4> QED
        BY <1>2, <1>5, <1>6, <4>1, <4>2, <2>3
    <3>2. CASE ~shown
      <4>1. alerts' = alerts /\ lost' = lost /\ shown' = FALSE
        BY <1>0, <2>1, <3>2
      <4>2. alerts <= lost
        BY <1>2, <1>6, <3>2, NotMore
      <4> QED
        BY <1>2, <1>5, <1>6, <4>1, <4>2, <2>3
    <3> QED
      BY <3>1, <3>2
  <2>2. CASE ~dismissed
    <3>1. alerts' = alerts /\ lost' = lost + 1 /\ shown' = shown /\ faults' = faults + 1
      BY <1>0, <1>2, <1>5, <2>2
    <3>2. lost <= lost + 1 /\ lost + 1 \in Nat /\ lost + 1 <= faults + 1
      BY <1>2, <1>6, OneMore
    <3> QED
      BY <1>2, <1>6, <3>1, <3>2
  <2> QED
    BY <1>3, <2>1, <2>2
<1>8. alerts' <= lost' + 1 /\ ~(alerts' > lost')
  BY <1>7, Excused
<1>9. Counted'
  BY <1>7, <1>8 DEF Counted
<1>10. lost' = 0 => lost = 0
  BY <1>2, <1>7
<1>11. Named'
  BY <1>1, <1>2, <1>4, <1>7, <1>10 DEF Named, Failing
<1>12. send' \in Sends \cup {NoSend} /\ Agrees(row, send, incidents)'
  BY <1>1, CancelKeeps
<1>13. /\ row' \in Rows /\ registered' \in BOOLEAN
       /\ heard' \in [kind : {"none", "poll_failure", "poll_recovered"},
                      incident : 0..MaxIncidents, recent : BOOLEAN]
       /\ told' \subseteq 1..MaxIncidents /\ incidents' \in 0..MaxIncidents
  BY <1>1, Given
<1> QED
  BY <1>4, <1>5, <1>7, <1>9, <1>11, <1>12, <1>13, Together

LEMMA SaveHealthyKeeps == IInv /\ SaveHealthy => IInv'
<1> SUFFICES ASSUME IInv, SaveHealthy PROVE IInv'
  OBVIOUS
<1>1. /\ job.step = "healthy" /\ job' = NoJob
      /\ UNCHANGED alerts /\ UNCHANGED lost /\ UNCHANGED registered
      /\ UNCHANGED heard /\ UNCHANGED told /\ UNCHANGED incidents
  BY DEF SaveHealthy
<1>2. /\ row \in Rows /\ send \in Sends \cup {NoSend} /\ Agrees(row, send, incidents)
      /\ incidents \in Nat /\ Counted /\ Named /\ alerts \in Nat /\ lost \in Nat
      /\ shown \in BOOLEAN /\ Failing(row)
  BY <1>1, Given DEF Named
<1>3. /\ registered' \in BOOLEAN /\ job' \in Jobs /\ job'.step = "none"
      /\ heard' \in [kind : {"none", "poll_failure", "poll_recovered"},
                     incident : 0..MaxIncidents, recent : BOOLEAN]
      /\ told' \subseteq 1..MaxIncidents /\ incidents' \in 0..MaxIncidents
      /\ alerts' \in Nat /\ lost' \in Nat
  BY <1>1, Given, JobFacts
<1>4. CASE /\ row' = Healthy /\ shown' = FALSE
           /\ send' = IF send # NoSend /\ send.kind = "poll_failure"
                      THEN [send EXCEPT !.pending = IF row.delivered THEN "announced" ELSE "fresh"]
                      ELSE IF send = NoSend /\ row.delivered THEN Message("poll_recovered", Healthy)
                      ELSE send
           /\ UNCHANGED faults
  <2>1. /\ row' \in Rows /\ row'.alert = FALSE /\ row'.incident = 0
        /\ row'.delivered = FALSE /\ ~Failing(row')
    BY <1>4, HealthConstants DEF Healthy, Rows, Ages, Failing
  <2>2. send' \in Sends \cup {NoSend} /\ Agrees(row, send, incidents)'
    <3>1. CASE send # NoSend /\ send.kind = "poll_failure"
      <4> DEFINE next == IF row.delivered THEN "announced" ELSE "fresh"
      <4>1. send' = [send EXCEPT !.pending = next]
        BY <1>4, <3>1
      <4>2. send \in Sends
        BY <1>2, <3>1
      <4>3. next \in {"fresh", "announced"} /\ (next = "announced" => row.delivered)
        OBVIOUS
      <4> HIDE DEF next
      <4>4. /\ send' \in Sends /\ send'.kind = send.kind /\ send'.incident = send.incident
            /\ send'.phase = send.phase /\ send'.sent = send.sent /\ send'.pending = next
        BY <3>1, <4>1, <4>2, <4>3 DEF Sends
      <4>5. Numbered(row, send, incidents)' /\ Remembers(row)' /\ Claimed(row, send)'
        BY <1>1, <1>2, <2>1, <3>1, <4>4
        DEF Agrees, Numbered, Remembers, Claimed, Carries, HeardOf
      <4>6. Announced(row, send)'
        BY <1>1, <1>2, <2>1, <3>1, <4>3, <4>4 DEF Agrees, Announced, Carries
      <4> QED
        BY <4>4, <4>5, <4>6 DEF Agrees
    <3>2. CASE send = NoSend /\ row.delivered
      <4>1. send' = Message("poll_recovered", Healthy)
        BY <1>4, <3>2
      <4>2. /\ send' \in Sends /\ send' # NoSend /\ send'.kind = "poll_recovered"
            /\ send'.incident = 0 /\ send'.pending = "none"
        BY <4>1, RecoveryFacts
      <4> QED
        BY <1>1, <1>2, <2>1, <3>2, <4>2
        DEF Agrees, Numbered, Remembers, Claimed, Announced, Carries, HeardOf
    <3>3. CASE ~(send # NoSend /\ send.kind = "poll_failure") /\ ~(send = NoSend /\ row.delivered)
      <4>1. send' = send
        BY <1>4, <3>3
      <4> QED
        BY <1>1, <1>2, <2>1, <3>3, <4>1
        DEF Agrees, Numbered, Remembers, Claimed, Announced, Carries, HeardOf
    <3> QED
      BY <3>1, <3>2, <3>3
  <2>3. faults' = faults /\ faults' \in 0..MaxFaults
    BY <1>4, Given
  <2>4. alerts' <= lost' + 1 /\ ~(alerts' > lost')
    BY <1>1, <1>2 DEF Counted
  <2>5. Counted'
    BY <1>1, <1>2, <1>4, <2>3, <2>4 DEF Counted
  <2>6. Named'
    BY <1>3, <1>4, <2>1 DEF Named
  <2>7. shown' \in BOOLEAN
    BY <1>4
  <2> QED
    BY <1>3, <2>1, <2>2, <2>3, <2>5, <2>6, <2>7, Together
<1>5. CASE Fault /\ UNCHANGED <<row, shown, send>>
  <2>1. UNCHANGED row /\ UNCHANGED shown /\ UNCHANGED send
    BY <1>5
  <2>2. Agrees(row, send, incidents)'
    BY <1>1, <2>1, CancelKeeps
  <2>3. Counted' /\ Named'
    BY <1>1, <1>5, <2>1, ReturnKeeps DEF alertVars
  <2>4. faults' \in 0..MaxFaults
    BY <1>5, FaultFacts
  <2>5. row' \in Rows /\ send' \in Sends \cup {NoSend} /\ shown' \in BOOLEAN
    BY <1>2, <2>1
  <2> QED
    BY <1>3, <2>2, <2>3, <2>4, <2>5, Together
<1> QED
  BY <1>4, <1>5 DEF SaveHealthy

LEMMA DismissKeeps == IInv /\ DismissAlerts => IInv'
<1> SUFFICES ASSUME IInv, DismissAlerts PROVE IInv'
  OBVIOUS
<1>1. /\ alerts' = 0 /\ shown' = FALSE
      /\ UNCHANGED row /\ UNCHANGED lost /\ UNCHANGED job /\ UNCHANGED registered
      /\ UNCHANGED send /\ UNCHANGED heard /\ UNCHANGED told
      /\ UNCHANGED incidents /\ UNCHANGED faults
  BY DEF DismissAlerts, messageVars
<1>2. /\ row' \in Rows /\ send' \in Sends \cup {NoSend} /\ registered' \in BOOLEAN
      /\ heard' \in [kind : {"none", "poll_failure", "poll_recovered"},
                     incident : 0..MaxIncidents, recent : BOOLEAN]
      /\ told' \subseteq 1..MaxIncidents /\ incidents' \in 0..MaxIncidents
      /\ job' \in Jobs /\ lost' \in Nat /\ faults' \in 0..MaxFaults
  BY <1>1, Given
<1>3. alerts' \in Nat /\ shown' \in BOOLEAN
  BY <1>1
<1>4. Counted'
  <2>1. lost' <= faults' /\ alerts' <= lost' + 1 /\ ~(alerts' > lost')
    BY <1>1, <1>2, Given DEF Counted
  <2> QED
    BY <1>1, <2>1 DEF Counted
<1>5. Named'
  BY <1>1, Given DEF Named, Failing
<1>6. Agrees(row, send, incidents)'
  BY <1>1, CancelKeeps
<1> QED
  BY <1>2, <1>3, <1>4, <1>5, <1>6, Together

-----------------------------------------------------------------------------
(* Time. *)

LEMMA TimeKeeps == IInv /\ (OutageGrows \/ CooldownElapses \/ RepeatElapses) => IInv'
<1> SUFFICES ASSUME IInv, OutageGrows \/ CooldownElapses \/ RepeatElapses PROVE IInv'
  OBVIOUS
<1>1. /\ UNCHANGED alertVars /\ UNCHANGED job /\ UNCHANGED registered /\ UNCHANGED send
      /\ UNCHANGED told /\ UNCHANGED incidents /\ UNCHANGED faults
  BY DEF OutageGrows, CooldownElapses, RepeatElapses, messageVars
<1>2. row \in Rows /\ Agrees(row, send, incidents) /\ send \in Sends \cup {NoSend}
      /\ heard \in [kind : {"none", "poll_failure", "poll_recovered"},
                   incident : 0..MaxIncidents, recent : BOOLEAN]
  BY DEF IInv, TypeOK
<1>3. /\ row' \in Rows /\ row'.alert = row.alert /\ row'.failures = row.failures
      /\ heard' = heard \/ heard' = [heard EXCEPT !.recent = FALSE]
      /\ Agrees(row, send, incidents)'
  <2>1. CASE OutageGrows
    <3>1. row' = [row EXCEPT !.long = TRUE] /\ heard' = heard
      BY <2>1 DEF OutageGrows, messageVars
    <3>2. /\ row' \in Rows /\ row'.alert = row.alert /\ row'.failures = row.failures
          /\ row'.incident = row.incident /\ row'.delivered = row.delivered
          /\ row'.attempt = row.attempt /\ row'.success = row.success /\ row'.later = row.later
      BY <1>2, <3>1 DEF Rows
    <3> QED
      BY <1>1, <1>2, <3>1, <3>2
      DEF Agrees, Numbered, Remembers, Claimed, Announced, Carries, HeardOf, Failing
  <2>2. CASE CooldownElapses
    <3>1. /\ row' = [row EXCEPT !.attempt = Older(row.attempt)]
          /\ heard' = [heard EXCEPT !.recent = FALSE] /\ send = NoSend
      BY <2>2 DEF CooldownElapses
    <3>2. Older(row.attempt) \in Ages
      BY <1>2 DEF Rows, Ages, Older
    <3>3. /\ row' \in Rows /\ row'.alert = row.alert /\ row'.failures = row.failures
          /\ row'.incident = row.incident /\ row'.delivered = row.delivered
      BY <1>2, <3>1, <3>2 DEF Rows
    <3>4. heard'.recent = FALSE /\ heard'.kind = heard.kind /\ heard'.incident = heard.incident
      BY <1>2, <3>1
    <3> QED
      BY <1>1, <1>2, <3>1, <3>3, <3>4
      DEF Agrees, Numbered, Remembers, Claimed, Announced, Carries, HeardOf, Failing
  <2>3. CASE RepeatElapses
    <3>1. row' = [row EXCEPT !.success = "old"] /\ heard' = heard /\ send = NoSend /\ ~heard.recent
      BY <2>3 DEF RepeatElapses, messageVars
    <3>2. /\ row' \in Rows /\ row'.alert = row.alert /\ row'.failures = row.failures
          /\ row'.incident = row.incident /\ row'.delivered = row.delivered
      BY <1>2, <3>1 DEF Rows, Ages
    <3> QED
      BY <1>1, <1>2, <3>1, <3>2
      DEF Agrees, Numbered, Remembers, Claimed, Announced, Carries, HeardOf, Failing
  <2> QED
    BY <2>1, <2>2, <2>3
<1>4. registered' \in BOOLEAN /\ send' \in Sends \cup {NoSend}
  BY <1>1, Given
<1>5. row'.failures > 0 <=> row.failures > 0
  BY <1>3
<1> QED
  BY <1>1, <1>3, <1>4, <1>5, CountingKeeps

LEMMA NextKeeps == IInv /\ [Next]_vars => IInv'
<1> SUFFICES ASSUME IInv, [Next]_vars PROVE IInv'
  OBVIOUS
<1>1. CASE RegisterPoller \/ UnregisterPoller
  BY <1>1, RegistryKeeps
<1>2. CASE RecordPollFailure \/ EvaluateMissed
  <2>1. 1 \in 1..Threshold
    BY HealthConstants
  <2> QED
    BY <1>2, <2>1, RecordKeeps DEF RecordPollFailure, EvaluateMissed
<1>3. CASE RecordPollSuccess
  BY <1>3, SuccessKeeps
<1>4. CASE EvaluateReminder \/ Claim
  BY <1>4, ClaimsKeep
<1>5. CASE Deliver
  BY <1>5, DeliverKeeps
<1>6. CASE Finish
  BY <1>6, FinishKeeps
<1>7. CASE DismissAlerts
  BY <1>7, DismissKeeps
<1>8. CASE OutageGrows \/ CooldownElapses \/ RepeatElapses
  BY <1>8, TimeKeeps
<1>9. CASE RecordHealthySuccess \/ UNCHANGED vars
  <2>1. UNCHANGED vars
    BY <1>9 DEF RecordHealthySuccess
  <2> QED
    BY <2>1 DEF vars, alertVars, messageVars, IInv, TypeOK, Counted, Named, Agrees, Numbered,
                Remembers, Claimed, Announced, Carries, HeardOf, Failing
<1>10. CASE Restart
  BY <1>10, RestartKeeps
<1>11. CASE SaveRow
  BY <1>11, SaveRowKeeps
<1>12. CASE SaveHealthy
  BY <1>12, SaveHealthyKeeps
<1> QED
  BY <1>1, <1>2, <1>3, <1>4, <1>5, <1>6, <1>7, <1>8, <1>9, <1>10, <1>11, <1>12 DEF Next

-----------------------------------------------------------------------------
(* The theorems. *)

(* The invariant of row, message, alert and recipients, whichever writes    *)
(* fail and whenever the process restarts.                                  *)
THEOREM HealthInvariant == Spec => []IInv
<1> QED
  BY InitKeeps, NextKeeps, PTL DEF Spec

(* The state stays well typed; the alerts shown are bounded by the faults.  *)
THEOREM HealthTypeCorrect == Spec => []TypeOK
<1>1. IInv => TypeOK
  BY DEF IInv
<1> QED
  BY <1>1, HealthInvariant, PTL

(* An account shows at most one alert, and none once its polling has        *)
(* recovered, but for one per dismissal that failed and per new alert whose *)
(* row was not written, by a failure or a kill; wherever else the process   *)
(* dies or a write fails, nothing is left behind.                           *)
THEOREM AlertShownOnce == Spec => []OneAlert
<1>1. ASSUME IInv PROVE OneAlert
  <2>1. Counted /\ Named /\ alerts \in Nat /\ lost \in Nat
    BY <1>1, Given
  <2>2. alerts <= Own + lost
    <3>1. CASE alerts > lost
      <4>1. shown /\ job.step # "healthy" /\ alerts <= lost + 1
        BY <2>1, <3>1 DEF Counted
      <4>2. Own = 1
        BY <2>1, <4>1 DEF Named, Own
      <4> QED
        BY <2>1, <4>1, <4>2
    <3>2. CASE ~(alerts > lost)
      <4>1. Own \in Nat
        BY DEF Own
      <4> QED
        BY <2>1, <3>2, <4>1
    <3> QED
      BY <3>1, <3>2
  <2> QED
    BY <2>1, <2>2 DEF OneAlert, Named
<1> QED
  BY <1>1, HealthInvariant, PTL

(* A failure message of an incident is not claimed again while the channels *)
(* have heard one within the cooldown.                                      *)
THEOREM NoStorm == Spec => NoAlertStorm
<1> DEFINE Claims == send = NoSend /\ send' # NoSend /\ send'.kind = "poll_failure"
           Quiet == Claims => ~(heard.recent /\ heard.kind = "poll_failure"
                                /\ heard.incident = send'.incident)
<1>1. ASSUME IInv, [Next]_vars, Claims PROVE ~HeardOf(send'.incident)
  <2>1. ASSUME NEW r, NEW saved, NEW n, Failing(r), Agrees(r, send, n), ClaimFailure(r, saved)
        PROVE  ~HeardOf(send'.incident)
    <3>1. Due(r) /\ send' = Message("poll_failure", r)
      BY <1>1, <2>1 DEF ClaimFailure
    <3>2. send'.incident = r.incident
      BY <3>1 DEF Message
    <3> QED
      BY <2>1, <3>1, <3>2, DueIsQuiet DEF Agrees
  <2>2. CASE EvaluateReminder \/ Claim
    <3>1. PICK saved \in BOOLEAN : ClaimFailure(row, saved)
      BY <2>2 DEF EvaluateReminder, Claim
    <3>2. Failing(row) /\ Agrees(row, send, incidents)
      BY <1>1, <2>2, Given DEF EvaluateReminder, Claim, Named
    <3> QED
      BY <2>1, <3>1, <3>2
  <2>3. CASE \/ \E k \in 1..Threshold : Record(k)
             \/ SaveRow
    BY <1>1, <2>3 DEF Record, SaveRow, messageVars
  <2>4. CASE SaveHealthy
    <3>1. send' = send \/ send' = Message("poll_recovered", Healthy)
      BY <1>1, <2>4 DEF SaveHealthy
    <3> QED
      BY <1>1, <3>1, RecoveryFacts
  <2>5. CASE RegisterPoller \/ UnregisterPoller \/ Restart \/ RecordPollSuccess
    BY <1>1, <2>5
    DEF RegisterPoller, UnregisterPoller, Restart, RecordPollSuccess, Cancelled, NoSend, messageVars
  <2>6. CASE Deliver \/ Finish
    BY <1>1, <2>6 DEF Deliver, Finish, NoSend
  <2>7. CASE DismissAlerts \/ OutageGrows \/ CooldownElapses \/ RepeatElapses
             \/ RecordHealthySuccess \/ UNCHANGED vars
    BY <1>1, <2>7 DEF DismissAlerts, OutageGrows, CooldownElapses, RepeatElapses,
                      RecordHealthySuccess, vars, messageVars
  <2>8. 1 \in 1..Threshold
    BY HealthConstants
  <2> QED
    BY <1>1, <2>2, <2>3, <2>4, <2>5, <2>6, <2>7, <2>8
    DEF Next, RecordPollFailure, EvaluateMissed
<1>2. IInv /\ [Next]_vars => [Quiet]_vars
  BY <1>1 DEF HeardOf
<1>3. Spec => [][Quiet]_vars
  BY <1>2, HealthInvariant, PTL DEF Spec
<1> QED
  BY <1>3 DEF NoAlertStorm

(* Only who last heard of a failure is told of a recovery.                  *)
THEOREM RecoveryIsAnswer == Spec => RecoveryAnswersFailure
<1> DEFINE Answers == send.phase = "sending" /\ send'.phase = "sent" /\ send'.sent
                        /\ send.kind = "poll_recovered" => heard.kind = "poll_failure"
<1>1. IInv => Answers
  BY DEF IInv, Agrees, Announced, Carries, NoSend
<1>2. Spec => [][Answers]_vars
  BY <1>1, HealthInvariant, PTL DEF Spec
<1> QED
  BY <1>2 DEF RecoveryAnswersFailure
=============================================================================
