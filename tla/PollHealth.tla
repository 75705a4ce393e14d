------------------------------- MODULE PollHealth -------------------------------
(***************************************************************************)
(* Supervision of one provider account by the notification engine          *)
(* (internal/notify/poll_health.go): the persisted row of its incident, the *)
(* in-app alert, and the external messages that a goroutine sends while the *)
(* engine goes on recording poll outcomes.                                 *)
(*                                                                         *)
(* A call that holds pollHealthMu writes the alert, then the row, then the  *)
(* claim of a message, and may be killed between any two; a message is sent *)
(* outside of the lock, and its result recorded under it again.  Accounts   *)
(* share nothing but the lock.  Time is a matter of thresholds: the minimum *)
(* outage, the cooldown and the repeat interval elapse.                     *)
(***************************************************************************)
EXTENDS Integers

CONSTANTS
  Threshold,     \* PollFailureThreshold
  MaxIncidents,  \* bound: incidents of the account
  MaxFaults      \* bound: failed writes and sends, restarts of engine or poller

ASSUME HealthConstants ==
  /\ Threshold \in Nat \ {0, 1}
  /\ MaxIncidents \in Nat /\ MaxFaults \in Nat

VARIABLES
  row,         \* poll_health_state: the persisted state of the account
  alerts,      \* active in-app alerts "poll_failure" of the account
  shown,       \* one of them is the row's, or the call's under way
  job,         \* what the call that holds the lock has still to write
  registered,  \* pollHealthPollers: a poller is supervised
  send,        \* pollHealthAttempts: the external message under way, or NoSend
  heard,       \* the last message that reached a channel
  told,        \* incidents whose failure message reached a channel
  incidents, faults,
  lost         \* alerts not created, not dismissed, or created for a row not written

alertVars == <<alerts, shown, lost>>
messageVars == <<send, heard, told>>
vars == <<row, alertVars, job, registered, messageVars, incidents, faults>>

Ages == {"none", "recent", "old"}
NoSend == [phase |-> "none"]
NoJob == [step |-> "none", k |-> 0, alerted |-> FALSE]
Silence == [kind |-> "none", incident |-> 0, recent |-> FALSE]

(* newPollHealthState; incident is FirstFailureAt, attempt and success are  *)
(* LastExternalAttemptAt and LastExternalSuccessAt, later their order.      *)
Healthy == [failures |-> 0, incident |-> 0, long |-> FALSE, alert |-> FALSE, delivered |-> FALSE,
            attempt |-> "none", success |-> "none", later |-> FALSE]

Failing(r) == r.failures > 0

Init ==
  /\ row = Healthy /\ alerts = 0 /\ shown = FALSE /\ job = NoJob
  /\ registered = FALSE /\ send = NoSend
  /\ heard = Silence /\ told = {}
  /\ incidents = 0 /\ faults = 0 /\ lost = 0

Fault == faults < MaxFaults /\ faults' = faults + 1
Writes(ok) == IF ok THEN UNCHANGED faults ELSE Fault

(* Nobody holds the lock. *)
Free == job = NoJob

-----------------------------------------------------------------------------
(* The registry of pollers. *)
RegisterPoller ==
  /\ Free /\ ~registered /\ registered' = TRUE
  /\ UNCHANGED <<row, alertVars, job, messageVars, incidents, faults>>

(* A message that has come back is beyond its context.                      *)
Cancelled == IF send.phase = "sending" THEN [send EXCEPT !.cancelled = TRUE] ELSE send

(* The poller's loop ends (ShutdownPollHealthDeliveries also cancels).      *)
UnregisterPoller ==
  /\ Free /\ registered /\ registered' = FALSE
  /\ send' = Cancelled
  /\ Fault /\ UNCHANGED <<row, alertVars, job, heard, told, incidents>>

(* The alert of the call under way is not in the row yet.                   *)
Unsaved == job.step = "row" /\ job.alerted /\ ~row.alert

(* The call will not write the row: an alert it has created is lost to it.  *)
Forget ==
  /\ shown' = (shown /\ ~Unsaved)
  /\ lost' = IF Unsaved THEN lost + 1 ELSE lost
  /\ UNCHANGED alerts

(* The process dies, within a call too, and starts again: only the store    *)
(* survives.                                                                *)
Restart ==
  /\ registered' = FALSE /\ send' = NoSend /\ job' = NoJob
  /\ Forget
  /\ Fault /\ UNCHANGED <<row, heard, told, incidents>>

-----------------------------------------------------------------------------
(* External messages. *)

(* Mutant: the first alert of an incident does not wait for the cooldown. *)
Due_NoCooldown(r) ==
  /\ r.failures = Threshold /\ r.long
  /\ r.delivered => r.success # "recent" /\ ~(r.later /\ r.attempt = "recent")

(* claimPollFailureDeliveryLocked: repeat interval and cooldown.            *)
Due(r) ==
  /\ r.failures = Threshold /\ r.long
  /\ IF r.delivered THEN r.success # "recent" /\ ~(r.later /\ r.attempt = "recent")
                    ELSE r.attempt # "recent"

Message(kind, r) ==
  [phase |-> "sending", kind |-> kind, incident |-> r.incident, cancelled |-> FALSE, sent |-> FALSE,
   previous |-> r.attempt, later |-> r.later, pending |-> "none"]

(* The attempt is saved before the message leaves; r is the saved row.      *)
ClaimFailure(r, saved) ==
  IF Due(r) /\ send = NoSend /\ saved
  THEN /\ row' = [r EXCEPT !.attempt = "recent", !.later = TRUE]
       /\ send' = Message("poll_failure", r)
  ELSE row' = r /\ UNCHANGED send

(* executePollDelivery, before the lock: sendViaChannelsContext.  A message *)
(* that was cancelled may have reached a channel all the same.              *)
Deliver ==
  /\ send.phase = "sending"
  /\ \E sent \in BOOLEAN :
       /\ send' = [send EXCEPT !.phase = "sent", !.sent = sent]
       /\ heard' = IF sent THEN [kind |-> send.kind, incident |-> send.incident, recent |-> TRUE] ELSE heard
       /\ told' = IF sent /\ send.kind = "poll_failure" THEN told \cup {send.incident} ELSE told
       /\ Writes(sent \/ send.cancelled)
  /\ UNCHANGED <<row, alertVars, job, registered, incidents>>

(* What a failure message's result makes of the row of its own incident.    *)
Result ==
  IF ~(Failing(row) /\ row.incident = send.incident) THEN row
  ELSE IF send.sent THEN [row EXCEPT !.success = "recent", !.later = FALSE, !.delivered = TRUE]
  ELSE IF send.cancelled THEN [row EXCEPT !.attempt = send.previous, !.later = send.later]
  ELSE row

(* Mutant: a recovery that waited for the failure message is always sent. *)
Finish_AlwaysRecovers ==
  /\ Free /\ send.phase = "sent"
  /\ \E saved \in BOOLEAN :
       /\ row' = IF saved /\ send.kind = "poll_failure" THEN Result ELSE row
       /\ Writes(saved)
  /\ send' = IF send.pending # "none" THEN Message("poll_recovered", Healthy) ELSE NoSend
  /\ UNCHANGED <<alertVars, job, registered, heard, told, incidents>>

(* Mutant: a cancelled message leaves its attempt in the table. *)
Finish_KeepsCancelled ==
  /\ Free /\ send.phase = "sent"
  /\ \E saved \in BOOLEAN :
       /\ row' = IF saved /\ send.kind = "poll_failure" THEN Result ELSE row
       /\ Writes(saved)
  /\ send' = IF send.pending = "announced" \/ (send.pending = "fresh" /\ send.sent)
             THEN Message("poll_recovered", Healthy)
             ELSE IF send.cancelled THEN send ELSE NoSend
  /\ UNCHANGED <<alertVars, job, registered, heard, told, incidents>>

(* executePollDelivery, under the lock: the result, then a recovery that    *)
(* waited for it and is worth a message.                                    *)
Finish ==
  /\ Free /\ send.phase = "sent"
  /\ \E saved \in BOOLEAN :
       /\ row' = IF saved /\ send.kind = "poll_failure" THEN Result ELSE row
       /\ Writes(saved)
  /\ send' = IF send.pending = "announced" \/ (send.pending = "fresh" /\ send.sent)
             THEN Message("poll_recovered", Healthy) ELSE NoSend
  /\ UNCHANGED <<alertVars, job, registered, heard, told, incidents>>

-----------------------------------------------------------------------------
(* Poll outcomes. *)
Capped(n) == IF n > Threshold THEN Threshold ELSE n

(* The row after k failed or missed polls; a first one opens an incident,   *)
(* an alert that could not be created is tried again by the next.           *)
Failed(k, alerted) ==
  [(IF Failing(row) THEN row ELSE [row EXCEPT !.incident = incidents + 1])
   EXCEPT !.failures = Capped(row.failures + k), !.alert = row.alert \/ alerted]

(* recordPollFailureLocked and recordMissedPollsLocked: the alert ...       *)
Record(k) ==
  /\ Free /\ registered
  /\ Failing(row) \/ incidents < MaxIncidents
  /\ \E created \in IF row.alert THEN {FALSE} ELSE BOOLEAN :
       /\ job' = [step |-> "row", k |-> k, alerted |-> row.alert \/ created]
       /\ alerts' = IF created THEN alerts + 1 ELSE alerts
       /\ shown' = (shown \/ created)
       /\ lost' = IF row.alert \/ created THEN lost ELSE lost + 1
       /\ Writes(row.alert \/ created)
  /\ UNCHANGED <<row, registered, messageVars, incidents>>

(* ... the row, unless the write fails or the context has ended ...         *)
SaveRow ==
  /\ job.step = "row"
  /\ \/ /\ row' = Failed(job.k, job.alerted)
        /\ incidents' = IF Failing(row) THEN incidents ELSE incidents + 1
        /\ job' = [NoJob EXCEPT !.step = "claim"]
        /\ UNCHANGED <<alertVars, faults>>
     \/ /\ job' = NoJob /\ Forget /\ Fault
        /\ UNCHANGED <<row, incidents>>
  /\ UNCHANGED <<registered, messageVars>>

(* ... and the claim of a message.                                          *)
Claim ==
  /\ job.step = "claim" /\ job' = NoJob
  /\ \E saved \in BOOLEAN : ClaimFailure(row, saved) /\ Writes(saved)
  /\ UNCHANGED <<alertVars, registered, heard, told, incidents>>

RecordPollFailure == Record(1)

(* The monitor finds intervals without an outcome ...                       *)
EvaluateMissed == \E k \in 1..Threshold : Record(k)

(* ... or a reminder that may be due.                                       *)
EvaluateReminder ==
  /\ Free /\ registered /\ Failing(row) /\ Due(row) /\ send = NoSend
  /\ \E saved \in BOOLEAN : ClaimFailure(row, saved) /\ Writes(saved)
  /\ UNCHANGED <<alertVars, job, registered, heard, told, incidents>>

(* Mutant: the alert of the incident stays. *)
RecordPollSuccess_KeepsAlert ==
  /\ Free /\ registered /\ Failing(row)
  /\ send' = Cancelled
  /\ job' = [NoJob EXCEPT !.step = "healthy"]
  /\ UNCHANGED <<row, alertVars, registered, heard, told, incidents, faults>>

(* RecordPollSuccess ends the incident: the message under way is cancelled, *)
(* the alert dismissed, ...                                                 *)
RecordPollSuccess ==
  /\ Free /\ registered /\ Failing(row)
  /\ send' = Cancelled
  /\ job' = [NoJob EXCEPT !.step = "healthy"]
  /\ \E dismissed \in IF row.alert THEN BOOLEAN ELSE {TRUE} :
       /\ alerts' = IF shown /\ dismissed THEN alerts - 1 ELSE alerts
       /\ shown' = (shown /\ ~dismissed)
       /\ lost' = IF dismissed THEN lost ELSE lost + 1
       /\ Writes(dismissed)
  /\ UNCHANGED <<row, registered, heard, told, incidents>>

(* ... the row reset, and the recovery announced at once, or after the      *)
(* failure message under way.                                               *)
SaveHealthy ==
  /\ job.step = "healthy" /\ job' = NoJob
  /\ \/ /\ row' = Healthy /\ shown' = FALSE
        /\ send' = IF send # NoSend /\ send.kind = "poll_failure"
                   THEN [send EXCEPT !.pending = IF row.delivered THEN "announced" ELSE "fresh"]
                   ELSE IF send = NoSend /\ row.delivered THEN Message("poll_recovered", Healthy)
                   ELSE send
        /\ UNCHANGED faults
     \/ Fault /\ UNCHANGED <<row, shown, send>>
  /\ UNCHANGED <<alerts, lost, registered, heard, told, incidents>>

(* A success of a healthy account only writes timestamps.                   *)
RecordHealthySuccess == Free /\ registered /\ ~Failing(row) /\ UNCHANGED vars

(* DismissAllSystemAlerts, from the dashboard.                              *)
DismissAlerts ==
  /\ alerts > 0 /\ alerts' = 0 /\ shown' = FALSE
  /\ UNCHANGED <<row, lost, job, registered, messageVars, incidents, faults>>

-----------------------------------------------------------------------------
(* Time; channels give up long before any of these intervals.               *)
OutageGrows ==
  /\ Failing(row) /\ ~row.long
  /\ row' = [row EXCEPT !.long = TRUE]
  /\ UNCHANGED <<alertVars, job, registered, messageVars, incidents, faults>>

Older(age) == IF age = "recent" THEN "old" ELSE age

CooldownElapses ==
  /\ send = NoSend /\ (row.attempt = "recent" \/ heard.recent)
  /\ row' = [row EXCEPT !.attempt = Older(@)]
  /\ heard' = [heard EXCEPT !.recent = FALSE]
  /\ UNCHANGED <<alertVars, job, registered, send, told, incidents, faults>>

(* The repeat interval is longer than the cooldown.                         *)
RepeatElapses ==
  /\ send = NoSend /\ row.success = "recent" /\ row.attempt # "recent" /\ ~heard.recent
  /\ row' = [row EXCEPT !.success = "old"]
  /\ UNCHANGED <<alertVars, job, registered, messageVars, incidents, faults>>

Next ==
  \/ RegisterPoller \/ UnregisterPoller \/ Restart
  \/ RecordPollFailure \/ SaveRow \/ Claim
  \/ RecordPollSuccess \/ SaveHealthy \/ RecordHealthySuccess
  \/ EvaluateMissed \/ EvaluateReminder \/ Deliver \/ Finish \/ DismissAlerts
  \/ OutageGrows \/ CooldownElapses \/ RepeatElapses

Spec == Init /\ [][Next]_vars

(* A call that has the lock, the monitor's ticker, the delivery's goroutine *)
(* and the clock go on, and the lock comes to the delivery that waits for   *)
(* it; the poller need not go on.                                           *)
FairSpec ==
  /\ Spec
  /\ WF_vars(SaveRow) /\ WF_vars(Claim) /\ WF_vars(SaveHealthy)
  /\ WF_vars(EvaluateReminder) /\ WF_vars(Deliver) /\ SF_vars(Finish)
  /\ WF_vars(OutageGrows) /\ WF_vars(CooldownElapses) /\ WF_vars(RepeatElapses)

-----------------------------------------------------------------------------
Rows ==
  [failures : 0..Threshold, incident : 0..MaxIncidents, long : BOOLEAN, alert : BOOLEAN,
   delivered : BOOLEAN, attempt : Ages, success : Ages, later : BOOLEAN]

Sends ==
  [phase : {"sending", "sent"}, kind : {"poll_failure", "poll_recovered"}, incident : 0..MaxIncidents,
   cancelled : BOOLEAN, sent : BOOLEAN, previous : Ages, later : BOOLEAN,
   pending : {"none", "fresh", "announced"}]

Jobs == [step : {"none", "row", "claim", "healthy"}, k : 0..Threshold, alerted : BOOLEAN]

TypeOK ==
  /\ row \in Rows /\ registered \in BOOLEAN
  /\ send \in Sends \cup {NoSend}
  /\ heard \in [kind : {"none", "poll_failure", "poll_recovered"}, incident : 0..MaxIncidents, recent : BOOLEAN]
  /\ told \subseteq 1..MaxIncidents
  /\ incidents \in 0..MaxIncidents /\ faults \in 0..MaxFaults /\ lost \in 0..MaxFaults
  /\ alerts \in 0..1 + MaxFaults /\ shown \in BOOLEAN /\ job \in Jobs

(* The alert that the row, or a call that is about to write it, names; a    *)
(* recovery has dismissed it.                                               *)
Own ==
  IF job.step # "healthy" /\ (row.alert \/ (job.step = "row" /\ job.alerted)) THEN 1 ELSE 0

(* An account shows at most one alert, and none once its polling has        *)
(* recovered, but for one left behind by each dismissal that failed and by  *)
(* each write of a new alert's row that failed or was cut off by a kill;    *)
(* unless an alert was lost so or could not be created, exactly the failing *)
(* accounts have one.  Kills anywhere else, dismissals from the dashboard   *)
(* and other failed writes leave none.                                      *)
OneAlert == alerts <= Own + lost /\ (lost = 0 => (row.alert <=> Failing(row)))

(* "restart duplicated external message": the failure message of an         *)
(* incident that reached a channel is not claimed again within the          *)
(* cooldown, whatever was cancelled, lost in a crash or not saved.          *)
NoAlertStorm ==
  [][send = NoSend /\ send' # NoSend /\ send'.kind = "poll_failure" =>
       ~(heard.recent /\ heard.kind = "poll_failure" /\ heard.incident = send'.incident)]_vars

(* "transient recovery sent externally": a recovery is only announced to    *)
(* channels that last heard of a failure.                                   *)
RecoveryAnswersFailure ==
  [][send.phase = "sending" /\ send'.phase = "sent" /\ send'.sent /\ send.kind = "poll_recovered"
       => heard.kind = "poll_failure"]_vars

(* An incident that lasts is announced externally, in spite of cancelled    *)
(* and failed sends, unless its poller goes.                                *)
LastingFailureIsTold ==
  \A i \in 1..MaxIncidents :
    (row.incident = i /\ row.failures = Threshold)
      ~> (i \in told \/ row.incident # i \/ ~registered)
=============================================================================
