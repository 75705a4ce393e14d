-------------------------- MODULE QuotaAlertsProofs --------------------------
(***************************************************************************)
(* For any thresholds, repeat step and bounds: an alert goes out once per  *)
(* period, none is hidden by a row of the last period, and the alerts of   *)
(* an overused quota keep their distance.                                  *)
(***************************************************************************)
EXTENDS QuotaAlerts, TLAPS

Thresholds == {"warning", "critical"}
Row(t) == log[t] # None

(* The open cycle is not of the period of the last snapshot. Before the    *)
(* tracker has seen the snapshot a reset will come of it; after that it    *)
(* is what a failed reset leaves behind.                                   *)
BeforeTrack == poll.pc \in {"idle", "store", "track"}
OldCycle == cycle \notin {0, seen}
ResetAhead == (BeforeTrack /\ OldCycle) \/ poll.pc = "reset"
ResetFailed == ~BeforeTrack /\ OldCycle

Logging(t) == poll.pc = "log" /\ poll.type = t

Order ==
  /\ cycle <= seen /\ seen <= provider.period
  /\ poll.pc # "idle" => poll.period = seen /\ seen > 0
  /\ poll.pc = "reset" => cycle = seen
  /\ seen = 0 => \A t \in Thresholds : ~Row(t)
  /\ ResetFailed => lost > 0

(* What is sent, or has been sent and is being logged.                     *)
Messages ==
  /\ poll.pc = "log" => told[poll.type] > 0
  /\ poll.pc \in {"send", "log"} =>
       /\ poll.type \in Thresholds => ~Row(poll.type)
       /\ poll.type = "critical" => poll.used >= Critical
       /\ poll.type = "warning" => poll.used \in Warning .. Critical - 1
       /\ poll.type = "very_over" => pace.known /\ pace.veryOver

(* An alert more than the lost writes account for has its row, and a reset *)
(* that deletes the row is not to come.                                    *)
Budget(t) ==
  /\ told[t] <= 1 + lost
  /\ ~Row(t) /\ ~Logging(t) => told[t] <= lost
  /\ ResetAhead \/ ResetFailed => told[t] <= lost
  /\ ResetFailed /\ ~Row(t) /\ ~Logging(t) => told[t] + 1 <= lost

(* A row that no reset is going to delete is of this period.               *)
RowOfPeriod(t) == lost = 0 /\ Row(t) /\ ~ResetAhead => told[t] > 0

AlertsOK == \A t \in Thresholds : Budget(t) /\ RowOfPeriod(t)

(* The last pace alert is in the log, and in the engine if it remembers    *)
(* the quota at all.                                                       *)
PaceOK ==
  lost = 0 /\ lastPace # None =>
    /\ ~ResetAhead
    /\ IF Logging("very_over") THEN lastPace = poll.used
       ELSE /\ log["very_over"] = lastPace
            /\ pace.known => pace.veryOver /\ pace.hasAlert /\ pace.last = lastPace

SessionsOK == open = orphans + (IF sm.session THEN 1 ELSE 0)

IInv ==
  /\ TypeOK /\ SessionsOK /\ Order /\ Messages
  /\ AlertsOK /\ PeriodIsAlerted /\ PaceOK /\ PaceSpaced

-----------------------------------------------------------------------------

(* The types.                                                              *)
LEMMA InitTypes == Init => TypeOK
BY AlertConstants DEF Init, TypeOK, Unknown, Fresh, Idle, Nothing, Polls, Paces, Sessions, Places, Types, None

LEMMA GoTypes ==
  ASSUME TypeOK, NEW pc \in Places
  PROVE  /\ Go(pc) => poll' \in Polls
         /\ [poll EXCEPT !.pc = pc, !.failed = TRUE] \in Polls
         /\ \A type \in Types : Notify(type) => poll' \in Polls
         /\ Idle \in Polls
<1>1. Idle \in Polls
  BY AlertConstants DEF Polls, Places, Types, Idle
<1>2. \A p \in Polls :
        /\ [p EXCEPT !.pc = pc] \in Polls
        /\ [p EXCEPT !.pc = pc, !.failed = TRUE] \in Polls
        /\ \A type \in Types : [p EXCEPT !.pc = "send", !.type = type] \in Polls
  BY DEF Polls, Places
<1> QED
  BY <1>1, <1>2, Zenon DEF TypeOK, Go, Notify

LEMMA AfterType == \A type \in Types : After(type) \in Places
BY DEF After, Types, Places

LEMMA PaceTypes ==
  ASSUME TypeOK
  PROVE  /\ Unknown \in Paces /\ Restored \in Paces
         /\ [Restored EXCEPT !.veryOver = FALSE, !.hasAlert = FALSE, !.last = 0] \in Paces
         /\ [Restored EXCEPT !.veryOver = TRUE] \in Paces
         /\ [pace EXCEPT !.hasAlert = TRUE, !.last = poll.used] \in Paces
<1>1. Unknown \in Paces
  BY DEF Unknown, Paces
<1>2. Restored \in Paces
  <2>1. log["very_over"] \in 0 .. None
    BY DEF TypeOK, Types
  <2>2. (log["very_over"] # None) \in BOOLEAN
    BY Zenon
  <2> QED
    BY <2>1, <2>2, AlertConstants DEF Restored, Paces, TypeOK, None
<1>3. \A p \in Paces :
        /\ [p EXCEPT !.veryOver = FALSE, !.hasAlert = FALSE, !.last = 0] \in Paces
        /\ [p EXCEPT !.veryOver = TRUE] \in Paces
        /\ \A n \in Nat : [p EXCEPT !.hasAlert = TRUE, !.last = n] \in Paces
  BY DEF Paces
<1>4. poll.used \in Nat /\ pace \in Paces
  BY AlertConstants DEF TypeOK, Polls
<1> QED
  BY <1>1, <1>2, <1>3, <1>4, Zenon

LEMMA SessionTypes ==
  ASSUME TypeOK
  PROVE  /\ Seen \in Sessions /\ Fresh \in Sessions /\ Quiet \in Nat
         /\ \A s \in Sessions :
              /\ [s EXCEPT !.session = FALSE] \in Sessions
              /\ [s EXCEPT !.session = TRUE, !.idle = 0] \in Sessions
              /\ \A n \in Nat : [s EXCEPT !.idle = n] \in Sessions
<1>1. Fresh \in Sessions
  BY AlertConstants DEF Sessions, Fresh
<1>2. Seen \in Sessions
  BY DEF TypeOK, Polls, Sessions, Seen
<1>3. Quiet \in Nat
  BY AlertConstants DEF TypeOK, Sessions, Quiet
<1>4. \A s \in Sessions :
        /\ [s EXCEPT !.session = FALSE] \in Sessions
        /\ [s EXCEPT !.session = TRUE, !.idle = 0] \in Sessions
        /\ \A n \in Nat : [s EXCEPT !.idle = n] \in Sessions
  BY DEF Sessions
<1> QED
  BY <1>1, <1>2, <1>3, <1>4

(* Every action keeps the types; the only decrement is of a row that is    *)
(* open.                                                                   *)
LEMMA StepTypes ==
  ASSUME TypeOK, SessionsOK, [Next]_vars
  PROVE  TypeOK'
<1> DEFINE OpenTypes == open' \in Nat /\ orphans' \in Nat
<1>1. CASE Use
  BY <1>1, AlertConstants DEF TypeOK, Use, tables, session, ghosts
<1>2. CASE Elapse
  BY <1>2 DEF TypeOK, Elapse, tables, session, ghosts
<1>3. CASE NewPeriod
  BY <1>3, AlertConstants DEF TypeOK, NewPeriod, tables, session, ghosts
<1>4. CASE Fetch
  <2>1. poll' \in Polls
    BY <1>4 DEF Fetch, TypeOK, Polls, Idle, Places, Types
  <2>2. Nothing \in [Types -> Nat] /\ None \in 0 .. None
    BY AlertConstants DEF Nothing, None
  <2> QED
    BY <1>4, <2>1, <2>2 DEF TypeOK, Fetch, NoFault, tables, session
<1>5. CASE Store
  <2>1. poll' \in Polls
    BY <1>5, GoTypes DEF Store, Places
  <2> QED
    BY <1>5, <2>1 DEF TypeOK, Store, NoFault, Fault, tables, session, ghosts
<1>6. CASE Track
  <2>1. poll' \in Polls
    BY <1>6, GoTypes DEF Track, Places
  <2>2. cycle' \in Nat
    BY <1>6 DEF Track, TypeOK, Polls
  <2> QED
    BY <1>6, <2>1, <2>2 DEF TypeOK, Track, NoFault, Fault, session
<1>7. CASE Reset
  <2>1. poll' \in Polls
    BY <1>7, GoTypes DEF Reset, Places
  <2>2. log' \in [Types -> 0 .. None]
    BY <1>7, AlertConstants DEF Reset, ClearNotificationLog, TypeOK, None
  <2> QED
    BY <1>7, <2>1, <2>2, PaceTypes DEF TypeOK, Reset, NoFault, Fault, session
<1>8. CASE Announce
  <2>1. poll' \in Polls
    BY <1>8, GoTypes DEF Announce, Places, Types
  <2> QED
    BY <1>8, <2>1 DEF TypeOK, Announce, NoFault, tables, session, ghosts
<1>9. CASE CheckPace
  <2>1. poll' \in Polls
    BY <1>9, GoTypes DEF CheckPace, NormalPace, OverPace, UnreadPace, Places, Types
  <2>2. pace' \in Paces
    BY <1>9, PaceTypes DEF CheckPace, NormalPace, OverPace, UnreadPace, TypeOK
  <2>3. log' \in [Types -> 0 .. None] /\ lastPace' \in 0 .. None
    BY <1>9, AlertConstants DEF CheckPace, NormalPace, OverPace, UnreadPace, TypeOK, None
  <2> QED
    BY <1>9, <2>1, <2>2, <2>3
       DEF TypeOK, CheckPace, NormalPace, OverPace, UnreadPace, NoFault, Fault, session
<1>10. CASE CheckThresholds
  <2>1. poll' \in Polls
    BY <1>10, GoTypes DEF CheckThresholds, Alert, Places, Types
  <2> QED
    BY <1>10, <2>1 DEF TypeOK, CheckThresholds, NoFault, Fault, tables, session, ghosts
<1>11. CASE Deliver
  <2>1. poll.type \in Types /\ poll.used \in 0 .. None /\ After(poll.type) \in Places
    BY AfterType, AlertConstants DEF TypeOK, Polls, None
  <2>2. poll' \in Polls
    BY <1>11, <2>1, GoTypes DEF Deliver, Places
  <2> QED
    BY <1>11, <2>1, <2>2 DEF TypeOK, Deliver, NoFault, Fault, tables, session
<1>12. CASE UpsertNotificationLog
  <2>1. poll.type \in Types /\ poll.used \in 0 .. None /\ After(poll.type) \in Places
    BY AfterType, AlertConstants DEF TypeOK, Polls, None
  <2>2. poll' \in Polls
    BY <1>12, <2>1, GoTypes DEF UpsertNotificationLog
  <2>3. pace' \in Paces
    BY <1>12, PaceTypes DEF UpsertNotificationLog, TypeOK
  <2> QED
    BY <1>12, <2>1, <2>2, <2>3 DEF TypeOK, UpsertNotificationLog, NoFault, Fault, session
<1>13. CASE ReportPoll
  <2>1. poll' \in Polls
    BY <1>13, GoTypes DEF ReportPoll, Places
  <2>2. sm' \in Sessions
    BY <1>13, SessionTypes DEF ReportPoll, CreateSession
  <2>3. OpenTypes /\ faults' \in Nat
    BY <1>13 DEF ReportPoll, CreateSession, CloseSession, KeepSession, NoFault, Fault, TypeOK, SessionsOK
  <2> QED
    BY <1>13, <2>1, <2>2, <2>3 DEF TypeOK, ReportPoll, tables, ghosts
<1>14. CASE StopAgent
  <2>1. sm' \in Sessions
    BY <1>14, SessionTypes DEF StopAgent, TypeOK
  <2>2. OpenTypes /\ faults' \in Nat
    BY <1>14 DEF StopAgent, CloseSession, NoFault, Fault, TypeOK, SessionsOK
  <2> QED
    BY <1>14, <2>1, <2>2 DEF TypeOK, StopAgent, tables, ghosts
<1>15. CASE Restart
  <2>1. poll' \in Polls
    BY <1>15, GoTypes DEF Restart, Places
  <2>2. lost' \in Nat
    BY <1>15 DEF Restart, TypeOK
  <2>3. pace' \in Paces /\ sm' \in Sessions
    BY <1>15, PaceTypes, SessionTypes DEF Restart
  <2> QED
    BY <1>15, <2>1, <2>2, <2>3 DEF TypeOK, Restart, Fault, tables
<1>16. CASE UNCHANGED vars
  BY <1>16 DEF TypeOK, vars, tables, session, ghosts
<1> QED
  BY <1>1, <1>2, <1>3, <1>4, <1>5, <1>6, <1>7, <1>8, <1>9, <1>10, <1>11, <1>12, <1>13,
     <1>14, <1>15, <1>16 DEF Next, PollStep

(* A row of the sessions is open for the session manager's session or was  *)
(* left open by it.                                                        *)
LEMMA StepSessions ==
  ASSUME TypeOK, SessionsOK, [Next]_vars
  PROVE  SessionsOK'
<1>1. CASE ReportPoll
  <2>1. Seen.session = sm.session
    BY DEF Seen, TypeOK, Sessions
  <2>2. sm \in Sessions /\ Seen \in Sessions /\ open \in Nat /\ orphans \in Nat
    BY SessionTypes DEF TypeOK
  <2>3. CASE CreateSession
    <3>1. ~sm.session /\ open = orphans
      BY <2>2, <2>3 DEF CreateSession, SessionsOK
    <3>2. CASE sm' = [Seen EXCEPT !.session = TRUE, !.idle = 0] /\ open' = open + 1
      <4>1. sm'.session
        BY <2>2, <3>2 DEF Sessions
      <4> QED
        BY <2>3, <3>1, <3>2, <4>1 DEF CreateSession, SessionsOK
    <3>3. CASE sm' = [Seen EXCEPT !.idle = 0] /\ open' = open
      <4>1. sm'.session = sm.session
        BY <2>1, <2>2, <3>3 DEF Sessions
      <4> QED
        BY <2>3, <3>1, <3>3, <4>1 DEF CreateSession, SessionsOK
    <3> QED
      BY <2>3, <3>2, <3>3 DEF CreateSession
  <2>4. CASE KeepSession /\ (sm' = Seen \/ \E n \in {0, Quiet} : sm' = [Seen EXCEPT !.idle = n])
    <3>1. sm'.session = sm.session
      BY <2>1, <2>2, <2>4 DEF Sessions
    <3> QED
      BY <2>4, <3>1 DEF KeepSession, SessionsOK
  <2>5. CASE CloseSession /\ sm' = [Seen EXCEPT !.session = FALSE]
    BY <2>1, <2>2, <2>5 DEF CloseSession, SessionsOK, Sessions
  <2> QED
    BY <1>1, <2>3, <2>4, <2>5 DEF ReportPoll
<1>2. CASE StopAgent
  BY <1>2 DEF StopAgent, CloseSession, SessionsOK, TypeOK, Sessions
<1>3. CASE Restart
  BY <1>3 DEF Restart, Fresh, SessionsOK
<1>4. CASE Use \/ Elapse \/ NewPeriod \/ Fetch \/ Store \/ Track \/ Reset \/ Announce
           \/ CheckPace \/ CheckThresholds \/ Deliver \/ UpsertNotificationLog \/ UNCHANGED vars
  BY <1>4 DEF Use, Elapse, NewPeriod, Fetch, Store, Track, Reset, Announce, CheckPace,
              CheckThresholds, Deliver, UpsertNotificationLog, vars, session, SessionsOK
<1> QED
  BY <1>1, <1>2, <1>3, <1>4 DEF Next, PollStep

-----------------------------------------------------------------------------

LEMMA NumberTypes ==
  ASSUME TypeOK
  PROVE  /\ cycle \in Nat /\ seen \in Nat /\ lost \in Nat
         /\ provider.period \in Nat \ {0} /\ provider.used \in Nat
         /\ poll.type \in Types /\ poll.used \in Nat /\ poll.used # None
         /\ \A t \in Types : told[t] \in Nat
BY AlertConstants DEF TypeOK, Polls, None

(* The step of a poll moves its place and leaves what it is about.         *)
LEMMA GoEffect ==
  ASSUME TypeOK, NEW pc \in Places, Go(pc)
  PROVE  /\ poll'.pc = pc /\ poll'.type = poll.type
         /\ poll'.used = poll.used /\ poll'.period = poll.period /\ poll'.failed = poll.failed
BY DEF TypeOK, Polls, Go

LEMMA NoMessage ==
  ASSUME Fetch \/ Restart \/ ReportPoll
  PROVE  poll'.pc \in {"idle", "store"}
<1>1. CASE Fetch
  BY <1>1 DEF Fetch, Idle
<1>2. CASE Restart \/ ReportPoll
  BY <1>2 DEF Restart, ReportPoll, Idle
<1> QED
  BY <1>1, <1>2

LEMMA NotifyEffect ==
  ASSUME TypeOK, NEW type \in Types, Notify(type)
  PROVE  /\ poll'.pc = "send" /\ poll'.type = type
         /\ poll'.used = poll.used /\ poll'.period = poll.period /\ poll'.failed = poll.failed
BY DEF TypeOK, Polls, Notify

LEMMA FailEffect ==
  ASSUME TypeOK, NEW pc \in Places, poll' = [poll EXCEPT !.pc = pc, !.failed = TRUE]
  PROVE  /\ poll'.pc = pc /\ poll'.type = poll.type
         /\ poll'.used = poll.used /\ poll'.period = poll.period /\ poll'.failed
BY DEF TypeOK, Polls

(* The open cycle follows the periods that have been seen.                 *)
LEMMA StepOrder ==
  ASSUME IInv, [Next]_vars
  PROVE  Order'
<1> USE NumberTypes DEF IInv, Order, Row, ResetFailed, BeforeTrack, OldCycle, Thresholds
<1>1. CASE Use \/ Elapse
  BY <1>1 DEF TypeOK, Use, Elapse, tables, session, ghosts
<1>2. CASE NewPeriod
  BY <1>2 DEF NewPeriod, tables, session, ghosts
<1>3. CASE Fetch
  BY <1>3 DEF Fetch, At, Idle, tables, session
<1>4. CASE Store
  <2>1. poll'.pc \in {"track", "idle"} /\ (poll'.pc # "idle" => poll'.period = poll.period)
    BY <1>4, GoEffect DEF Store, Places, Idle
  <2> QED
    BY <1>4, <2>1 DEF Store, At, tables, session, ghosts
<1>5. CASE Track
  <2>1. poll'.pc \in {"pace", "reset"} /\ poll'.period = poll.period
    BY <1>5, GoEffect DEF Track, Places
  <2>2. poll'.pc = "reset" => cycle' = poll.period
    BY <1>5, GoEffect DEF Track, Places
  <2>3. poll.period = seen /\ seen > 0 /\ cycle' <= seen /\ cycle' \in Nat
    BY <1>5 DEF Track, At
  <2>4. cycle' \notin {0, seen} => lost' > 0
    BY <1>5, <2>3 DEF Track
  <2> QED
    BY <1>5, <2>1, <2>2, <2>3, <2>4 DEF Track, session
<1>6. CASE Reset
  <2>1. poll'.pc = "announce" /\ poll'.period = poll.period
    BY <1>6, GoEffect DEF Reset, Places
  <2> QED
    BY <1>6, <2>1 DEF Reset, At, session
<1>7. CASE Announce \/ CheckThresholds
  <2>1. poll'.pc \in {"send", "pace", "session"} /\ poll'.period = poll.period
    BY <1>7, GoEffect, NotifyEffect, FailEffect DEF Announce, CheckThresholds, Alert, Places, Types
  <2> QED
    BY <1>7, <2>1 DEF Announce, CheckThresholds, At, tables, session, ghosts
<1>8. CASE CheckPace
  <2>1. poll'.pc \in {"send", "threshold"} /\ poll'.period = poll.period
    BY <1>8, GoEffect, NotifyEffect DEF CheckPace, NormalPace, OverPace, UnreadPace, Places, Types
  <2> QED
    BY <1>8, <2>1 DEF CheckPace, At, session
<1>9. CASE Deliver \/ UpsertNotificationLog
  <2>1. After(poll.type) \in {"pace", "threshold", "session"}
    BY DEF After, Types
  <2>2. poll'.pc \in {"log", "pace", "threshold", "session"} /\ poll'.period = poll.period
    BY <1>9, <2>1, GoEffect, FailEffect DEF Deliver, UpsertNotificationLog, Places
  <2>3. cycle' = cycle /\ seen' = seen /\ lost' \in Nat /\ lost' >= lost /\ provider' = provider
    BY <1>9 DEF Deliver, UpsertNotificationLog, tables, session
  <2>4. poll.pc \in {"send", "log"}
    BY <1>9 DEF Deliver, UpsertNotificationLog, At
  <2> QED
    BY <2>2, <2>3, <2>4
<1>10. CASE ReportPoll
  BY <1>10 DEF ReportPoll, At, Idle, tables, ghosts
<1>11. CASE StopAgent
  BY <1>11 DEF StopAgent, At, tables, ghosts
<1>12. CASE Restart
  BY <1>12 DEF Restart, Idle, tables
<1>13. CASE UNCHANGED vars
  BY <1>13 DEF vars, tables, session, ghosts
<1> QED
  BY <1>1, <1>2, <1>3, <1>4, <1>5, <1>6, <1>7, <1>8, <1>9, <1>10, <1>11, <1>12, <1>13
     DEF Next, PollStep

(* What is on its way to a channel, or to the log.                         *)
LEMMA StepMessages ==
  ASSUME IInv, [Next]_vars
  PROVE  Messages'
<1> USE NumberTypes, AlertConstants DEF IInv, Messages, Row, Thresholds
<1>1. CASE Use \/ Elapse \/ NewPeriod
  BY <1>1 DEF Use, Elapse, NewPeriod, tables, session, ghosts
<1>2. CASE Fetch \/ Restart \/ ReportPoll
  <2>1. poll'.pc \in {"idle", "store"}
    BY <1>2, NoMessage
  <2> QED
    BY <2>1
<1>3. CASE Store
  BY <1>3, GoEffect DEF Store, Places, Idle
<1>4. CASE Track
  BY <1>4, GoEffect DEF Track, Places
<1>5. CASE Reset
  BY <1>5, GoEffect DEF Reset, Places
<1>6. CASE Announce
  <2>1. CASE Go("pace")
    BY <2>1, GoEffect DEF Places
  <2>2. CASE Notify("reset")
    BY <2>2, NotifyEffect DEF Types
  <2> QED
    BY <1>6, <2>1, <2>2 DEF Announce
<1>7. CASE CheckPace
  <2>1. CASE Go("threshold")
    BY <2>1, GoEffect DEF Places
  <2>2. CASE OverPace /\ Notify("very_over")
    <3>1. poll'.pc = "send" /\ poll'.type = "very_over"
      BY <2>2, NotifyEffect DEF Types
    <3>2. Restored \in Paces /\ Restored.known
      BY PaceTypes DEF Restored
    <3>3. pace'.known /\ pace'.veryOver
      BY <2>2, <3>2 DEF OverPace, Paces
    <3> QED
      BY <3>1, <3>3
  <2>3. CASE NormalPace \/ UnreadPace
    BY <2>1, <2>3, Zenon DEF NormalPace, UnreadPace
  <2>4. CASE OverPace
    BY <2>1, <2>2, <2>4, Zenon DEF OverPace
  <2> QED
    BY <1>7, <2>3, <2>4 DEF CheckPace
<1>8. CASE CheckThresholds
  <2>1. poll'.pc = "session" \/ \E t \in Thresholds : Notify(t) /\ ~Row(t)
                                 /\ (t = "critical" => poll.used >= Critical)
                                 /\ (t = "warning" => poll.used \in Warning .. Critical - 1)
    BY <1>8, GoEffect, FailEffect DEF CheckThresholds, Alert, Already, Places
  <2>2. ASSUME NEW t \in Thresholds, Notify(t), ~Row(t),
               t = "critical" => poll.used >= Critical,
               t = "warning" => poll.used \in Warning .. Critical - 1
        PROVE  Messages'
    <3>1. poll'.pc = "send" /\ poll'.type = t /\ poll'.used = poll.used
      BY <2>2, NotifyEffect DEF Types
    <3> QED
      BY <1>8, <2>2, <3>1 DEF CheckThresholds, tables
  <2> QED
    BY <2>1, <2>2
<1>9. CASE Deliver
  <2>1. After(poll.type) \in {"pace", "threshold", "session"}
    BY DEF After, Types
  <2>2. \/ poll'.pc \in {"pace", "threshold", "session"}
        \/ Go("log") /\ told' = [told EXCEPT ![poll.type] = @ + 1]
    BY <1>9, <2>1, FailEffect DEF Deliver, Places
  <2>3. CASE Go("log") /\ told' = [told EXCEPT ![poll.type] = @ + 1]
    <3>1. poll'.pc = "log" /\ poll'.type = poll.type /\ poll'.used = poll.used
      BY <2>3, GoEffect DEF Places
    <3>2. told'[poll.type] > 0
      BY <2>3 DEF TypeOK
    <3> QED
      BY <1>9, <3>1, <3>2 DEF Deliver, At, tables
  <2> QED
    BY <2>2, <2>3
<1>10. CASE UpsertNotificationLog
  <2>1. After(poll.type) \in {"pace", "threshold", "session"}
    BY DEF After, Types
  <2> QED
    BY <1>10, <2>1, GoEffect DEF UpsertNotificationLog, Places
<1>11. CASE StopAgent
  BY <1>11 DEF StopAgent, At, tables, ghosts
<1>12. CASE UNCHANGED vars
  BY <1>12 DEF vars, tables, session, ghosts
<1> QED
  BY <1>1, <1>2, <1>3, <1>4, <1>5, <1>6, <1>7, <1>8, <1>9, <1>10, <1>11, <1>12
     DEF Next, PollStep

(* Between the reset and the end of the poll nothing else disturbs what is *)
(* known of an alert.                                                      *)
Middle == {"announce", "pace", "threshold", "send", "log", "session"}

LEMMA MiddleKeeps ==
  ASSUME IInv, NEW t \in Thresholds, ~Logging(t), ~Logging(t)',
         poll.pc \in Middle, poll'.pc \in Middle, cycle' = cycle, seen' = seen,
         lost' \in Nat, lost' >= lost, told'[t] = told[t], log'[t] = log[t]
  PROVE  Budget(t)' /\ RowOfPeriod(t)'
<1>1. lost \in Nat /\ told[t] \in Nat
  BY NumberTypes DEF IInv, Thresholds, Types
<1>2. Budget(t) /\ RowOfPeriod(t)
  BY DEF IInv, AlertsOK
<1>3. ~BeforeTrack /\ ~BeforeTrack' /\ poll.pc # "reset" /\ poll'.pc # "reset"
  BY DEF Middle, BeforeTrack
<1>4. (OldCycle' <=> OldCycle) /\ (Row(t)' <=> Row(t))
  BY DEF OldCycle, Row
<1> QED
  BY <1>1, <1>2, <1>3, <1>4 DEF Budget, RowOfPeriod, ResetAhead, ResetFailed

LEMMA StepAlerts ==
  ASSUME IInv, [Next]_vars
  PROVE  AlertsOK'
<1> SUFFICES ASSUME NEW t \in Thresholds
             PROVE  Budget(t)' /\ RowOfPeriod(t)'
  BY DEF AlertsOK
<1>a. /\ cycle \in Nat /\ seen \in Nat /\ lost \in Nat /\ told[t] \in Nat /\ TypeOK
      /\ t \in Types /\ log \in [Types -> 0 .. None] /\ told \in [Types -> Nat]
  BY NumberTypes DEF IInv, TypeOK, Thresholds, Types
<1>b. Budget(t) /\ RowOfPeriod(t) /\ Order /\ Messages
  BY DEF IInv, AlertsOK
<1> DEFINE Same == /\ cycle' = cycle /\ seen' = seen /\ lost' = lost
                   /\ told'[t] = told[t] /\ log'[t] = log[t]
<1>1. CASE Use \/ Elapse \/ NewPeriod \/ StopAgent \/ UNCHANGED vars
  <2>1. Same /\ poll' = poll
    BY <1>1 DEF Use, Elapse, NewPeriod, StopAgent, vars, tables, session, ghosts
  <2> QED
    BY <1>b, <2>1 DEF Budget, RowOfPeriod, ResetAhead, ResetFailed, BeforeTrack, OldCycle, Row,
                      Logging
<1>2. CASE Fetch
  <2>1. poll.pc = "idle" /\ poll'.pc = "store" /\ cycle' = cycle /\ log' = log
    BY <1>2 DEF Fetch, At, Idle, tables
  <2>2. CASE seen' = seen
    BY <1>2, <1>b, <2>1, <2>2
       DEF Fetch, Budget, RowOfPeriod, ResetAhead, ResetFailed, BeforeTrack, OldCycle, Row, Logging
  <2>3. CASE seen' # seen
    <3>1. told'[t] = 0 /\ lost' = IF cycle = 0 /\ seen # 0 THEN 1 ELSE 0
      BY <1>2, <1>a, <2>3 DEF Fetch, Nothing
    <3>2. cycle <= seen /\ seen < seen' /\ (seen = 0 => ~Row(t))
      BY <1>2, <1>a, <1>b, <2>3, NumberTypes DEF Fetch, Order
    <3> QED
      BY <1>a, <2>1, <3>1, <3>2
         DEF Budget, RowOfPeriod, ResetAhead, ResetFailed, BeforeTrack, OldCycle, Row, Logging
  <2> QED
    BY <2>2, <2>3
<1>3. CASE Store
  <2>1. Same /\ poll.pc = "store" /\ poll'.pc \in {"track", "idle"}
    BY <1>3, <1>a, GoEffect DEF Store, At, Places, Idle, tables, session, ghosts
  <2> QED
    BY <1>a, <1>b, <2>1
       DEF Budget, RowOfPeriod, ResetAhead, ResetFailed, BeforeTrack, OldCycle, Row, Logging
<1>4. CASE Track
  <2>1. /\ poll.pc = "track" /\ poll'.pc \in {"pace", "reset"}
        /\ seen' = seen /\ told' = told /\ log' = log /\ poll.period = seen
    BY <1>4, <1>a, <1>b, GoEffect DEF Track, At, Places, Order
  <2>2. \/ cycle \in {0, seen} /\ cycle' \in {0, seen} /\ lost' = lost /\ poll'.pc = "pace"
        \/ cycle \notin {0, seen} /\ cycle' = seen /\ lost' = lost /\ poll'.pc = "reset"
        \/ cycle \notin {0, seen} /\ lost' = lost + 1 /\ poll'.pc = "pace"
    BY <1>4, <1>a, <2>1, GoEffect DEF Track, Places
  <2> QED
    BY <1>a, <1>b, <2>1, <2>2
       DEF Budget, RowOfPeriod, ResetAhead, ResetFailed, BeforeTrack, OldCycle, Row, Logging
<1>5. CASE Reset
  <2>1. /\ poll.pc = "reset" /\ poll'.pc = "announce" /\ cycle' = cycle /\ cycle = seen
        /\ seen' = seen /\ told' = told
    BY <1>5, <1>a, <1>b, GoEffect DEF Reset, At, Places, Order
  <2>2. \/ log'[t] = None /\ lost' = lost
        \/ log' = log /\ lost' = lost + 1
    <3>1. t # "reset" /\ ClearNotificationLog[t] = None
      BY <1>a DEF ClearNotificationLog, Thresholds
    <3> QED
      BY <1>5, <3>1 DEF Reset
  <2> QED
    BY <1>a, <1>b, <2>1, <2>2
       DEF Budget, RowOfPeriod, ResetAhead, ResetFailed, BeforeTrack, OldCycle, Row, Logging
<1>6. CASE Announce
  <2>1. Same /\ poll.pc = "announce" /\ poll'.pc \in {"pace", "send"}
    BY <1>6, <1>a, GoEffect, NotifyEffect
       DEF Announce, At, Places, Types, tables, session, ghosts
  <2> QED
    BY <1>a, <2>1, MiddleKeeps DEF Middle, Logging
<1>7. CASE CheckPace
  <2>1. Go("threshold") \/ Notify("very_over")
    BY <1>7, Zenon DEF CheckPace, NormalPace, OverPace, UnreadPace
  <2>2. poll'.pc \in {"threshold", "send"}
    BY <1>a, <2>1, GoEffect, NotifyEffect DEF Places, Types
  <2>3. Same /\ poll.pc = "pace"
    BY <1>7, <1>a DEF CheckPace, NormalPace, OverPace, UnreadPace, At, Thresholds
  <2> QED
    BY <1>a, <2>2, <2>3, MiddleKeeps DEF Middle, Logging
<1>8. CASE CheckThresholds
  <2>1. poll'.pc \in {"session", "send"}
    BY <1>8, <1>a, GoEffect, NotifyEffect, FailEffect DEF CheckThresholds, Alert, Places, Types
  <2>2. Same /\ poll.pc = "threshold"
    BY <1>8 DEF CheckThresholds, At, tables, ghosts
  <2> QED
    BY <1>a, <2>1, <2>2, MiddleKeeps DEF Middle, Logging
<1>9. CASE Deliver
  <2>1. /\ poll.pc = "send" /\ cycle' = cycle /\ log' = log /\ seen' = seen /\ lost' = lost
        /\ poll.type \in Types
    BY <1>9, <1>a, NumberTypes DEF Deliver, At, tables
  <2>2. CASE Go("log") /\ told' = [told EXCEPT ![poll.type] = @ + 1]
    <3>1. poll'.pc = "log" /\ poll'.type = poll.type
      BY <1>a, <2>2, GoEffect DEF Places
    <3>2. CASE poll.type = t
      <4>1. ~Row(t) /\ told'[t] = told[t] + 1
        BY <1>a, <1>b, <2>1, <2>2, <3>2 DEF Messages
      <4>2. told[t] <= lost /\ (OldCycle => told[t] + 1 <= lost)
        BY <1>b, <2>1, <4>1 DEF Budget, Logging, ResetFailed, BeforeTrack
      <4> QED
        BY <1>a, <2>1, <3>1, <3>2, <4>1, <4>2
           DEF Budget, RowOfPeriod, ResetAhead, ResetFailed, BeforeTrack, OldCycle, Row, Logging
    <3>3. CASE poll.type # t
      <4>1. told'[t] = told[t]
        BY <1>a, <2>2, <3>3
      <4> QED
        BY <1>a, <2>1, <3>1, <3>3, <4>1, MiddleKeeps DEF Middle, Logging
    <3> QED
      BY <3>2, <3>3
  <2>3. CASE told' = told /\ poll' = [poll EXCEPT !.pc = After(poll.type), !.failed = TRUE]
    <3>1. poll'.pc \in {"pace", "threshold", "session"}
      BY <1>a, <2>1, <2>3, AfterType, FailEffect DEF After
    <3> QED
      BY <1>a, <2>1, <2>3, <3>1, MiddleKeeps DEF Middle, Logging
  <2> QED
    BY <1>9, <2>2, <2>3 DEF Deliver
<1>10. CASE UpsertNotificationLog
  <2>1. /\ poll.pc = "log" /\ cycle' = cycle /\ told' = told /\ seen' = seen
        /\ poll.type \in Types /\ poll.used # None
    BY <1>10, <1>a, NumberTypes DEF UpsertNotificationLog, At
  <2>2. poll'.pc \in {"pace", "threshold", "session"}
    BY <1>10, <1>a, <2>1, AfterType, GoEffect DEF UpsertNotificationLog, After
  <2>3. \/ log' = [log EXCEPT ![poll.type] = poll.used] /\ lost' = lost
        \/ log' = log /\ lost' = lost + 1
    BY <1>10 DEF UpsertNotificationLog
  <2>4. CASE poll.type = t
    <3>1. \/ Row(t)' /\ lost' = lost
          \/ lost' = lost + 1
      BY <1>a, <2>1, <2>3, <2>4 DEF Row
    <3>2. told[t] > 0
      BY <1>b, <2>1, <2>4 DEF Messages
    <3> QED
      BY <1>a, <1>b, <2>1, <2>2, <2>4, <3>1, <3>2
         DEF Budget, RowOfPeriod, ResetAhead, ResetFailed, BeforeTrack, OldCycle, Logging
  <2>5. CASE poll.type # t
    <3>1. log'[t] = log[t] /\ lost' \in Nat /\ lost' >= lost
      BY <1>a, <2>3, <2>5
    <3> QED
      BY <1>a, <2>1, <2>2, <2>5, <3>1, MiddleKeeps DEF Middle, Logging
  <2> QED
    BY <2>4, <2>5
<1>11. CASE ReportPoll
  <2>1. Same /\ poll.pc = "session" /\ poll'.pc = "idle"
    BY <1>11 DEF ReportPoll, At, Idle, tables, ghosts
  <2> QED
    BY <1>a, <1>b, <2>1
       DEF Budget, RowOfPeriod, ResetAhead, ResetFailed, BeforeTrack, OldCycle, Row, Logging, Order
<1>12. CASE Restart
  <2>1. /\ cycle' = cycle /\ log' = log /\ seen' = seen /\ told' = told /\ poll'.pc = "idle"
        /\ lost' = IF poll.pc \in {"reset", "log"} THEN lost + 1 ELSE lost
    BY <1>12 DEF Restart, Idle, tables
  <2> QED
    BY <1>a, <1>b, <2>1
       DEF Budget, RowOfPeriod, ResetAhead, ResetFailed, BeforeTrack, OldCycle, Row, Logging, Order
<1> QED
  BY <1>1, <1>2, <1>3, <1>4, <1>5, <1>6, <1>7, <1>8, <1>9, <1>10, <1>11, <1>12
     DEF Next, PollStep

(* At the end of a poll the row of the threshold it has reached is there,  *)
(* or was written by it.                                                   *)
LEMMA StepPeriod ==
  ASSUME IInv, [Next]_vars
  PROVE  PeriodIsAlerted'
<1> SUFFICES ASSUME poll'.pc = "session", lost' = 0, ~poll'.failed
             PROVE  /\ poll'.used >= Critical => told'["critical"] > 0
                    /\ poll'.used \in Warning .. Critical - 1 => told'["warning"] > 0
  BY DEF PeriodIsAlerted, At
<1>a. TypeOK /\ Messages /\ AlertsOK /\ PeriodIsAlerted
  BY DEF IInv
<1>b. lost \in Nat /\ poll.type \in Types /\ poll.used \in Nat /\ told \in [Types -> Nat]
  BY <1>a, NumberTypes DEF TypeOK
<1>1. CASE CheckThresholds
  <2>1. poll.pc = "threshold" /\ told' = told /\ lost = 0
    BY <1>1 DEF CheckThresholds, At, ghosts
  <2>2. \A type \in Types : Alert(type) => Row(type) /\ poll'.used = poll.used
    BY <1>a, GoEffect, NotifyEffect DEF Alert, Already, Row, Places
  <2>3. \A type \in Thresholds : Row(type) => told[type] > 0
    BY <1>a, <2>1 DEF AlertsOK, RowOfPeriod, ResetAhead, BeforeTrack
  <2>4. CASE poll.used >= Critical /\ Alert("critical")
    BY <1>b, <2>1, <2>2, <2>3, <2>4, AlertConstants DEF Types, Thresholds
  <2>5. CASE poll.used \in Warning .. Critical - 1 /\ Alert("warning")
    BY <1>b, <2>1, <2>2, <2>3, <2>5, AlertConstants DEF Types, Thresholds
  <2>6. CASE poll.used < Warning /\ Go("session")
    BY <1>a, <1>b, <2>6, GoEffect, AlertConstants DEF Places
  <2>7. ~(poll' = [poll EXCEPT !.pc = "session", !.failed = TRUE])
    BY <1>a, FailEffect DEF Places
  <2> QED
    BY <1>1, <2>4, <2>5, <2>6, <2>7 DEF CheckThresholds
<1>2. CASE UpsertNotificationLog
  <2>1. poll.pc = "log" /\ told' = told /\ poll'.used = poll.used /\ After(poll.type) = "session"
    BY <1>2, <1>a, <1>b, AfterType, GoEffect DEF UpsertNotificationLog, At
  <2>2. poll.type \in Thresholds
    BY <1>b, <2>1 DEF After, Types, Thresholds
  <2> QED
    BY <1>a, <1>b, <2>1, <2>2, AlertConstants DEF Messages, Thresholds
<1>3. CASE Deliver
  <2>1. /\ Go("log") => poll'.pc = "log"
        /\ poll' = [poll EXCEPT !.pc = After(poll.type), !.failed = TRUE] => poll'.failed
    BY <1>a, <1>b, AfterType, GoEffect, FailEffect DEF Places
  <2> QED
    BY <1>3, <2>1 DEF Deliver
<1>4. CASE Fetch \/ Restart \/ ReportPoll
  BY <1>4, NoMessage
<1>5. CASE Store \/ Track \/ Reset
  BY <1>5, <1>a, GoEffect DEF Store, Track, Reset, Places, Idle
<1>6. CASE Announce \/ CheckPace
  <2>1. Go("pace") \/ Go("threshold") \/ Notify("reset") \/ Notify("very_over")
    BY <1>6, Zenon DEF Announce, CheckPace, NormalPace, OverPace, UnreadPace
  <2> QED
    BY <1>a, <2>1, GoEffect, NotifyEffect DEF Places, Types
<1>7. CASE Use \/ Elapse \/ NewPeriod \/ StopAgent \/ UNCHANGED vars
  <2>1. poll' = poll /\ lost' = lost /\ told' = told
    BY <1>7 DEF Use, Elapse, NewPeriod, StopAgent, vars, ghosts
  <2> QED
    BY <1>a, <2>1 DEF PeriodIsAlerted, At
<1> QED
  BY <1>1, <1>2, <1>3, <1>4, <1>5, <1>6, <1>7 DEF Next, PollStep

(* The last pace alert stays in the log until the pace is normal again or  *)
(* the period ends, and the engine never remembers anything else of it.    *)
LEMMA StepPace ==
  ASSUME IInv, [Next]_vars
  PROVE  PaceOK' /\ PaceSpaced'
<1> SUFFICES ASSUME lost' = 0, lastPace' # None
             PROVE  PaceOK' /\ PaceSpaced'
  BY DEF PaceOK, PaceSpaced, None
<1>a. TypeOK /\ Order /\ Messages /\ PaceOK /\ PaceSpaced
  BY DEF IInv
<1>b. /\ lost \in Nat /\ cycle \in Nat /\ seen \in Nat /\ lastPace \in 0 .. None
      /\ poll.type \in Types /\ poll.used \in Nat /\ log \in [Types -> 0 .. None]
  BY <1>a, NumberTypes DEF TypeOK
<1>c. lost' = lost /\ lastPace' = lastPace /\ lost = 0 =>
        /\ ~ResetAhead /\ ~ResetFailed
        /\ Logging("very_over") => lastPace = poll.used
        /\ ~Logging("very_over") =>
              /\ log["very_over"] = lastPace
              /\ pace.known => pace.veryOver /\ pace.hasAlert /\ pace.last = lastPace
  BY <1>a DEF PaceOK, Order
<1> DEFINE Same == /\ cycle' = cycle /\ seen' = seen /\ lost' = lost /\ lastPace' = lastPace
                   /\ log' = log /\ pace' = pace
<1>1. CASE Use \/ Elapse \/ NewPeriod \/ StopAgent \/ UNCHANGED vars
  <2>1. Same /\ poll' = poll
    BY <1>1 DEF Use, Elapse, NewPeriod, StopAgent, vars, tables, session, ghosts
  <2> QED
    BY <1>a, <2>1 DEF PaceOK, PaceSpaced, ResetAhead, BeforeTrack, OldCycle, Logging, At
<1>2. CASE Fetch
  <2>1. /\ poll.pc = "idle" /\ poll'.pc = "store" /\ cycle' = cycle /\ log' = log /\ pace' = pace
        /\ seen' = seen /\ lost' = lost /\ lastPace' = lastPace
    BY <1>2 DEF Fetch, At, Idle, tables
  <2> QED
    BY <1>c, <2>1 DEF PaceOK, PaceSpaced, ResetAhead, BeforeTrack, OldCycle, Logging, At
<1>3. CASE Store
  <2>1. Same /\ poll.pc = "store" /\ poll'.pc \in {"track", "idle"}
    BY <1>3, <1>a, GoEffect DEF Store, At, Places, Idle, tables, session, ghosts
  <2> QED
    BY <1>c, <2>1 DEF PaceOK, PaceSpaced, ResetAhead, BeforeTrack, OldCycle, Logging, At
<1>4. CASE Track
  <2>1. /\ poll.pc = "track" /\ poll.period = seen /\ seen' = seen /\ log' = log /\ pace' = pace
        /\ lastPace' = lastPace /\ lost' = lost
    BY <1>4, <1>a, <1>b DEF Track, At, Order
  <2>2. cycle \in {0, seen}
    BY <1>b, <1>c, <2>1 DEF ResetAhead, BeforeTrack, OldCycle
  <2>3. poll'.pc = "pace"
    BY <1>4, <1>a, <2>1, <2>2, GoEffect DEF Track, Places
  <2> QED
    BY <1>c, <2>1, <2>3 DEF PaceOK, PaceSpaced, ResetAhead, BeforeTrack, Logging, At
<1>5. CASE Reset
  BY <1>5, <1>b, <1>c DEF Reset, At, ResetAhead
<1>6. CASE Announce \/ CheckThresholds
  <2>1. /\ Same /\ poll.pc \in {"announce", "threshold"} /\ poll'.pc \in {"pace", "send", "session"}
        /\ poll'.pc = "send" => poll'.type # "very_over"
    BY <1>6, <1>a, GoEffect, NotifyEffect, FailEffect
       DEF Announce, CheckThresholds, Alert, At, Places, Types, tables, session, ghosts
  <2> QED
    BY <1>c, <2>1 DEF PaceOK, PaceSpaced, ResetAhead, BeforeTrack, Logging, At
<1>7. CASE CheckPace
  <2>1. ~NormalPace
    BY DEF NormalPace
  <2>2. /\ poll.pc = "pace" /\ cycle' = cycle /\ seen' = seen /\ lost' = lost
        /\ lastPace' = lastPace /\ log' = log
    BY <1>7, <2>1 DEF CheckPace, OverPace, UnreadPace, At
  <2>3. /\ log["very_over"] = lastPace /\ lastPace # None
        /\ pace.known => pace.veryOver /\ pace.hasAlert /\ pace.last = lastPace
    BY <1>c, <2>2 DEF Logging
  <2>4. CASE UnreadPace
    <3>1. poll'.pc = "threshold" /\ pace' = pace
      BY <1>a, <2>4, GoEffect DEF UnreadPace, Places
    <3> QED
      BY <2>2, <2>3, <3>1 DEF PaceOK, PaceSpaced, ResetAhead, BeforeTrack, Logging, At
  <2>5. CASE OverPace
    <3>1. Restored.known /\ Restored.veryOver /\ Restored.hasAlert /\ Restored.last = lastPace
      BY <2>3 DEF Restored
    <3>2. pace'.veryOver /\ pace'.hasAlert /\ pace'.last = lastPace
      BY <1>a, <2>5, <3>1, PaceTypes DEF OverPace, Paces
    <3>3. CASE Go("threshold")
      <4>1. poll'.pc = "threshold"
        BY <1>a, <3>3, GoEffect DEF Places
      <4> QED
        BY <2>2, <2>3, <3>2, <4>1 DEF PaceOK, PaceSpaced, ResetAhead, BeforeTrack, Logging, At
    <3>4. CASE ShouldSend(Restored) /\ Notify("very_over")
      <4>1. poll'.pc = "send" /\ poll'.type = "very_over" /\ poll'.used = poll.used
        BY <1>a, <3>4, NotifyEffect DEF Types
      <4>2. poll.used >= lastPace + Repeat
        BY <3>1, <3>4 DEF ShouldSend
      <4> QED
        BY <2>2, <2>3, <3>2, <4>1, <4>2
           DEF PaceOK, PaceSpaced, ResetAhead, BeforeTrack, Logging, At
    <3> QED
      BY <2>5, <3>3, <3>4 DEF OverPace
  <2> QED
    BY <1>7, <2>1, <2>4, <2>5 DEF CheckPace
<1>8. CASE Deliver
  <2>1. /\ poll.pc = "send" /\ cycle' = cycle /\ log' = log /\ seen' = seen /\ lost' = lost
        /\ pace' = pace
    BY <1>8 DEF Deliver, At, tables
  <2>2. poll'.pc # "send" /\ poll'.pc \in Middle /\ (poll'.pc = "log" => Go("log"))
    BY <1>8, <1>a, <1>b, AfterType, GoEffect, FailEffect DEF Deliver, Places, Middle, After
  <2>3. ~ResetAhead'
    <3>1. ~OldCycle
      BY <1>a, <1>b, <2>1 DEF Order, ResetFailed, BeforeTrack
    <3> QED
      BY <2>1, <2>2, <3>1 DEF ResetAhead, BeforeTrack, OldCycle, Middle
  <2>4. CASE Go("log") /\ poll.type = "very_over" /\ lastPace' = poll.used
    <3>1. poll'.pc = "log" /\ poll'.type = "very_over" /\ poll'.used = poll.used
      BY <1>a, <2>4, GoEffect DEF Places
    <3> QED
      BY <2>1, <2>3, <2>4, <3>1 DEF PaceOK, PaceSpaced, Logging, At
  <2>5. CASE lastPace' = lastPace /\ ~Logging("very_over")'
    BY <1>c, <2>1, <2>2, <2>3, <2>5 DEF PaceOK, PaceSpaced, Logging, At
  <2>6. \/ Go("log") /\ poll.type = "very_over" /\ lastPace' = poll.used
        \/ lastPace' = lastPace /\ ~Logging("very_over")'
    BY <1>8, <1>a, <1>b, AfterType, GoEffect, FailEffect DEF Deliver, Logging, Places, After
  <2> QED
    BY <2>4, <2>5, <2>6
<1>9. CASE UpsertNotificationLog
  <2>1. /\ poll.pc = "log" /\ cycle' = cycle /\ seen' = seen /\ lastPace' = lastPace
        /\ lost' = lost /\ log' = [log EXCEPT ![poll.type] = poll.used]
    BY <1>9, <1>b DEF UpsertNotificationLog, At
  <2>2. poll'.pc \in {"pace", "threshold", "session"}
    BY <1>9, <1>a, <1>b, AfterType, GoEffect DEF UpsertNotificationLog, After
  <2>3. ~ResetAhead'
    BY <1>b, <1>c, <2>1, <2>2 DEF ResetAhead, ResetFailed, BeforeTrack, OldCycle
  <2>4. log'["very_over"] = lastPace
    BY <1>b, <1>c, <2>1 DEF Logging, Types
  <2>5. pace'.known => pace'.veryOver /\ pace'.hasAlert /\ pace'.last = lastPace
    <3>1. CASE poll.type = "very_over"
      <4>1. pace.known /\ pace.veryOver /\ lastPace = poll.used /\ pace \in Paces
        BY <1>a, <1>c, <2>1, <3>1 DEF Messages, Logging, TypeOK
      <4>2. pace' = [pace EXCEPT !.hasAlert = TRUE, !.last = poll.used]
        BY <1>9, <3>1 DEF UpsertNotificationLog
      <4> QED
        BY <4>1, <4>2 DEF Paces
    <3>2. CASE poll.type # "very_over"
      BY <1>9, <1>c, <2>1, <3>2 DEF UpsertNotificationLog, Logging
    <3> QED
      BY <3>1, <3>2
  <2> QED
    BY <2>1, <2>2, <2>3, <2>4, <2>5 DEF PaceOK, PaceSpaced, Logging, At
<1>10. CASE ReportPoll
  <2>1. Same /\ poll.pc = "session" /\ poll'.pc = "idle"
    BY <1>10 DEF ReportPoll, At, Idle, tables, ghosts
  <2> QED
    BY <1>c, <2>1
       DEF PaceOK, PaceSpaced, ResetAhead, ResetFailed, BeforeTrack, OldCycle, Logging, At
<1>11. CASE Restart
  <2>1. /\ cycle' = cycle /\ log' = log /\ seen' = seen /\ poll'.pc = "idle" /\ ~pace'.known
        /\ lastPace' = lastPace /\ lost' = lost /\ poll.pc \notin {"reset", "log"}
    BY <1>11, <1>b DEF Restart, Idle, Unknown, tables
  <2> QED
    BY <1>c, <2>1
       DEF PaceOK, PaceSpaced, ResetAhead, ResetFailed, BeforeTrack, OldCycle, Logging, At
<1> QED
  BY <1>1, <1>2, <1>3, <1>4, <1>5, <1>6, <1>7, <1>8, <1>9, <1>10, <1>11 DEF Next, PollStep

-----------------------------------------------------------------------------

LEMMA Initially == Init => IInv
<1> SUFFICES ASSUME Init PROVE IInv
  OBVIOUS
<1>1. TypeOK
  BY InitTypes
<1>2. lastPace = None /\ lost = 0 /\ poll.pc = "idle" /\ cycle = 0
  BY DEF Init, Idle
<1>3. SessionsOK /\ Order /\ Messages
  BY AlertConstants, NumberTypes, <1>1
     DEF Init, Idle, Fresh, SessionsOK, Order, Messages, Row, Thresholds, Types,
         ResetFailed, BeforeTrack, OldCycle
<1>4. AlertsOK
  BY DEF Init, Idle, Nothing, AlertsOK, Budget, RowOfPeriod, ResetAhead, ResetFailed,
         BeforeTrack, OldCycle, Row, Logging, Thresholds, Types
<1>5. PeriodIsAlerted /\ PaceOK /\ PaceSpaced
  BY <1>2 DEF PeriodIsAlerted, PaceOK, PaceSpaced, At
<1> QED
  BY <1>1, <1>3, <1>4, <1>5 DEF IInv

LEMMA Inductive == IInv /\ [Next]_vars => IInv'
<1> SUFFICES ASSUME IInv, [Next]_vars PROVE IInv'
  OBVIOUS
<1>1. TypeOK /\ SessionsOK
  BY DEF IInv
<1> QED
  BY <1>1, StepTypes, StepSessions, StepOrder, StepMessages, StepAlerts, StepPeriod, StepPace
     DEF IInv

LEMMA Invariant == Spec => []IInv
BY Initially, Inductive, PTL DEF Spec

(* The poll, the tables, the engine and the session manager keep their     *)
(* types for any thresholds and bounds.                                    *)
THEOREM TypeCorrect == Spec => []TypeOK
<1>1. IInv => TypeOK
  BY DEF IInv
<1> QED
  BY <1>1, Invariant, PTL

(* A warning and a critical alert go out once per period and once more for *)
(* each lost write, however polls, resets, failures and restarts           *)
(* interleave: an alert that is not excused has its row.                   *)
THEOREM OnceCorrect == Spec => []AlertedOnce
<1>1. IInv => AlertedOnce
  BY DEF IInv, AlertsOK, Budget, AlertedOnce, Thresholds
<1> QED
  BY <1>1, Invariant, PTL

(* A poll that has checked a quota above a threshold, and lost no write of *)
(* this period and no delivery, leaves an alert of this period behind.     *)
THEOREM PeriodCorrect == Spec => []PeriodIsAlerted
<1>1. IInv => PeriodIsAlerted
  BY DEF IInv
<1> QED
  BY <1>1, Invariant, PTL

(* Two pace alerts of one overuse are Repeat apart, also over a restart.   *)
THEOREM PaceCorrect == Spec => []PaceSpaced
<1>1. IInv => PaceSpaced
  BY DEF IInv
<1> QED
  BY <1>1, Invariant, PTL

(* An open session row is the session manager's, or one whose end could    *)
(* not be written.                                                         *)
THEOREM SessionsCorrect == Spec => []SessionsOK
<1>1. IInv => SessionsOK
  BY DEF IInv
<1> QED
  BY <1>1, Invariant, PTL
==============================================================================
