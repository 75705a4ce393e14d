---------------------------- MODULE QuotaAlerts ----------------------------
(***************************************************************************)
(* What a poll of an agent (internal/agent) does with the answer of its    *)
(* provider: the snapshot is stored, the tracker opens and closes cycles,  *)
(* a reset clears the notification log (internal/notify, the wiring of     *)
(* main.go), the pace and the thresholds of the quota are checked, alerts  *)
(* are delivered and logged, and the session manager counts the poll.      *)
(*                                                                         *)
(* One quota with a weekly period. Which snapshot belongs to a new period  *)
(* is the trackers' business (module QuotaCycles); here a tracker sees it. *)
(* Every statement of the store and every delivery is a step: it may fail, *)
(* and the process may stop before it.                                     *)
(***************************************************************************)
EXTENDS Naturals

CONSTANTS
  Warning, Critical, \* thresholds of the use
  Over,              \* a quota this far ahead of the time is very over its pace
  Repeat,            \* OveruseRepeatPercent
  IdleTimeout,       \* polls without a change that end a session
  MaxUse, MaxPeriod, MaxElapsed, MaxFaults  \* bounds

ASSUME AlertConstants ==
  /\ Warning \in Nat \ {0} /\ Critical \in Nat /\ Warning < Critical
  /\ Over \in Nat \ {0} /\ Repeat \in Nat \ {0} /\ IdleTimeout \in Nat \ {0}
  /\ MaxUse \in Nat

VARIABLES
  provider, \* [period, used, elapsed]
  cycle,    \* the period of the open cycle, 0 if none is open
  log,      \* notification_log: the use at the last notification of each type, None
  pace,     \* paceStates of this quota in memory
  sm,       \* the session manager
  open,     \* session rows without an end
  poll,
  seen,     \* the period of the last snapshot
  told,     \* alerts delivered for it
  lastPace, \* use at the last pace alert since the pace was last normal
  lost,     \* writes of the alerting that were lost in this period
  orphans,  \* sessions whose end could not be written since the start
  faults

vars == <<provider, cycle, log, pace, sm, open, poll,
          seen, told, lastPace, lost, orphans, faults>>
tables == <<cycle, log>>
session == <<sm, open, orphans>>
ghosts == <<seen, told, lastPace, lost>>

Types == {"warning", "critical", "very_over", "reset"}
None == MaxUse + 1

Unknown == [known |-> FALSE, veryOver |-> FALSE, hasAlert |-> FALSE, last |-> 0]
Fresh == [session |-> FALSE, hasPrev |-> FALSE, prev |-> 0, idle |-> 0]
Idle == [pc |-> "idle", period |-> 0, used |-> 0, type |-> "reset", failed |-> FALSE]
Nothing == [t \in Types |-> 0]

Init ==
  /\ provider = [period |-> 1, used |-> 0, elapsed |-> 0]
  /\ cycle = 0
  /\ log = [t \in Types |-> None]
  /\ pace = Unknown
  /\ sm = Fresh
  /\ open = 0
  /\ poll = Idle
  /\ seen = 0
  /\ told = Nothing
  /\ lastPace = None
  /\ lost = 0
  /\ orphans = 0
  /\ faults = 0

-----------------------------------------------------------------------------
(* The provider. *)

Use ==
  /\ provider.used < MaxUse
  /\ provider' = [provider EXCEPT !.used = @ + 1]
  /\ UNCHANGED <<tables, pace, session, poll, ghosts, faults>>

Elapse ==
  /\ provider.elapsed < MaxElapsed
  /\ provider' = [provider EXCEPT !.elapsed = @ + 1]
  /\ UNCHANGED <<tables, pace, session, poll, ghosts, faults>>

NewPeriod ==
  /\ provider.period < MaxPeriod
  /\ provider' = [period |-> provider.period + 1, used |-> 0, elapsed |-> 0]
  /\ UNCHANGED <<tables, pace, session, poll, ghosts, faults>>

-----------------------------------------------------------------------------

Fault == faults < MaxFaults /\ faults' = faults + 1
NoFault == UNCHANGED faults
At(pc) == poll.pc = pc
Go(pc) == poll' = [poll EXCEPT !.pc = pc]

Fetch ==
  /\ At("idle")
  /\ poll' = [Idle EXCEPT !.pc = "store", !.period = provider.period, !.used = provider.used]
  /\ seen' = provider.period
  /\ IF seen' = seen THEN UNCHANGED <<told, lastPace, lost>>
     ELSE /\ told' = Nothing /\ lastPace' = None
          \* without an open cycle the new one is no reset
          /\ lost' = IF cycle = 0 /\ seen # 0 THEN 1 ELSE 0
  /\ NoFault
  /\ UNCHANGED <<provider, tables, pace, session>>

\* a failed insert ends the poll of some agents; the others go on
Store ==
  /\ At("store")
  /\ \/ Go("track") /\ NoFault
     \/ Go("track") /\ Fault
     \/ poll' = Idle /\ Fault
  /\ UNCHANGED <<provider, tables, pace, session, ghosts>>

\* Process: no open cycle, the open one, or a reset in three statements
Track ==
  /\ At("track")
  /\ \/ /\ cycle \in {0, poll.period} /\ cycle' = poll.period /\ Go("pace")
        /\ NoFault /\ UNCHANGED lost
     \/ /\ cycle = 0 /\ cycle' = 0 /\ Go("pace")
        /\ Fault /\ UNCHANGED lost
     \/ /\ cycle \notin {0, poll.period} /\ cycle' = poll.period /\ Go("reset")
        /\ NoFault /\ UNCHANGED lost
     \/ /\ cycle \notin {0, poll.period} /\ cycle' \in {cycle, 0, poll.period} /\ Go("pace")
        /\ Fault /\ lost' = lost + 1
  /\ UNCHANGED <<provider, log, pace, session, seen, told, lastPace>>

-----------------------------------------------------------------------------
(* Check *)

(* Mutant: the rows of the thresholds survive a reset. *)
ClearNotificationLog_Keep == [log EXCEPT !["very_over"] = None]

ClearNotificationLog == [t \in Types |-> IF t = "reset" THEN log[t] ELSE None]

Reset ==
  /\ At("reset")
  /\ pace' = Unknown
  /\ \/ log' = ClearNotificationLog /\ NoFault /\ UNCHANGED lost
     \/ log' = log /\ Fault /\ lost' = lost + 1
  /\ Go("announce")
  /\ UNCHANGED <<provider, cycle, session, seen, told, lastPace>>

Notify(type) == poll' = [poll EXCEPT !.pc = "send", !.type = type]

\* a reset notification is not repeated within the cooldown
Announce ==
  /\ At("announce")
  /\ \/ Notify("reset")
     \/ log["reset"] # None /\ Go("pace")
  /\ NoFault
  /\ UNCHANGED <<provider, tables, pace, session, ghosts>>

VeryOver == poll.used >= provider.elapsed + Over

\* what the log says of a quota the engine does not remember
Restored ==
  IF pace.known THEN pace
  ELSE [known |-> TRUE, veryOver |-> log["very_over"] # None,
        hasAlert |-> log["very_over"] # None,
        last |-> IF log["very_over"] = None THEN 0 ELSE log["very_over"]]

(* Mutant: an alert restored from the log is sent again. *)
ShouldSend_Known(s) == ~s.veryOver \/ ~pace.known \/ poll.used >= s.last + Repeat

ShouldSend(s) == ~s.veryOver \/ ~s.hasAlert \/ poll.used >= s.last + Repeat

NormalPace ==
  /\ ~VeryOver
  /\ pace' = [Restored EXCEPT !.veryOver = FALSE, !.hasAlert = FALSE, !.last = 0]
  /\ \/ /\ log' = IF Restored.veryOver THEN [log EXCEPT !["very_over"] = None] ELSE log
        /\ NoFault
     \/ Restored.veryOver /\ log' = log /\ Fault
  /\ lastPace' = None
  /\ Go("threshold")

OverPace ==
  /\ VeryOver
  /\ pace' = [Restored EXCEPT !.veryOver = TRUE]
  /\ IF ShouldSend(Restored) THEN Notify("very_over") ELSE Go("threshold")
  /\ NoFault
  /\ UNCHANGED <<log, lastPace>>

\* the log cannot be read: the state stays unknown
UnreadPace ==
  /\ ~pace.known
  /\ Go("threshold")
  /\ Fault
  /\ UNCHANGED <<pace, log, lastPace>>

CheckPace ==
  /\ At("pace")
  /\ NormalPace \/ OverPace \/ UnreadPace
  /\ UNCHANGED <<provider, cycle, session, seen, told, lost>>

(* Mutant: only a warning is remembered. *)
Already_Warning(type) == log[type] # None /\ type = "warning"

Already(type) == log[type] # None

\* sendNotification of a threshold
Alert(type) == IF Already(type) THEN Go("session") ELSE Notify(type)

CheckThresholds ==
  /\ At("threshold")
  /\ \/ poll.used >= Critical /\ Alert("critical") /\ NoFault
     \/ poll.used \in Warning .. Critical - 1 /\ Alert("warning") /\ NoFault
     \/ poll.used < Warning /\ Go("session") /\ NoFault
     \/ poll.used >= Warning /\ poll' = [poll EXCEPT !.pc = "session", !.failed = TRUE] /\ Fault
  /\ UNCHANGED <<provider, tables, pace, session, ghosts>>

After(type) ==
  CASE type = "reset" -> "pace"
    [] type = "very_over" -> "threshold"
    [] OTHER -> "session"

\* a channel accepts the message, or none does
Deliver ==
  /\ At("send")
  /\ \/ /\ told' = [told EXCEPT ![poll.type] = @ + 1]
        /\ lastPace' = IF poll.type = "very_over" THEN poll.used ELSE lastPace
        /\ Go("log")
        /\ NoFault
     \/ /\ poll' = [poll EXCEPT !.pc = After(poll.type), !.failed = TRUE]
        /\ Fault
        /\ UNCHANGED <<told, lastPace>>
  /\ UNCHANGED <<provider, tables, pace, session, seen, lost>>

UpsertNotificationLog ==
  /\ At("log")
  /\ \/ log' = [log EXCEPT ![poll.type] = poll.used] /\ NoFault /\ UNCHANGED lost
     \/ log' = log /\ Fault /\ lost' = lost + 1
  /\ pace' = IF poll.type = "very_over"
             THEN [pace EXCEPT !.hasAlert = TRUE, !.last = poll.used] ELSE pace
  /\ Go(After(poll.type))
  /\ UNCHANGED <<provider, cycle, session, seen, told, lastPace>>

-----------------------------------------------------------------------------
(* ReportPoll *)

\* the end of a session is forgotten also when it could not be written
CloseSession ==
  /\ sm.session
  /\ \/ open' = open - 1 /\ NoFault /\ UNCHANGED orphans
     \/ open' = open /\ Fault /\ orphans' = orphans + 1

KeepSession == NoFault /\ UNCHANGED <<open, orphans>>

(* Mutant: every poll of a session counts as activity. *)
Quiet_Active == 0

\* time without a change, as far as it matters
Quiet == IF sm.idle > IdleTimeout THEN sm.idle ELSE sm.idle + 1

Seen == [sm EXCEPT !.prev = poll.used, !.hasPrev = TRUE]
Changed == sm.hasPrev /\ poll.used # sm.prev

CreateSession ==
  /\ Changed /\ ~sm.session
  /\ \/ sm' = [Seen EXCEPT !.session = TRUE, !.idle = 0] /\ open' = open + 1 /\ NoFault
     \/ sm' = [Seen EXCEPT !.idle = 0] /\ open' = open /\ Fault
  /\ UNCHANGED orphans

ReportPoll ==
  /\ At("session")
  /\ \/ CreateSession
     \/ Changed /\ sm.session /\ sm' = [Seen EXCEPT !.idle = 0] /\ KeepSession
     \/ ~Changed /\ ~sm.session /\ sm' = Seen /\ KeepSession
     \/ ~Changed /\ sm.session /\ Quiet <= IdleTimeout /\ sm' = [Seen EXCEPT !.idle = Quiet]
        /\ KeepSession
     \/ ~Changed /\ Quiet > IdleTimeout /\ CloseSession /\ sm' = [Seen EXCEPT !.session = FALSE]
  /\ poll' = Idle
  /\ UNCHANGED <<provider, tables, pace, ghosts>>

-----------------------------------------------------------------------------

\* the agent is stopped between two polls and started again
StopAgent ==
  /\ At("idle")
  /\ CloseSession /\ sm' = [sm EXCEPT !.session = FALSE]
  /\ UNCHANGED <<provider, tables, pace, poll, ghosts>>

\* the process is killed and started again
Restart ==
  /\ Fault
  /\ poll' = Idle /\ pace' = Unknown /\ sm' = Fresh
  /\ open' = 0 /\ orphans' = 0  \* CloseOrphanedSessions
  /\ lost' = IF poll.pc \in {"reset", "log"} THEN lost + 1 ELSE lost
  /\ UNCHANGED <<provider, tables, seen, told, lastPace>>

PollStep ==
  \/ Fetch \/ Store \/ Track \/ Reset \/ Announce \/ CheckPace \/ CheckThresholds
  \/ Deliver \/ UpsertNotificationLog \/ ReportPoll

Next == PollStep \/ Use \/ Elapse \/ NewPeriod \/ StopAgent \/ Restart

\* the ticker goes on
Spec == Init /\ [][Next]_vars /\ WF_vars(PollStep)

-----------------------------------------------------------------------------

Places == {"idle", "store", "track", "reset", "announce", "pace", "threshold",
           "send", "log", "session"}

Polls == [pc : Places, period : Nat, used : 0 .. MaxUse, type : Types, failed : BOOLEAN]
Paces == [known : BOOLEAN, veryOver : BOOLEAN, hasAlert : BOOLEAN, last : Nat]
Sessions == [session : BOOLEAN, hasPrev : BOOLEAN, prev : 0 .. MaxUse, idle : Nat]

\* Types.
TypeOK ==
  /\ provider \in [period : Nat \ {0}, used : 0 .. MaxUse, elapsed : Nat]
  /\ poll \in Polls /\ pace \in Paces /\ sm \in Sessions
  /\ cycle \in Nat /\ log \in [Types -> 0 .. None]
  /\ open \in Nat /\ orphans \in Nat /\ faults \in Nat
  /\ seen \in Nat /\ told \in [Types -> Nat] /\ lastPace \in 0 .. None /\ lost \in Nat

\* A warning and a critical alert go out at most once per period of the quota,
\* through any restart, and once more for each write that was lost (notify.go:967).
AlertedOnce == \A t \in {"warning", "critical"} : told[t] <= 1 + lost

\* A poll that has checked a quota above a threshold has told so in this period, or
\* an earlier poll has: no row of the last period hides an alert of this one. Only a
\* lost write of the reset and a delivery that fails excuse it.
PeriodIsAlerted ==
  At("session") /\ lost = 0 /\ ~poll.failed =>
    /\ poll.used >= Critical => told["critical"] > 0
    /\ poll.used \in Warning .. Critical - 1 => told["warning"] > 0

\* While a quota stays far over its pace the alerts are Repeat apart, also when the
\* engine has forgotten the last one in a restart.
PaceSpaced ==
  At("send") /\ poll.type = "very_over" /\ lost = 0 /\ lastPace # None =>
    poll.used >= lastPace + Repeat

\* A session ends once nothing is used, and leaves no open row but those whose end
\* could not be written.
SessionEnds == []<>(open = orphans)
=============================================================================
