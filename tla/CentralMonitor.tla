---------------------------- MODULE CentralMonitor ----------------------------
(***************************************************************************)
(* The central quota monitor (central_monitor.go): the owner reads the     *)
(* quota observations the devices have uploaded, keeps a cursor among the  *)
(* settings, and hands every account's newest observation to the trackers  *)
(* and the notification engine.  With the quiet policy the engine sends    *)
(* one message a week at most (internal/notify/quiet_weekly.go), and the   *)
(* owner's own agents call it while the monitor does.                      *)
(*                                                                         *)
(* The accounts here are those of one provider, so that they share one     *)
(* weekly checkpoint; each has a week of its own.  Crashes, failed         *)
(* statements and failed trackers may come anywhere and any number of      *)
(* times: they leave nothing behind that needs a count.                    *)
(***************************************************************************)
EXTENDS Integers, Sequences

CONSTANTS
  Accounts,       \* the accounts of the provider
  LocalAccounts,  \* those the owner's own agents poll as well
  WeekOf,         \* [Accounts -> Nat]: an end of each account's week
  None,           \* no checkpoint, no holder of the mutex
  Week, LateWindow,  \* weeklyPaceWindow, underuseNotificationWindow
  Fresh, Early,   \* an observation is live from Early before now to Fresh after
  Skew,           \* ingest.MaxFutureClockSkew
  Delay,          \* the longest a modelled upload is late
  MaxTime, MaxRows   \* bounds of the model

Callers == {"central", "local"}
Idle == [pc |-> "none"]

ASSUME WeekAssumption ==
  /\ Week \in Nat \ {0} /\ LateWindow \in Nat /\ LateWindow < Week
  /\ WeekOf \in [Accounts -> Int]
  /\ LocalAccounts \subseteq Accounts

ASSUME NoneAssumption == None \notin Callers /\ None \notin [cycle : Int, attempted : Int]

ASSUME TimeAssumption == {MaxTime, Fresh, Early, Skew, Delay} \subseteq Nat

VARIABLES
  now,
  rows,      \* central_quota_snapshots in the order of the ids: [account, captured]
  cursor,    \* the setting central_quota_monitor_cursor
  monitor,   \* [pc, at, batch]: the ids still to handle, at the loop's time
  call,      \* [Callers -> a checkQuietWeekly call]
  weekly,    \* the setting quiet_weekly_underuse: [cycle, attempted]
  weeklyMu,  \* the caller that holds the mutex
  handled,   \* [Accounts -> the observation last handled, 0 for none]
  messages   \* the weekly messages: [cycle, at]

vars == <<now, rows, cursor, monitor, call, weekly, weeklyMu, handled, messages>>

-----------------------------------------------------------------------------
(* The table of observations.                                              *)

Ids == 1 .. Len(rows)

Newer(i, j) == \/ rows[i].captured > rows[j].captured
               \/ rows[i].captured = rows[j].captured /\ i > j

Newest(i) == ~\E j \in Ids : rows[j].account = rows[i].account /\ Newer(j, i)

(* Mutant: what an offline device sends late replaces the current state. *)
CentralQuotaObservations_Late(after) == {i \in Ids : i > after}

CentralQuotaObservations(after) == {i \in Ids : i > after /\ Newest(i)}

InDate(i, at) == LET age == at - rows[i].captured IN -Early <= age /\ age <= Fresh

\* a device uploads an observation, late or with its clock ahead
Upload(a, captured) ==
  /\ Len(rows) < MaxRows
  /\ captured \in now - Delay .. now + Skew
  /\ rows' = Append(rows, [account |-> a, captured |-> captured])
  /\ UNCHANGED <<now, cursor, monitor, call, weekly, weeklyMu, handled, messages>>

Tick ==
  /\ now < MaxTime
  /\ now' = now + 1
  /\ UNCHANGED <<rows, cursor, monitor, call, weekly, weeklyMu, handled, messages>>

-----------------------------------------------------------------------------
(* checkQuietWeekly: the call reads the clock, waits for the mutex, reads  *)
(* the checkpoint, claims it and only then delivers.                       *)

WeekEnd(a, t) == t + Week - ((t - WeekOf[a]) % Week)

AtHalf(resets, t) ==
  LET midpoint == resets - Week \div 2 IN midpoint <= t /\ t - midpoint <= LateWindow

\* the guards before the mutex: a use of half and more, a point outside the window
CheckQuietWeekly(c, resets, low) ==
  call' = [call EXCEPT ![c] = IF low /\ AtHalf(resets, now)
                              THEN [pc |-> "wait", at |-> now, resets |-> resets]
                              ELSE Idle]

Lock(c) ==
  /\ call[c].pc = "wait"
  /\ weeklyMu = None
  /\ weeklyMu' = c
  /\ call' = [call EXCEPT ![c].pc = "read"]
  /\ UNCHANGED <<now, rows, cursor, monitor, weekly, handled, messages>>

(* Mutant: only the same week is refused. *)
Due_SameWeekOnly(previous, at, resets) == previous # None => previous.cycle # resets

Due(previous, at, resets) ==
  previous # None => previous.cycle # resets /\ at - previous.attempted >= Week

Return(c) ==
  /\ weeklyMu' = None
  /\ call' = [call EXCEPT ![c] = Idle]

\* GetSetting: an unreadable checkpoint sends nothing
Read(c) ==
  /\ call[c].pc = "read"
  /\ \/ Return(c)
     \/ /\ Due(weekly, call[c].at, call[c].resets)
        /\ call' = [call EXCEPT ![c].pc = "claim"]
        /\ UNCHANGED weeklyMu
  /\ UNCHANGED <<now, rows, cursor, monitor, weekly, handled, messages>>

Claim(c) ==
  /\ call[c].pc = "claim"
  /\ \/ /\ weekly' = [cycle |-> call[c].resets, attempted |-> call[c].at]
        /\ call' = [call EXCEPT ![c].pc = "send"]
        /\ UNCHANGED weeklyMu
     \/ Return(c) /\ UNCHANGED weekly
  /\ UNCHANGED <<now, rows, cursor, monitor, handled, messages>>

\* whether the channels deliver is not known: the message counts either way
Send(c) ==
  /\ call[c].pc = "send"
  /\ messages' = Append(messages, [cycle |-> call[c].resets, at |-> call[c].at])
  /\ Return(c)
  /\ UNCHANGED <<now, rows, cursor, monitor, weekly, handled>>

\* an agent of the owner itself has polled an account
LocalCheck(a) ==
  /\ call["local"] = Idle
  /\ CheckQuietWeekly("local", WeekEnd(a, now), TRUE)
  /\ UNCHANGED <<now, rows, cursor, monitor, weekly, weeklyMu, handled, messages>>

-----------------------------------------------------------------------------
(* The loop of the monitor.                                                *)

Sleeping == [pc |-> "sleep", at |-> 0, batch |-> {}]
Current == CHOOSE i \in monitor.batch : \A j \in monitor.batch : i <= j

Continue(batch, at) == IF batch = {} THEN Sleeping
                       ELSE [pc |-> "judge", at |-> at, batch |-> batch]

\* the clock, the cursor and the batch in the order of the ids, which the limit of the
\* query may cut anywhere; an error of either query changes nothing
Wake ==
  /\ monitor.pc = "sleep"
  /\ LET found == CentralQuotaObservations(cursor)
     IN  \E last \in found : monitor' = Continue({i \in found : i <= last}, now)
  /\ UNCHANGED <<now, rows, cursor, call, weekly, weeklyMu, handled, messages>>

Done == handled' = [handled EXCEPT ![rows[Current].account] = Current]

\* an observation out of date is passed over; the trackers may fail
Judge ==
  /\ monitor.pc = "judge"
  /\ IF InDate(Current, monitor.at)
     THEN /\ UNCHANGED handled
          /\ \/ monitor' = [monitor EXCEPT !.pc = "check"]
             \/ monitor' = Sleeping
     ELSE Done /\ monitor' = [monitor EXCEPT !.pc = "save"]
  /\ UNCHANGED <<now, rows, cursor, call, weekly, weeklyMu, messages>>

Check ==
  /\ monitor.pc = "check"
  /\ \E low \in BOOLEAN :
       CheckQuietWeekly("central", WeekEnd(rows[Current].account, rows[Current].captured), low)
  /\ monitor' = [monitor EXCEPT !.pc = "checking"]
  /\ UNCHANGED <<now, rows, cursor, weekly, weeklyMu, handled, messages>>

Checked ==
  /\ monitor.pc = "checking" /\ call["central"] = Idle
  /\ Done
  /\ monitor' = [monitor EXCEPT !.pc = "save"]
  /\ UNCHANGED <<now, rows, cursor, call, weekly, weeklyMu, messages>>

SaveCursor ==
  /\ monitor.pc = "save"
  /\ \/ cursor' = Current /\ monitor' = Continue(monitor.batch \ {Current}, monitor.at)
     \/ UNCHANGED cursor /\ monitor' = Sleeping
  /\ UNCHANGED <<now, rows, call, weekly, weeklyMu, handled, messages>>

Crash ==
  /\ monitor' = Sleeping
  /\ call' = [c \in Callers |-> Idle]
  /\ weeklyMu' = None
  /\ UNCHANGED <<now, rows, cursor, weekly, handled, messages>>

-----------------------------------------------------------------------------
Init ==
  /\ now = 0
  /\ rows = <<>>
  /\ cursor = 0
  /\ monitor = Sleeping
  /\ call = [c \in Callers |-> Idle]
  /\ weekly = None
  /\ weeklyMu = None
  /\ handled = [a \in Accounts |-> 0]
  /\ messages = <<>>

Next ==
  \/ Tick
  \/ \E a \in LocalAccounts : LocalCheck(a)
  \/ \E a \in Accounts, t \in -Delay .. MaxTime + Skew : Upload(a, t)
  \/ \E c \in Callers : Lock(c) \/ Read(c) \/ Claim(c) \/ Send(c)
  \/ Wake \/ Judge \/ Check \/ Checked \/ SaveCursor
  \/ Crash

Spec == Init /\ [][Next]_vars

-----------------------------------------------------------------------------
(* The type of the state.                                                  *)
Calls == [pc : {"wait", "read", "claim", "send"}, at : Int, resets : Int]

TypeOK ==
  /\ now \in Nat /\ cursor \in Nat
  /\ rows \in Seq([account : Accounts, captured : Int])
  /\ monitor \in [pc : {"sleep", "judge", "check", "checking", "save"}, at : Nat, batch : SUBSET Ids]
  /\ monitor.pc = "sleep" <=> monitor.batch = {}
  /\ call \in [Callers -> {Idle} \cup Calls]
  /\ weekly \in {None} \cup [cycle : Int, attempted : Int]
  /\ weeklyMu \in {None} \cup Callers
  /\ handled \in [Accounts -> Nat]
  /\ messages \in Seq([cycle : Int, at : Int])

(* Once the cursor has passed an account's newest observation, that        *)
(* observation is the one the monitor handled last for the account: no     *)
(* failed write, crash, full batch or late upload makes it lose the newest *)
(* or go back to an older one.                                             *)
CursorMeansHandled ==
  \A i \in Ids : Newest(i) /\ i <= cursor => handled[rows[i].account] = i

(* The policy of quiet_weekly.go: one message per provider and week,       *)
(* although several accounts and two callers share the checkpoint, and     *)
(* although a crash may come between the claim and the delivery.           *)
OneWeeklyMessage ==
  \A i, j \in 1 .. Len(messages) : i < j =>
    /\ messages[i].cycle # messages[j].cycle
    /\ messages[j].at - messages[i].at >= Week
=============================================================================
