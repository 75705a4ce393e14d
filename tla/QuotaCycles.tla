---------------------------- MODULE QuotaCycles ----------------------------
(***************************************************************************)
(* The quota cycle trackers (internal/tracker) over the cycle tables of    *)
(* the store.  Every poll of a provider hands one snapshot to the tracker  *)
(* of its kind, which decides whether the provider's quota has been reset  *)
(* since the active cycle was opened and, if so, closes that cycle and     *)
(* opens another, in separate statements each of which may fail.  What the *)
(* tracker remembers between two snapshots is lost at a restart.           *)
(*                                                                         *)
(* The provider is the environment: it counts use over a period, announces *)
(* the end of the period with a little jitter, may be idle, may reset      *)
(* early, and a codex answer may be a glitch.  Synthetic's search quota    *)
(* announces an end one window, an hour, after every answer.  Use is       *)
(* counted in units larger than every percentage the trackers compare with *)
(* (2%, 10%).                                                              *)
(***************************************************************************)
EXTENDS Integers, Sequences

CONSTANTS
  Kinds,            \* the trackers under check, one of them per behaviour
  None,             \* no time, no value, no cycle
  Window,           \* length of a provider's period
  Grace,            \* 2 minutes
  Tolerance,        \* 10 minutes
  Threshold,        \* 60 minutes, codexResetShiftThreshold
  PendingTolerance, \* 5 minutes, codexPendingResetTolerance
  MaxTime,          \* bounds of the model: of each tracker's time,
  MaxUse, MaxFaults \* of the use in a period and of the failed statements

Stored == {"synthetic", "anthropic", "cursor", "zai_tokens"}
  \* these compare a snapshot with the cycle in the table
Remembering == {"copilot", "minimax", "antigravity"}
  \* these compare it with the announced end they remember
Rolling == {"codex", "gemini"}        \* the announced end moves on with the time
Hourly == {"search"}                  \* so it does, but a cycle keeps the end it was opened with
Valued == {"zai_time", "openrouter"}  \* no end is announced

Cycle == [start : Nat, resets : Nat \cup {None}, peak : Nat, delta : Nat, period : Nat]

\* A period is longer than what the trackers allow for jitter and for the moving
\* of an announced end.
ASSUME CyclesConstants ==
  /\ Kinds \subseteq Stored \cup Remembering \cup Rolling \cup Hourly \cup Valued
  /\ None \notin Int /\ None \notin Cycle /\ None \notin [got : Nat, floor : Nat]
  /\ Window \in Nat /\ Grace \in Nat /\ Tolerance \in Nat \ {0} /\ Threshold \in Nat
  /\ PendingTolerance \in Nat
  /\ Window > Tolerance + 1 /\ Window > Threshold /\ Window > PendingTolerance
  /\ MaxTime \in [Kinds -> Nat] /\ MaxUse \in Nat /\ MaxFaults \in Nat

VARIABLES
  kind,     \* which tracker this behaviour runs
  now,
  due,      \* the poll of this unit of time is still to come
  provider, \* [used, end, period]: the truth the snapshots sample
  consumed, \* all use so far
  st,       \* [active, history, mem]: the open cycle; of the closed ones how many
            \* there are, what they tracked and the last end; the tracker's memory
  outcome,  \* of the last step: "ok" or "error" of a snapshot, "none" of another step
  faults,   \* statements of the store that failed
  half,     \* a reset has lost its last write
  glitched, \* a glitch that no answer recorded since has corrected
  recounted, \* use that was, or could be, counted when a glitch was taken for the first value
  reading   \* a UsageSummary between its two queries

cyclesVars == <<kind, now, due, provider, consumed, st, outcome, faults, half, glitched, recounted,
                reading>>

Abs(n) == IF n < 0 THEN -n ELSE n
Larger(a, b) == IF a > b THEN a ELSE b
Positive(n) == Larger(n, 0)
Forgotten == [has |-> FALSE, last |-> None, reset |-> None, pending |-> None]

-----------------------------------------------------------------------------
(* The store and the steps all trackers share. A result says whether the   *)
(* tracker returned without an error.                                      *)

Result(s, ok) == [st |-> s, ok |-> ok]

(* Mutant: the last value is kept from the first snapshot on. *)
Remember_First(s, snap) ==
  [s EXCEPT !.mem.last = IF @ = None THEN snap.used ELSE @,
            !.mem.reset = IF snap.resets = None THEN @ ELSE snap.resets]

Remember(s, snap) ==
  [s EXCEPT !.mem.last = snap.used,
            !.mem.reset = IF snap.resets = None THEN @ ELSE snap.resets]

\* the three statements on the cycle table
CreateCycle(s, snap) ==
  [s EXCEPT !.active = [start |-> snap.at, resets |-> snap.resets, peak |-> 0, delta |-> 0,
                        period |-> snap.period]]

UpdateCycle(s, c) == [s EXCEPT !.active = c]

CloseCycle(s, end, c) ==
  [s EXCEPT !.active = None,
            !.history = [count |-> @.count + 1, tracked |-> @.tracked + c.delta, end |-> end]]

\* the row is inserted with a zero peak, which a second statement then sets
OpenCycle(s, snap, fail) ==
  LET created == CreateCycle(s, snap)
  IN  CASE fail = "create" -> Result(s, FALSE)
        [] fail = "update" -> Result(created, FALSE)
        [] OTHER -> Result(Remember(UpdateCycle(created, [created.active EXCEPT !.peak = snap.used]), snap), TRUE)

(* Mutant: the announced end is taken although the period ended before it. *)
CycleEnd_Announced(c, snap) == IF c.resets # None THEN c.resets ELSE snap.at

CycleEnd(c, snap) == IF c.resets # None /\ snap.at > c.resets THEN c.resets ELSE snap.at

Known(s) == s.mem.has /\ s.mem.last # None

Grown(s, c, snap) == [c EXCEPT !.delta = @ + Positive(snap.used - s.mem.last),
                               !.peak = Larger(@, snap.used)]

Close(s, final, snap, fail) ==
  IF fail = "close" THEN Result([s EXCEPT !.mem.pending = None], FALSE)
  ELSE OpenCycle(CloseCycle([s EXCEPT !.mem.pending = None], CycleEnd(final, snap), final), snap, fail)

Update(s, next, written, snap, fail) ==
  IF written /\ fail = "update" THEN Result(s, FALSE)
  ELSE Result(Remember(UpdateCycle(s, next), snap), TRUE)

\* the same cycle: a known previous value gives a delta, otherwise only the peak rises
Stay(s, snap, fail) ==
  LET c == s.active
      higher == [c EXCEPT !.peak = Larger(@, snap.used)]
  IN  IF Known(s) THEN Update(s, Grown(s, c, snap), TRUE, snap, fail)
                  ELSE Update(s, higher, higher # c, snap, fail)

Passed(c, snap) == c.resets # None /\ snap.at > c.resets + Grace
Shifted(old, snap, by) == old # None /\ snap.resets # None /\ Abs(snap.resets - old) > by
Appeared(c, snap) == c.resets = None /\ snap.resets # None

-----------------------------------------------------------------------------
(* One operator per tracker: what it does with a snapshot while a cycle is *)
(* active.                                                                 *)

\* Announced ends are compared by whole hours. An hour is the window of the search
\* quota; the ends of the others move by whole windows, which are longer.
Hour(t) == t \div Window

Synthetic(s, snap, fail) ==
  LET c == s.active
  IN  IF Passed(c, snap) \/ Hour(c.resets) # Hour(snap.resets)
      THEN Close(s, IF Known(s) THEN [c EXCEPT !.delta = Grown(s, c, snap).delta] ELSE c, snap, fail)
      ELSE Stay(s, snap, fail)

CloseGrown(s, snap, fail) ==
  Close(s, IF Known(s) THEN Grown(s, s.active, snap) ELSE s.active, snap, fail)

(* Mutant: an end that has passed without a new one is no reset. *)
Anthropic_NoClock(s, snap, fail) ==
  IF Shifted(s.active.resets, snap, Tolerance) \/ Appeared(s.active, snap)
  THEN CloseGrown(s, snap, fail)
  ELSE Stay(s, snap, fail)

Anthropic(s, snap, fail) ==
  LET c == s.active
  IN  IF Passed(c, snap) \/ Shifted(c.resets, snap, Tolerance) \/ Appeared(c, snap)
      THEN CloseGrown(s, snap, fail)
      ELSE Stay(s, snap, fail)

Cursor(s, snap, fail) ==
  LET c == s.active
  IN  IF Passed(c, snap) \/ Shifted(c.resets, snap, Tolerance) \/ Appeared(c, snap)
      THEN CloseGrown(s, snap, fail)
      ELSE Stay(s, snap, fail)

ZaiTokens(s, snap, fail) ==
  LET c == s.active
  IN  IF Passed(c, snap) \/ Shifted(c.resets, snap, 0) \/ Appeared(c, snap)
      THEN CloseGrown(s, snap, fail)
      ELSE Stay(s, snap, fail)

Halved(s, snap) == Known(s) /\ 2 * snap.used < s.mem.last

ZaiTime(s, snap, fail) ==
  IF Halved(s, snap) THEN Close(s, s.active, snap, fail) ELSE Stay(s, snap, fail)

OpenRouter(s, snap, fail) ==
  IF Halved(s, snap) THEN Close(s, s.active, snap, fail) ELSE Stay(s, snap, fail)

\* a fall of use: a rise of what remains, also before a first whole snapshot
Fell(s, snap) == s.mem.last # None /\ snap.used < s.mem.last
PastReset(c, snap) == c.resets # None /\ snap.at > c.resets

Copilot(s, snap, fail) ==
  IF \/ Shifted(s.mem.reset, snap, 0)
     \/ PastReset(s.active, snap) /\ Fell(s, snap)
  THEN Close(s, s.active, snap, fail)
  ELSE Stay(s, snap, fail)

MiniMax(s, snap, fail) ==
  LET c == s.active
      higher == [c EXCEPT !.peak = Larger(@, snap.used)]
  IN  IF \/ Shifted(s.mem.reset, snap, Tolerance)
         \/ Known(s) /\ 10 * snap.used < 6 * s.mem.last
      THEN Close(s, c, snap, fail)
      ELSE Update(s, IF Known(s) THEN Grown(s, c, snap) ELSE higher, TRUE, snap, fail)

Antigravity(s, snap, fail) ==
  IF \/ Shifted(s.mem.reset, snap, Tolerance)
     \/ s.mem.has /\ Fell(s, snap)
     \/ PastReset(s.active, snap) /\ Fell(s, snap)
  THEN Close(s, s.active, snap, fail)
  ELSE Stay(s, snap, fail)

\* a rolling reset time is written to the cycle, a missing last value leaves the peak alone
StayRolling(s, snap, fail) ==
  LET moved == IF snap.resets = None THEN s
               ELSE [s EXCEPT !.active.resets = snap.resets, !.mem.reset = snap.resets]
      kept == [moved EXCEPT !.mem.pending = None]
      c == kept.active
  IN  IF fail = "resets" THEN Result([s EXCEPT !.mem.pending = None], FALSE)
      ELSE IF s.mem.has /\ ~Known(s) THEN Update(kept, c, FALSE, snap, fail)
      ELSE Stay(kept, snap, fail)

RollingReference(s) == IF s.mem.reset # None THEN s.mem.reset ELSE s.active.resets

Candidate(s, snap) ==
  /\ s.active.resets # None
  /\ Shifted(RollingReference(s), snap, Threshold)
  /\ Known(s) /\ Fell(s, snap)

Gemini(s, snap, fail) ==
  IF Passed(s.active, snap) \/ Candidate(s, snap)
  THEN CloseGrown(s, snap, fail)
  ELSE StayRolling(s, snap, fail)

(* Mutant: one answer is enough. *)
ConfirmCodexReset_Once(s, snap) == TRUE

ConfirmCodexReset(s, snap) ==
  /\ s.mem.pending # None
  /\ Abs(s.mem.pending.resets - snap.resets) <= PendingTolerance
  /\ snap.used <= s.mem.pending.used

Codex(s, snap, fail) ==
  CASE Passed(s.active, snap) -> CloseGrown(s, snap, fail)
    [] ~Passed(s.active, snap) /\ Candidate(s, snap) /\ ConfirmCodexReset(s, snap) -> CloseGrown(s, snap, fail)
    [] ~Passed(s.active, snap) /\ Candidate(s, snap) /\ ~ConfirmCodexReset(s, snap) ->
         Result([s EXCEPT !.mem.pending = [resets |-> snap.resets, used |-> snap.used]], TRUE)
    [] OTHER -> StayRolling(s, snap, fail)

ProcessQuota(s, snap, fail) ==
  CASE fail = "query" -> Result(s, FALSE)
    [] fail # "query" /\ s.active = None -> OpenCycle(s, snap, fail)
    [] OTHER ->
       CASE kind \in {"synthetic", "search"} -> Synthetic(s, snap, fail)
         [] kind = "anthropic" -> Anthropic(s, snap, fail)
         [] kind = "cursor" -> Cursor(s, snap, fail)
         [] kind = "zai_tokens" -> ZaiTokens(s, snap, fail)
         [] kind = "zai_time" -> ZaiTime(s, snap, fail)
         [] kind = "openrouter" -> OpenRouter(s, snap, fail)
         [] kind = "copilot" -> Copilot(s, snap, fail)
         [] kind = "minimax" -> MiniMax(s, snap, fail)
         [] kind = "antigravity" -> Antigravity(s, snap, fail)
         [] kind = "gemini" -> Gemini(s, snap, fail)
         [] kind = "codex" -> Codex(s, snap, fail)

-----------------------------------------------------------------------------
(* The environment. *)

Idling == {"anthropic", "cursor", "zai_tokens"}   \* no period runs before the first use
Jittery == {"anthropic"}
Alone == {"openrouter", "zai_time"}               \* no later quota in the snapshot
Listed == {"anthropic", "cursor", "copilot", "antigravity", "gemini", "codex"}
  \* a snapshot lists its quotas and may lack this one

\* the hours of the search quota begin at any time of the clock's hour
FirstEnds == IF kind \in Hourly THEN 1 .. Window ELSE {Window}

CyclesInit ==
  /\ kind \in Kinds
  /\ now = 0
  /\ due = TRUE
  /\ \E end \in FirstEnds : provider = [used |-> 0, end |-> end, period |-> 0, since |-> 0]
  /\ consumed = 0
  /\ st = [active |-> None, mem |-> Forgotten,
           history |-> [count |-> 0, tracked |-> 0, end |-> 0]]
  /\ outcome = "none"
  /\ faults = 0
  /\ half = FALSE
  /\ glitched = FALSE
  /\ recounted = 0
  /\ reading = None

\* the period after `used` more units of use at the time t, in the period p
Begun(p, t, end) == [used |-> 0, end |-> end, period |-> p.period + 1, since |-> t]

Using(p, t, used) ==
  IF used > 0 /\ p.end = None
  THEN [Begun(p, t, t + Window) EXCEPT !.used = used]
  ELSE [p EXCEPT !.used = @ + used]

Elapsed(p, t) ==
  IF p.end = t THEN Begun(p, t, IF kind \in Idling THEN None ELSE p.end + Window) ELSE p

Tick ==
  \E used \in 0 .. MaxUse :
    /\ now < MaxTime[kind]
    /\ reading = None     \* a request is over before the poll after the next
    /\ now' = now + 1
    /\ due' = TRUE
    /\ provider' = Using(Elapsed(provider, now + 1), now + 1, used)
    /\ provider'.used <= MaxUse
    /\ consumed' = consumed + used
    /\ outcome' = "none"
    /\ UNCHANGED <<kind, st, faults, half, glitched, recounted, reading>>

\* the provider begins a new period before the announced end of the old one
EarlyReset ==
  /\ kind # "synthetic"
  /\ provider.end # None
  /\ now > provider.end - Window + Tolerance + 1
  /\ due
  /\ provider' = Begun(provider, now, now + Window)
  /\ UNCHANGED <<kind, now, due, consumed, st, outcome, faults, half, glitched, recounted, reading>>

Announced ==
  CASE kind \in Hourly -> {now + Window}
    [] kind \notin Hourly /\ (kind \in Valued \/ provider.end = None) -> {None}
    [] kind \in Jittery /\ provider.end # None -> {provider.end, provider.end + 1}
    [] kind = "gemini" /\ provider.end # None -> {now + Window}
    [] kind = "codex" /\ provider.end # None -> {provider.end, now + Window}
    [] OTHER -> {provider.end}

Snapshot(used, resets) ==
  [at |-> now, used |-> used, resets |-> resets, period |-> provider.period]

Steps == {"query", "create", "update", "close"}
  \cup (IF kind \in Rolling THEN {"resets"} ELSE {})

\* a cycle has been opened, and the tracker still remembers the values of another
HalfOpened(r) ==
  /\ ~r.ok /\ r.st.active # None /\ r.st.mem.last # None
  /\ st.active = None \/ r.st.history # st.history

Process(snap, fail) ==
  LET r == ProcessQuota(st, snap, fail)
  IN  /\ st' = IF r.ok /\ fail # "later" THEN [r.st EXCEPT !.mem.has = TRUE] ELSE r.st
      /\ outcome' = IF r.ok THEN "ok" ELSE "error"
      /\ half' = (half \/ HalfOpened(r))
      /\ due /\ due' = FALSE

Poll ==
  \E resets \in Announced :
    /\ Process(Snapshot(provider.used, resets), "none")
    /\ glitched' = FALSE
    /\ UNCHANGED <<kind, now, provider, consumed, faults, recounted, reading>>

\* one statement fails, or that of a later quota of the same snapshot
PollFails ==
  \E resets \in Announced, fail \in Steps \cup {"later"} :
    /\ faults < MaxFaults
    /\ fail = "later" => kind \notin Alone
    /\ fail # "later" => ~ProcessQuota(st, Snapshot(provider.used, resets), fail).ok
    /\ Process(Snapshot(provider.used, resets), fail)
    /\ faults' = faults + 1
    /\ UNCHANGED <<kind, now, provider, consumed, glitched, recounted, reading>>

\* a whole snapshot that does not list this quota
PollWithout ==
  /\ kind \in Listed
  /\ due /\ due' = FALSE
  /\ st' = [st EXCEPT !.mem.has = TRUE]
  /\ UNCHANGED <<kind, now, provider, consumed, outcome, faults, half, glitched, recounted, reading>>

\* the tracker has a value of the open cycle that an answer can be held against
Comparable == Known(st) /\ st.active # None

\* Codex answers once with an unused period of another end. With no value to compare
\* it with the tracker takes the answer in, and the next one as growth from nothing.
Glitch ==
  /\ kind = "codex" /\ ~glitched
  /\ Process(Snapshot(0, now + 2 * Window), "none")
  /\ glitched' = TRUE
  /\ recounted' = IF Comparable THEN recounted ELSE recounted + provider.used
  /\ UNCHANGED <<kind, now, provider, consumed, faults, reading>>

Restart ==
  /\ due
  /\ st.mem # Forgotten
  /\ st' = [st EXCEPT !.mem = Forgotten]
  /\ reading' = None
  /\ UNCHANGED <<kind, now, due, provider, consumed, outcome, faults, half, glitched, recounted>>

-----------------------------------------------------------------------------
(* UsageSummary runs in a request of the dashboard, between the statements *)
(* of a poll; it sums two queries.                                         *)

(* Mutant: the closed cycles are read first. *)
SummaryOrder_Swapped == <<"history", "active">>

SummaryOrder == <<"active", "history">>

Queried(query, s) ==
  CASE query = "history" -> s.history.tracked
    [] query = "active" /\ s.active # None -> s.active.delta
    [] OTHER -> 0

AllTracked(s) == Queried("active", s) + Queried("history", s)

SummaryBegins ==
  /\ reading = None
  /\ due
  /\ reading' = [got |-> Queried(SummaryOrder[1], st), floor |-> AllTracked(st)]
  /\ UNCHANGED <<kind, now, due, provider, consumed, st, outcome, faults, half, glitched, recounted>>

TotalTracked == reading.got + Queried(SummaryOrder[2], st)

SummaryEnds ==
  /\ reading # None
  /\ ~due
  /\ reading' = None
  /\ UNCHANGED <<kind, now, due, provider, consumed, st, outcome, faults, half, glitched, recounted>>

EndOfTime == now = MaxTime[kind] /\ ~due /\ UNCHANGED cyclesVars

CyclesNext ==
  \/ Tick \/ EndOfTime \/ EarlyReset
  \/ Poll \/ PollFails \/ PollWithout \/ Glitch
  \/ Restart
  \/ SummaryBegins \/ SummaryEnds

CyclesSpec == CyclesInit /\ [][CyclesNext]_cyclesVars

-----------------------------------------------------------------------------

Closing == st'.history.count > st.history.count

Memory ==
  [has : BOOLEAN, last : Nat \cup {None}, reset : Nat \cup {None},
   pending : [resets : Nat, used : Nat] \cup {None}]

\* Types: what a cycle has counted never goes below zero, so that use which was
\* counted is not taken back by a reset that the tracker has not recognised.
CyclesTypeOK ==
  /\ kind \in Kinds
  /\ now \in 0 .. MaxTime[kind] /\ due \in BOOLEAN
  /\ provider \in [used : 0 .. MaxUse, end : Nat \cup {None}, period : Nat, since : 0 .. now]
  /\ consumed \in Nat
  /\ st \in [active : Cycle \cup {None}, mem : Memory,
             history : [count : Nat, tracked : Nat, end : Nat]]
  /\ outcome \in {"none", "ok", "error"}
  /\ faults \in 0 .. MaxFaults /\ half \in BOOLEAN /\ glitched \in BOOLEAN
  /\ recounted \in Nat
  /\ reading \in [got : Nat, floor : Nat] \cup {None}

\* Closed cycles follow one another: none ends before it starts, none starts
\* before the one before it has ended, whatever end the provider had announced
\* and however late the poll that found the reset.
CyclesInOrder ==
  [][ Closing =>
        /\ st.history.end <= st.active.start
        /\ st.active.start <= st'.history.end
        /\ st'.active # None => st'.history.end <= st'.active.start ]_cyclesVars

\* A cycle is closed only when the provider's period is another than the one it
\* was opened in: not by the jitter of the announced end, not by the end that codex
\* or gemini moves on, not by one glitch of codex, not by a restart, and for a
\* tracker that compares with the cycle in the table not by a reset whose last write
\* was lost (one that remembers the last values itself then takes the same reset for
\* a second one). The moving end of Synthetic's search quota is taken for a reset,
\* but not twice within one hour of the clock.
NoFalseReset ==
  [][ Closing =>
        \/ st.active.period # provider.period
        \/ (half /\ kind \notin Stored \cup Hourly)
        \/ (kind \in Hourly /\ Hour(st.active.start) # Hour(now)) ]_cyclesVars

\* What tracker.go says of the comparison by hours: it "catches real resets while
\* ignoring minute-level drift". An answer a little later, in the next hour of the
\* clock, closes the cycle of the search quota although its period runs on (README,
\* section 6, 11); NoFalseReset is what is left.
DriftIsIgnored == [][ Closing => st.active.period # provider.period ]_cyclesVars

\* A tracker that compares with the table leaves no reset unseen: after a
\* snapshot without an error the open cycle is that of the running period, or the
\* old period ended no longer ago than the grace and the jitter (for the search
\* quota: less than an hour ago), or no poll has met a period with an announced end
\* since it was opened; through restarts, failed statements and any time without
\* polls.
ResetIsSeen ==
  outcome = "ok" /\ kind \in Stored \cup Hourly =>
    \/ st.active.period = provider.period
    \/ (kind \in Stored /\ now <= provider.since + Grace + 1)
    \/ (kind \in Hourly /\ now < provider.since + Window)
    \/ st.active.resets = None

\* What the cycles say was used is never more than was used: the use of a period is
\* counted again once for each codex glitch that met a tracker without a value to
\* compare it with (after a restart, or when the cycle could not be created), and
\* never otherwise, except after a reset that lost its last write (the increase is
\* then counted in both cycles).
TrackedWasUsed == AllTracked(st) <= consumed + recounted \/ half

\* A summary taken while a poll closes and opens cycles never misses what was
\* tracked when it began.
SummaryMissesNothing == reading # None => TotalTracked >= reading.floor
=============================================================================
