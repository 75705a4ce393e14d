------------------------- MODULE CentralMonitorProofs -------------------------
(***************************************************************************)
(* For any accounts, weeks, windows and numbers of uploads: the cursor     *)
(* never passes an account's newest observation without its being the one  *)
(* handled last, and a provider is told of at most once a week.            *)
(***************************************************************************)
EXTENDS CentralMonitor, SequenceTheorems, WellFoundedInduction, TLAPS

(* What the monitor knows of the batch it is working on: nothing newest    *)
(* has been left out below an observation of the batch, and none of the    *)
(* batch has been overtaken by an older one.                               *)
BatchOK ==
  monitor.pc # "sleep" =>
    /\ monitor.batch # {}
    /\ monitor.batch \subseteq {i \in Ids : i > cursor}
    /\ \A k \in monitor.batch, i \in Ids :
         /\ i < k /\ rows[i].account = rows[k].account => Newer(k, i)
         /\ Newest(i) /\ cursor < i /\ i < k => i \in monitor.batch
    /\ monitor.pc = "save" => handled[rows[Current].account] = Current

CursorInv == cursor \in 0 .. Len(rows) /\ BatchOK /\ CursorMeansHandled

(* Who holds the mutex is between its reading of the checkpoint and the    *)
(* delivery, and every message is a week older than the one being sent.    *)
Holding(c) == call[c].pc \in {"read", "claim", "send"}

CallsOK ==
  \A c \in Callers :
    /\ Holding(c) <=> weeklyMu = c
    /\ call[c].pc # "none" => AtHalf(call[c].resets, call[c].at)
    /\ call[c].pc = "claim" => Due(weekly, call[c].at, call[c].resets)
    /\ call[c].pc = "send" =>
         /\ weekly = [cycle |-> call[c].resets, attempted |-> call[c].at]
         /\ \A i \in 1 .. Len(messages) : call[c].at - messages[i].at >= Week

MessagesOK ==
  \A i \in 1 .. Len(messages) :
    /\ weekly # None /\ messages[i].at <= weekly.attempted
    /\ AtHalf(messages[i].cycle, messages[i].at)

\* the monitor's call is over unless the monitor waits for it
Sequential == monitor.pc # "checking" => call["central"] = Idle

WeeklyInv == CallsOK /\ MessagesOK /\ OneWeeklyMessage

-----------------------------------------------------------------------------
(* The types.                                                              *)

LEMMA WeekEndType ==
  ASSUME NEW a \in Accounts, NEW t \in Int
  PROVE  WeekEnd(a, t) \in Int
<1>1. WeekOf[a] \in Int /\ Week \in Nat \ {0}
  BY WeekAssumption
<1>2. \A n \in Int : n % Week \in Int
  BY <1>1
<1> QED
  BY <1>1, <1>2 DEF WeekEnd

LEMMA RowType ==
  ASSUME TypeOK, NEW i \in Ids
  PROVE  i \in Nat /\ rows[i].account \in Accounts /\ rows[i].captured \in Int
<1>1. rows \in Seq([account : Accounts, captured : Int]) /\ i \in 1 .. Len(rows)
  BY DEF TypeOK, Ids
<1>2. rows[i] \in [account : Accounts, captured : Int]
  BY <1>1, ElementOfSeq
<1> QED
  BY <1>1, <1>2

(* The first of the ids of a batch.                                        *)
LEMMA CurrentIsFirst ==
  ASSUME TypeOK, monitor.batch # {}
  PROVE  Current \in monitor.batch /\ Current \in Nat /\ \A j \in monitor.batch : Current <= j
<1>1. monitor.batch \subseteq Nat
  BY DEF TypeOK, Ids
<1>2. \A x, y \in Nat : y < x => <<y, x>> \in OpToRel(<, Nat)
  BY DEF OpToRel
<1>3. PICK x \in monitor.batch : \A y \in monitor.batch : ~(<<y, x>> \in OpToRel(<, Nat))
  BY <1>1, NatLessThanWellFounded, WFMin, Zenon
<1>. HIDE DEF OpToRel
<1>5. \A y \in monitor.batch : x <= y
  <2> SUFFICES ASSUME NEW y \in monitor.batch PROVE x <= y
    OBVIOUS
  <2>1. x \in Nat /\ y \in Nat
    BY <1>1
  <2>2. ~(y < x)
    BY <1>2, <1>3, <2>1, Zenon
  <2> QED
    BY <2>1, <2>2
<1>4. Current \in monitor.batch /\ \A j \in monitor.batch : Current <= j
  BY <1>3, <1>5, Zenon DEF Current
<1> QED
  BY <1>1, <1>4

LEMMA QuietType ==
  ASSUME TypeOK, NEW c \in Callers, NEW resets \in Int, NEW low \in BOOLEAN,
         CheckQuietWeekly(c, resets, low)
  PROVE  /\ call' \in [Callers -> {Idle} \cup Calls]
         /\ \A d \in Callers \ {c} : call'[d] = call[d]
         /\ call'[c] = Idle \/ (/\ call'[c] = [pc |-> "wait", at |-> now, resets |-> resets]
                                /\ AtHalf(resets, now))
<1>1. now \in Int /\ call \in [Callers -> {Idle} \cup Calls]
  BY DEF TypeOK
<1>2. [pc |-> "wait", at |-> now, resets |-> resets] \in Calls
  BY <1>1 DEF Calls
<1> QED
  BY <1>1, <1>2 DEF CheckQuietWeekly

LEMMA InitTypes == Init => TypeOK
BY DEF Init, TypeOK, Sleeping, Callers, Ids

LEMMA StepTypes ==
  ASSUME TypeOK, [Next]_vars
  PROVE  TypeOK'
<1> USE WeekAssumption, TimeAssumption
<1>1. CASE Tick
  <2>1. now' \in Nat
    BY <1>1 DEF Tick, TypeOK
  <2> QED
    BY <1>1, <2>1 DEF Tick, TypeOK, Ids
<1>2. ASSUME NEW a \in LocalAccounts, LocalCheck(a)
      PROVE  TypeOK'
  <2>1. WeekEnd(a, now) \in Int
    BY WeekEndType DEF TypeOK
  <2>2. call' \in [Callers -> {Idle} \cup Calls]
    BY <1>2, <2>1, QuietType DEF LocalCheck, Callers
  <2> QED
    BY <1>2, <2>2 DEF LocalCheck, TypeOK, Ids
<1>3. ASSUME NEW a \in Accounts, NEW t \in -Delay .. MaxTime + Skew, Upload(a, t)
      PROVE  TypeOK'
  <2>1. t \in Int
    OBVIOUS
  <2>2. rows' \in Seq([account : Accounts, captured : Int])
    BY <1>3, <2>1 DEF Upload, TypeOK
  <2>3. Ids \subseteq Ids'
    BY <1>3, <2>1 DEF Upload, TypeOK, Ids
  <2>4. monitor' \in [pc : {"sleep", "judge", "check", "checking", "save"}, at : Nat, batch : SUBSET Ids']
    BY <1>3, <2>3 DEF Upload, TypeOK
  <2> QED
    BY <1>3, <2>2, <2>4 DEF Upload, TypeOK
<1>4. ASSUME NEW c \in Callers, Lock(c)
      PROVE  TypeOK'
  <2>1. call[c] \in Calls
    BY <1>4 DEF Lock, TypeOK, Idle
  <2>2. call' \in [Callers -> {Idle} \cup Calls]
    BY <1>4, <2>1 DEF Lock, TypeOK, Calls
  <2> QED
    BY <1>4, <2>2 DEF Lock, TypeOK, Ids
<1>5. ASSUME NEW c \in Callers, Read(c)
      PROVE  TypeOK'
  <2>1. call[c] \in Calls
    BY <1>5 DEF Read, TypeOK, Idle
  <2>2. [call[c] EXCEPT !.pc = "claim"] \in Calls /\ [call[c] EXCEPT !.pc = "send"] \in Calls
    BY <2>1 DEF Calls
  <2>3. call' \in [Callers -> {Idle} \cup Calls] /\ weeklyMu' \in {None} \cup Callers
    BY <1>5, <2>2 DEF Read, Return, TypeOK
  <2> QED
    BY <1>5, <2>3 DEF Read, TypeOK, Ids
<1>6. ASSUME NEW c \in Callers, Claim(c)
      PROVE  TypeOK'
  <2>1. call[c] \in Calls
    BY <1>6 DEF Claim, TypeOK, Idle
  <2>2. [call[c] EXCEPT !.pc = "claim"] \in Calls /\ [call[c] EXCEPT !.pc = "send"] \in Calls
    BY <2>1 DEF Calls
  <2>3. call' \in [Callers -> {Idle} \cup Calls] /\ weeklyMu' \in {None} \cup Callers
    BY <1>6, <2>2 DEF Claim, Return, TypeOK
  <2>4. weekly' \in {None} \cup [cycle : Int, attempted : Int]
    BY <1>6, <2>1 DEF Claim, TypeOK, Calls
  <2> QED
    BY <1>6, <2>3, <2>4 DEF Claim, TypeOK, Ids
<1>7. ASSUME NEW c \in Callers, Send(c)
      PROVE  TypeOK'
  <2>1. call[c] \in Calls
    BY <1>7 DEF Send, TypeOK, Idle
  <2>2. messages' \in Seq([cycle : Int, at : Int])
    BY <1>7, <2>1 DEF Send, TypeOK, Calls
  <2>3. call' \in [Callers -> {Idle} \cup Calls] /\ weeklyMu' = None
    BY <1>7 DEF Send, Return, TypeOK
  <2> QED
    BY <1>7, <2>2, <2>3 DEF Send, TypeOK, Ids
<1>8. CASE Wake
  <2> DEFINE found == CentralQuotaObservations(cursor)
  <2>1. PICK last \in found : monitor' = Continue({i \in found : i <= last}, now)
    BY <1>8 DEF Wake
  <2> DEFINE batch == {i \in found : i <= last}
  <2>2. batch \subseteq Ids
    BY DEF CentralQuotaObservations
  <2> HIDE DEF batch
  <2>3. monitor' = Sleeping \/ (batch # {} /\ monitor' = [pc |-> "judge", at |-> now, batch |-> batch])
    BY <2>1 DEF Continue, batch
  <2>4. monitor' \in [pc : {"sleep", "judge", "check", "checking", "save"}, at : Nat, batch : SUBSET Ids]
    BY <2>2, <2>3 DEF Sleeping, TypeOK
  <2>5. monitor'.pc = "sleep" <=> monitor'.batch = {}
    BY <2>3 DEF Sleeping
  <2> QED
    BY <1>8, <2>4, <2>5 DEF Wake, TypeOK, Ids
<1>9. CASE Judge \/ Checked
  <2>1. Current \in Ids
    BY <1>9, CurrentIsFirst DEF Judge, Checked, TypeOK
  <2>2. rows[Current].account \in Accounts
    BY <2>1, RowType
  <2>3. handled' \in [Accounts -> Nat]
    <3>1. Current \in Nat /\ handled \in [Accounts -> Nat]
      BY <2>1, RowType DEF TypeOK
    <3>2. handled' = handled \/ Done
      BY <1>9 DEF Judge, Checked
    <3> QED
      BY <3>1, <3>2 DEF Done
  <2>6. \/ monitor' = Sleeping
        \/ monitor' = [monitor EXCEPT !.pc = "check"]
        \/ monitor' = [monitor EXCEPT !.pc = "save"]
    BY <1>9 DEF Judge, Checked
  <2>7. monitor \in [pc : {"sleep", "judge", "check", "checking", "save"}, at : Nat, batch : SUBSET Ids]
    BY DEF TypeOK
  <2>8. monitor.batch # {}
    BY <1>9 DEF Judge, Checked, TypeOK
  <2>4. monitor' \in [pc : {"sleep", "judge", "check", "checking", "save"}, at : Nat, batch : SUBSET Ids]
    BY <2>6, <2>7 DEF Sleeping
  <2>5. monitor'.pc = "sleep" <=> monitor'.batch = {}
    BY <2>6, <2>7, <2>8 DEF Sleeping
  <2> QED
    BY <1>9, <2>3, <2>4, <2>5 DEF Judge, Checked, TypeOK, Ids
<1>10. CASE Check
  <2>1. rows[Current].account \in Accounts /\ rows[Current].captured \in Int
    BY <1>10, CurrentIsFirst, RowType DEF Check, TypeOK
  <2>2. WeekEnd(rows[Current].account, rows[Current].captured) \in Int
    BY <2>1, WeekEndType
  <2>3. call' \in [Callers -> {Idle} \cup Calls]
    BY <1>10, <2>2, QuietType DEF Check, Callers
  <2> QED
    BY <1>10, <2>3 DEF Check, TypeOK, Ids
<1>11. CASE SaveCursor
  <2>1. Current \in Nat
    BY <1>11, CurrentIsFirst DEF SaveCursor, TypeOK
  <2>2. monitor' \in [pc : {"sleep", "judge", "check", "checking", "save"}, at : Nat, batch : SUBSET Ids]
    BY <1>11 DEF SaveCursor, Continue, Sleeping, TypeOK
  <2>3. monitor'.pc = "sleep" <=> monitor'.batch = {}
    BY <1>11 DEF SaveCursor, Continue, Sleeping
  <2> QED
    BY <1>11, <2>1, <2>2, <2>3 DEF SaveCursor, TypeOK, Ids
<1>12. CASE Crash
  BY <1>12 DEF Crash, Sleeping, TypeOK, Ids
<1>13. CASE UNCHANGED vars
  BY <1>13 DEF vars, TypeOK, Ids
<1> QED
  BY <1>1, <1>2, <1>3, <1>4, <1>5, <1>6, <1>7, <1>8, <1>9, <1>10, <1>11, <1>12, <1>13 DEF Next
-----------------------------------------------------------------------------
(* The cursor.                                                             *)

LEMMA InitCursor == Init => CursorInv
BY DEF Init, CursorInv, BatchOK, CursorMeansHandled, Sleeping, Ids

(* An upload comes above every id, the cursor and the batch.               *)
LEMMA UploadCursor ==
  ASSUME TypeOK, CursorInv, NEW a \in Accounts, NEW t \in Int, Upload(a, t)
  PROVE  CursorInv'
<1> DEFINE n == Len(rows) + 1
<1>1. rows \in Seq([account : Accounts, captured : Int]) /\ Len(rows) \in Nat
  BY DEF TypeOK
<1>2. /\ rows' = Append(rows, [account |-> a, captured |-> t])
      /\ UNCHANGED <<cursor, monitor, handled>>
  BY DEF Upload
<1>3. /\ Len(rows') = n
      /\ \A i \in Ids : rows'[i] = rows[i]
  BY <1>1, <1>2 DEF Ids
<1>4. Ids' = Ids \cup {n} /\ \A i \in Ids : i \in Nat /\ i < n
  BY <1>1, <1>3 DEF Ids
<1>5. \A i, j \in Ids : Newer(i, j)' <=> Newer(i, j)
  BY <1>3 DEF Newer
<1>6. \A i \in Ids : Newest(i)' => Newest(i)
  BY <1>3, <1>4, <1>5 DEF Newest
<1>7. cursor' \in 0 .. Len(rows')
  BY <1>1, <1>2, <1>3 DEF CursorInv
<1>8. BatchOK'
  <2> SUFFICES ASSUME monitor.pc # "sleep" PROVE BatchOK'
    BY <1>2 DEF BatchOK
  <2>1. /\ monitor.batch # {} /\ monitor.batch \subseteq {i \in Ids : i > cursor}
        /\ \A k \in monitor.batch, i \in Ids :
             /\ i < k /\ rows[i].account = rows[k].account => Newer(k, i)
             /\ Newest(i) /\ cursor < i /\ i < k => i \in monitor.batch
        /\ monitor.pc = "save" => handled[rows[Current].account] = Current
    BY DEF CursorInv, BatchOK
  <2>2. Current' = Current /\ Current \in Ids
    BY <1>2, <2>1, CurrentIsFirst DEF Current
  <2>3. monitor'.pc = "save" => handled'[rows'[Current'].account] = Current'
    BY <1>2, <1>3, <2>1, <2>2
  <2>4. ASSUME NEW k \in monitor.batch, NEW i \in Ids'
        PROVE  /\ i < k /\ rows'[i].account = rows'[k].account => Newer(k, i)'
               /\ Newest(i)' /\ cursor < i /\ i < k => i \in monitor.batch
    <3>1. k \in Ids /\ k < n
      BY <1>4, <2>1
    <3>2. CASE i = n
      BY <1>1, <1>4, <3>1, <3>2
    <3>3. CASE i \in Ids
      BY <1>3, <1>5, <1>6, <2>1, <3>1, <3>3
    <3> QED
      BY <1>4, <3>2, <3>3
  <2>5. monitor.batch \subseteq {i \in Ids' : i > cursor}
    BY <1>4, <2>1
  <2> QED
    BY <1>2, <2>1, <2>3, <2>4, <2>5 DEF BatchOK
<1>9. CursorMeansHandled'
  <2> SUFFICES ASSUME NEW i \in Ids', Newest(i)', i <= cursor
               PROVE  handled[rows'[i].account] = i
    BY <1>2 DEF CursorMeansHandled
  <2>1. i \in Ids
    BY <1>1, <1>4 DEF CursorInv
  <2> QED
    BY <1>3, <1>6, <2>1 DEF CursorInv, CursorMeansHandled
<1> QED
  BY <1>7, <1>8, <1>9 DEF CursorInv

(* A batch holds every newest observation from the cursor to its last.     *)
LEMMA WakeCursor ==
  ASSUME TypeOK, CursorInv, Wake
  PROVE  CursorInv'
<1> DEFINE found == CentralQuotaObservations(cursor)
<1>1. PICK last \in found : monitor' = Continue({i \in found : i <= last}, now)
  BY DEF Wake
<1> DEFINE batch == {i \in found : i <= last}
<1>2. UNCHANGED <<rows, cursor, handled>>
  BY DEF Wake
<1>3. batch \subseteq {i \in Ids : i > cursor} /\ \A i \in batch : Newest(i)
  BY DEF CentralQuotaObservations
<1>4. ASSUME NEW k \in batch, NEW i \in Ids
      PROVE  /\ i < k /\ rows[i].account = rows[k].account => Newer(k, i)
             /\ Newest(i) /\ cursor < i /\ i < k => i \in batch
  <2>1. k \in Ids /\ k <= last /\ Newest(k) /\ last \in Ids
    BY DEF CentralQuotaObservations
  <2>2. k \in Nat /\ i \in Nat /\ last \in Nat /\ cursor \in Nat
    BY <2>1 DEF Ids, TypeOK
  <2>3. rows[i].captured \in Int /\ rows[k].captured \in Int
    BY <2>1, RowType
  <2>4. rows[i].account = rows[k].account => ~Newer(i, k)
    BY <2>1 DEF Newest
  <2>5. i < k /\ rows[i].account = rows[k].account => Newer(k, i)
    BY <2>2, <2>3, <2>4 DEF Newer
  <2>6. Newest(i) /\ cursor < i /\ i < k => i \in batch
    BY <2>1, <2>2 DEF CentralQuotaObservations
  <2> QED
    BY <2>5, <2>6
<1> HIDE DEF batch
<1>5. monitor' = Sleeping \/ (batch # {} /\ monitor' = [pc |-> "judge", at |-> now, batch |-> batch])
  BY <1>1 DEF Continue, batch
<1>6. BatchOK'
  <2>1. CASE monitor' = Sleeping
    BY <2>1 DEF BatchOK, Sleeping
  <2>2. CASE batch # {} /\ monitor' = [pc |-> "judge", at |-> now, batch |-> batch]
    <3>1. monitor'.pc = "judge" /\ monitor'.batch = batch
      BY <2>2
    <3>2. \A k \in batch, i \in Ids' :
             /\ i < k /\ rows'[i].account = rows'[k].account => Newer(k, i)'
             /\ Newest(i)' /\ cursor' < i /\ i < k => i \in batch
      BY <1>2, <1>4 DEF Ids, Newer, Newest
    <3>3. batch \subseteq {i \in Ids' : i > cursor'}
      BY <1>2, <1>3 DEF Ids
    <3> QED
      BY <2>2, <3>1, <3>2, <3>3 DEF BatchOK
  <2> QED
    BY <1>5, <2>1, <2>2
<1> QED
  BY <1>2, <1>6 DEF CursorInv, CursorMeansHandled, Ids, Newer, Newest

(* The observation the monitor has done with is the newest of its account  *)
(* as far as the cursor reaches.                                           *)
LEMMA DoneCursor ==
  ASSUME TypeOK, CursorInv, monitor.pc # "sleep", Done,
         monitor' = [monitor EXCEPT !.pc = "save"], UNCHANGED <<rows, cursor>>
  PROVE  CursorInv'
<1>1. /\ Current \in monitor.batch /\ Current \in Ids /\ Current \in Nat /\ Current > cursor
      /\ rows[Current].account \in Accounts
  BY CurrentIsFirst, RowType DEF CursorInv, BatchOK
<1>2. /\ handled \in [Accounts -> Nat] /\ cursor \in Nat
      /\ handled' = [handled EXCEPT ![rows[Current].account] = Current]
  BY DEF TypeOK, Done
<1>3. monitor'.pc = "save" /\ monitor'.batch = monitor.batch /\ Current' = Current
  BY DEF TypeOK, Current
<1>4. BatchOK'
  BY <1>1, <1>2, <1>3 DEF CursorInv, BatchOK, Ids, Newer, Newest
<1>5. CursorMeansHandled'
  <2> SUFFICES ASSUME NEW i \in Ids, Newest(i), i <= cursor
               PROVE  handled'[rows[i].account] = i
    BY DEF CursorMeansHandled, Ids, Newest, Newer
  <2>1. handled[rows[i].account] = i /\ i \in Nat /\ rows[i].account \in Accounts
    BY RowType DEF CursorInv, CursorMeansHandled
  <2>2. i < Current
    BY <1>1, <1>2, <2>1
  <2>3. rows[i].account # rows[Current].account
    BY <1>1, <2>2 DEF CursorInv, BatchOK, Newest
  <2> QED
    BY <1>2, <2>1, <2>3
<1> QED
  BY <1>4, <1>5 DEF CursorInv

(* The cursor moves to the first of the batch: what it passes was either   *)
(* passed before, or is that observation, or is not its account's newest.  *)
LEMMA SaveCursorStep ==
  ASSUME TypeOK, CursorInv, SaveCursor
  PROVE  CursorInv'
<1>1. /\ monitor.pc = "save" /\ UNCHANGED <<rows, handled>>
      /\ \/ cursor' = Current /\ monitor' = Continue(monitor.batch \ {Current}, monitor.at)
         \/ UNCHANGED cursor /\ monitor' = Sleeping
  BY DEF SaveCursor
<1>2. CASE UNCHANGED cursor /\ monitor' = Sleeping
  BY <1>1, <1>2 DEF CursorInv, BatchOK, Sleeping, CursorMeansHandled, Ids, Newest, Newer
<1>3. CASE cursor' = Current /\ monitor' = Continue(monitor.batch \ {Current}, monitor.at)
  <2>1. /\ Current \in monitor.batch /\ Current \in Ids /\ Current \in Nat /\ Current > cursor
        /\ \A j \in monitor.batch : Current <= j
        /\ handled[rows[Current].account] = Current
    BY <1>1, CurrentIsFirst DEF CursorInv, BatchOK
  <2>2. \A i \in Ids : i \in Nat
    BY DEF Ids
  <2>3. CursorMeansHandled'
    <3> SUFFICES ASSUME NEW i \in Ids, Newest(i), i <= Current
                 PROVE  handled[rows[i].account] = i
      BY <1>1, <1>3 DEF CursorMeansHandled, Ids, Newest, Newer
    <3>1. CASE i <= cursor
      BY <3>1 DEF CursorInv, CursorMeansHandled
    <3>2. CASE i = Current
      BY <2>1, <3>2
    <3>3. CASE cursor < i /\ i < Current
      <4>1. i \in monitor.batch
        BY <1>1, <2>1, <3>3 DEF CursorInv, BatchOK
      <4> QED
        BY <2>1, <2>2, <3>3, <4>1
    <3> QED
      BY <2>1, <2>2, <3>1, <3>2, <3>3 DEF TypeOK
  <2>4. BatchOK'
    <3> DEFINE rest == monitor.batch \ {Current}
    <3>1. monitor' = Sleeping \/ (rest # {} /\ monitor' = [pc |-> "judge", at |-> monitor.at, batch |-> rest])
      BY <1>3 DEF Continue
    <3>2. CASE monitor' = Sleeping
      BY <3>2 DEF BatchOK, Sleeping
    <3>3. CASE rest # {} /\ monitor' = [pc |-> "judge", at |-> monitor.at, batch |-> rest]
      <4>1. monitor'.pc = "judge" /\ monitor'.batch = rest
        BY <3>3
      <4>2. rest \subseteq {i \in Ids : i > Current}
        <5> SUFFICES ASSUME NEW j \in rest PROVE j \in Ids /\ j > Current
          OBVIOUS
        <5>1. j \in Ids /\ j # Current /\ Current <= j
          BY <1>1, <2>1 DEF CursorInv, BatchOK
        <5> QED
          BY <2>1, <2>2, <5>1
      <4>3. \A k \in rest, i \in Ids :
              /\ i < k /\ rows[i].account = rows[k].account => Newer(k, i)
              /\ Newest(i) /\ Current < i /\ i < k => i \in rest
        <5> SUFFICES ASSUME NEW k \in rest, NEW i \in Ids
                     PROVE  /\ i < k /\ rows[i].account = rows[k].account => Newer(k, i)
                            /\ Newest(i) /\ Current < i /\ i < k => i \in rest
          OBVIOUS
        <5>1. k \in monitor.batch /\ i \in Nat /\ cursor \in Nat
          BY <2>2 DEF TypeOK
        <5> QED
          BY <1>1, <2>1, <5>1 DEF CursorInv, BatchOK
      <4>4. /\ rest \subseteq {i \in Ids' : i > cursor'}
            /\ \A k \in rest, i \in Ids' :
                 /\ i < k /\ rows'[i].account = rows'[k].account => Newer(k, i)'
                 /\ Newest(i)' /\ cursor' < i /\ i < k => i \in rest
        BY <1>1, <1>3, <4>2, <4>3 DEF Ids, Newer, Newest
      <4> QED
        BY <3>3, <4>1, <4>4 DEF BatchOK
    <3> QED
      BY <3>1, <3>2, <3>3
  <2> QED
    BY <1>1, <1>3, <2>1, <2>3, <2>4 DEF CursorInv, Ids
<1> QED
  BY <1>1, <1>2, <1>3

(* A step that leaves the table, the cursor and what is handled alone, and *)
(* either sleeps or stays with the batch before its saving.                *)
LEMMA OtherCursor ==
  ASSUME TypeOK, CursorInv, UNCHANGED <<rows, cursor, handled>>,
         \/ monitor' = monitor
         \/ monitor' = Sleeping
         \/ /\ monitor.pc # "sleep"
            /\ \E pc \in {"check", "checking"} : monitor' = [monitor EXCEPT !.pc = pc]
  PROVE  CursorInv'
<1>1. CASE monitor' = monitor
  <2>1. Current' = Current
    BY <1>1 DEF Current
  <2> QED
    BY <1>1, <2>1 DEF CursorInv, BatchOK, CursorMeansHandled, Ids, Newest, Newer
<1>2. CASE monitor' = Sleeping
  BY <1>2 DEF CursorInv, BatchOK, CursorMeansHandled, Sleeping, Ids, Newest, Newer
<1>3. CASE /\ monitor.pc # "sleep"
           /\ \E pc \in {"check", "checking"} : monitor' = [monitor EXCEPT !.pc = pc]
  <2>1. monitor'.batch = monitor.batch /\ monitor'.pc # "save" /\ monitor.pc # "sleep"
    BY <1>3 DEF TypeOK
  <2> QED
    BY <2>1 DEF CursorInv, BatchOK, CursorMeansHandled, Ids, Newest, Newer
<1> QED
  BY <1>1, <1>2, <1>3

LEMMA StepCursor ==
  ASSUME TypeOK, CursorInv, [Next]_vars
  PROVE  CursorInv'
<1>1. ASSUME NEW a \in Accounts, NEW t \in -Delay .. MaxTime + Skew, Upload(a, t)
      PROVE  CursorInv'
  BY <1>1, UploadCursor, TimeAssumption
<1>2. CASE Wake
  BY <1>2, WakeCursor
<1>3. CASE Judge
  BY <1>3, DoneCursor, OtherCursor DEF Judge
<1>4. CASE Check
  BY <1>4, OtherCursor DEF Check
<1>5. CASE Checked
  BY <1>5, DoneCursor DEF Checked
<1>6. CASE SaveCursor
  BY <1>6, SaveCursorStep
<1>7. CASE Crash
  BY <1>7, OtherCursor DEF Crash
<1>8. CASE Tick \/ UNCHANGED vars
  BY <1>8, OtherCursor DEF Tick, vars
<1>9. ASSUME NEW a \in LocalAccounts, LocalCheck(a)
      PROVE  CursorInv'
  BY <1>9, OtherCursor DEF LocalCheck
<1>10. ASSUME NEW c \in Callers, Lock(c) \/ Read(c) \/ Claim(c) \/ Send(c)
       PROVE  CursorInv'
  BY <1>10, OtherCursor DEF Lock, Read, Claim, Send
<1> QED
  BY <1>1, <1>2, <1>3, <1>4, <1>5, <1>6, <1>7, <1>8, <1>9, <1>10 DEF Next
-----------------------------------------------------------------------------
(* The weekly messages.                                                    *)

LEMMA InitWeekly == Init => WeeklyInv
BY NoneAssumption DEF Init, WeeklyInv, CallsOK, Holding, MessagesOK, OneWeeklyMessage, Idle

LEMMA MessageType ==
  ASSUME TypeOK, NEW i \in 1 .. Len(messages)
  PROVE  messages[i] \in [cycle : Int, at : Int] /\ messages[i].at \in Int
<1>1. messages \in Seq([cycle : Int, at : Int])
  BY DEF TypeOK
<1>2. messages[i] \in [cycle : Int, at : Int]
  BY <1>1, ElementOfSeq
<1> QED
  BY <1>2

(* At the half of one week is not at the half of it a week later.          *)
LEMMA HalvesApart ==
  ASSUME NEW m \in Int, NEW t \in Int, NEW u \in Int, AtHalf(m, t), AtHalf(m, u)
  PROVE  ~(u - t >= Week)
<1>1. Week \in Nat /\ LateWindow \in Nat /\ LateWindow < Week /\ Week \div 2 \in Int
  BY WeekAssumption
<1> QED
  BY <1>1 DEF AtHalf

(* A call that has just begun waits or is over.                            *)
LEMMA QuietWeekly ==
  ASSUME TypeOK, WeeklyInv, NEW c \in Callers, call[c] = Idle, NEW resets \in Int, NEW low \in BOOLEAN,
         CheckQuietWeekly(c, resets, low), UNCHANGED <<weekly, weeklyMu, messages>>
  PROVE  WeeklyInv'
<1>1. /\ \A d \in Callers \ {c} : call'[d] = call[d]
      /\ call'[c].pc \in {"none", "wait"}
      /\ call'[c].pc = "wait" => AtHalf(call'[c].resets, call'[c].at)
  <2>1. /\ \A d \in Callers \ {c} : call'[d] = call[d]
        /\ call'[c] = Idle \/ (/\ call'[c] = [pc |-> "wait", at |-> now, resets |-> resets]
                               /\ AtHalf(resets, now))
    BY QuietType
  <2> QED
    BY <2>1 DEF Idle
<1>2. weeklyMu # c
  BY DEF WeeklyInv, CallsOK, Holding, Idle
<1>3. CallsOK'
  BY <1>1, <1>2 DEF WeeklyInv, CallsOK, Holding, AtHalf, Due
<1> QED
  BY <1>3 DEF WeeklyInv, MessagesOK, OneWeeklyMessage, AtHalf

LEMMA LockWeekly ==
  ASSUME TypeOK, WeeklyInv, NEW c \in Callers, Lock(c)
  PROVE  WeeklyInv'
<1>1. call[c] \in Calls
  BY DEF Lock, TypeOK, Idle
<1>2. /\ call'[c] = [call[c] EXCEPT !.pc = "read"] /\ \A d \in Callers \ {c} : call'[d] = call[d]
      /\ weeklyMu = None /\ weeklyMu' = c /\ UNCHANGED <<weekly, messages>> /\ call[c].pc = "wait"
  BY DEF Lock, TypeOK
<1>3. call'[c].pc = "read" /\ call'[c].at = call[c].at /\ call'[c].resets = call[c].resets
  BY <1>1, <1>2 DEF Calls
<1>4. CallsOK'
  BY <1>2, <1>3, NoneAssumption DEF WeeklyInv, CallsOK, Holding, AtHalf, Due
<1> QED
  BY <1>2, <1>4 DEF WeeklyInv, MessagesOK, OneWeeklyMessage, AtHalf

(* A call that returns leaves the mutex; the other call did not hold it.   *)
LEMMA ReturnCalls ==
  ASSUME TypeOK, WeeklyInv, NEW c \in Callers, Holding(c), Return(c)
  PROVE  \A d \in Callers : /\ ~Holding(d)' /\ weeklyMu' # d
                            /\ call'[d].pc # "none" => call'[d] = call[d]
<1>1. call'[c] = Idle /\ weeklyMu' = None /\ \A d \in Callers \ {c} : call'[d] = call[d]
  BY DEF Return, TypeOK
<1>2. \A d \in Callers \ {c} : ~Holding(d)
  BY DEF WeeklyInv, CallsOK
<1>3. call'[c].pc = "none"
  BY <1>1 DEF Idle
<1> QED
  BY <1>1, <1>2, <1>3, NoneAssumption DEF Holding

LEMMA ReadWeekly ==
  ASSUME TypeOK, WeeklyInv, NEW c \in Callers, Read(c)
  PROVE  WeeklyInv'
<1>1. call[c] \in Calls /\ Holding(c) /\ UNCHANGED <<weekly, messages>>
  BY DEF Read, TypeOK, Idle, Holding
<1>2. CASE Return(c)
  <2>1. CallsOK'
    BY <1>1, <1>2, ReturnCalls DEF WeeklyInv, CallsOK, Holding, AtHalf
  <2> QED
    BY <1>1, <2>1 DEF WeeklyInv, MessagesOK, OneWeeklyMessage, AtHalf
<1>3. CASE /\ Due(weekly, call[c].at, call[c].resets)
           /\ call' = [call EXCEPT ![c].pc = "claim"] /\ UNCHANGED weeklyMu
  <2>1. call'[c] = [call[c] EXCEPT !.pc = "claim"] /\ \A d \in Callers \ {c} : call'[d] = call[d]
    BY <1>3 DEF TypeOK
  <2>2. call'[c].pc = "claim" /\ call'[c].at = call[c].at /\ call'[c].resets = call[c].resets
    BY <1>1, <2>1 DEF Calls
  <2>3. CallsOK'
    BY <1>1, <1>3, <2>1, <2>2 DEF WeeklyInv, CallsOK, Holding, AtHalf, Due
  <2> QED
    BY <1>1, <2>3 DEF WeeklyInv, MessagesOK, OneWeeklyMessage, AtHalf
<1> QED
  BY <1>2, <1>3 DEF Read

(* The claim comes a week after every message, and no other call holds     *)
(* one: what a claim replaces is only ever older.                          *)
LEMMA ClaimWeekly ==
  ASSUME TypeOK, WeeklyInv, NEW c \in Callers, Claim(c)
  PROVE  WeeklyInv'
<1>1. call[c] \in Calls /\ Holding(c) /\ UNCHANGED messages /\ call[c].pc = "claim"
  BY DEF Claim, TypeOK, Idle, Holding
<1>2. CASE Return(c) /\ UNCHANGED weekly
  <2>1. CallsOK'
    BY <1>1, <1>2, ReturnCalls DEF WeeklyInv, CallsOK, Holding, AtHalf
  <2> QED
    BY <1>1, <1>2, <2>1 DEF WeeklyInv, MessagesOK, OneWeeklyMessage, AtHalf
<1>3. CASE /\ weekly' = [cycle |-> call[c].resets, attempted |-> call[c].at]
           /\ call' = [call EXCEPT ![c].pc = "send"] /\ UNCHANGED weeklyMu
  <2>1. call'[c] = [call[c] EXCEPT !.pc = "send"] /\ \A d \in Callers \ {c} : call'[d] = call[d]
    BY <1>3 DEF TypeOK
  <2>2. call'[c].pc = "send" /\ call'[c].at = call[c].at /\ call'[c].resets = call[c].resets
    BY <1>1, <2>1 DEF Calls
  <2>3. call[c].at \in Int /\ call[c].resets \in Int /\ Week \in Nat
    BY <1>1, WeekAssumption DEF Calls
  <2>4. \A i \in 1 .. Len(messages) : call[c].at - messages[i].at >= Week /\ messages[i].at <= call[c].at
    <3> SUFFICES ASSUME NEW i \in 1 .. Len(messages)
                 PROVE  call[c].at - messages[i].at >= Week /\ messages[i].at <= call[c].at
      OBVIOUS
    <3>1. messages[i].at \in Int
      BY MessageType
    <3>2. weekly # None /\ messages[i].at <= weekly.attempted
      BY DEF WeeklyInv, MessagesOK
    <3>3. weekly.attempted \in Int /\ call[c].at - weekly.attempted >= Week
      BY <1>1, <3>2 DEF WeeklyInv, CallsOK, Due, TypeOK
    <3> QED
      BY <2>3, <3>1, <3>2, <3>3
  <2>5. \A d \in Callers \ {c} : ~Holding(d) /\ weeklyMu # d
    BY <1>1 DEF WeeklyInv, CallsOK
  <2>6. CallsOK'
    BY <1>1, <1>3, <2>1, <2>2, <2>4, <2>5 DEF WeeklyInv, CallsOK, Holding, AtHalf
  <2>7. weekly' # None /\ weekly'.attempted = call[c].at
    BY <1>3, <2>3, NoneAssumption
  <2>8. MessagesOK'
    BY <1>1, <2>4, <2>7 DEF WeeklyInv, MessagesOK, AtHalf
  <2> QED
    BY <1>1, <2>6, <2>8 DEF WeeklyInv, OneWeeklyMessage
<1> QED
  BY <1>2, <1>3 DEF Claim

(* The message that is sent is of another week than all before it.         *)
LEMMA SendWeekly ==
  ASSUME TypeOK, WeeklyInv, NEW c \in Callers, Send(c)
  PROVE  WeeklyInv'
<1> DEFINE n == Len(messages) + 1
           msg == [cycle |-> call[c].resets, at |-> call[c].at]
<1>1. /\ call[c] \in Calls /\ Holding(c) /\ Return(c) /\ UNCHANGED weekly
      /\ messages' = Append(messages, msg) /\ call[c].pc = "send"
  BY DEF Send, TypeOK, Idle, Holding
<1>2. msg.at \in Int /\ msg.cycle \in Int /\ Week \in Nat /\ AtHalf(msg.cycle, msg.at)
  BY <1>1, WeekAssumption DEF Calls, WeeklyInv, CallsOK
<1>3. /\ Len(messages) \in Nat /\ Len(messages') = n /\ messages'[n] = msg
      /\ \A i \in 1 .. Len(messages) : messages'[i] = messages[i] /\ messages[i] \in [cycle : Int, at : Int]
  <2>1. messages \in Seq([cycle : Int, at : Int]) /\ Len(messages) \in Nat
    BY DEF TypeOK
  <2> QED
    BY <1>1, <2>1, MessageType
<1>4. /\ weekly = [cycle |-> call[c].resets, attempted |-> call[c].at]
      /\ \A i \in 1 .. Len(messages) : call[c].at - messages[i].at >= Week
  BY <1>1 DEF WeeklyInv, CallsOK
<1>5. weekly # None /\ weekly.attempted = msg.at
  BY <1>2, <1>4, NoneAssumption
<1> HIDE DEF msg
<1>6. CallsOK'
  BY <1>1, ReturnCalls DEF WeeklyInv, CallsOK, Holding, AtHalf
<1>7. MessagesOK'
  <2> SUFFICES ASSUME NEW i \in 1 .. n
               PROVE  messages'[i].at <= weekly.attempted /\ AtHalf(messages'[i].cycle, messages'[i].at)
    BY <1>1, <1>3, <1>5 DEF MessagesOK, AtHalf
  <2>1. CASE i = n
    BY <1>2, <1>3, <1>5, <2>1
  <2>2. CASE i \in 1 .. Len(messages)
    BY <1>3, <2>2 DEF WeeklyInv, MessagesOK
  <2> QED
    BY <1>3, <2>1, <2>2
<1>8. \A i \in 1 .. Len(messages) : messages[i].cycle # msg.cycle /\ msg.at - messages[i].at >= Week
  <2> SUFFICES ASSUME NEW i \in 1 .. Len(messages)
               PROVE  messages[i].cycle # msg.cycle /\ msg.at - messages[i].at >= Week
    OBVIOUS
  <2>1. msg.at - messages[i].at >= Week
    BY <1>4 DEF msg
  <2>2. AtHalf(messages[i].cycle, messages[i].at) /\ messages[i].at \in Int /\ messages[i].cycle \in Int
    BY <1>3 DEF WeeklyInv, MessagesOK
  <2> QED
    BY <1>2, <2>1, <2>2, HalvesApart
<1>9. OneWeeklyMessage'
  <2> SUFFICES ASSUME NEW i \in 1 .. n, NEW j \in 1 .. n, i < j
               PROVE  /\ messages'[i].cycle # messages'[j].cycle
                      /\ messages'[j].at - messages'[i].at >= Week
    BY <1>3 DEF OneWeeklyMessage
  <2>1. i \in 1 .. Len(messages)
    BY <1>3
  <2>2. CASE j = n
    BY <1>3, <1>8, <2>1, <2>2
  <2>3. CASE j \in 1 .. Len(messages)
    BY <1>3, <2>1, <2>3 DEF WeeklyInv, OneWeeklyMessage
  <2> QED
    BY <1>3, <2>2, <2>3
<1> QED
  BY <1>6, <1>7, <1>9 DEF WeeklyInv

LEMMA StepSequential ==
  ASSUME TypeOK, Sequential, [Next]_vars
  PROVE  Sequential'
<1>1. CASE UNCHANGED <<monitor, call>>
  BY <1>1 DEF Sequential
<1>2. ASSUME call'["central"] = call["central"], monitor.pc # "checking"
      PROVE  Sequential'
  BY <1>2 DEF Sequential
<1>3. ASSUME NEW a \in LocalAccounts, LocalCheck(a)
      PROVE  Sequential'
  BY <1>3 DEF LocalCheck, CheckQuietWeekly, Sequential, TypeOK, Callers
<1>4. ASSUME NEW c \in Callers, Lock(c) \/ Read(c) \/ Claim(c) \/ Send(c)
      PROVE  Sequential'
  <2>1. UNCHANGED monitor /\ call[c] # Idle /\ \A d \in Callers \ {c} : call'[d] = call[d]
    BY <1>4 DEF Lock, Read, Claim, Send, Return, TypeOK, Idle
  <2>2. CASE c = "central"
    BY <2>1, <2>2 DEF Sequential
  <2>3. CASE c # "central"
    BY <2>1, <2>3 DEF Sequential, Callers
  <2> QED
    BY <2>2, <2>3
<1>5. CASE Check
  BY <1>5 DEF Check, Sequential, TypeOK
<1>6. CASE Checked \/ Crash
  BY <1>6 DEF Checked, Crash, Sequential, Callers
<1>7. CASE Wake \/ Judge \/ SaveCursor
  BY <1>2, <1>7 DEF Wake, Judge, SaveCursor
<1>8. CASE Tick \/ UNCHANGED vars
  BY <1>1, <1>8 DEF Tick, vars
<1>9. ASSUME NEW a \in Accounts, NEW t \in -Delay .. MaxTime + Skew, Upload(a, t)
      PROVE  Sequential'
  BY <1>1, <1>9 DEF Upload
<1> QED
  BY <1>3, <1>4, <1>5, <1>6, <1>7, <1>8, <1>9 DEF Next

LEMMA StepWeekly ==
  ASSUME TypeOK, WeeklyInv, Sequential, [Next]_vars
  PROVE  WeeklyInv'
<1>1. CASE UNCHANGED <<call, weekly, weeklyMu, messages>>
  BY <1>1 DEF WeeklyInv, CallsOK, Holding, MessagesOK, OneWeeklyMessage, AtHalf, Due
<1>2. ASSUME NEW a \in LocalAccounts, LocalCheck(a)
      PROVE  WeeklyInv'
  <2>1. WeekEnd(a, now) \in Int
    BY WeekEndType, WeekAssumption DEF TypeOK
  <2> QED
    BY <1>2, <2>1, QuietWeekly DEF LocalCheck, Callers
<1>3. CASE Check
  <2>1. call["central"] = Idle /\ UNCHANGED <<weekly, weeklyMu, messages>>
    BY <1>3 DEF Check, Sequential
  <2>2. rows[Current].account \in Accounts /\ rows[Current].captured \in Int
    BY <1>3, CurrentIsFirst, RowType DEF Check, TypeOK
  <2>3. WeekEnd(rows[Current].account, rows[Current].captured) \in Int
    BY <2>2, WeekEndType
  <2>4. PICK low \in BOOLEAN :
          CheckQuietWeekly("central", WeekEnd(rows[Current].account, rows[Current].captured), low)
    BY <1>3 DEF Check
  <2> QED
    BY <2>1, <2>3, <2>4, QuietWeekly DEF Callers
<1>4. ASSUME NEW c \in Callers, Lock(c) \/ Read(c) \/ Claim(c) \/ Send(c)
      PROVE  WeeklyInv'
  BY <1>4, LockWeekly, ReadWeekly, ClaimWeekly, SendWeekly
<1>5. CASE Crash
  BY <1>5, NoneAssumption
  DEF Crash, WeeklyInv, CallsOK, Holding, MessagesOK, OneWeeklyMessage, AtHalf, Idle
<1>6. CASE Tick \/ Wake \/ Judge \/ Checked \/ SaveCursor \/ UNCHANGED vars
  BY <1>1, <1>6 DEF Tick, Wake, Judge, Checked, SaveCursor, vars
<1>7. ASSUME NEW a \in Accounts, NEW t \in -Delay .. MaxTime + Skew, Upload(a, t)
      PROVE  WeeklyInv'
  BY <1>1, <1>7 DEF Upload
<1> QED
  BY <1>2, <1>3, <1>4, <1>5, <1>6, <1>7 DEF Next
-----------------------------------------------------------------------------
(* The state keeps its type.                                               *)
THEOREM TypeCorrect == Spec => []TypeOK
<1>1. TypeOK /\ [Next]_vars => TypeOK'
  BY StepTypes
<1> QED
  BY <1>1, InitTypes, PTL DEF Spec

(* The cursor passes the newest observation of an account only after the   *)
(* monitor has handled it, and nothing older is handled after it           *)
(* (processCentralQuotaUpdates, CentralQuotaObservations).                 *)
THEOREM CursorCorrect == Spec => []CursorMeansHandled
<1>1. TypeOK /\ CursorInv /\ [Next]_vars => CursorInv'
  BY StepCursor
<1>2. CursorInv => CursorMeansHandled
  BY DEF CursorInv
<1> QED
  BY <1>1, <1>2, InitCursor, TypeCorrect, PTL DEF Spec

(* A provider is told of once a week at most, whatever calls, crashes and  *)
(* failed writes come between (checkQuietWeekly).                          *)
THEOREM WeeklyCorrect == Spec => []OneWeeklyMessage
<1>1. Init => WeeklyInv /\ Sequential
  BY InitWeekly DEF Init, Sequential, Callers
<1>2. TypeOK /\ WeeklyInv /\ Sequential /\ [Next]_vars => WeeklyInv' /\ Sequential'
  BY StepWeekly, StepSequential
<1>3. WeeklyInv => OneWeeklyMessage
  BY DEF WeeklyInv
<1> QED
  BY <1>1, <1>2, <1>3, TypeCorrect, PTL DEF Spec
=============================================================================
