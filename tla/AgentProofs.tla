--------------------------- MODULE AgentProofs ---------------------------
(***************************************************************************)
(* The agents, for any providers, requests and goroutines: no run escapes   *)
(* the manager, and the map names no run that is over.  Both invariants are *)
(* inductive next to the type of the state and the fact that a call knows   *)
(* the provider it is about.                                                *)
(*                                                                          *)
(* And their credentials, for any number of tokens, failures and agents of  *)
(* every kind: AuthInv says where a poll may be (Where), which refresh      *)
(* tokens are spent (Renewal), what a token the agent has paused for can    *)
(* still reach (NamedInv, for each kind in its own way: what detection,     *)
(* the client and the last token may hold), and what the poll was told      *)
(* before it went on (Told).                                                *)
(***************************************************************************)
EXTENDS AgentManager, ProviderAuth, WellFoundedInduction, TLAPS

(* A call knows its provider, except the StopAll of main, which neither     *)
(* starts again nor has keys left to trigger.                               *)
Keyed ==
  \A p \in Callers :
    \/ call[p].key \in Keys
    \/ call[p].todo = {} /\ call[p].again = FALSE /\ call[p].step \in {"idle", "cancel", "wait"}

MInv == TypeOK /\ Keyed

(* What every step does to the call it belongs to. *)
OwnCall(p) ==
  /\ call' \in [Callers -> Calls]
  /\ Keyed'
  /\ \A q \in Callers \ {p} : call'[q] = call[q]

-----------------------------------------------------------------------------
(* A caller whose call becomes c leaves the other calls alone.              *)
LEMMA CallStep ==
  ASSUME MInv, NEW p \in Callers, NEW c \in Calls, call' = [call EXCEPT ![p] = c],
         \/ c.key \in Keys
         \/ c.todo = {} /\ c.again = FALSE /\ c.step \in {"idle", "cancel", "wait"}
  PROVE  OwnCall(p) /\ call'[p] = c
<1>1. call'[p] = c /\ \A q \in Callers \ {p} : call'[q] = call[q]
  BY DEF MInv, TypeOK
<1>2. call' \in [Callers -> Calls]
  BY DEF MInv, TypeOK
<1>3. Keyed'
  BY <1>1 DEF MInv, Keyed
<1> QED
  BY <1>1, <1>2, <1>3 DEF OwnCall

(* Going on to another step keeps the rest of the call.                     *)
LEMMA GotoStep ==
  ASSUME MInv, NEW p \in Callers, call[p].key \in Keys \/ call[p].step \in {"cancel", "wait"},
         NEW s \in {"factory", "install", "wait"}, Goto(p, s),
         s = "wait" \/ call[p].key \in Keys
  PROVE  OwnCall(p) /\ call'[p].step = s /\ call'[p].runs = call[p].runs
<1> DEFINE c == [call[p] EXCEPT !.step = s]
<1>1. call[p] \in Calls
  BY DEF MInv, TypeOK
<1>2. /\ c \in Calls /\ c.step = s /\ c.runs = call[p].runs
      /\ c.key = call[p].key /\ c.todo = call[p].todo /\ c.again = call[p].again
  BY <1>1 DEF Calls
<1>3. call' = [call EXCEPT ![p] = c]
  BY DEF Goto, MInv, TypeOK
<1>4. call[p].key \in Keys \/ (call[p].todo = {} /\ call[p].again = FALSE)
  BY DEF MInv, Keyed
<1> HIDE DEF c
<1> QED
  BY <1>2, <1>3, <1>4, CallStep

(* A call that returns holds no run any more.                               *)
LEMMA ReturnStep ==
  ASSUME MInv, NEW p \in Callers, Return(p)
  PROVE  OwnCall(p) /\ call'[p].step \in {"idle", "trigger"} /\ call'[p].runs = {}
<1>1. CASE call[p].todo = {}
  <2>1. Idle \in Calls /\ Idle.step = "idle" /\ Idle.runs = {} /\ Idle.todo = {} /\ Idle.again = FALSE
    BY DEF Idle, Calls
  <2>2. call' = [call EXCEPT ![p] = Idle]
    BY <1>1 DEF Return
  <2> QED
    BY <2>1, <2>2, CallStep
<1>2. CASE call[p].todo # {}
  <2>1. PICK k \in call[p].todo :
          call' = [call EXCEPT ![p] = [step |-> "trigger", key |-> k, todo |-> call[p].todo \ {k},
                                       again |-> FALSE, runs |-> {}]]
    BY <1>2 DEF Return
  <2> DEFINE c == [step |-> "trigger", key |-> k, todo |-> call[p].todo \ {k},
                   again |-> FALSE, runs |-> {}]
  <2>2. k \in Keys /\ call[p].todo \subseteq Keys
    BY DEF MInv, TypeOK, Calls
  <2>3. c \in Calls /\ c.key \in Keys /\ c.step = "trigger" /\ c.runs = {}
    BY <2>2 DEF Calls
  <2>4. call' = [call EXCEPT ![p] = c]
    BY <2>1
  <2> HIDE DEF c
  <2> QED
    BY <2>3, <2>4, CallStep
<1> QED
  BY <1>1, <1>2

-----------------------------------------------------------------------------
(* The inductive invariant. *)
AInv == MInv /\ NoOrphan /\ RegisteredRuns

LEMMA AInit == Init => AInv
<1> SUFFICES ASSUME Init PROVE AInv
  OBVIOUS
<1>1. Idle \in Calls /\ Gone \in Goroutines
  BY DEF Idle, Calls, Gone, Goroutines
<1>2. TypeOK
  BY <1>1 DEF Init, TypeOK
<1>3. Keyed
  BY DEF Init, Keyed, Idle
<1>4. NoOrphan
  BY DEF Init, NoOrphan, Live, Gone
<1>5. RegisteredRuns
  BY DEF Init, RegisteredRuns
<1> QED
  BY <1>2, <1>3, <1>4, <1>5 DEF AInv, MInv

(* A step that leaves the map and the goroutines alone, and is not the      *)
(* cancellation of what a Stop has taken.                                   *)
LEMMA CallOnly ==
  ASSUME AInv, NEW p \in Callers, OwnCall(p), ~At(p, "cancel"),
         UNCHANGED <<running, run>>, down' \in BOOLEAN
  PROVE  AInv'
<1>1. TypeOK'
  BY DEF AInv, MInv, TypeOK, OwnCall
<1>2. NoOrphan'
  BY DEF AInv, NoOrphan, OwnCall, At, Live
<1>3. RegisteredRuns'
  BY DEF AInv, RegisteredRuns
<1> QED
  BY <1>1, <1>2, <1>3 DEF AInv, MInv, OwnCall

LEMMA CallAInv ==
  ASSUME AInv, NEW p \in Requests,
         NEW s \in {"start", "stop", "trigger"}, NEW k \in Keys, NEW todo \in SUBSET Keys,
         Call(p, s, k, todo)
  PROVE  AInv'
<1> DEFINE c == [step |-> s, key |-> k, todo |-> todo, again |-> FALSE, runs |-> {}]
<1>1. c \in Calls /\ c.key \in Keys
  BY DEF Calls
<1>2. call' = [call EXCEPT ![p] = c] /\ p \in Callers
  BY DEF Call, Callers
<1> HIDE DEF c
<1>3. OwnCall(p)
  BY <1>1, <1>2, CallStep DEF AInv
<1> QED
  BY <1>2, <1>3, CallOnly DEF Call, At, AInv, MInv, TypeOK

LEMMA BeginAInv ==
  ASSUME AInv, NEW p \in Requests, Begin(p)
  PROVE  AInv'
<1>1. ASSUME NEW k \in Keys, CallStart(p, k) \/ CallStop(p, k) PROVE AInv'
  BY <1>1, CallAInv DEF CallStart, CallStop
<1>2. CASE CallTriggerPollAll(p)
  BY <1>2, CallAInv DEF CallTriggerPollAll
<1> QED
  BY <1>1, <1>2 DEF Begin

LEMMA StartAInv ==
  ASSUME AInv, NEW p \in Callers, StartCheck(p) \/ Factory(p) \/ TriggerCheck(p)
  PROVE  AInv'
<1>1. call[p] \in Calls /\ call[p].step \in {"start", "factory", "trigger"}
  BY DEF StartCheck, Factory, TriggerCheck, At, AInv, MInv, TypeOK
<1>2. call[p].key \in Keys
  BY <1>1 DEF AInv, MInv, Keyed
<1>3. UNCHANGED <<running, run>> /\ down' \in BOOLEAN
  BY DEF StartCheck, Factory, TriggerCheck, AInv, MInv, TypeOK
<1>4. CASE Return(p)
  BY <1>1, <1>3, <1>4, ReturnStep, CallOnly DEF AInv, At
<1>5. CASE Goto(p, "factory") \/ Goto(p, "install")
  BY <1>1, <1>2, <1>3, <1>5, GotoStep, CallOnly DEF AInv, At
<1>6. CASE call' = [call EXCEPT ![p] = [call[p] EXCEPT !.step = "stop", !.again = TRUE]]
  <2> DEFINE c == [call[p] EXCEPT !.step = "stop", !.again = TRUE]
  <2>1. c \in Calls /\ c.key \in Keys
    BY <1>1, <1>2 DEF Calls
  <2>2. OwnCall(p)
    BY <1>6, <2>1, CallStep DEF AInv
  <2> QED
    BY <1>1, <1>3, <2>2, CallOnly DEF At
<1> QED
  BY <1>4, <1>5, <1>6 DEF StartCheck, Factory, TriggerCheck

LEMMA InstallAInv ==
  ASSUME AInv, NEW p \in Callers, Install(p)
  PROVE  AInv'
<1>1. call[p] \in Calls /\ call[p].step = "install" /\ call[p].key \in Keys /\ down' \in BOOLEAN
  BY DEF Install, At, AInv, MInv, TypeOK, Keyed
<1>2. OwnCall(p)
  BY ReturnStep DEF Install, AInv
<1>3. CASE UNCHANGED <<running, run>>
  BY <1>1, <1>2, <1>3, CallOnly DEF At
<1>4. ASSUME running[call[p].key] = "none", NEW r \in Runs, Unused(r),
             run' = [run EXCEPT ![r] = [state |-> "running", key |-> call[p].key, cancelled |-> FALSE]],
             running' = [running EXCEPT ![call[p].key] = r]
      PROVE  AInv'
  <2> DEFINE k == call[p].key
             g == [state |-> "running", key |-> k, cancelled |-> FALSE]
  <2>1. g \in Goroutines /\ g.key = k /\ g # Gone /\ g.state = "running"
    BY <1>1 DEF Goroutines, Gone
  <2>2. run' = [run EXCEPT ![r] = g] /\ running' = [running EXCEPT ![k] = r] /\ k \in Keys
    BY <1>1, <1>4
  <2>3. k = call[p].key
    OBVIOUS
  <2> HIDE DEF g, k
  <2>4. TypeOK'
    BY <1>1, <1>2, <2>1, <2>2 DEF AInv, MInv, TypeOK, OwnCall
  <2>5. run'[r] = g /\ running'[k] = r
        /\ (\A s \in Runs \ {r} : run'[s] = run[s]) /\ (\A j \in Keys \ {k} : running'[j] = running[j])
    BY <2>2 DEF AInv, MInv, TypeOK
  <2>6. NoOrphan'
    <3> SUFFICES ASSUME NEW s \in Runs, Live(s)'
                 PROVE  (running[run[s].key] = s \/ run[s].cancelled
                         \/ \E q \in Callers : At(q, "cancel") /\ s \in call[q].runs)'
      BY DEF NoOrphan
    <3>1. CASE s = r
      BY <2>1, <2>5, <3>1
    <3>2. CASE s # r
      <4>1. run'[s] = run[s] /\ Live(s)
        BY <2>5, <3>2 DEF Live
      <4>2. CASE running[run[s].key] = s
        <5>1. run[s].key # k
          BY <4>2, <1>4, <2>3, ManagerConstants
        <5>2. run[s] \in Goroutines /\ run[s].state = "running"
          BY <4>1 DEF Live, AInv, MInv, TypeOK
        <5>3. run[s].key \in Keys
          BY <5>2 DEF Goroutines, Gone
        <5> QED
          BY <4>1, <4>2, <5>1, <5>3, <2>5
      <4>3. CASE run[s].cancelled
        BY <4>1, <4>3
      <4>4. CASE \E q \in Callers : At(q, "cancel") /\ s \in call[q].runs
        BY <4>4, <1>1, <1>2 DEF At, OwnCall
      <4> QED
        BY <4>1, <4>2, <4>3, <4>4 DEF AInv, NoOrphan
    <3> QED
      BY <3>1, <3>2
  <2>7. RegisteredRuns'
    <3> SUFFICES ASSUME NEW j \in Keys, running'[j] # "none"
                 PROVE  run'[running'[j]] # Gone /\ run'[running'[j]].key = j
      BY DEF RegisteredRuns
    <3>1. CASE j = k
      BY <2>1, <2>5, <3>1
    <3>2. CASE j # k
      <4>1. running'[j] = running[j] /\ running[j] \in Runs
        BY <2>5, <3>2 DEF AInv, MInv, TypeOK
      <4>2. run[running[j]] # Gone /\ run[running[j]].key = j
        BY <4>1 DEF AInv, RegisteredRuns
      <4>3. running[j] # r
        BY <4>2, <1>4 DEF Unused
      <4> QED
        BY <4>1, <4>2, <4>3, <2>5
    <3> QED
      BY <3>1, <3>2
  <2> QED
    BY <1>2, <2>4, <2>6, <2>7 DEF AInv, MInv, OwnCall
<1> QED
  BY <1>3, <1>4 DEF Install

(* Stop and StopAll: what leaves the map is in the hands of the caller.     *)
LEMMA TakeAInv ==
  ASSUME AInv, NEW p \in Callers, NEW keys \in SUBSET Keys, Take(p, keys), ~At(p, "cancel"),
         call[p].key \in Keys \/ (call[p].todo = {} /\ call[p].again = FALSE)
  PROVE  AInv'
<1> DEFINE taken == {running[k] : k \in keys} \ {"none"}
           c == [call[p] EXCEPT !.step = "cancel", !.runs = taken]
<1>1. taken \subseteq Runs
  BY DEF AInv, MInv, TypeOK
<1>2. /\ c \in Calls /\ c.step = "cancel" /\ c.runs = taken
      /\ c.key = call[p].key /\ c.todo = call[p].todo /\ c.again = call[p].again
  BY <1>1 DEF AInv, MInv, TypeOK, Calls
<1>3. call' = [call EXCEPT ![p] = c]
  BY DEF Take
<1> HIDE DEF c
<1>4. OwnCall(p) /\ call'[p] = c
  BY <1>2, <1>3, CallStep DEF AInv
<1>5. TypeOK'
  BY <1>4 DEF Take, AInv, MInv, TypeOK, OwnCall
<1>6. NoOrphan'
  <2> SUFFICES ASSUME NEW s \in Runs, Live(s)'
               PROVE  (running[run[s].key] = s \/ run[s].cancelled
                       \/ \E q \in Callers : At(q, "cancel") /\ s \in call[q].runs)'
    BY DEF NoOrphan
  <2>1. run' = run /\ Live(s)
    BY DEF Take, Live
  <2>2. run[s].key \in Keys
    BY <2>1 DEF Live, AInv, MInv, TypeOK, Goroutines, Gone
  <2>3. CASE running[run[s].key] = s /\ run[s].key \in keys
    <3>1. s \in taken
      BY <2>3, ManagerConstants
    <3> QED
      BY <3>1, <1>2, <1>4 DEF At
  <2>4. CASE running[run[s].key] = s /\ run[s].key \notin keys
    BY <2>1, <2>2, <2>4 DEF Take
  <2>5. CASE \E q \in Callers : At(q, "cancel") /\ s \in call[q].runs
    BY <2>5, <1>4 DEF At, OwnCall
  <2> QED
    BY <2>1, <2>3, <2>4, <2>5 DEF AInv, NoOrphan
<1>7. RegisteredRuns'
  BY DEF Take, AInv, RegisteredRuns
<1> QED
  BY <1>4, <1>5, <1>6, <1>7 DEF AInv, MInv, OwnCall

LEMMA StopAInv ==
  ASSUME AInv
  PROVE  /\ \A p \in Callers : StopTake(p) => AInv'
         /\ StopAll => AInv'
<1>1. ASSUME NEW p \in Callers, StopTake(p) PROVE AInv'
  <2>1. call[p].step = "stop" /\ call[p].key \in Keys
    BY <1>1 DEF StopTake, At, AInv, MInv, Keyed
  <2> QED
    BY <1>1, <2>1, TakeAInv DEF StopTake, At
<1>2. ASSUME StopAll PROVE AInv'
  <2>1. "main" \in Callers /\ call["main"].step = "idle"
    BY <1>2 DEF StopAll, At, Callers
  <2>2. call["main"].key \in Keys \/ (call["main"].todo = {} /\ call["main"].again = FALSE)
    BY <2>1 DEF AInv, MInv, Keyed
  <2> QED
    BY <1>2, <2>1, <2>2, TakeAInv DEF StopAll, At
<1> QED
  BY <1>1, <1>2

(* The cancelled runs need no one to hold them any more.                    *)
LEMMA CancelAInv ==
  ASSUME AInv, NEW p \in Callers, Cancel(p)
  PROVE  AInv'
<1>1. OwnCall(p) /\ call'[p].step = "wait"
  BY GotoStep DEF Cancel, At, AInv
<1>2. ASSUME NEW r \in Runs
      PROVE  /\ run'[r] \in Goroutines
             /\ run[r] = Gone => run'[r] = Gone
             /\ run[r] # Gone => /\ run'[r] # Gone /\ run'[r].state = run[r].state
                                 /\ run'[r].key = run[r].key
                                 /\ run'[r].cancelled = (run[r].cancelled \/ r \in call[p].runs)
  <2>1. run[r] \in Goroutines
    BY DEF AInv, MInv, TypeOK
  <2>2. CASE r \in call[p].runs /\ run[r] # Gone
    <3>1. run'[r] = [run[r] EXCEPT !.cancelled = TRUE]
      BY <2>2 DEF Cancel
    <3>2. run[r] \in [state : {"running", "returned"}, key : Keys, cancelled : BOOLEAN]
      BY <2>1, <2>2 DEF Goroutines
    <3>3. /\ run'[r] \in [state : {"running", "returned"}, key : Keys, cancelled : BOOLEAN]
          /\ run'[r].state = run[r].state /\ run'[r].key = run[r].key /\ run'[r].cancelled = TRUE
      BY <3>1, <3>2
    <3>4. run'[r] # Gone
      BY <3>3 DEF Gone
    <3> QED
      BY <2>2, <3>3, <3>4 DEF Goroutines
  <2>3. CASE ~(r \in call[p].runs /\ run[r] # Gone)
    <3>1. run'[r] = run[r]
      BY <2>3 DEF Cancel
    <3>2. run[r] # Gone => run[r].cancelled = (run[r].cancelled \/ r \in call[p].runs)
      <4>1. run[r] # Gone => run[r].cancelled \in BOOLEAN /\ r \notin call[p].runs
        BY <2>1, <2>3 DEF Goroutines
      <4> QED
        BY <4>1
    <3> QED
      BY <2>1, <3>1, <3>2
  <2> QED
    BY <2>2, <2>3
<1>3. TypeOK'
  <2>1. run' = [r \in Runs |-> run'[r]]
    BY DEF Cancel
  <2>2. run' \in [Runs -> Goroutines]
    BY <1>2, <2>1
  <2> QED
    BY <1>1, <2>2 DEF Cancel, AInv, MInv, TypeOK, OwnCall
<1>4. NoOrphan'
  <2> SUFFICES ASSUME NEW s \in Runs, Live(s)'
               PROVE  (running[run[s].key] = s \/ run[s].cancelled
                       \/ \E q \in Callers : At(q, "cancel") /\ s \in call[q].runs)'
    BY DEF NoOrphan
  <2>1. run[s] # Gone /\ Live(s) /\ running' = running
    BY <1>2 DEF Live, Gone, Cancel
  <2>2. /\ run'[s].key = run[s].key
        /\ run'[s].cancelled = (run[s].cancelled \/ s \in call[p].runs)
    BY <1>2, <2>1
  <2>3. CASE running[run[s].key] = s
    BY <2>1, <2>2, <2>3
  <2>4. CASE run[s].cancelled
    BY <2>2, <2>4
  <2>5. ASSUME NEW q \in Callers, At(q, "cancel"), s \in call[q].runs
        PROVE  run'[s].cancelled \/ (At(q, "cancel")' /\ s \in call'[q].runs)
    BY <1>1, <2>2, <2>5 DEF At, OwnCall
  <2> QED
    BY <2>1, <2>3, <2>4, <2>5 DEF AInv, NoOrphan
<1>5. RegisteredRuns'
  <2> SUFFICES ASSUME NEW k \in Keys, running[k] # "none"
               PROVE  run'[running[k]] # Gone /\ run'[running[k]].key = k
    BY DEF RegisteredRuns, Cancel
  <2>1. running[k] \in Runs
    BY DEF AInv, MInv, TypeOK
  <2>2. run[running[k]] # Gone /\ run[running[k]].key = k
    BY DEF AInv, RegisteredRuns
  <2> QED
    BY <1>2, <2>1, <2>2
<1> QED
  BY <1>1, <1>3, <1>4, <1>5 DEF AInv, MInv, OwnCall

LEMMA WaitAInv ==
  ASSUME AInv, NEW p \in Callers, Wait(p)
  PROVE  AInv'
<1>1. call[p] \in Calls /\ call[p].step = "wait" /\ UNCHANGED <<running, run>> /\ down' \in BOOLEAN
  BY DEF Wait, At, AInv, MInv, TypeOK
<1>2. CASE call[p].again
  <2> DEFINE c == [call[p] EXCEPT !.step = "start", !.again = FALSE, !.runs = {}]
  <2>1. call[p].key \in Keys
    BY <1>2 DEF AInv, MInv, Keyed
  <2>2. c \in Calls /\ c.key \in Keys
    BY <1>1, <2>1 DEF Calls
  <2>3. call' = [call EXCEPT ![p] = c]
    BY <1>2 DEF Wait
  <2> HIDE DEF c
  <2>4. OwnCall(p)
    BY <2>2, <2>3, CallStep DEF AInv
  <2> QED
    BY <1>1, <2>4, CallOnly DEF At
<1>3. CASE ~call[p].again
  BY <1>1, <1>3, ReturnStep, CallOnly DEF Wait, AInv, At
<1> QED
  BY <1>2, <1>3

(* The end of a run touches no other run, and the map only at itself.       *)
LEMMA RunAInv ==
  ASSUME AInv, NEW r \in Runs, RunReturns(r) \/ Deregister(r)
  PROVE  AInv'
<1>1. UNCHANGED <<call, down>>
  BY DEF RunReturns, Deregister
<1>2. run[r] \in Goroutines \ {Gone} /\ run[r].key \in Keys
  BY DEF RunReturns, Deregister, AInv, MInv, TypeOK, Goroutines, Gone
<1>3. PICK g \in Goroutines : run' = [run EXCEPT ![r] = g] /\ g.state # "running"
                              /\ (RunReturns(r) => g.key = run[r].key /\ g # Gone)
  <2>1. CASE RunReturns(r)
    <3> DEFINE g == [run[r] EXCEPT !.state = "returned"]
    <3>1. g \in Goroutines /\ g.state = "returned" /\ g.key = run[r].key
      BY <1>2 DEF Goroutines
    <3>2. g # Gone
      BY <3>1 DEF Gone
    <3>3. run' = [run EXCEPT ![r] = g]
      BY <2>1 DEF RunReturns, AInv, MInv, TypeOK
    <3> HIDE DEF g
    <3> QED
      BY <3>1, <3>2, <3>3
  <2>2. CASE Deregister(r) /\ ~RunReturns(r)
    BY <2>2 DEF Deregister, Goroutines, Gone
  <2> QED
    BY <2>1, <2>2
<1>4. run'[r] = g /\ \A s \in Runs \ {r} : run'[s] = run[s]
  BY <1>3 DEF AInv, MInv, TypeOK
<1>5. /\ running' \in [Keys -> Runs \cup {"none"}]
      /\ \A k \in Keys : running'[k] # running[k] => running[k] = r /\ running'[k] = "none"
  BY <1>2 DEF RunReturns, Deregister, AInv, MInv, TypeOK
<1>6. TypeOK'
  BY <1>1, <1>3, <1>5 DEF AInv, MInv, TypeOK
<1>7. Keyed'
  BY <1>1 DEF AInv, MInv, Keyed
<1>8. NoOrphan'
  <2> SUFFICES ASSUME NEW s \in Runs, Live(s)'
               PROVE  (running[run[s].key] = s \/ run[s].cancelled
                       \/ \E q \in Callers : At(q, "cancel") /\ s \in call[q].runs)'
    BY DEF NoOrphan
  <2>1. s # r /\ run'[s] = run[s] /\ Live(s)
    BY <1>3, <1>4 DEF Live
  <2>2. run[s].key \in Keys
    BY <2>1 DEF Live, AInv, MInv, TypeOK, Goroutines, Gone
  <2> QED
    BY <1>1, <1>5, <2>1, <2>2 DEF AInv, NoOrphan, At
<1>9. RegisteredRuns'
  <2> SUFFICES ASSUME NEW k \in Keys, running'[k] # "none"
               PROVE  run'[running'[k]] # Gone /\ run'[running'[k]].key = k
    BY DEF RegisteredRuns
  <2>1. running'[k] = running[k] /\ running[k] \in Runs
    BY <1>5 DEF AInv, MInv, TypeOK
  <2>2. run[running[k]] # Gone /\ run[running[k]].key = k
    BY <2>1 DEF AInv, RegisteredRuns
  <2>3. CASE running[k] # r
    BY <1>4, <2>1, <2>2, <2>3
  <2>4. CASE running[k] = r
    <3>1. RunReturns(r)
      BY <2>1, <2>2, <2>4, ManagerConstants DEF Deregister, AInv, MInv, TypeOK
    <3> QED
      BY <1>3, <1>4, <2>1, <2>2, <2>4, <3>1
  <2> QED
    BY <2>3, <2>4
<1> QED
  BY <1>6, <1>7, <1>8, <1>9 DEF AInv, MInv

-----------------------------------------------------------------------------
(* Every step of the manager preserves the inductive invariant.             *)
THEOREM ManagerStep == AInv /\ [Next]_vars => AInv'
<1> SUFFICES ASSUME AInv, [Next]_vars PROVE AInv'
  OBVIOUS
<1>1. ASSUME NEW p \in Requests, Begin(p) PROVE AInv'
  BY <1>1, BeginAInv
<1>2. ASSUME NEW p \in Callers, Proceed(p) PROVE AInv'
  BY <1>2, StartAInv, InstallAInv, StopAInv, CancelAInv, WaitAInv DEF Proceed
<1>3. CASE StopAll
  BY <1>3, StopAInv
<1>4. ASSUME NEW r \in Runs, RunReturns(r) \/ Deregister(r) PROVE AInv'
  BY <1>4, RunAInv
<1>5. CASE UNCHANGED vars
  BY <1>5 DEF vars, AInv, MInv, TypeOK, Keyed, NoOrphan, RegisteredRuns, Live, At
<1> QED
  BY <1>1, <1>2, <1>3, <1>4, <1>5 DEF Next

(* The state of the manager, its goroutines and its calls is well typed.    *)
THEOREM ManagerTypeCorrect == Spec => []TypeOK
<1>1. AInv => TypeOK
  BY DEF AInv, MInv
<1> QED
  BY AInit, ManagerStep, <1>1, PTL DEF Spec

(* manager.go: every agent that polls is in the map, cancelled, or about to *)
(* be cancelled by the Stop that took it, however many requests race.       *)
THEOREM NoRunEscapes == Spec => []NoOrphan
<1>1. AInv => NoOrphan
  BY DEF AInv
<1> QED
  BY AInit, ManagerStep, <1>1, PTL DEF Spec

(* manager.go: the map never names a run that is over, so no provider is    *)
(* taken for running, and refused a Start, when it is not.                  *)
THEOREM MapNamesRuns == Spec => []RegisteredRuns
<1>1. AInv => RegisteredRuns
  BY DEF AInv
<1> QED
  BY AInit, ManagerStep, <1>1, PTL DEF Spec

-----------------------------------------------------------------------------
(* The provider agents' credentials. *)

(* A poll has left the agent paused for this access token; only a Gemini    *)
(* agent fails with a pair of tokens.                                       *)
Bad(t) == [access |-> t, refresh |-> 0] \in named

(* Where each kind of agent can be, and with what: the renewal and its save *)
(* belong to codex, cursor and gemini, the credential owner to one claude   *)
(* agent, and only an agent that may borrow has a borrowed token.           *)
Where ==
  /\ poll.pc \in {"oauth", "save"} => kind \in {"codex", "cursor", "gemini"}
  /\ poll.pc = "owner" => kind = "claude_owner"
  /\ agent.client = Borrowed =>
       kind = "claude_owner" /\ ~(poll.pc = "fetch" /\ poll.retry)
  /\ poll.pc = "save" => poll.issued.access # 0 /\ poll.issued.refresh # 0
  /\ kind = "gemini" /\ poll.pc = "save" => poll.issued.refresh = poll.creds.refresh
  /\ poll.usable => kind = "claude_hybrid"
  /\ kind \in Claude /\ poll.retry => poll.pc \in {"fetch", "reread"}

(* The writes of a cursor agent's save are still to come to its place. *)
Unwritten(upTo) == poll.pc = "save" /\ (kind = "cursor" => poll.writes < upTo)

(* No spent refresh token is left to be sent: a place may hold one only     *)
(* between the provider's answer and the write of what it issued.           *)
Renewal ==
  /\ kind = "gemini" => sent = {}
  /\ disk.refresh \in sent => Unwritten(2) /\ disk.refresh = poll.creds.refresh
  /\ kind = "cursor" /\ db.refresh \in sent =>
       Unwritten(AllWrites) /\ db.refresh = poll.creds.refresh
  /\ poll.pc = "oauth" => poll.creds.refresh \notin sent
  /\ poll.pc = "save" => poll.issued.refresh \notin sent

(* A codex agent polls unpaused, with a token it has not paused for; a bad  *)
(* token on disk keeps it paused, because it is the one it failed with.     *)
NamedCodex ==
  /\ poll.pc \in {"oauth", "save", "fetch", "reread"} => ~agent.paused
  /\ Bad(DetectToken) => agent.paused /\ agent.failed = DetectToken
  /\ poll.pc = "fetch" => ~Bad(agent.client)
  /\ agent.last # 0 => agent.client = agent.last
  /\ poll.pc = "save" => ~Bad(poll.issued.access)

(* A cursor agent that polls has no bad token at hand; a bad one that would *)
(* be read is the one it failed with.                                       *)
NamedCursor ==
  /\ poll.pc # "idle" \/ ~agent.paused => ~Bad(DetectToken) /\ ~Bad(agent.client)
  /\ Bad(DetectToken) => agent.failed = DetectToken
  /\ poll.pc = "save" => ~Bad(poll.issued.access)

(* A claude agent is like a codex agent, but may also hold the token that   *)
(* the credential owner lent it.                                            *)
NamedClaude ==
  /\ poll.pc \in {"fetch", "reread"} => ~agent.paused
  /\ Bad(DetectToken) => agent.paused /\ agent.failed = DetectToken
  /\ poll.pc = "fetch" => ~Bad(agent.client)
  /\ agent.last # 0 => agent.client \in {agent.last, Borrowed}
  /\ agent.borrowing /\ Bad(agent.client) => agent.paused
  /\ poll.pc = "owner" => ~Bad(DetectToken)

(* A gemini agent goes by refresh tokens: the one it failed with keeps it   *)
(* paused until its retry window has passed, and never is polled with.      *)
NamedGemini ==
  /\ poll.pc # "idle" => ~agent.paused
  /\ \A n \in named : n.refresh = Merged.refresh =>
       agent.paused /\ agent.waiting /\ agent.failedRefresh = n.refresh
  /\ poll.pc # "idle" => \A n \in named : n.refresh # poll.creds.refresh

(* What of a token the agent has paused for is left, by kind. *)
NamedInv ==
  /\ kind \in Codex => NamedCodex
  /\ kind = "cursor" => NamedCursor
  /\ kind \in Claude => NamedClaude
  /\ kind = "gemini" => NamedGemini

(* A pause was announced, and the poll of a paused agent began announced.   *)
Told ==
  kind # "claude_hybrid" =>
    /\ poll.pc = "idle" /\ agent.paused => health = "down"
    /\ poll.pc # "idle" /\ poll.wasPaused => health = "down"
-----------------------------------------------------------------------------
(* The provider issues the tokens in their order. *)
LEMMA FreshIsUnissued ==
  ASSUME Unissued # {}
  PROVE  Fresh \in Unissued /\ Fresh \in 1 .. Tokens /\ Fresh \notin Own
<1>1. Unissued \subseteq Nat
  BY DEF Unissued
<1>2. \A x, y \in Nat : y < x => <<y, x>> \in OpToRel(<, Nat)
  BY DEF OpToRel
<1>3. PICK x \in Unissued : \A y \in Unissued : ~(<<y, x>> \in OpToRel(<, Nat))
  BY <1>1, NatLessThanWellFounded, WFMin, Zenon
<1>. HIDE DEF OpToRel
<1>4. \A y \in Unissued : x <= y
  <2> SUFFICES ASSUME NEW y \in Unissued PROVE x <= y
    OBVIOUS
  <2>1. x \in Nat /\ y \in Nat
    BY <1>1
  <2>2. ~(y < x)
    BY <1>2, <1>3, <2>1, Zenon
  <2> QED
    BY <2>1, <2>2
<1>5. Fresh \in Unissued
  BY <1>4 DEF Fresh
<1> QED
  BY <1>5 DEF Unissued, Own

(* What the agent does to its memory keeps its type. *)
LEMMA AgentOps ==
  ASSUME NEW a \in AgentType, NEW t \in Own, NEW r \in Own
  PROVE  /\ Adopt(a, t) \in AgentType /\ Lift(a) \in AgentType /\ Pause(a, t) \in AgentType
         /\ Changed(a, t) \in AgentType /\ Counted(a, t) \in AgentType
         /\ PauseAuthentication(a, t, r) \in AgentType /\ ResetAuthentication(a) \in AgentType
<1>0. 0 \in Own /\ 0 \in 0 .. MaxFailures
  BY AuthConstants DEF Own
<1>1. \A n \in 0 .. MaxFailures : OneMore(n) \in 0 .. MaxFailures
  BY AuthConstants DEF OneMore
<1>. USE <1>0
<1>2. Adopt(a, t) \in AgentType /\ Lift(a) \in AgentType /\ Pause(a, t) \in AgentType
  BY DEF Adopt, Lift, Pause, AgentType
<1>3. [a EXCEPT !.fails = OneMore(a.fails)] \in AgentType
  BY <1>1 DEF AgentType
<1>4. Changed(a, t) \in AgentType
  BY <1>2 DEF Changed
<1>5. Counted(a, t) \in AgentType
  BY <1>3 DEF Counted, Pause, AgentType
<1>6. ResetAuthentication(a) \in AgentType
  BY <1>2 DEF ResetAuthentication, AgentType
<1>7. PauseAuthentication(a, t, r) \in AgentType
  BY <1>3 DEF PauseAuthentication, Pause, AgentType
<1> QED
  BY <1>2, <1>4, <1>5, <1>6, <1>7

LEMMA InitType == AuthInit => AuthTypeOK
  BY AuthConstants DEF AuthInit, AuthTypeOK, Own, Pair, Ages, Locations, AgentType, PollType,
     Nobody, Started, NoPoll, AllWrites, Kept

\* what a step of a poll leaves behind
Good ==
  /\ agent' \in AgentType /\ poll' \in PollType
  /\ health' \in {"none", "up", "down"}
  /\ named' \subseteq [access : Own \ {0}, refresh : Own]

LEMMA EndType ==
  ASSUME AuthTypeOK, NEW a \in AgentType, NEW outcome \in {"success", "failure", "silent"},
         End(outcome, a)
  PROVE  Good
<1>1. NoPoll \in PollType
  BY DEF NoPoll, PollType, Locations, Pair, Own, Nobody, AllWrites, Kept
<1>2. health' \in {"none", "up", "down"}
  BY DEF End, AuthTypeOK
<1>3. named' \subseteq [access : Own \ {0}, refresh : Own]
  BY DEF End, AuthTypeOK, AgentType
<1> QED
  BY <1>1, <1>2, <1>3 DEF End, Good

LEMMA GoType ==
  ASSUME AuthTypeOK, NEW a \in AgentType, NEW p \in PollType, NEW pc \in Locations,
         Go(pc, p, a)
  PROVE  Good
  BY DEF Go, AuthTypeOK, PollType, Good

\* a step that issues nothing
LEMMA SameAge ==
  ASSUME UNCHANGED <<kind, age>>
  PROVE  /\ Own' = Own /\ Pair' = Pair /\ AgentType' = AgentType /\ PollType' = PollType
  BY DEF Own, Pair, AgentType, PollType

\* what is read are tokens that have been issued
LEMMA ReadType ==
  ASSUME AuthTypeOK
  PROVE  /\ DetectCredentials \in Pair /\ Merged \in Pair /\ DetectToken \in Own
         /\ \A usable \in BOOLEAN : Read(usable) \in PollType
<1>1. 0 \in Own
  BY DEF Own
<1>2. Merged \in Pair
  BY DEF Merged, AuthTypeOK, Pair
<1>3. DetectCredentials \in Pair
  BY <1>2 DEF DetectCredentials, AuthTypeOK
<1>4. DetectToken \in Own
  BY <1>1, <1>3 DEF DetectToken, AuthTypeOK, Pair, AgentType
<1>5. Nobody \in Pair
  BY <1>1 DEF Nobody, Pair
<1>6. NoPoll \in PollType
  BY <1>5 DEF NoPoll, PollType, Locations, AllWrites, Kept
<1>7. ASSUME NEW usable \in BOOLEAN PROVE Read(usable) \in PollType
  BY <1>3, <1>6 DEF Read, PollType, AuthTypeOK, AgentType
<1> QED
  BY <1>2, <1>3, <1>4, <1>7

LEMMA BeginType ==
  ASSUME AuthTypeOK, BeginPoll
  PROVE  AuthTypeOK'
<1> SUFFICES Good
  BY SameAge DEF BeginPoll, NoFault, AuthTypeOK, credentials, Good
<1>1. agent \in AgentType /\ 0 \in Own /\ 0 \in 0 .. MaxFailures /\ disk \in Pair
  BY AuthConstants DEF AuthTypeOK, Own
<1>2. ASSUME NEW a \in AgentType, RenewFirst(a) PROVE Good
  BY <1>2, ReadType, GoType DEF RenewFirst, Locations
<1>3. CASE BeginCodex
  BY <1>1, <1>2, <1>3, ReadType, GoType DEF BeginCodex, Locations
<1>4. CASE BeginCursor
  <2>1. [agent EXCEPT !.paused = FALSE, !.fails = 0, !.client = DetectToken] \in AgentType
    BY <1>1, ReadType DEF AgentType
  <2> QED
    BY <1>1, <1>2, <1>4, <2>1, EndType DEF BeginCursor
<1>5. CASE BeginGemini
  <2>1. [agent EXCEPT !.paused = FALSE] \in AgentType /\ ResetAuthentication(agent) \in AgentType
    BY <1>1, AgentOps DEF AgentType
  <2> QED
    BY <1>1, <1>2, <1>5, <2>1, EndType DEF BeginGemini
<1>6. CASE BeginOwner
  <2> DEFINE p == Read(FALSE)
  <2>1. p \in PollType
    BY ReadType
  <2>2. ASSUME OwnerFailed(p, agent) PROVE Good
    <3>1. /\ [agent EXCEPT !.client = Borrowed, !.paused = FALSE, !.fails = 0,
                           !.borrowing = TRUE] \in AgentType
          /\ [agent EXCEPT !.client = 0, !.last = 0, !.failed = p.creds.access,
                           !.borrowing = FALSE] \in AgentType
      BY <1>1, <2>1 DEF AgentType, PollType, Pair
    <3> HIDE DEF p
    <3> QED
      BY <2>1, <2>2, <3>1, EndType, GoType DEF OwnerFailed, Locations
  <2> HIDE DEF p
  <2>3. Go("token", p, agent) \/ Go("owner", p, agent) \/ OwnerFailed(p, agent)
    BY <1>6 DEF BeginOwner, p
  <2> QED
    BY <1>1, <2>1, <2>2, <2>3, GoType DEF Locations
<1>7. CASE BeginClaude
  <2>1. [agent EXCEPT !.cycle = ~@] \in AgentType
    BY <1>1 DEF AgentType
  <2> QED
    BY <1>1, <1>7, <2>1, ReadType, GoType, EndType DEF BeginClaude, Locations
<1> QED
  BY <1>3, <1>4, <1>5, <1>6, <1>7 DEF BeginPoll

LEMMA IssueType ==
  ASSUME AuthTypeOK, NEW c \in Pair, Issue(c)
  PROVE  /\ age' \in [1 .. Tokens -> Ages]
         /\ dead' \in [access : SUBSET (1 .. Tokens), refresh : SUBSET (1 .. Tokens)]
         /\ Fresh \notin Own /\ Fresh # 0 /\ Own' = Own \cup {Fresh}
         /\ Issued(c) \in Pair' /\ Issued(c).access = Fresh
         /\ Issued(c).refresh = IF OneTime THEN Fresh ELSE c.refresh
<1>1. Fresh \in 1 .. Tokens /\ Fresh \notin Own /\ c.refresh \in 1 .. Tokens
  BY FreshIsUnissued DEF Issue, Renewable, Pair, Own
<1>2. age' \in [1 .. Tokens -> Ages] /\ Own' = Own \cup {Fresh}
  <2> HIDE DEF Fresh
  <2> QED
    BY <1>1 DEF Issue, AuthTypeOK, Own, Ages
<1>3. dead' \in [access : SUBSET (1 .. Tokens), refresh : SUBSET (1 .. Tokens)]
  BY <1>1 DEF Issue, AuthTypeOK
<1>4. Issued(c) \in Pair'
  BY <1>1, <1>2 DEF Issued, Pair
<1> QED
  BY <1>1, <1>2, <1>3, <1>4 DEF Issued

LEMMA Widen ==
  ASSUME Own \subseteq Own'
  PROVE  /\ Pair \subseteq Pair' /\ AgentType \subseteq AgentType' /\ PollType \subseteq PollType'
         /\ [access : Own \ {0}, refresh : Own] \subseteq [access : Own' \ {0}, refresh : Own']
         /\ Own \ {0} \subseteq Own' \ {0}
  BY DEF Pair, AgentType, PollType

LEMMA StatuslineType ==
  ASSUME AuthTypeOK, StatuslineFails
  PROVE  AuthTypeOK'
<1>1. Good
  BY EndType DEF StatuslineFails, AuthTypeOK
<1>2. faults' \in 0 .. MaxFaults
  BY AuthConstants DEF StatuslineFails, Fault, AuthTypeOK
<1> QED
  BY <1>1, <1>2, SameAge DEF StatuslineFails, AuthTypeOK, credentials, Good

LEMMA FaultType ==
  ASSUME AuthTypeOK, Fault \/ NoFault
  PROVE  faults' \in 0 .. MaxFaults
  BY AuthConstants DEF Fault, NoFault, AuthTypeOK

LEMMA RenewalFailsType ==
  ASSUME AuthTypeOK, poll.pc = "oauth", kind \in {"codex", "cursor", "gemini"},
         NEW reason \in {"reused", "other"}, RenewalFails(reason)
  PROVE  Good
<1> DEFINE p == [poll EXCEPT !.message = TRUE]
           more == [agent EXCEPT !.refreshFails = OneMore(agent.refreshFails)]
           gone == [agent EXCEPT !.paused = TRUE]
<1>1. poll \in PollType /\ agent \in AgentType /\ poll.creds.access \in Own /\ poll.creds.refresh \in Own
      /\ agent.last \in Own
  BY DEF AuthTypeOK, PollType, AgentType, Pair
<1>2. p \in PollType /\ gone \in AgentType
  BY <1>1 DEF PollType, AgentType
<1>3. more \in AgentType
  BY <1>1, AuthConstants DEF AgentType, OneMore
<1>4. /\ Pause(agent, poll.creds.access) \in AgentType
      /\ Pause(more, poll.creds.access) \in AgentType
      /\ PauseAuthentication(agent, agent.last, poll.creds.refresh) \in AgentType
  BY <1>1, <1>3, AgentOps
<1>5. \/ Go("token", p, Pause(agent, poll.creds.access))
      \/ Go("token", p, Pause(more, poll.creds.access))
      \/ Go("token", poll, more) \/ Go("token", poll, gone) \/ Go("token", poll, agent)
      \/ End("failure", gone)
      \/ End("failure", PauseAuthentication(agent, agent.last, poll.creds.refresh))
  BY DEF RenewalFails
<1> HIDE DEF p, more, gone
<1> QED
  BY <1>1, <1>2, <1>3, <1>4, <1>5, GoType, EndType DEF Locations

LEMMA RenewType ==
  ASSUME AuthTypeOK, kind \in {"codex", "cursor", "gemini"},
         RenewAccepted \/ RenewRefused \/ RenewLost
  PROVE  AuthTypeOK'
<1>1. poll.creds \in Pair
  BY DEF AuthTypeOK, PollType
<1>2. CASE RenewAccepted
  <2>1. Issue(poll.creds) /\ poll.creds.refresh \in Own \ {0}
    BY <1>1, <1>2 DEF RenewAccepted, Issue, Renewable, Pair
  <2>2. sent' \subseteq Own' \ {0}
    BY <1>1, <1>2, <2>1, IssueType DEF RenewAccepted, AuthTypeOK
  <2>3. poll' \in PollType'
    <3>1. poll \in PollType' /\ Issued(poll.creds) \in Pair' /\ "save" \in Locations
      BY <1>1, <2>1, IssueType, Widen DEF AuthTypeOK, Locations
    <3>2. poll' = [[poll EXCEPT !.issued = Issued(poll.creds), !.writes = 0, !.kept = {}] EXCEPT !.pc = "save"]
      BY <1>2 DEF RenewAccepted, Go
    <3>3. PollType' =
            [pc : Locations, creds : Pair', issued : Pair', retry : BOOLEAN, wasPaused : BOOLEAN,
             message : BOOLEAN, usable : BOOLEAN, writes : 0 .. AllWrites, kept : SUBSET Kept]
      BY DEF PollType, AllWrites, Kept, Locations
    <3>4. 0 \in 0 .. AllWrites /\ {} \in SUBSET Kept
      BY DEF AllWrites
    <3> DEFINE c == Issued(poll.creds)
               none == {}
    <3> HIDE DEF c, none
    <3>5. poll' = [poll EXCEPT !.issued = c, !.writes = 0, !.kept = none, !.pc = "save"]
      BY <3>2 DEF c, none
    <3>6. c \in Pair' /\ none \in SUBSET Kept
      BY <3>1, <3>4 DEF c, none
    <3> QED
      BY <3>1, <3>3, <3>4, <3>5, <3>6
  <2> QED
    BY <1>1, <1>2, <2>1, <2>2, <2>3, IssueType, Widen
    DEF RenewAccepted, Go, AuthTypeOK, NoFault
<1>3. CASE RenewRefused
  <2>1. Good
    BY <1>3, RenewalFailsType DEF RenewRefused
  <2> QED
    BY <1>3, <2>1, SameAge DEF RenewRefused, AuthTypeOK, credentials, Good, NoFault
<1>4. CASE RenewLost
  <2>1. Good
    BY <1>4, RenewalFailsType DEF RenewLost
  <2>2. faults' \in 0 .. MaxFaults
    BY <1>4, FaultType DEF RenewLost
  <2>3. CASE Issue(poll.creds)
    BY <1>1, <1>4, <2>1, <2>2, <2>3, IssueType, Widen DEF RenewLost, AuthTypeOK, Good
  <2>4. CASE UNCHANGED <<age, dead>>
    BY <1>4, <2>1, <2>2, <2>4, SameAge DEF RenewLost, AuthTypeOK, Good
  <2> QED
    BY <1>4, <2>3, <2>4 DEF RenewLost
<1> QED
  BY <1>2, <1>3, <1>4

\* the steps that save what a renewal issued
Saving ==
  \/ \E saved \in BOOLEAN : SaveCodex(saved)
  \/ CursorWriteSucceeds \/ CursorWriteFails \/ SaveCursor \/ SaveGemini

\* one of the writes of a cursor agent's save
LEMMA CursorWriteEffect ==
  ASSUME AuthTypeOK, CursorWriteSucceeds \/ CursorWriteFails
  PROVE  /\ UNCHANGED <<kind, age, dead, borrowed, agent, health, named>>
         /\ kind = "cursor" /\ poll' \in PollType /\ poll.pc = "save" /\ poll'.pc = "save"
         /\ poll'.creds = poll.creds /\ poll'.issued = poll.issued /\ poll'.retry = poll.retry
         /\ poll'.wasPaused = poll.wasPaused /\ poll'.usable = poll.usable
         /\ CursorWriteSucceeds => poll'.writes = poll.writes + 1
         /\ CursorWriteFails => poll'.writes \in {poll.writes + 1, PlaceDone}
<1>1. poll \in PollType /\ poll.writes \in 0 .. AllWrites /\ poll.writes < AllWrites
  BY DEF AuthTypeOK, PollType, CursorWriteSucceeds, CursorWriteFails, Writing
<1>2. poll.writes + 1 \in 0 .. AllWrites /\ PlaceDone \in 0 .. AllWrites /\ Field \in Kept
  BY <1>1 DEF AllWrites, PlaceDone, Field, Kept
<1>3. CASE CursorWriteSucceeds
  <2> DEFINE k == poll.kept \cup {Field}
             w == poll.writes + 1
  <2>1. poll' = [poll EXCEPT !.writes = w, !.kept = k, !.pc = "save"]
    BY <1>3 DEF CursorWriteSucceeds, Go
  <2>2. k \in SUBSET Kept /\ w \in 0 .. AllWrites
    BY <1>1, <1>2 DEF PollType
  <2> HIDE DEF k, w
  <2>3. poll' \in PollType /\ poll'.writes = w
    BY <1>1, <2>1, <2>2 DEF PollType, Locations
  <2>4. /\ UNCHANGED <<kind, age, dead, borrowed, agent, health, named>>
        /\ kind = "cursor" /\ poll.pc = "save"
    BY <1>3 DEF CursorWriteSucceeds, Writing, Go
  <2>5. /\ poll'.pc = "save" /\ poll'.creds = poll.creds /\ poll'.issued = poll.issued
        /\ poll'.retry = poll.retry /\ poll'.wasPaused = poll.wasPaused /\ poll'.usable = poll.usable
    BY <1>1, <2>1 DEF PollType
  <2> QED
    BY <2>3, <2>4, <2>5 DEF w
<1>4. CASE CursorWriteFails /\ ~CursorWriteSucceeds
  <2>1. PICK next \in {poll.writes + 1, PlaceDone} : poll' = [poll EXCEPT !.writes = next, !.pc = "save"]
    BY <1>4 DEF CursorWriteFails, Go
  <2>2. next \in 0 .. AllWrites
    BY <1>2
  <2>3. poll' \in PollType /\ poll'.writes = next
    BY <1>1, <2>1, <2>2 DEF PollType, Locations
  <2>4. /\ UNCHANGED <<kind, age, dead, borrowed, agent, health, named>>
        /\ kind = "cursor" /\ poll.pc = "save"
    BY <1>4 DEF CursorWriteFails, Writing, Go, credentials
  <2>5. /\ poll'.pc = "save" /\ poll'.creds = poll.creds /\ poll'.issued = poll.issued
        /\ poll'.retry = poll.retry /\ poll'.wasPaused = poll.wasPaused /\ poll'.usable = poll.usable
    BY <1>1, <2>1 DEF PollType
  <2> QED
    BY <1>4, <2>3, <2>4, <2>5
<1> QED
  BY <1>3, <1>4

LEMMA CursorWriteType ==
  ASSUME AuthTypeOK, CursorWriteSucceeds \/ CursorWriteFails
  PROVE  AuthTypeOK'
<1>1. disk \in Pair /\ db \in Pair /\ poll.issued \in Pair /\ Field \in {"access", "refresh"}
  BY DEF AuthTypeOK, PollType, Field
<1>2. Place \in Pair
  BY <1>1 DEF Place
<1>3. [Place EXCEPT ![Field] = poll.issued[Field]] \in Pair
  BY <1>1, <1>2 DEF Pair
<1>4. disk' \in Pair /\ db' \in Pair
  BY <1>1, <1>3 DEF CursorWriteSucceeds, CursorWriteFails, credentials
<1>5. sent' \subseteq Own \ {0}
  BY DEF CursorWriteSucceeds, CursorWriteFails, AuthTypeOK
<1>6. faults' \in 0 .. MaxFaults
  BY FaultType DEF CursorWriteSucceeds, CursorWriteFails
<1> QED
  BY <1>4, <1>5, <1>6, CursorWriteEffect, SameAge DEF AuthTypeOK

LEMMA SaveCodexType ==
  ASSUME AuthTypeOK, NEW saved \in BOOLEAN, SaveCodex(saved)
  PROVE  AuthTypeOK'
<1> DEFINE i == poll.issued
           a == [agent EXCEPT !.refreshFails = 0]
<1>1. /\ poll \in PollType /\ agent \in AgentType /\ i \in Pair /\ i.access \in Own
      /\ 0 \in 0 .. MaxFailures /\ disk \in Pair
  BY AuthConstants DEF AuthTypeOK, PollType, Pair
<1>2. disk' \in Pair /\ sent' \subseteq Own \ {0} /\ (Fault \/ NoFault)
  BY <1>1 DEF SaveCodex, WriteCredentials, AuthTypeOK, Pair
<1>3. a \in AgentType
  BY <1>1 DEF AgentType
<1>4. Go("token", poll, a) \/ Go("token", poll, Adopt(a, i.access))
  BY DEF SaveCodex
<1> HIDE DEF a
<1>5. Adopt(a, i.access) \in AgentType
  BY <1>1, <1>3, AgentOps
<1>6. Good
  BY <1>1, <1>3, <1>4, <1>5, GoType DEF Locations
<1> QED
  BY <1>2, <1>6, FaultType, SameAge DEF SaveCodex, AuthTypeOK, Good

LEMMA SaveCursorType ==
  ASSUME AuthTypeOK, SaveCursor
  PROVE  AuthTypeOK'
<1> DEFINE t == poll.issued.access
           a == Adopt(agent, t)
           b == [a EXCEPT !.failed = 0]
           c == [agent EXCEPT !.paused = TRUE]
<1>1. poll \in PollType /\ agent \in AgentType /\ t \in Own /\ 0 \in Own
  BY DEF AuthTypeOK, PollType, Pair, Own
<1>2. a \in AgentType
  BY <1>1, AgentOps
<1> HIDE DEF a
<1>3. b \in AgentType /\ c \in AgentType
  BY <1>1, <1>2 DEF AgentType
<1>4. Go("fetch", poll, b) \/ End("failure", c) \/ Go("token", poll, agent)
  BY <1>1 DEF SaveCursor, a, PollType
<1> HIDE DEF b, c
<1>5. Good
  BY <1>1, <1>3, <1>4, GoType, EndType DEF Locations
<1> QED
  BY <1>5, FaultType, SameAge DEF SaveCursor, AuthTypeOK, Good, credentials

LEMMA SaveType ==
  ASSUME AuthTypeOK, Saving
  PROVE  AuthTypeOK'
<1> DEFINE i == poll.issued
           a == Adopt(agent, i.access)
<1>1. /\ poll \in PollType /\ agent \in AgentType /\ i \in Pair /\ i.access \in Own
      /\ disk \in Pair /\ db \in Pair
  BY DEF AuthTypeOK, PollType, Pair
<1>2. a \in AgentType
  BY <1>1, AgentOps
<1>3. CASE SaveGemini
  <2>1. disk' \in Pair /\ db' \in Pair /\ (Fault \/ NoFault)
    BY <1>1, <1>3 DEF SaveGemini, WriteCredentials, Pair
  <2>2. [poll EXCEPT !.creds.access = i.access] \in PollType
    BY <1>1 DEF PollType, Pair
  <2>3. Good
    <3> HIDE DEF a
    <3> QED
      BY <1>1, <1>2, <1>3, <2>2, GoType DEF SaveGemini, Locations, a
  <2> QED
    BY <1>3, <2>1, <2>3, FaultType, SameAge DEF SaveGemini, AuthTypeOK, Good
<1> QED
  BY <1>3, SaveCodexType, CursorWriteType, SaveCursorType DEF Saving

LEMMA OwnerFailedType ==
  ASSUME AuthTypeOK, NEW p \in PollType, NEW a \in AgentType, OwnerFailed(p, a)
  PROVE  Good
<1>1. 0 \in Own /\ 0 \in 0 .. MaxFailures /\ p.creds.access \in Own
  BY AuthConstants DEF Own, PollType, Pair
<1>2. /\ [a EXCEPT !.client = Borrowed, !.paused = FALSE, !.fails = 0,
                   !.borrowing = TRUE] \in AgentType
      /\ [a EXCEPT !.client = 0, !.last = 0, !.failed = p.creds.access,
                   !.borrowing = FALSE] \in AgentType
  BY <1>1 DEF AgentType
<1> QED
  BY <1>2, EndType, GoType DEF OwnerFailed, Locations

LEMMA OwnerRefreshType ==
  ASSUME AuthTypeOK, OwnerRefresh
  PROVE  AuthTypeOK'
<1> DEFINE better == [agent EXCEPT !.refreshFails = 0, !.waiting = FALSE, !.borrowing = FALSE]
           worse == [agent EXCEPT !.refreshFails = OneMore(agent.refreshFails),
                                  !.waiting = OneMore(agent.refreshFails) = MaxFailures]
           next == IF agent.paused THEN Lift(better) ELSE better
<1>1. /\ poll \in PollType /\ agent \in AgentType /\ disk \in Pair
      /\ 0 \in Own /\ 0 \in 0 .. MaxFailures
  BY AuthConstants DEF AuthTypeOK, Own
<1>2. next \in AgentType
  <2>1. better \in AgentType
    BY <1>1 DEF AgentType
  <2> HIDE DEF better
  <2> QED
    BY <1>1, <2>1, AgentOps
<1>3. worse \in AgentType
  <2>1. OneMore(agent.refreshFails) \in 0 .. MaxFailures
    BY <1>1, AuthConstants DEF AgentType, OneMore
  <2>2. (OneMore(agent.refreshFails) = MaxFailures) \in BOOLEAN
    OBVIOUS
  <2> QED
    BY <1>1, <2>1, <2>2 DEF AgentType
<1>4. \/ /\ Issue(disk) /\ disk' = Issued(disk) /\ Go("token", poll, next) /\ NoFault
      \/ /\ UNCHANGED <<age, dead, disk>> /\ (Fault \/ NoFault)
         /\ Go("token", poll, next) \/ OwnerFailed(poll, worse)
  BY DEF OwnerRefresh
<1> HIDE DEF better, worse, next
<1>5. UNCHANGED <<kind, db, borrowed, sent>>
  BY DEF OwnerRefresh
<1>6. Good
  BY <1>1, <1>2, <1>3, <1>4, GoType, OwnerFailedType DEF Locations
<1>7. CASE Issue(disk) /\ disk' = Issued(disk) /\ NoFault
  BY <1>1, <1>5, <1>6, <1>7, IssueType, Widen, FaultType DEF AuthTypeOK, Good
<1>8. CASE UNCHANGED <<age, dead, disk>> /\ (Fault \/ NoFault)
  BY <1>5, <1>6, <1>8, SameAge, FaultType DEF AuthTypeOK, Good
<1> QED
  BY <1>4, <1>7, <1>8

LEMMA PausedType ==
  ASSUME AuthTypeOK, NEW p \in PollType, NEW a \in AgentType, Paused(p, a)
  PROVE  Good
  BY GoType, EndType DEF Paused, Quiet, Locations

LEMMA ReadTokenType ==
  ASSUME AuthTypeOK, ReadToken
  PROVE  AuthTypeOK'
<1> DEFINE t == DetectToken
<1>1. /\ poll \in PollType /\ agent \in AgentType /\ t \in Own /\ 0 \in Own
      /\ poll.creds.access \in Own
  BY ReadType DEF AuthTypeOK, PollType, Pair, Own
<1>2. /\ Adopt(agent, t) \in AgentType /\ Changed(Adopt(agent, t), t) \in AgentType
      /\ Adopt(agent, poll.creds.access) \in AgentType
  <2> HIDE DEF t
  <2> QED
    BY <1>1, AgentOps
<1>3. Good
  <2>1. CASE TokenCodex
    BY <1>1, <1>2, <2>1, PausedType, EndType DEF TokenCodex
  <2>2. CASE TokenCursor
    BY <1>1, <1>2, <2>2, GoType DEF TokenCursor, Locations
  <2>3. CASE TokenGemini
    BY <1>1, <1>2, <2>3, GoType DEF TokenGemini, Locations
  <2>4. CASE TokenClaude
    <3> DEFINE left == [agent EXCEPT !.client = 0, !.last = IF agent.client # 0 THEN 0 ELSE @]
               own == Changed([Adopt(agent, t) EXCEPT !.borrowing = FALSE], t)
               a == CASE t = 0 /\ ~agent.borrowing -> left
                      [] t # 0 /\ (t # agent.last \/ agent.borrowing) -> own
                      [] OTHER -> agent
               p == [poll EXCEPT !.message = FALSE]
    <3>1. left \in AgentType
      BY <1>1 DEF AgentType
    <3>2. [Adopt(agent, t) EXCEPT !.borrowing = FALSE] \in AgentType
      BY <1>2 DEF AgentType
    <3>3. own \in AgentType
      <4> HIDE DEF t
      <4> QED
        BY <1>1, <3>2, AgentOps
    <3> HIDE DEF left, own
    <3>4. a \in AgentType
      BY <1>1, <3>1, <3>3
    <3>5. p \in PollType
      BY <1>1 DEF PollType
    <3>6. End("failure", a) \/ Paused(p, a)
      BY <2>4 DEF TokenClaude, left, own
    <3> HIDE DEF a, p
    <3> QED
      BY <3>4, <3>5, <3>6, PausedType, EndType
  <2> QED
    BY <2>1, <2>2, <2>3, <2>4, AuthConstants DEF ReadToken, AuthTypeOK
<1> QED
  BY <1>3, SameAge, FaultType DEF ReadToken, AuthTypeOK, credentials, Good

LEMMA FetchType ==
  ASSUME AuthTypeOK, Where,
         (\E stored \in BOOLEAN : FetchAnswers(stored)) \/ FetchFails \/ FetchRefused
  PROVE  AuthTypeOK'
<1>0. Fault \/ NoFault
  BY DEF FetchAnswers, FetchFails, FetchRefused
<1> SUFFICES Good
  BY <1>0, SameAge, FaultType
  DEF FetchAnswers, FetchFails, FetchRefused, AuthTypeOK, credentials, Good
<1>1. /\ poll \in PollType /\ agent \in AgentType /\ 0 \in Own /\ 0 \in 0 .. MaxFailures
      /\ poll.creds.refresh \in Own
      /\ kind \in Claude \cup Codex \cup {"cursor", "gemini"}
  BY AuthConstants DEF AuthTypeOK, Own, PollType, Pair
<1>2. ASSUME NEW stored \in BOOLEAN, FetchAnswers(stored) PROVE Good
  <2>1. /\ [agent EXCEPT !.fails = 0, !.paused = FALSE] \in AgentType
        /\ [agent EXCEPT !.fails = 0] \in AgentType
        /\ ResetAuthentication(agent) \in AgentType
    BY <1>1, AgentOps DEF AgentType
  <2>2. Answered(stored) \in AgentType
    BY <2>1 DEF Answered
  <2> QED
    BY <1>2, <2>2, EndType DEF FetchAnswers
<1>3. CASE FetchFails
  BY <1>1, <1>3, EndType DEF FetchFails
<1>4. CASE FetchRefused
  <2>1. kind = "cursor" \/ poll.retry => agent.client \in Own
    BY <1>1, <1>4 DEF FetchRefused, Where, AgentType
  <2>2. CASE poll.retry
    <3>1. Counted(agent, agent.client) \in AgentType
      BY <1>1, <2>1, <2>2, AgentOps
    <3>2. PauseAuthentication(agent, agent.client, poll.creds.refresh) \in AgentType
      BY <1>1, <2>1, <2>2, AgentOps
    <3>3. [agent EXCEPT !.paused = TRUE] \in AgentType
      BY <1>1 DEF AgentType
    <3>4. \/ End("failure", Counted(agent, agent.client))
          \/ End("failure", [agent EXCEPT !.paused = TRUE])
          \/ End("failure", PauseAuthentication(agent, agent.client, poll.creds.refresh))
      BY <1>1, <1>4, <2>2 DEF FetchRefused, RefusedAgain
    <3> QED
      BY <3>1, <3>2, <3>3, <3>4, EndType
  <2>3. CASE ~poll.retry
    <3> DEFINE p == [poll EXCEPT !.retry = TRUE]
               cursor == [agent EXCEPT !.fails = OneMore(agent.fails), !.failed = agent.client]
    <3>1. p \in PollType /\ [agent EXCEPT !.last = 0] \in AgentType
      BY <1>1 DEF PollType, AgentType
    <3>2. OneMore(agent.fails) \in 0 .. MaxFailures
      BY <1>1, AuthConstants DEF AgentType, OneMore
    <3>4. kind = "cursor" => cursor \in AgentType /\ cursor.fails \in 0 .. MaxFailures
      BY <1>1, <2>1, <3>2 DEF AgentType
    <3>3. \/ Go("reread", p, [agent EXCEPT !.last = 0])
          \/ kind = "cursor" /\ (Go("reread", p, cursor) \/ End("failure", cursor))
          \/ Go("reread", p, agent)
      <4>1. kind = "cursor" => cursor.fails < MaxFailures \/ cursor.fails >= MaxFailures
        BY <3>4, AuthConstants
      <4> QED
        BY <1>1, <1>4, <2>3, <4>1 DEF FetchRefused, RefusedFirst
    <3> HIDE DEF p, cursor
    <3> QED
      BY <1>1, <3>1, <3>4, <3>3, GoType, EndType DEF Locations
  <2> QED
    BY <2>2, <2>3
<1> QED
  BY <1>2, <1>3, <1>4

LEMMA RereadType ==
  ASSUME AuthTypeOK, Reread
  PROVE  AuthTypeOK'
<1>1. /\ poll \in PollType /\ agent \in AgentType /\ DetectToken \in Own /\ DetectCredentials \in Pair
  BY ReadType DEF AuthTypeOK
<1>2. /\ [poll EXCEPT !.creds = DetectCredentials] \in PollType
      /\ [agent EXCEPT !.paused = TRUE] \in AgentType /\ Adopt(agent, DetectToken) \in AgentType
  BY <1>1, AgentOps DEF PollType, AgentType
<1>3. Good
  BY <1>1, <1>2, GoType, EndType DEF Reread, RereadCredentials, RereadToken, Locations
<1> QED
  BY <1>3, SameAge, FaultType DEF Reread, AuthTypeOK, credentials, Good

LEMMA AgeType ==
  ASSUME AuthTypeOK, NEW t \in 1 .. Tokens, Age(t)
  PROVE  AuthTypeOK' /\ Own' = Own
<1>1. age' \in [1 .. Tokens -> Ages] /\ Own' = Own
  BY DEF Age, AuthTypeOK, Own, Ages
<1>2. dead' \in [access : SUBSET (1 .. Tokens), refresh : SUBSET (1 .. Tokens)]
  BY DEF Age, AuthTypeOK
<1>3. UNCHANGED <<kind, disk, db, borrowed, agent, poll, health, sent, named, faults>>
  BY DEF Age
<1> QED
  BY <1>1, <1>2, <1>3, Widen DEF AuthTypeOK

LEMMA SurroundingsType ==
  ASSUME AuthTypeOK, RetryWindowElapses \/ Surroundings
  PROVE  AuthTypeOK'
<1>1. /\ 0 \in Own /\ 0 \in 0 .. MaxFailures /\ agent \in AgentType /\ disk \in Pair
      /\ db \in Pair /\ DetectToken \in Own
  BY AuthConstants, ReadType DEF AuthTypeOK, Own
<1>2. CASE RetryWindowElapses
  <2>1. [agent EXCEPT !.waiting = FALSE] \in AgentType
    BY <1>1 DEF AgentType
  <2> QED
    BY <1>2, <2>1, SameAge DEF RetryWindowElapses, AuthTypeOK, credentials
<1>3. CASE Restart
  <2>1. Started(DetectToken) \in AgentType
    BY <1>1 DEF Started, AgentType
  <2>2. NoPoll \in PollType
    BY <1>1 DEF NoPoll, PollType, Locations, Pair, Nobody, AllWrites, Kept
  <2> QED
    BY <1>3, <2>1, <2>2, SameAge, FaultType DEF Restart, AuthTypeOK, credentials
<1>4. CASE Login
  <2>1. Fresh \in 1 .. Tokens /\ Fresh \notin Own
    BY <1>4, FreshIsUnissued DEF Login
  <2> HIDE DEF Fresh
  <2>2. age' \in [1 .. Tokens -> Ages] /\ Own' = Own \cup {Fresh}
    BY <1>4, <2>1 DEF Login, AuthTypeOK, Own, Ages
  <2>3. disk' \in Pair' /\ db' \in Pair'
    BY <1>4, <2>2, Widen DEF Login, Pair, AuthTypeOK
  <2> QED
    BY <1>4, <2>2, <2>3, Widen DEF Login, AuthTypeOK
<1>5. CASE OwnerRenews
  BY <1>1, <1>5, IssueType, Widen DEF OwnerRenews, AuthTypeOK
<1>6. CASE Logout
  BY <1>1, <1>6, SameAge DEF Logout, AuthTypeOK, Nobody, Pair
<1>7. CASE Revoke
  <2>1. dead' \in [access : SUBSET (1 .. Tokens), refresh : SUBSET (1 .. Tokens)]
    BY <1>7 DEF Revoke
  <2> QED
    BY <1>7, <2>1, SameAge DEF Revoke, AuthTypeOK
<1>8. CASE DefaultProfile
  BY <1>8, SameAge, FaultType DEF DefaultProfile, AuthTypeOK
<1>9. ASSUME NEW t \in 1 .. Tokens, Age(t) PROVE AuthTypeOK'
  BY <1>9, AgeType
<1> QED
  BY <1>2, <1>3, <1>4, <1>5, <1>6, <1>7, <1>8, <1>9 DEF Surroundings

-----------------------------------------------------------------------------
(* What the fields are after the end of a poll, and on its way. *)
LEMMA EndEffect ==
  ASSUME NEW a, NEW outcome, End(outcome, a)
  PROVE  /\ agent' = a
         /\ poll'.pc = "idle" /\ poll'.usable = FALSE /\ poll'.wasPaused = FALSE
         /\ poll'.retry = FALSE
         /\ named \subseteq named'
         /\ ~a.paused => named' = named
         /\ \A n \in named' : n \in named \/ n = [access |-> a.failed, refresh |-> a.failedRefresh]
  BY DEF End, NoPoll

LEMMA GoEffect ==
  ASSUME NEW a, NEW p \in PollType, NEW pc, Go(pc, p, a)
  PROVE  /\ agent' = a
         /\ poll'.pc = pc /\ poll'.creds = p.creds /\ poll'.issued = p.issued
         /\ poll'.retry = p.retry /\ poll'.wasPaused = p.wasPaused
         /\ poll'.message = p.message /\ poll'.usable = p.usable
         /\ health' = health /\ named' = named
  BY DEF Go, PollType

LEMMA ReadEffect ==
  ASSUME NEW usable \in BOOLEAN
  PROVE  /\ Read(usable).creds = DetectCredentials /\ Read(usable).usable = usable
                                  /\ Read(usable).retry = FALSE
         /\ Read(usable).wasPaused = agent.paused /\ Read(usable).retry = FALSE
         /\ Read(usable).message = FALSE
  BY DEF Read, NoPoll

LEMMA AdoptEffect ==
  ASSUME NEW a \in AgentType, NEW t
  PROVE  /\ Adopt(a, t).client = t /\ Adopt(a, t).last = t /\ Adopt(a, t).paused = a.paused
         /\ Adopt(a, t).failed = a.failed /\ Adopt(a, t).borrowing = a.borrowing
         /\ Adopt(a, t).waiting = a.waiting /\ Adopt(a, t).failedRefresh = a.failedRefresh
         /\ Adopt(a, t).start = a.start
  BY DEF Adopt, AgentType

LEMMA LiftEffect ==
  ASSUME NEW a \in AgentType
  PROVE  /\ Lift(a).client = a.client /\ Lift(a).last = a.last /\ Lift(a).paused = FALSE
         /\ Lift(a).borrowing = a.borrowing /\ Lift(a).start = a.start
         /\ ResetAuthentication(a).client = a.client /\ ResetAuthentication(a).last = a.last
         /\ ResetAuthentication(a).paused = FALSE
  BY DEF Lift, ResetAuthentication, AgentType

LEMMA PauseEffect ==
  ASSUME NEW a \in AgentType, NEW t
  PROVE  /\ Pause(a, t).client = a.client /\ Pause(a, t).last = a.last
         /\ Pause(a, t).paused = TRUE /\ Pause(a, t).failed = t
         /\ Pause(a, t).borrowing = a.borrowing /\ Pause(a, t).start = a.start
  BY DEF Pause, AgentType

\* one failure more: the agent pauses, naming the token, or goes on as it was
LEMMA CountedEffect ==
  ASSUME NEW a \in AgentType, NEW t \in Own
  PROVE  /\ Counted(a, t).client = a.client /\ Counted(a, t).last = a.last
         /\ Counted(a, t).borrowing = a.borrowing /\ Counted(a, t).start = a.start
         /\ Counted(a, t).paused => a.paused \/ Counted(a, t).failed = t
         /\ a.paused => Counted(a, t).paused
<1> DEFINE c == [a EXCEPT !.fails = OneMore(a.fails)]
<1>1. /\ c.client = a.client /\ c.last = a.last /\ c.borrowing = a.borrowing /\ c.start = a.start
      /\ c.paused = a.paused /\ c.failed = a.failed
  BY DEF AgentType
<1>2. OneMore(a.fails) \in 0 .. MaxFailures
  BY AuthConstants DEF OneMore, AgentType
<1>3. c \in AgentType
  BY <1>2 DEF AgentType
<1>4. Counted(a, t) = Pause(c, t) \/ Counted(a, t) = c
  BY DEF Counted
<1> HIDE DEF c
<1>5. /\ Pause(c, t).client = c.client /\ Pause(c, t).last = c.last
      /\ Pause(c, t).borrowing = c.borrowing /\ Pause(c, t).start = c.start
      /\ Pause(c, t).paused = TRUE /\ Pause(c, t).failed = t
  BY <1>3, PauseEffect
<1> HIDE DEF Pause
<1> QED
  BY <1>1, <1>4, <1>5

LEMMA PauseAuthenticationEffect ==
  ASSUME NEW a \in AgentType, NEW t \in Own, NEW r \in Own
  PROVE  /\ PauseAuthentication(a, t, r).client = a.client
         /\ PauseAuthentication(a, t, r).last = a.last
         /\ PauseAuthentication(a, t, r).paused /\ ~a.paused =>
              /\ PauseAuthentication(a, t, r).waiting
              /\ PauseAuthentication(a, t, r).failedRefresh = r
<1> DEFINE c == [a EXCEPT !.fails = OneMore(a.fails)]
           d == [Pause(c, t) EXCEPT !.failedRefresh = r, !.waiting = TRUE]
<1>1. c.client = a.client /\ c.last = a.last /\ c.paused = a.paused
  BY DEF AgentType
<1>2. OneMore(a.fails) \in 0 .. MaxFailures
  BY AuthConstants DEF OneMore, AgentType
<1>3. c \in AgentType
  BY <1>2 DEF AgentType
<1>4. PauseAuthentication(a, t, r) = IF c.fails >= MaxFailures THEN d ELSE c
  BY DEF PauseAuthentication
<1> HIDE DEF c
<1>5. d.client = c.client /\ d.last = c.last /\ d.waiting = TRUE /\ d.failedRefresh = r
  BY <1>3 DEF Pause, AgentType
<1> HIDE DEF d
<1> QED
  BY <1>1, <1>4, <1>5

-----------------------------------------------------------------------------
(* A poll that ends, and one that goes on where it may, in Where. *)
LEMMA EndWhere ==
  ASSUME UNCHANGED kind, NEW a, NEW outcome, End(outcome, a),
         a.client = Borrowed => kind = "claude_owner"
  PROVE  Where'
  BY EndEffect DEF Where

LEMMA GoWhere ==
  ASSUME UNCHANGED kind, NEW a, NEW p \in PollType, NEW pc \in {"token", "fetch", "reread", "oauth", "owner"},
         Go(pc, p, a),
         a.client = Borrowed => kind = "claude_owner" /\ ~(pc = "fetch" /\ p.retry),
         pc = "oauth" => kind \in {"codex", "cursor", "gemini"},
         pc = "owner" => kind = "claude_owner",
         p.usable => kind = "claude_hybrid",
         kind \in Claude /\ p.retry => pc \in {"fetch", "reread"}
  PROVE  Where'
  BY GoEffect DEF Where

LEMMA BeginWhere ==
  ASSUME AuthTypeOK, Where, BeginPoll
  PROVE  Where'
<1>1. /\ agent \in AgentType /\ Borrowed \notin Own /\ disk \in Pair /\ kind' = kind
      /\ (agent.client = Borrowed => kind = "claude_owner") /\ disk.access # Borrowed
      /\ Borrowed # 0
  BY AuthConstants DEF AuthTypeOK, Own, BeginPoll, Where, Pair, Borrowed
<1>2. \A usable \in BOOLEAN : Read(usable) \in PollType /\ Read(usable).usable = usable
                                  /\ Read(usable).retry = FALSE
  BY ReadType, ReadEffect
<1>3. ASSUME NEW a, a.client # Borrowed, RenewFirst(a), kind \in {"codex", "cursor", "gemini"}
      PROVE Where'
  BY <1>1, <1>2, <1>3, GoWhere DEF RenewFirst
<1>4. CASE BeginCodex
  BY <1>1, <1>2, <1>3, <1>4, GoWhere DEF BeginCodex, Codex
<1>5. CASE BeginCursor
  <2>1. [agent EXCEPT !.paused = FALSE, !.fails = 0, !.client = DetectToken].client # Borrowed
    BY <1>1, ReadType DEF AgentType
  <2> QED
    BY <1>1, <1>3, <1>5, <2>1, EndWhere DEF BeginCursor
<1>6. CASE BeginGemini
  <2>1. /\ ResetAuthentication(agent).client = agent.client
        /\ [agent EXCEPT !.paused = FALSE].client = agent.client
    BY <1>1, LiftEffect DEF AgentType
  <2> QED
    BY <1>1, <1>3, <1>6, <2>1, EndWhere DEF BeginGemini
<1>7. CASE BeginOwner
  <2> DEFINE p == Read(FALSE)
  <2>1. /\ [agent EXCEPT !.client = Borrowed, !.paused = FALSE, !.fails = 0,
                         !.borrowing = TRUE].client = Borrowed
        /\ [agent EXCEPT !.client = 0, !.last = 0, !.failed = p.creds.access,
                         !.borrowing = FALSE].client = 0
    BY <1>1 DEF AgentType
  <2>2. p \in PollType /\ p.usable = FALSE /\ p.retry = FALSE /\ kind = "claude_owner"
    BY <1>2, <1>7 DEF BeginOwner
  <2>3. Go("token", p, agent) \/ Go("owner", p, agent) \/ OwnerFailed(p, agent)
    BY <1>7 DEF BeginOwner
  <2> HIDE DEF p
  <2> QED
    BY <1>1, <2>1, <2>2, <2>3, EndWhere, GoWhere DEF OwnerFailed
<1>8. CASE BeginClaude
  <2>1. [agent EXCEPT !.cycle = ~@].client = agent.client
    BY <1>1 DEF AgentType
  <2>2. kind \in {"claude", "claude_hybrid"}
    BY <1>8 DEF BeginClaude
  <2> QED
    BY <1>1, <1>2, <1>8, <2>1, <2>2, EndWhere, GoWhere DEF BeginClaude
<1> QED
  BY <1>4, <1>5, <1>6, <1>7, <1>8 DEF BeginPoll

LEMMA RenewWhere ==
  ASSUME AuthTypeOK, Where, StatuslineFails \/ RenewAccepted \/ RenewRefused \/ RenewLost
  PROVE  Where'
<1>1. /\ agent \in AgentType /\ poll \in PollType /\ kind' = kind
      /\ (agent.client = Borrowed => kind = "claude_owner")
  BY DEF AuthTypeOK, StatuslineFails, RenewAccepted, RenewRefused, RenewLost, Where
<1>2. CASE StatuslineFails
  BY <1>1, <1>2, EndWhere DEF StatuslineFails
<1>3. CASE RenewAccepted
  <2>1. Issue(poll.creds) /\ poll.creds \in Pair
    BY <1>1, <1>3 DEF RenewAccepted, PollType
  <2>2. Fresh # 0 /\ Issued(poll.creds).access = Fresh /\ Issued(poll.creds).refresh # 0
        /\ (kind = "gemini" => Issued(poll.creds).refresh = poll.creds.refresh)
    BY <2>1, IssueType DEF OneTime, Issue, Renewable
  <2>3. agent' = agent /\ poll' = [[poll EXCEPT !.issued = Issued(poll.creds), !.writes = 0, !.kept = {}] EXCEPT !.pc = "save"]
    BY <1>3 DEF RenewAccepted, Go
  <2>4. /\ poll'.pc = "save" /\ poll'.issued = Issued(poll.creds) /\ poll'.creds = poll.creds
        /\ poll'.usable = poll.usable /\ poll.pc = "oauth"
    BY <1>1, <1>3, <2>3 DEF PollType, RenewAccepted
  <2> QED
    BY <1>1, <2>2, <2>3, <2>4 DEF Where
<1>4. ASSUME poll.pc = "oauth", NEW reason \in {"reused", "other"}, RenewalFails(reason)
      PROVE Where'
  <2> DEFINE p == [poll EXCEPT !.message = TRUE]
             more == [agent EXCEPT !.refreshFails = OneMore(agent.refreshFails)]
             gone == [agent EXCEPT !.paused = TRUE]
  <2>1. kind \in {"codex", "cursor", "gemini"} /\ agent.client # Borrowed
    BY <1>1, <1>4 DEF Where
  <2>2. /\ p \in PollType /\ p.usable = poll.usable /\ p.retry = poll.retry /\ ~poll.usable
        /\ more.client = agent.client /\ gone.client = agent.client
        /\ more \in AgentType
    <3>1. OneMore(agent.refreshFails) \in 0 .. MaxFailures
      BY <1>1, AuthConstants DEF AgentType, OneMore
    <3> QED
      BY <1>1, <2>1, <3>1 DEF PollType, AgentType, Where
  <2>3. \/ Go("token", p, Pause(agent, poll.creds.access))
        \/ Go("token", p, Pause(more, poll.creds.access))
        \/ Go("token", poll, more) \/ Go("token", poll, gone) \/ Go("token", poll, agent)
        \/ End("failure", gone)
        \/ End("failure", PauseAuthentication(agent, agent.last, poll.creds.refresh))
    BY <1>4, <2>1 DEF RenewalFails
  <2>4. /\ Pause(agent, poll.creds.access).client = agent.client
        /\ PauseAuthentication(agent, agent.last, poll.creds.refresh).client = agent.client
    <3>1. poll.creds.access \in Own /\ poll.creds.refresh \in Own /\ agent.last \in Own
      BY <1>1 DEF PollType, AgentType, Pair
    <3>2. Pause(agent, poll.creds.access).client = agent.client
      BY <1>1, <3>1, PauseEffect
    <3>3. PauseAuthentication(agent, agent.last, poll.creds.refresh).client = agent.client
      BY <1>1, <3>1, PauseAuthenticationEffect
    <3> QED
      BY <3>2, <3>3
  <2>5. Pause(more, poll.creds.access).client = more.client
    BY <2>2, PauseEffect
  <2> HIDE DEF p, more, gone
  <2> QED
    BY <1>1, <2>1, <2>2, <2>3, <2>4, <2>5, GoWhere, EndWhere DEF Claude
<1> QED
  BY <1>2, <1>3, <1>4 DEF RenewRefused, RenewLost

LEMMA SaveWhere ==
  ASSUME AuthTypeOK, Where, Saving
  PROVE  Where'
<1>1. /\ agent \in AgentType /\ poll \in PollType /\ poll.issued.access \in Own /\ Borrowed \notin Own
  BY AuthConstants DEF AuthTypeOK, PollType, Pair, Own, Borrowed
<1>0. kind' = kind /\ poll.pc = "save"
  BY CursorWriteEffect DEF Saving, SaveCodex, SaveCursor, SaveGemini
<1>6. kind \in {"codex", "cursor", "gemini"} /\ ~poll.usable
  BY <1>0 DEF Where
<1> DEFINE t == poll.issued.access
<1> HIDE DEF t
<1>2. agent.client # Borrowed /\ t # Borrowed
  BY <1>0, <1>1, <1>6 DEF Where, t
<1>3. ASSUME NEW saved \in BOOLEAN, SaveCodex(saved) PROVE Where'
  <2> DEFINE a == [agent EXCEPT !.refreshFails = 0]
  <2>1. a \in AgentType /\ a.client = agent.client
    BY <1>1, AuthConstants DEF AgentType
  <2> HIDE DEF a
  <2>2. Adopt(a, t).client = t
    BY <2>1, AdoptEffect
  <2>3. Go("token", poll, a) \/ Go("token", poll, Adopt(a, t))
    BY <1>3 DEF SaveCodex, a, t
  <2> QED
    BY <1>0, <1>1, <1>2, <1>6, <2>1, <2>2, <2>3, GoWhere DEF Claude
<1>4. CASE SaveCursor
  <2> DEFINE a == [Adopt(agent, t) EXCEPT !.failed = 0]
             b == [agent EXCEPT !.paused = TRUE]
  <2>1. a.client = t /\ b.client = agent.client
    BY <1>1 DEF AgentType, Adopt
  <2>2. Go("fetch", poll, a) \/ End("failure", b) \/ Go("token", poll, agent)
    BY <1>1, <1>4 DEF SaveCursor, t, PollType
  <2> HIDE DEF a, b
  <2> QED
    BY <1>0, <1>1, <1>2, <1>6, <2>1, <2>2, GoWhere, EndWhere DEF Claude
<1>7. CASE CursorWriteSucceeds \/ CursorWriteFails
  BY <1>7, CursorWriteEffect DEF Where, Borrowed
<1>5. CASE SaveGemini
  <2> DEFINE p == [poll EXCEPT !.creds.access = t]
  <2>1. p \in PollType /\ p.usable = poll.usable
    BY <1>1 DEF PollType, Pair, t
  <2>2. Adopt(agent, t).client = t
    BY <1>1, AdoptEffect
  <2>3. Go("fetch", p, Adopt(agent, t)) \/ Go("token", p, Adopt(agent, t))
    BY <1>5 DEF SaveGemini, t
  <2> HIDE DEF p
  <2> QED
    BY <1>0, <1>1, <1>2, <1>6, <2>1, <2>2, <2>3, GoWhere DEF Claude
<1> QED
  BY <1>3, <1>4, <1>5, <1>7 DEF Saving

LEMMA OwnerWhere ==
  ASSUME AuthTypeOK, Where, OwnerRefresh
  PROVE  Where'
<1> DEFINE better == [agent EXCEPT !.refreshFails = 0, !.waiting = FALSE, !.borrowing = FALSE]
           worse == [agent EXCEPT !.refreshFails = OneMore(agent.refreshFails),
                                  !.waiting = OneMore(agent.refreshFails) = MaxFailures]
           next == IF agent.paused THEN Lift(better) ELSE better
<1>1. /\ agent \in AgentType /\ poll \in PollType /\ kind' = kind /\ kind = "claude_owner"
      /\ ~poll.usable /\ ~poll.retry
  BY DEF AuthTypeOK, Where, OwnerRefresh, Claude
<1>2. Go("token", poll, next) \/ OwnerFailed(poll, worse)
  BY DEF OwnerRefresh
<1> HIDE DEF next, worse
<1>3. OwnerFailed(poll, worse) =>
        \E a : Go("token", poll, a) \/ End("failure", a)
  BY DEF OwnerFailed
<1> QED
  BY <1>1, <1>2, <1>3, GoWhere, EndWhere

LEMMA ReadTokenWhere ==
  ASSUME AuthTypeOK, Where, ReadToken
  PROVE  Where'
<1> DEFINE t == DetectToken
<1>0. /\ agent \in AgentType /\ poll \in PollType /\ poll.creds.access \in Own
      /\ kind \in Claude \cup Codex \cup {"cursor", "gemini"}
  BY AuthConstants DEF AuthTypeOK, PollType, Pair
<1>10. t \in Own /\ Borrowed \notin Own /\ Borrowed # 0
  BY ReadType, AuthConstants DEF Own, Borrowed
<1>11. kind' = kind /\ poll.pc = "token"
  BY DEF ReadToken
<1>1. /\ agent \in AgentType /\ poll \in PollType /\ t \in Own /\ poll.creds.access \in Own
      /\ Borrowed \notin Own /\ Borrowed # 0 /\ kind' = kind /\ (poll.usable => kind = "claude_hybrid")
      /\ (agent.client = Borrowed => kind = "claude_owner") /\ poll.pc = "token"
      /\ kind \in Claude \cup Codex \cup {"cursor", "gemini"}
      /\ (kind \in Claude => ~poll.retry)
  BY <1>0, <1>10, <1>11 DEF Where
<1> HIDE DEF t
<1>2. t # Borrowed /\ poll.creds.access # Borrowed
  BY <1>1
<1>3. ASSUME NEW a, NEW p \in PollType, Go("fetch", p, a) \/ (\E o : End(o, a)),
             p.usable = poll.usable, p.retry = poll.retry,
             a.client = Borrowed => kind = "claude_owner"
      PROVE  Where'
  BY <1>1, <1>3, GoWhere, EndWhere DEF Claude
<1>4. Adopt(agent, t).client = t /\ Adopt(agent, poll.creds.access).client = poll.creds.access
  BY <1>1, AdoptEffect
<1>5. CASE TokenCodex
  <2>1. Changed(Adopt(agent, t), t).client = t
    BY <1>1, <1>4, AgentOps, LiftEffect DEF Changed
  <2>2. \/ End("failure", agent) \/ Paused(poll, agent)
        \/ Paused(poll, Changed(Adopt(agent, t), t))
    BY <1>5 DEF TokenCodex, t
  <2>3. \E a \in {agent, Changed(Adopt(agent, t), t)} :
          Go("fetch", poll, a) \/ (\E o : End(o, a))
    BY <2>2 DEF Paused
  <2> QED
    BY <1>1, <1>2, <1>3, <2>1, <2>3
<1>6. CASE TokenCursor
  <2>1. \E a \in {agent, Adopt(agent, t)} : Go("fetch", poll, a)
    BY <1>6 DEF TokenCursor, t
  <2> QED
    BY <1>1, <1>2, <1>3, <1>4, <2>1
<1>7. CASE TokenGemini
  <2>1. \E a \in {agent, Adopt(agent, poll.creds.access)} : Go("fetch", poll, a)
    BY <1>7 DEF TokenGemini
  <2> QED
    BY <1>1, <1>2, <1>3, <1>4, <2>1
<1>8. CASE TokenClaude
  <2> DEFINE left == [agent EXCEPT !.client = 0, !.last = IF agent.client # 0 THEN 0 ELSE @]
             b == [Adopt(agent, t) EXCEPT !.borrowing = FALSE]
             p == [poll EXCEPT !.message = FALSE]
  <2>1. left.client = 0 /\ p \in PollType /\ p.usable = poll.usable /\ p.retry = poll.retry
    BY <1>1 DEF AgentType, PollType
  <2>2. b \in AgentType /\ b.client = t
    <3>1. Adopt(agent, t) \in AgentType
      BY <1>1, AgentOps
    <3> QED
      BY <1>4, <3>1 DEF AgentType
  <2>3. \E a \in {agent, left, Changed(b, t)} : Paused(p, a) \/ End("failure", a)
    <3> DEFINE a == CASE t = 0 /\ ~agent.borrowing -> left
                      [] t # 0 /\ (t # agent.last \/ agent.borrowing) -> Changed(b, t)
                      [] OTHER -> agent
    <3>1. Paused(p, a) \/ End("failure", a)
      BY <1>8 DEF TokenClaude, t
    <3> HIDE DEF left, b, p
    <3>2. a \in {agent, left, Changed(b, t)}
      OBVIOUS
    <3> QED
      BY <3>1, <3>2
  <2> HIDE DEF left, b, p
  <2>5. \E a \in {agent, left, Changed(b, t)} :
          Go("fetch", p, a) \/ (\E o : End(o, a))
    BY <2>3 DEF Paused
  <2>4. Changed(b, t).client = t
    BY <2>2, LiftEffect DEF Changed
  <2> QED
    BY <1>1, <1>2, <1>3, <2>1, <2>4, <2>5
<1> QED
  BY <1>1, <1>5, <1>6, <1>7, <1>8 DEF ReadToken

LEMMA FetchWhere ==
  ASSUME AuthTypeOK, Where,
         (\E stored \in BOOLEAN : FetchAnswers(stored)) \/ FetchFails \/ FetchRefused
  PROVE  Where'
<1>1. /\ agent \in AgentType /\ poll \in PollType /\ kind' = kind
      /\ (poll.usable => kind = "claude_hybrid")
      /\ (agent.client = Borrowed => kind = "claude_owner" /\ ~poll.retry)
      /\ kind \in Claude \cup Codex \cup {"cursor", "gemini"}
  BY AuthConstants DEF AuthTypeOK, Where, FetchAnswers, FetchFails, FetchRefused
<1>2. ASSUME NEW stored \in BOOLEAN, FetchAnswers(stored) PROVE Where'
  <2>1. Answered(stored).client = agent.client
    BY <1>1, LiftEffect DEF Answered, AgentType
  <2> QED
    BY <1>1, <1>2, <2>1, EndWhere DEF FetchAnswers
<1>3. CASE FetchFails
  BY <1>1, <1>3, EndWhere DEF FetchFails
<1>4. CASE FetchRefused
  <2> DEFINE p == [poll EXCEPT !.retry = TRUE]
             cursor == [agent EXCEPT !.fails = OneMore(agent.fails), !.failed = agent.client]
             forgets == [agent EXCEPT !.last = 0]
             pauses == [agent EXCEPT !.paused = TRUE]
  <2>1. /\ p \in PollType /\ p.usable = poll.usable
        /\ cursor.client = agent.client /\ forgets.client = agent.client /\ pauses.client = agent.client
    BY <1>1 DEF PollType, AgentType
  <2>2. CASE poll.retry
    <3>1. agent.client \in Own /\ poll.creds.refresh \in Own
      BY <1>1, <2>2 DEF AgentType, PollType, Pair
    <3>2. /\ Counted(agent, agent.client).client = agent.client
          /\ PauseAuthentication(agent, agent.client, poll.creds.refresh).client = agent.client
      BY <1>1, <3>1, CountedEffect, PauseAuthenticationEffect
    <3>3. \E a \in {Counted(agent, agent.client), pauses,
                    PauseAuthentication(agent, agent.client, poll.creds.refresh)} : End("failure", a)
      BY <1>1, <1>4, <2>2 DEF FetchRefused, RefusedAgain
    <3> HIDE DEF pauses
    <3> QED
      BY <1>1, <2>1, <3>2, <3>3, EndWhere
  <2>3. CASE ~poll.retry
    <3>1. \E a \in {forgets, cursor, agent} : Go("reread", p, a) \/ End("failure", a)
      <4>1. cursor.fails \in Nat
        BY <1>1, AuthConstants DEF AgentType, OneMore
      <4>2. cursor.fails < MaxFailures \/ cursor.fails >= MaxFailures
        BY <4>1, AuthConstants
      <4> QED
        BY <1>1, <1>4, <2>3, <4>2 DEF FetchRefused, RefusedFirst
    <3> HIDE DEF cursor, forgets, p
    <3> QED
      BY <1>1, <2>1, <3>1, EndWhere, GoWhere
  <2> QED
    BY <2>2, <2>3
<1> QED
  BY <1>2, <1>3, <1>4

LEMMA RereadWhere ==
  ASSUME AuthTypeOK, Where, Reread
  PROVE  Where'
<1>1. /\ agent \in AgentType /\ poll \in PollType /\ kind' = kind
      /\ (poll.usable => kind = "claude_hybrid")
      /\ (agent.client = Borrowed => kind = "claude_owner")
      /\ DetectToken \in Own /\ DetectCredentials \in Pair /\ Borrowed \notin Own
  BY ReadType, AuthConstants DEF AuthTypeOK, Where, Reread, Own, Borrowed
<1>2. CASE kind \in {"cursor", "gemini"}
  <2> DEFINE p == [poll EXCEPT !.creds = DetectCredentials]
             a == [agent EXCEPT !.paused = TRUE]
  <2>1. p \in PollType /\ p.usable = poll.usable /\ a.client = agent.client
    BY <1>1 DEF PollType, AgentType
  <2>2. Go("oauth", p, agent) \/ End("failure", agent) \/ End("failure", a)
    BY <1>2 DEF Reread, RereadCredentials
  <2> HIDE DEF p, a
  <2> QED
    BY <1>1, <1>2, <2>1, <2>2, EndWhere, GoWhere DEF Claude
<1>3. CASE kind \notin {"cursor", "gemini"}
  <2>1. Adopt(agent, DetectToken).client # Borrowed
    BY <1>1, AdoptEffect
  <2>2. End("failure", agent) \/ Go("fetch", poll, Adopt(agent, DetectToken))
    BY <1>3 DEF Reread, RereadToken
  <2> QED
    BY <1>1, <2>1, <2>2, EndWhere, GoWhere
<1> QED
  BY <1>2, <1>3

LEMMA SurroundingsWhere ==
  ASSUME AuthTypeOK, Where, RetryWindowElapses \/ Surroundings
  PROVE  Where'
<1>1. CASE RetryWindowElapses
  BY <1>1 DEF RetryWindowElapses, Where, AuthTypeOK, AgentType
<1>2. CASE Restart
  <2>1. DetectToken # Borrowed
    BY ReadType, AuthConstants DEF Own, Borrowed
  <2>2. kind' = kind /\ agent'.client = DetectToken /\ poll' = NoPoll
    BY <1>2 DEF Restart, Started
  <2> QED
    BY <2>1, <2>2 DEF Where, NoPoll
<1>3. CASE UNCHANGED <<kind, agent, poll>>
  BY <1>3 DEF Where
<1> QED
  BY <1>1, <1>2, <1>3
  DEF Surroundings, Login, OwnerRenews, Logout, Revoke, DefaultProfile, Age

LEMMA WhereStep ==
  ASSUME AuthTypeOK, Where, AuthNext
  PROVE  Where'
  BY BeginWhere, RenewWhere, SaveWhere, OwnerWhere, ReadTokenWhere, FetchWhere, RereadWhere,
     SurroundingsWhere DEF AuthNext, PollStep, Saving

LEMMA TypeStep ==
  ASSUME AuthTypeOK, Where, AuthNext
  PROVE  AuthTypeOK'
<1>1. RenewAccepted \/ RenewRefused \/ RenewLost => kind \in {"codex", "cursor", "gemini"}
  BY DEF Where, RenewAccepted, RenewRefused, RenewLost
<1> QED
  BY <1>1, BeginType, StatuslineType, RenewType, SaveType, OwnerRefreshType, ReadTokenType,
     FetchType, RereadType, SurroundingsType DEF AuthNext, PollStep, Saving

-----------------------------------------------------------------------------
(* Where a step of a poll leads, and what it does to the credentials in hand. *)
LEMMA PlaceStep ==
  ASSUME AuthTypeOK, Where,
         BeginPoll \/ StatuslineFails \/ RenewRefused \/ RenewLost \/ ReadToken \/ FetchFails
           \/ (\E stored \in BOOLEAN : FetchAnswers(stored)) \/ FetchRefused \/ Reread
  PROVE  /\ UNCHANGED <<kind, disk, db, sent>> /\ poll.pc # "save"
         /\ poll'.pc # "save"
         /\ poll'.pc = "oauth" => poll'.creds = DetectCredentials
<1>0. poll \in PollType /\ kind \in Claude \cup Codex \cup {"cursor", "gemini"}
  BY AuthConstants DEF AuthTypeOK
<1>1. ASSUME NEW a, NEW o, End(o, a) PROVE poll'.pc = "idle"
  BY <1>1 DEF End, NoPoll
<1>2. ASSUME NEW a, NEW p \in PollType, NEW pc, Go(pc, p, a)
      PROVE  poll'.pc = pc /\ poll'.creds = p.creds
  BY <1>2, GoEffect
<1>3. CASE BeginPoll
  <2>1. Read(FALSE) \in PollType /\ Read(TRUE) \in PollType /\ Read(FALSE).creds = DetectCredentials
    BY ReadType, ReadEffect
  <2>2. ASSUME NEW a, RenewFirst(a)
        PROVE  poll'.pc \in {"oauth", "token"} /\ poll'.creds = DetectCredentials
    BY <1>2, <2>1, <2>2 DEF RenewFirst
  <2>3. ASSUME NEW a, OwnerFailed(Read(FALSE), a) PROVE poll'.pc \in {"idle", "token"}
    BY <1>1, <1>2, <2>1, <2>3 DEF OwnerFailed
  <2>4. poll'.pc \notin {"save", "oauth"} \/ (poll'.pc = "oauth" /\ poll'.creds = DetectCredentials)
    <3>1. CASE BeginCodex
      BY <1>2, <2>1, <2>2, <3>1 DEF BeginCodex
    <3>2. CASE BeginCursor
      BY <1>1, <2>2, <3>2 DEF BeginCursor
    <3>3. CASE BeginGemini
      BY <1>1, <2>2, <3>3 DEF BeginGemini
    <3>4. CASE BeginOwner
      BY <1>2, <2>1, <2>3, <3>4 DEF BeginOwner
    <3>5. CASE BeginClaude
      <4> DEFINE c == [agent EXCEPT !.cycle = ~@]
                 p == Read(FALSE)
                 q == Read(TRUE)
      <4>1. Go("token", p, agent) \/ Go("token", q, c) \/ End("success", c)
        BY <3>5 DEF BeginClaude
      <4>2. p \in PollType /\ q \in PollType
        BY <2>1
      <4> HIDE DEF c, p, q
      <4> QED
        BY <1>1, <1>2, <4>1, <4>2
    <3> QED
      BY <1>3, <3>1, <3>2, <3>3, <3>4, <3>5 DEF BeginPoll
  <2> QED
    BY <1>3, <2>4 DEF BeginPoll, credentials
<1>4. CASE StatuslineFails
  BY <1>1, <1>4 DEF StatuslineFails, credentials
<1>5. CASE RenewRefused \/ RenewLost
  <2>0. poll.pc = "oauth" /\ kind \in {"codex", "cursor", "gemini"}
    BY <1>5 DEF RenewRefused, RenewLost, Where
  <2>1. PICK reason : RenewalFails(reason)
    BY <1>5 DEF RenewRefused, RenewLost
  <2> DEFINE p == [poll EXCEPT !.message = TRUE]
  <2>2. p \in PollType
    BY <1>0 DEF PollType
  <2>3. (\E a : Go("token", p, a) \/ Go("token", poll, a)) \/ (\E o, a : End(o, a))
    BY <1>0, <2>0, <2>1 DEF RenewalFails, PollType
  <2> HIDE DEF p
  <2> QED
    BY <1>0, <1>1, <1>2, <1>5, <2>0, <2>2, <2>3 DEF RenewRefused, RenewLost, credentials
<1>6. CASE ReadToken
  <2> DEFINE p == [poll EXCEPT !.message = FALSE]
  <2>1. p \in PollType
    BY <1>0 DEF PollType
  <2>2. ASSUME NEW q \in PollType, NEW a, Paused(q, a) PROVE poll'.pc \in {"idle", "fetch"}
    BY <1>1, <1>2, <2>2 DEF Paused
  <2>3. (\E a : Paused(poll, a) \/ Paused(p, a) \/ Go("fetch", poll, a)) \/ (\E o, a : End(o, a))
    <3>1. CASE TokenCodex
      BY <3>1 DEF TokenCodex
    <3>2. CASE TokenCursor
      BY <3>2 DEF TokenCursor
    <3>3. CASE TokenGemini
      BY <3>3 DEF TokenGemini
    <3>4. CASE TokenClaude
      BY <3>4 DEF TokenClaude
    <3> QED
      BY <1>0, <1>6, <3>1, <3>2, <3>3, <3>4 DEF ReadToken
  <2> HIDE DEF p
  <2>4. poll'.pc \in {"idle", "fetch"}
    BY <1>0, <1>1, <1>2, <2>1, <2>2, <2>3
  <2> QED
    BY <1>6, <2>4 DEF ReadToken, credentials
<1>7. CASE FetchFails \/ (\E stored \in BOOLEAN : FetchAnswers(stored))
  BY <1>1, <1>7 DEF FetchFails, FetchAnswers, credentials
<1>8. CASE FetchRefused
  <2> DEFINE p == [poll EXCEPT !.retry = TRUE]
  <2>1. p \in PollType
    BY <1>0 DEF PollType
  <2>2. (\E a : Go("reread", p, a)) \/ (\E o, a : End(o, a))
    <3>1. CASE poll.retry
      BY <1>0, <1>8, <3>1 DEF FetchRefused, RefusedAgain
    <3>2. CASE ~poll.retry
      <4> DEFINE cursor == [agent EXCEPT !.fails = OneMore(agent.fails), !.failed = agent.client]
      <4>1. cursor.fails \in Nat
        BY AuthConstants DEF AgentType, OneMore, AuthTypeOK
      <4>2. cursor.fails < MaxFailures \/ cursor.fails >= MaxFailures
        BY <4>1, AuthConstants
      <4> QED
        BY <1>0, <1>8, <3>2, <4>2 DEF FetchRefused, RefusedFirst
    <3> QED
      BY <3>1, <3>2
  <2> HIDE DEF p
  <2> QED
    BY <1>1, <1>2, <1>8, <2>1, <2>2 DEF FetchRefused, credentials
<1>9. CASE Reread
  <2> DEFINE p == [poll EXCEPT !.creds = DetectCredentials]
  <2>1. p \in PollType /\ p.creds = DetectCredentials
    BY <1>0, ReadType DEF PollType
  <2>2. (\E a : Go("oauth", p, a) \/ Go("fetch", poll, a)) \/ (\E o, a : End(o, a))
    BY <1>9 DEF Reread, RereadCredentials, RereadToken
  <2> HIDE DEF p
  <2> QED
    BY <1>0, <1>1, <1>2, <1>9, <2>1, <2>2 DEF Reread, credentials
<1> QED
  BY <1>3, <1>4, <1>5, <1>6, <1>7, <1>8, <1>9

(* A write of a cursor agent's save puts the issued refresh token in a place, *)
(* leaves it for the next write, or forgets the promise about the used one.  *)
LEMMA CursorWriteRenewal ==
  ASSUME AuthTypeOK, Renewal, CursorWriteSucceeds \/ CursorWriteFails
  PROVE  Renewal'
<1>1. /\ kind = "cursor" /\ kind' = kind /\ poll.pc = "save" /\ poll'.pc = "save"
      /\ poll'.creds = poll.creds /\ poll'.issued = poll.issued
      /\ disk \in Pair /\ db \in Pair /\ poll.writes \in 0 .. AllWrites /\ poll.writes < AllWrites
      /\ 0 \notin sent
  BY CursorWriteEffect DEF AuthTypeOK, PollType, CursorWriteSucceeds, CursorWriteFails, Writing
<1> DEFINE w == poll.writes
           r == poll.creds.refresh
<1>2. /\ poll.issued.refresh \notin sent
      /\ disk.refresh \in sent => w < 2 /\ disk.refresh = r
      /\ db.refresh \in sent => w < AllWrites /\ db.refresh = r
  BY <1>1 DEF Renewal, Unwritten
<1>3. SUFFICES /\ sent' \subseteq sent
               /\ disk'.refresh \in sent' => poll'.writes < 2 /\ disk'.refresh = r
               /\ db'.refresh \in sent' => poll'.writes < AllWrites /\ db'.refresh = r
  BY <1>1, <1>2 DEF Renewal, Unwritten
<1>4. CASE CursorWriteSucceeds
  <2>1. poll'.writes = w + 1 /\ sent' = sent
    BY <1>4, CursorWriteEffect DEF CursorWriteSucceeds
  <2>2. CASE w = 0
    <3>1. disk'.refresh = disk.refresh /\ db' = db
      BY <1>1, <1>4, <2>2 DEF CursorWriteSucceeds, Place, Field, Pair
    <3> QED
      BY <1>2, <2>1, <2>2, <3>1 DEF AllWrites
  <2>3. CASE w = 1
    <3>1. disk'.refresh = poll.issued.refresh /\ db' = db
      BY <1>1, <1>4, <2>3 DEF CursorWriteSucceeds, Place, Field, Pair
    <3> QED
      BY <1>2, <2>1, <2>3, <3>1 DEF AllWrites
  <2>4. CASE w = 2
    <3>1. db'.refresh = db.refresh /\ disk' = disk
      BY <1>1, <1>4, <2>4 DEF CursorWriteSucceeds, Place, Field, Pair
    <3> QED
      BY <1>2, <2>1, <2>4, <3>1 DEF AllWrites
  <2>5. CASE w = 3
    <3>1. db'.refresh = poll.issued.refresh /\ disk' = disk
      BY <1>1, <1>4, <2>5 DEF CursorWriteSucceeds, Place, Field, Pair
    <3> QED
      BY <1>2, <2>1, <2>5, <3>1 DEF AllWrites
  <2> QED
    BY <1>1, <2>2, <2>3, <2>4, <2>5 DEF AllWrites
<1>5. CASE CursorWriteFails
  <2>1. PICK next \in {w + 1, PlaceDone} :
          /\ poll' = [[poll EXCEPT !.writes = next] EXCEPT !.pc = "save"]
          /\ sent' = IF Place = Nobody \/ next < PlaceDone THEN sent ELSE sent \ {r}
    BY <1>5 DEF CursorWriteFails, Go
  <2>2. poll'.writes = next
    BY <2>1 DEF AuthTypeOK, PollType
  <2>3. UNCHANGED <<disk, db>> /\ sent' \subseteq sent
    BY <1>5, <2>1 DEF CursorWriteFails, credentials
  <2>4. CASE w < 2
    <3>1. PlaceDone = 2 /\ Place = disk /\ next \in {1, 2}
      BY <1>1, <2>1, <2>4 DEF PlaceDone, Place
    <3>2. disk.refresh \in sent' => next < 2
      <4>1. Place = Nobody => disk.refresh = 0
        BY <3>1 DEF Nobody
      <4> QED
        BY <1>1, <1>2, <2>1, <2>3, <3>1, <4>1
    <3> QED
      BY <1>2, <2>2, <2>3, <3>1, <3>2 DEF AllWrites
  <2>5. CASE ~(w < 2)
    <3>1. PlaceDone = AllWrites /\ Place = db /\ next \in {3, 4} /\ AllWrites = 4
      BY <1>1, <2>1, <2>5 DEF PlaceDone, Place, AllWrites
    <3>2. db.refresh \in sent' => next < 4
      <4>1. Place = Nobody => db.refresh = 0
        BY <3>1 DEF Nobody
      <4> QED
        BY <1>1, <1>2, <2>1, <2>3, <3>1, <4>1
    <3> QED
      BY <1>2, <2>2, <2>3, <2>5, <3>1, <3>2
  <2> QED
    BY <2>4, <2>5
<1> QED
  BY <1>4, <1>5

(* A renewal never uses a refresh token whose successor has been kept. *)
LEMMA RenewalStep ==
  ASSUME AuthTypeOK, Where, Renewal, AuthNext
  PROVE  Renewal'
<1>0. poll \in PollType /\ sent \subseteq Own \ {0} /\ disk \in Pair /\ db \in Pair
  BY DEF AuthTypeOK
<1>1. CASE BeginPoll \/ StatuslineFails \/ RenewRefused \/ RenewLost \/ ReadToken \/ FetchFails
           \/ (\E stored \in BOOLEAN : FetchAnswers(stored)) \/ FetchRefused \/ Reread
  <2>1. /\ UNCHANGED <<kind, disk, db, sent>> /\ poll.pc # "save" /\ poll'.pc # "save"
        /\ poll'.pc = "oauth" => poll'.creds = DetectCredentials
    BY <1>1, PlaceStep
  <2>2. /\ disk.refresh \notin sent /\ (kind = "cursor" => db.refresh \notin sent)
        /\ kind = "gemini" => sent = {}
    BY <2>1 DEF Renewal, Unwritten
  <2>3. DetectCredentials.refresh \notin sent
    BY <2>2 DEF DetectCredentials
  <2> QED
    BY <2>1, <2>2, <2>3 DEF Renewal
<1>2. CASE RenewAccepted
  <2>1. poll.creds \in Pair /\ Issue(poll.creds) /\ poll.pc = "oauth" /\ UNCHANGED <<kind, disk, db>>
    BY <1>0, <1>2 DEF PollType, RenewAccepted
  <2>2. Fresh \notin Own /\ Issued(poll.creds).refresh = IF OneTime THEN Fresh ELSE poll.creds.refresh
    BY <2>1, IssueType
  <2>3. poll' = [[poll EXCEPT !.issued = Issued(poll.creds), !.writes = 0, !.kept = {}] EXCEPT !.pc = "save"]
    BY <1>2 DEF RenewAccepted, Go
  <2>4. /\ poll'.pc = "save" /\ poll'.creds = poll.creds /\ poll'.issued = Issued(poll.creds)
        /\ poll'.writes = 0
    BY <1>0, <2>3 DEF PollType
  <2>5. poll.creds.refresh \in Own
    BY <2>1 DEF Pair
  <2>6. disk.refresh \notin sent /\ (kind = "cursor" => db.refresh \notin sent)
    BY <2>1 DEF Renewal, Unwritten
  <2>7. sent' = IF OneTime THEN sent \cup {poll.creds.refresh} ELSE sent
    BY <1>2 DEF RenewAccepted
  <2>8. Unwritten(2)' /\ Unwritten(AllWrites)'
    BY <2>4 DEF Unwritten, AllWrites
  <2>9. disk'.refresh \in sent' => disk'.refresh = poll'.creds.refresh
    BY <2>1, <2>4, <2>6, <2>7
  <2>10. kind' = "cursor" /\ db'.refresh \in sent' => db'.refresh = poll'.creds.refresh
    BY <2>1, <2>4, <2>6, <2>7
  <2>11. kind' = "gemini" => sent' = {}
    BY <2>1, <2>7 DEF Renewal, OneTime
  <2>12. poll'.issued.refresh \notin sent'
    BY <1>0, <2>1, <2>2, <2>4, <2>5, <2>7 DEF Renewal, OneTime
  <2> QED
    BY <2>4, <2>8, <2>9, <2>10, <2>11, <2>12 DEF Renewal
<1>3. ASSUME NEW saved \in BOOLEAN, SaveCodex(saved) PROVE Renewal'
  <2>1. poll'.pc = "token" /\ kind' = kind /\ poll.pc = "save" /\ kind = "codex" /\ db' = db
    <3>1. \E a : Go("token", poll, a)
      BY <1>3 DEF SaveCodex
    <3> QED
      BY <1>0, <1>3, <3>1 DEF SaveCodex, Go, PollType
  <2>2. sent' \subseteq sent /\ disk'.refresh \notin sent'
    <3>0. /\ poll.issued.refresh \notin sent
          /\ disk.refresh \in sent => disk.refresh = poll.creds.refresh
      BY <2>1 DEF Renewal
    <3>1. CASE saved
      <4>1. disk' = poll.issued /\ sent' = sent
        BY <1>3, <2>1, <3>1 DEF SaveCodex, WriteCredentials
      <4> QED
        BY <3>0, <4>1
    <3>2. CASE ~saved
      <4>1. disk' = disk /\ sent' = sent \ {poll.creds.refresh}
        BY <1>3, <3>2 DEF SaveCodex
      <4> QED
        BY <3>0, <4>1
    <3> QED
      BY <3>1, <3>2
  <2> QED
    BY <2>1, <2>2 DEF Renewal
<1>11. CASE SaveCursor
  <2>1. /\ kind = "cursor" /\ poll.pc = "save" /\ poll.writes = AllWrites
        /\ UNCHANGED <<kind, disk, db, sent>>
    BY <1>11 DEF SaveCursor, credentials
  <2>2. poll'.pc \notin {"save", "oauth"}
    <3>1. (\E a : Go("token", poll, a) \/ Go("fetch", poll, a)) \/ (\E o, a : End(o, a))
      BY <1>0, <1>11 DEF SaveCursor, PollType
    <3> QED
      BY <1>0, <3>1 DEF Go, End, NoPoll, PollType
  <2>3. disk.refresh \notin sent /\ db.refresh \notin sent
    BY <2>1 DEF Renewal, Unwritten, AllWrites
  <2> QED
    BY <2>1, <2>2, <2>3 DEF Renewal
<1>12. CASE CursorWriteSucceeds \/ CursorWriteFails
  BY <1>12, CursorWriteRenewal
<1>4. CASE SaveGemini
  <2>1. kind = "gemini" /\ kind' = kind /\ sent' = sent
    BY <1>4 DEF SaveGemini
  <2>2. sent' = {}
    BY <2>1 DEF Renewal
  <2> QED
    BY <2>1, <2>2 DEF Renewal
<1>5. CASE OwnerRefresh
  <2>1. poll.pc = "owner" /\ UNCHANGED <<kind, db, sent>>
    BY <1>5 DEF OwnerRefresh
  <2>2. poll'.pc \in {"idle", "token"}
    <3>1. (\E a : Go("token", poll, a)) \/ (\E o, a : End(o, a))
      BY <1>5 DEF OwnerRefresh, OwnerFailed
    <3> QED
      BY <1>0, <3>1 DEF Go, End, NoPoll, PollType
  <2>3. disk' = disk \/ (Issue(disk) /\ disk' = Issued(disk))
    BY <1>5 DEF OwnerRefresh
  <2>4. disk'.refresh \notin sent \/ kind = "gemini"
    BY <1>0, <2>1, <2>3, IssueType DEF Renewal, OneTime, Unwritten
  <2>5. kind = "cursor" => db.refresh \notin sent
    BY <2>1 DEF Renewal, Unwritten
  <2> QED
    BY <2>1, <2>2, <2>4, <2>5 DEF Renewal
<1>6. CASE Restart
  <2>1. UNCHANGED <<kind, disk, db>> /\ poll'.pc = "idle" /\ sent' \subseteq sent
    BY <1>6 DEF Restart, NoPoll, credentials
  <2>2. sent' = IF poll.pc = "save" THEN sent \ {poll.creds.refresh} ELSE sent
    BY <1>6 DEF Restart
  <2>3. disk.refresh \notin sent' /\ (kind = "cursor" => db.refresh \notin sent')
    BY <2>2 DEF Renewal, Unwritten
  <2> QED
    BY <2>1, <2>3 DEF Renewal
<1>13. ASSUME UNCHANGED <<kind, poll, sent>>,
              disk' = disk \/ disk'.refresh \notin sent, db' = db \/ db'.refresh \notin sent
       PROVE  Renewal'
  <2>1. Unwritten(2)' = Unwritten(2) /\ Unwritten(AllWrites)' = Unwritten(AllWrites)
    BY <1>13 DEF Unwritten, AllWrites
  <2> QED
    BY <1>13, <2>1 DEF Renewal
<1>7. CASE Login
  <2>1. Fresh \notin sent
    BY <1>0, <1>7, FreshIsUnissued DEF Login
  <2> QED
    BY <1>7, <1>13, <2>1 DEF Login
<1>8. CASE OwnerRenews
  <2>1. ASSUME NEW c \in Pair, Issue(c), kind # "gemini" PROVE Issued(c).refresh \notin sent
    BY <1>0, <2>1, IssueType DEF OneTime
  <2>2. kind = "gemini" => sent = {}
    BY DEF Renewal
  <2> QED
    BY <1>0, <1>8, <1>13, <2>1, <2>2 DEF OwnerRenews
<1>9. CASE Logout
  <2>1. Nobody.refresh \notin sent
    BY <1>0 DEF Nobody
  <2> QED
    BY <1>9, <1>13, <2>1 DEF Logout
<1>10. CASE UNCHANGED <<kind, disk, db, poll, sent>>
  BY <1>10, <1>13
<1> QED
  BY <1>1, <1>2, <1>3, <1>4, <1>5, <1>6, <1>7, <1>8, <1>9, <1>10, <1>11, <1>12
  DEF AuthNext, PollStep, Surroundings, Revoke, DefaultProfile, Age, RetryWindowElapses, credentials

-----------------------------------------------------------------------------
(* An agent that pauses has reported a failure. *)
LEMMA EndTold ==
  ASSUME Told, UNCHANGED kind, NEW a, NEW outcome \in {"success", "failure", "silent"},
         End(outcome, a),
         kind # "claude_hybrid" =>
           /\ ~poll.usable
           /\ outcome = "success" => ~a.paused
           /\ outcome = "silent" => health = "down"
  PROVE  Told'
  BY DEF Told, End, NoPoll

LEMMA GoTold ==
  ASSUME Told, UNCHANGED kind, NEW a, NEW p \in PollType, NEW pc, pc # "idle",
         Go(pc, p, a),
         kind # "claude_hybrid" /\ p.wasPaused => health = "down"
  PROVE  Told'
  BY GoEffect DEF Told

LEMMA ToldStep ==
  ASSUME AuthTypeOK, Where, Told, NamedInv, AuthNext
  PROVE  Told'
<1>0. /\ poll \in PollType /\ agent \in AgentType /\ agent.paused \in BOOLEAN
      /\ kind \in Claude \cup Codex \cup {"cursor", "gemini"}
      /\ kind # "claude_hybrid" => ~poll.usable
  BY AuthConstants DEF AuthTypeOK, AgentType, Where
<1>1. CASE BeginPoll
  <2> DEFINE p == Read(FALSE)
  <2>1. p \in PollType /\ p.wasPaused = agent.paused /\ poll.pc = "idle" /\ kind' = kind
        /\ Read(TRUE) \in PollType
    BY <1>1, ReadType, ReadEffect DEF BeginPoll
  <2> HIDE DEF p
  <2>2. kind # "claude_hybrid" /\ agent.paused => health = "down"
    BY <2>1 DEF Told
  <2>3. ASSUME NEW a, NEW pc \in {"token", "oauth", "owner"}, Go(pc, p, a) PROVE Told'
    BY <2>1, <2>2, <2>3, GoTold
  <2>4. ASSUME NEW a, RenewFirst(a) PROVE Told'
    BY <2>3, <2>4 DEF RenewFirst, p
  <2>5. ASSUME NEW a, End("failure", a) \/ (End("silent", a) /\ agent.paused) PROVE Told'
    BY <1>0, <2>1, <2>2, <2>5, EndTold
  <2>6. CASE BeginCodex
    BY <2>3, <2>4, <2>6 DEF BeginCodex, p
  <2>7. CASE BeginCursor
    BY <2>4, <2>5, <2>7 DEF BeginCursor
  <2>8. CASE BeginGemini
    BY <2>4, <2>5, <2>8 DEF BeginGemini
  <2>9. CASE BeginOwner
    BY <2>3, <2>5, <2>9 DEF BeginOwner, OwnerFailed, p
  <2>10. CASE BeginClaude
    <3>1. CASE kind = "claude_hybrid"
      BY <2>1, <3>1 DEF Told
    <3>2. CASE kind # "claude_hybrid"
      BY <2>3, <2>10, <3>2 DEF BeginClaude, p
    <3> QED
      BY <3>1, <3>2
  <2> QED
    BY <1>1, <2>6, <2>7, <2>8, <2>9, <2>10 DEF BeginPoll
<1>2. CASE StatuslineFails
  BY <1>2 DEF StatuslineFails, Told
<1>3. ASSUME poll.pc # "idle", UNCHANGED kind, NEW a, NEW pc, pc # "idle", NEW p \in PollType,
             p.wasPaused = poll.wasPaused, Go(pc, p, a)
      PROVE  Told'
  BY <1>3, GoTold DEF Told
<1>4. ASSUME UNCHANGED kind, NEW a, End("failure", a) PROVE Told'
  BY <1>0, <1>4, EndTold
<1>5. CASE RenewAccepted
  <2>1. /\ [poll EXCEPT !.issued = Issued(poll.creds), !.writes = 0, !.kept = {}].wasPaused = poll.wasPaused
        /\ poll' = [[poll EXCEPT !.issued = Issued(poll.creds), !.writes = 0, !.kept = {}] EXCEPT !.pc = "save"]
        /\ UNCHANGED <<kind, health>> /\ poll.pc = "oauth"
    BY <1>0, <1>5 DEF RenewAccepted, Go, PollType
  <2>2. poll'.pc = "save" /\ poll'.wasPaused = poll.wasPaused
    BY <1>0, <2>1 DEF PollType
  <2> QED
    BY <2>1, <2>2 DEF Told
<1>6. CASE RenewRefused \/ RenewLost
  <2>0. poll.pc = "oauth" /\ kind \in {"codex", "cursor", "gemini"} /\ UNCHANGED kind
    BY <1>6 DEF RenewRefused, RenewLost, Where
  <2>1. PICK reason : RenewalFails(reason)
    BY <1>6 DEF RenewRefused, RenewLost
  <2> DEFINE p == [poll EXCEPT !.message = TRUE]
  <2>2. p \in PollType /\ p.wasPaused = poll.wasPaused
    BY <1>0 DEF PollType
  <2>3. (\E a : Go("token", p, a) \/ Go("token", poll, a)) \/ (\E a : End("failure", a))
    BY <1>0, <2>0, <2>1 DEF RenewalFails, PollType
  <2> HIDE DEF p
  <2> QED
    BY <1>0, <1>3, <1>4, <2>0, <2>2, <2>3
<1>7. CASE (\E saved \in BOOLEAN : SaveCodex(saved)) \/ SaveCursor
  <2>1. (\E a : Go("token", poll, a) \/ Go("fetch", poll, a)) \/ (\E a : End("failure", a))
    BY <1>0, <1>7 DEF SaveCodex, SaveCursor, PollType
  <2> QED
    BY <1>0, <1>3, <1>4, <1>7, <2>1 DEF SaveCodex, SaveCursor
<1>18. CASE CursorWriteSucceeds \/ CursorWriteFails
  <2>1. /\ UNCHANGED <<kind, health>> /\ poll.pc = "save" /\ poll'.pc = "save"
        /\ poll'.wasPaused = poll.wasPaused
    BY <1>18, CursorWriteEffect
  <2> QED
    BY <2>1 DEF Told
<1>8. CASE SaveGemini
  <2> DEFINE p == [poll EXCEPT !.creds.access = poll.issued.access]
  <2>1. p \in PollType /\ p.wasPaused = poll.wasPaused
    BY <1>0 DEF PollType, Pair
  <2>2. \E a : Go("token", p, a) \/ Go("fetch", p, a)
    BY <1>8 DEF SaveGemini
  <2> HIDE DEF p
  <2> QED
    BY <1>3, <1>8, <2>1, <2>2 DEF SaveGemini
<1>9. CASE OwnerRefresh
  <2>1. (\E a : Go("token", poll, a)) \/ (\E a : End("failure", a))
    BY <1>9 DEF OwnerRefresh, OwnerFailed
  <2> QED
    BY <1>0, <1>3, <1>4, <1>9, <2>1 DEF OwnerRefresh
<1>10. CASE ReadToken
  <2>0. poll.pc = "token" /\ UNCHANGED kind
    BY <1>10 DEF ReadToken
  <2> DEFINE p == [poll EXCEPT !.message = FALSE]
  <2>1. p \in PollType /\ p.wasPaused = poll.wasPaused
    BY <1>0 DEF PollType
  <2>2. ASSUME NEW q \in PollType, q.wasPaused = poll.wasPaused, NEW a, Paused(q, a) PROVE Told'
    <3>1. Go("fetch", q, a) \/ End("failure", a) \/ (End("silent", a) /\ q.wasPaused)
      BY <2>2 DEF Paused, Quiet, PollType
    <3>2. CASE End("silent", a) /\ q.wasPaused
      <4>1. kind # "claude_hybrid" => health = "down"
        BY <2>0, <2>2, <3>2 DEF Told
      <4> QED
        BY <1>0, <2>0, <3>2, <4>1, EndTold
    <3> QED
      BY <1>3, <1>4, <2>0, <2>2, <3>1, <3>2
  <2>3. \/ \E a : Paused(poll, a) \/ Paused(p, a) \/ Go("fetch", poll, a)
        \/ \E a : End("failure", a)
    <3>1. CASE TokenCodex
      BY <3>1 DEF TokenCodex
    <3>2. CASE TokenCursor
      BY <3>2 DEF TokenCursor
    <3>3. CASE TokenGemini
      BY <3>3 DEF TokenGemini
    <3>4. CASE TokenClaude
      BY <3>4 DEF TokenClaude
    <3> QED
      BY <1>0, <1>10, <3>1, <3>2, <3>3, <3>4 DEF ReadToken
  <2> HIDE DEF p
  <2> QED
    BY <1>0, <1>3, <1>4, <2>0, <2>1, <2>2, <2>3
<1>11. ASSUME NEW stored \in BOOLEAN, FetchAnswers(stored) PROVE Told'
  <2>1. ~Answered(stored).paused
    <3>1. kind # "cursor" => ~agent.paused
      BY <1>0, <1>11 DEF FetchAnswers, NamedInv, NamedCodex, NamedClaude, NamedGemini
    <3> QED
      BY <1>0, <3>1, LiftEffect DEF Answered, AgentType
  <2> HIDE DEF Answered
  <2>2. UNCHANGED kind /\ (End("success", Answered(stored)) \/ End("failure", Answered(stored)))
    BY <1>11 DEF FetchAnswers
  <2> QED
    BY <1>0, <2>1, <2>2, EndTold
<1>12. CASE FetchFails
  BY <1>4, <1>12 DEF FetchFails
<1>13. CASE FetchRefused
  <2> DEFINE p == [poll EXCEPT !.retry = TRUE]
  <2>1. p \in PollType /\ p.wasPaused = poll.wasPaused
    BY <1>0 DEF PollType
  <2>2. (\E a : Go("reread", p, a)) \/ (\E a : End("failure", a))
    <3>1. CASE poll.retry
      BY <1>0, <1>13, <3>1 DEF FetchRefused, RefusedAgain
    <3>2. CASE ~poll.retry
      <4> DEFINE cursor == [agent EXCEPT !.fails = OneMore(agent.fails), !.failed = agent.client]
      <4>1. cursor.fails \in Nat
        BY AuthConstants DEF AgentType, OneMore, AuthTypeOK
      <4>2. cursor.fails < MaxFailures \/ cursor.fails >= MaxFailures
        BY <4>1, AuthConstants
      <4> QED
        BY <1>0, <1>13, <3>2, <4>2 DEF FetchRefused, RefusedFirst
    <3> QED
      BY <3>1, <3>2
  <2> HIDE DEF p
  <2> QED
    BY <1>3, <1>4, <1>13, <2>1, <2>2 DEF FetchRefused
<1>14. CASE Reread
  <2> DEFINE p == [poll EXCEPT !.creds = DetectCredentials]
  <2>1. p \in PollType /\ p.wasPaused = poll.wasPaused
    BY <1>0, ReadType DEF PollType
  <2>2. (\E a : Go("oauth", p, a) \/ Go("fetch", poll, a)) \/ (\E a : End("failure", a))
    BY <1>14 DEF Reread, RereadCredentials, RereadToken
  <2> HIDE DEF p
  <2> QED
    BY <1>0, <1>3, <1>4, <1>14, <2>1, <2>2 DEF Reread
<1>15. CASE RetryWindowElapses
  <2>1. agent'.paused = agent.paused
    BY <1>0, <1>15 DEF RetryWindowElapses, AgentType
  <2> QED
    BY <1>15, <2>1 DEF RetryWindowElapses, Told
<1>16. CASE Restart
  BY <1>16 DEF Restart, Told, NoPoll, Started
<1>17. CASE UNCHANGED <<kind, agent, poll, health>>
  BY <1>17 DEF Told
<1> QED
  BY <1>1, <1>2, <1>5, <1>6, <1>7, <1>8, <1>9, <1>10, <1>11, <1>12, <1>13, <1>14, <1>15, <1>16, <1>17, <1>18
  DEF AuthNext, PollStep, Surroundings, Login, OwnerRenews, Logout, Revoke, DefaultProfile, Age

-----------------------------------------------------------------------------
(* The tokens a pause was for are not sent: Codex. *)

\* nothing that has not been issued has failed
LEMMA NotNamed ==
  ASSUME AuthTypeOK, NEW t, t \notin Own \ {0}
  PROVE  ~Bad(t)
  BY DEF AuthTypeOK, Bad

LEMMA CodexToken ==
  ASSUME kind \in Codex
  PROVE  /\ DetectToken = IF kind = "codex" /\ disk.access = 0 THEN agent.start ELSE disk.access
         /\ UNCHANGED <<kind, disk>> /\ agent'.start = agent.start => DetectToken' = DetectToken
  BY DEF DetectToken, Codex, Claude

LEMMA CodexEnd ==
  ASSUME NamedCodex, kind \in Codex, UNCHANGED <<kind, disk>>,
         NEW a, NEW outcome, End(outcome, a), a.start = agent.start,
         Bad(DetectToken) => a.paused /\ a.failed = DetectToken,
         a.last # 0 => a.client = a.last
  PROVE  NamedCodex'
<1>1. /\ agent' = a /\ poll'.pc = "idle" /\ (~a.paused => named' = named)
      /\ \A n \in named' : n \in named \/ n = [access |-> a.failed, refresh |-> a.failedRefresh]
  BY EndEffect
<1>2. DetectToken' = DetectToken
  BY <1>1, CodexToken
<1>3. [access |-> DetectToken, refresh |-> 0] \in named' => a.paused /\ a.failed = DetectToken
  BY <1>1 DEF Bad
<1> QED
  BY <1>1, <1>2, <1>3 DEF NamedCodex, Bad

LEMMA CodexGo ==
  ASSUME NamedCodex, kind \in Codex, UNCHANGED kind,
         NEW a, NEW p \in PollType, NEW pc \in {"token", "oauth", "fetch", "reread"}, Go(pc, p, a),
         Bad(DetectToken') => a.paused /\ a.failed = DetectToken',
         pc # "token" => ~a.paused,
         pc = "fetch" => ~Bad(a.client),
         a.last # 0 => a.client = a.last
  PROVE  NamedCodex'
  BY GoEffect DEF NamedCodex, Bad

LEMMA CodexPoll ==
  ASSUME AuthTypeOK, Where, NamedCodex, kind \in Codex, PollStep
  PROVE  NamedCodex'
<1>0. /\ poll \in PollType /\ agent \in AgentType /\ disk \in Pair /\ Codex = {"codex", "codex_owned"}
      /\ poll.creds \in Pair /\ poll.issued \in Pair /\ kind \notin Claude
  BY DEF AuthTypeOK, PollType, Codex, Claude
<1> DEFINE t == DetectToken
<1>1. t \in Own
  BY ReadType
<1>2. CASE BeginPoll
  <2> DEFINE p == Read(FALSE)
  <2>1. p \in PollType /\ BeginCodex /\ UNCHANGED <<kind, disk>>
    BY <1>0, <1>2, ReadType DEF BeginPoll, BeginCursor, BeginGemini, BeginOwner, BeginClaude, Claude, credentials
  <2>2. Go("token", p, agent) \/ (~agent.paused /\ Go("oauth", p, agent))
    BY <2>1 DEF BeginCodex, RenewFirst
  <2> HIDE DEF p
  <2>3. DetectToken' = t
    BY <2>1, <2>2, CodexToken DEF Go
  <2> QED
    BY <2>1, <2>2, <2>3, CodexGo DEF NamedCodex
<1>3. CASE RenewAccepted
  <2>1. Issue(poll.creds) /\ UNCHANGED <<kind, disk, named, agent>>
    BY <1>3 DEF RenewAccepted, Go
  <2>2. Fresh \notin Own /\ Issued(poll.creds).access = Fresh
    BY <1>0, <2>1, IssueType
  <2>3. poll' = [[poll EXCEPT !.issued = Issued(poll.creds), !.writes = 0, !.kept = {}] EXCEPT !.pc = "save"] /\ poll.pc = "oauth"
    BY <1>3 DEF RenewAccepted, Go
  <2>4. poll'.pc = "save" /\ poll'.issued = Issued(poll.creds)
    BY <1>0, <2>3 DEF PollType
  <2>5. DetectToken' = t
    BY <2>1, CodexToken
  <2>6. ~Bad(Fresh)
    BY <2>2, NotNamed
  <2> QED
    BY <2>1, <2>2, <2>3, <2>4, <2>5, <2>6 DEF NamedCodex, Bad
<1>4. CASE RenewRefused \/ RenewLost
  <2>0. poll.pc = "oauth" /\ kind = "codex" /\ UNCHANGED <<kind, disk>>
    BY <1>0, <1>4 DEF RenewRefused, RenewLost, Where, credentials
  <2>1. PICK reason : RenewalFails(reason)
    BY <1>4 DEF RenewRefused, RenewLost
  <2> DEFINE p == [poll EXCEPT !.message = TRUE]
             more == [agent EXCEPT !.refreshFails = OneMore(agent.refreshFails)]
             c == poll.creds.access
  <2>2. p \in PollType /\ more \in AgentType
    <3>1. OneMore(agent.refreshFails) \in 0 .. MaxFailures
      BY <1>0, AuthConstants DEF AgentType, OneMore
    <3> QED
      BY <1>0, <3>1 DEF PollType, AgentType
  <2>3. more.client = agent.client /\ more.last = agent.last /\ more.start = agent.start
    BY <1>0 DEF AgentType
  <2>4. Go("token", p, Pause(agent, c)) \/ Go("token", p, Pause(more, c)) \/ Go("token", poll, more)
    BY <2>0, <2>1 DEF RenewalFails
  <2> HIDE DEF p, more, c
  <2>5. \E q \in PollType : \E a :
          Go("token", q, a) /\ a.client = agent.client /\ a.last = agent.last /\ a.start = agent.start
    <3> DEFINE x == Pause(agent, c)
               y == Pause(more, c)
    <3>1. /\ x.client = agent.client /\ x.last = agent.last /\ x.start = agent.start
          /\ y.client = more.client /\ y.last = more.last /\ y.start = more.start
      BY <1>0, <2>2, PauseEffect
    <3> HIDE DEF x, y
    <3> QED
      BY <1>0, <2>2, <2>3, <2>4, <3>1 DEF x, y
  <2>6. PICK q \in PollType : \E a :
          Go("token", q, a) /\ a.client = agent.client /\ a.last = agent.last /\ a.start = agent.start
    BY <2>5
  <2>7. PICK a :
          Go("token", q, a) /\ a.client = agent.client /\ a.last = agent.last /\ a.start = agent.start
    BY <2>6
  <2>8. DetectToken' = t /\ ~Bad(t)
    BY <2>0, <2>7, CodexToken DEF Go, NamedCodex
  <2> QED
    BY <2>0, <2>7, <2>8, CodexGo DEF NamedCodex
<1>5. ASSUME NEW saved \in BOOLEAN, SaveCodex(saved) PROVE NamedCodex'
  <2> DEFINE a == [agent EXCEPT !.refreshFails = 0]
             i == poll.issued.access
  <2>0. poll.pc = "save" /\ kind = "codex" /\ UNCHANGED kind
    BY <1>5 DEF SaveCodex
  <2>1. a \in AgentType /\ a.client = agent.client /\ a.last = agent.last /\ a.start = agent.start
    BY <1>0, AuthConstants DEF AgentType
  <2> HIDE DEF a
  <2>2. CASE saved
    <3>1. Go("token", poll, Adopt(a, i)) /\ disk' = poll.issued /\ i # 0
      BY <1>5, <2>0, <2>2 DEF SaveCodex, WriteCredentials, Where, a
    <3>2. DetectToken' = i
      BY <2>0, <3>1 DEF DetectToken, Claude
    <3>3. Adopt(a, i).client = i /\ Adopt(a, i).last = i
      BY <2>1, AdoptEffect
    <3> QED
      BY <1>0, <2>0, <3>1, <3>2, <3>3, CodexGo DEF NamedCodex
  <2>3. CASE ~saved
    <3>1. Go("token", poll, a) /\ disk' = disk
      BY <1>5, <2>0, <2>3 DEF SaveCodex, a
    <3>2. DetectToken' = t
      BY <2>0, <2>1, <3>1, CodexToken DEF Go
    <3> QED
      BY <1>0, <2>0, <2>1, <3>1, <3>2, CodexGo DEF NamedCodex
  <2> QED
    BY <2>2, <2>3
<1>6. CASE ReadToken
  <2>0. poll.pc = "token" /\ UNCHANGED <<kind, disk>> /\ TokenCodex
    BY <1>0, <1>6 DEF ReadToken, credentials
  <2> DEFINE b == Adopt(agent, t)
  <2>1. /\ b \in AgentType /\ b.client = t /\ b.last = t /\ b.paused = agent.paused
        /\ b.failed = agent.failed /\ b.start = agent.start
    BY <1>0, <1>1, AgentOps, AdoptEffect
  <2> HIDE DEF b, t
  <2>2. \/ t = 0 /\ End("failure", agent)
        \/ Paused(poll, Changed(b, t))
        \/ t = agent.last /\ t # 0 /\ Paused(poll, agent)
    BY <2>0 DEF TokenCodex, b, t
  <2>3. CASE t = 0 /\ End("failure", agent)
    BY <1>0, <2>0, <2>3, CodexEnd DEF NamedCodex, t
  <2>4. CASE Paused(poll, Changed(b, t))
    <3> DEFINE c == Changed(b, t)
    <3>1. c.client = t /\ c.last = t /\ c.start = agent.start
      BY <2>1, LiftEffect DEF Changed
    <3>2. Bad(t) => c.paused /\ c.failed = t
      BY <2>1 DEF Changed, NamedCodex, t
    <3> HIDE DEF c
    <3>3. CASE c.paused
      <4>1. \E o : End(o, c)
        BY <2>4, <3>3 DEF Paused, c
      <4> QED
        BY <2>0, <3>1, <3>2, <4>1, CodexEnd DEF t
    <3>4. CASE ~c.paused
      <4>1. Go("fetch", poll, c)
        BY <2>4, <3>4 DEF Paused, c
      <4>2. DetectToken' = t
        BY <2>0, <3>1, <4>1, CodexToken DEF Go, t
      <4> QED
        BY <1>0, <2>0, <3>1, <3>2, <3>4, <4>1, <4>2, CodexGo
    <3> QED
      BY <3>3, <3>4
  <2>5. CASE t = agent.last /\ t # 0 /\ Paused(poll, agent)
    <3>1. CASE agent.paused
      <4>1. \E o : End(o, agent)
        BY <2>5, <3>1 DEF Paused
      <4> QED
        BY <2>0, <4>1, CodexEnd DEF NamedCodex
    <3>2. CASE ~agent.paused
      <4>1. Go("fetch", poll, agent)
        BY <2>5, <3>2 DEF Paused
      <4>2. DetectToken' = t
        BY <2>0, <4>1, CodexToken DEF Go, t
      <4> QED
        BY <1>0, <2>0, <2>5, <3>2, <4>1, <4>2, CodexGo DEF NamedCodex, t
    <3> QED
      BY <3>1, <3>2
  <2> QED
    BY <2>2, <2>3, <2>4, <2>5
<1>7. ASSUME NEW stored \in BOOLEAN, FetchAnswers(stored) PROVE NamedCodex'
  <2> DEFINE a == [agent EXCEPT !.fails = 0]
  <2>1. UNCHANGED <<kind, disk>> /\ poll.pc = "fetch" /\ \E o : End(o, a)
    BY <1>0, <1>7 DEF FetchAnswers, Answered, credentials
  <2>2. /\ a.client = agent.client /\ a.last = agent.last /\ a.start = agent.start
        /\ a.paused = agent.paused
    BY <1>0 DEF AgentType
  <2> HIDE DEF a
  <2> QED
    BY <2>1, <2>2, CodexEnd DEF NamedCodex
<1>8. CASE FetchFails
  BY <1>8, CodexEnd DEF FetchFails, NamedCodex, credentials
<1>9. CASE FetchRefused
  <2>1. UNCHANGED <<kind, disk>> /\ poll.pc = "fetch" /\ ~agent.paused /\ ~Bad(t)
    BY <1>9 DEF FetchRefused, NamedCodex, credentials
  <2>2. CASE poll.retry
    <3> DEFINE c == Counted(agent, agent.client)
    <3>0. agent.client \in Own
      BY <1>0, <2>1, <2>2 DEF AgentType, Where
    <3>1. c.client = agent.client /\ c.last = agent.last /\ c.start = agent.start
      BY <1>0, <3>0, CountedEffect
    <3>2. End("failure", c)
      BY <1>0, <1>9, <2>2 DEF FetchRefused, RefusedAgain
    <3> HIDE DEF c
    <3> QED
      BY <2>1, <3>1, <3>2, CodexEnd DEF NamedCodex
  <2>3. CASE ~poll.retry
    <3> DEFINE a == [agent EXCEPT !.last = 0]
               p == [poll EXCEPT !.retry = TRUE]
    <3>1. p \in PollType /\ a.last = 0 /\ a.paused = agent.paused /\ a.start = agent.start
      BY <1>0 DEF PollType, AgentType
    <3>2. Go("reread", p, a)
      BY <1>0, <1>9, <2>3 DEF FetchRefused, RefusedFirst
    <3> HIDE DEF a, p
    <3>3. DetectToken' = t
      BY <2>1, <3>1, <3>2, CodexToken DEF Go
    <3> QED
      BY <2>1, <3>1, <3>2, <3>3, CodexGo
  <2> QED
    BY <2>2, <2>3
<1>10. CASE Reread
  <2>1. UNCHANGED <<kind, disk>> /\ poll.pc = "reread" /\ ~agent.paused /\ ~Bad(t)
    BY <1>10 DEF Reread, NamedCodex, credentials
  <2>2. End("failure", agent) \/ Go("fetch", poll, Adopt(agent, t))
    BY <1>0, <1>10 DEF Reread, RereadToken
  <2>3. CASE End("failure", agent)
    BY <2>1, <2>3, CodexEnd DEF NamedCodex
  <2>4. CASE Go("fetch", poll, Adopt(agent, t))
    <3> DEFINE b == Adopt(agent, t)
    <3>1. b.client = t /\ b.last = t /\ b.paused = agent.paused /\ b.start = agent.start
      BY <1>0, AdoptEffect
    <3> HIDE DEF b
    <3>2. DetectToken' = t
      BY <2>1, <2>4, <3>1, CodexToken DEF Go, b
    <3> QED
      BY <1>0, <2>1, <2>4, <3>1, <3>2, CodexGo DEF b
  <2> QED
    BY <2>2, <2>3, <2>4
<1>11. ~StatuslineFails /\ ~SaveGemini /\ ~OwnerRefresh /\ ~SaveCursor
  BY <1>0 DEF StatuslineFails, SaveGemini, OwnerRefresh, SaveCursor, Where
<1>12. ~CursorWriteSucceeds /\ ~CursorWriteFails
  BY <1>0 DEF CursorWriteSucceeds, CursorWriteFails, Writing
<1> QED
  BY <1>2, <1>3, <1>4, <1>5, <1>6, <1>7, <1>8, <1>9, <1>10, <1>11, <1>12 DEF PollStep

LEMMA CodexSurroundings ==
  ASSUME AuthTypeOK, NamedCodex, kind \in Codex, RetryWindowElapses \/ Surroundings
  PROVE  NamedCodex'
<1>0. agent \in AgentType /\ disk \in Pair /\ kind \notin {"gemini", "claude_owner", "cursor"}
  BY DEF AuthTypeOK, Codex
<1>1. CASE RetryWindowElapses
  <2>1. /\ agent'.client = agent.client /\ agent'.last = agent.last /\ agent'.start = agent.start
        /\ agent'.paused = agent.paused /\ agent'.failed = agent.failed
        /\ UNCHANGED <<kind, disk, poll, named>>
    BY <1>0, <1>1 DEF RetryWindowElapses, AgentType, credentials
  <2>2. DetectToken' = DetectToken
    BY <2>1, CodexToken
  <2> QED
    BY <2>1, <2>2 DEF NamedCodex, Bad
<1>2. CASE Restart
  BY <1>2 DEF Restart, NamedCodex, Bad, Started, NoPoll
<1>3. CASE Logout
  BY <1>0, <1>3 DEF Logout, NamedCodex, Bad
<1>4. ASSUME UNCHANGED <<kind, agent, poll, named>>, disk' = disk \/ (disk'.access = Fresh /\ Unissued # {})
      PROVE  NamedCodex'
  <2>1. (Fresh # 0 /\ ~Bad(Fresh)) \/ Unissued = {}
    BY FreshIsUnissued, NotNamed DEF Own
  <2>2. DetectToken' = DetectToken \/ ~Bad(DetectToken')
    <3>1. CASE disk' = disk
      BY <1>4, <3>1, CodexToken
    <3>2. CASE disk'.access = Fresh /\ Unissued # {}
      BY <1>4, <2>1, <3>2 DEF DetectToken, Claude, Codex
    <3> QED
      BY <1>4, <3>1, <3>2
  <2> QED
    BY <1>4, <2>2 DEF NamedCodex, Bad
<1>5. CASE Login
  BY <1>0, <1>4, <1>5 DEF Login
<1>6. CASE OwnerRenews
  BY <1>0, <1>4, <1>6, IssueType DEF OwnerRenews, Issue, Renewable
<1>7. CASE Revoke \/ DefaultProfile \/ (\E t \in 1 .. Tokens : Age(t))
  BY <1>4, <1>7 DEF Revoke, DefaultProfile, Age
<1> QED
  BY <1>1, <1>2, <1>3, <1>5, <1>6, <1>7 DEF Surroundings

-----------------------------------------------------------------------------
(* The tokens a pause was for are not sent: Anthropic. *)
LEMMA ClaudeToken ==
  ASSUME kind \in Claude
  PROVE  /\ DetectToken = IF Expired(disk.access) THEN 0 ELSE disk.access
         /\ UNCHANGED <<kind, disk, age>> => DetectToken' = DetectToken
  BY DEF DetectToken, Claude, Expired

LEMMA ClaudeEnd ==
  ASSUME NamedClaude, kind \in Claude, UNCHANGED <<kind, disk, age>>,
         NEW a, NEW outcome, End(outcome, a),
         Bad(DetectToken) => a.paused /\ a.failed = DetectToken,
         a.last # 0 => a.client \in {a.last, Borrowed},
         a.borrowing /\ Bad(a.client) => a.paused
  PROVE  NamedClaude'
<1>1. /\ agent' = a /\ poll'.pc = "idle" /\ (~a.paused => named' = named)
      /\ \A n \in named' : n \in named \/ n = [access |-> a.failed, refresh |-> a.failedRefresh]
  BY EndEffect
<1>2. DetectToken' = DetectToken
  BY ClaudeToken
<1>3. [access |-> DetectToken, refresh |-> 0] \in named' => a.paused /\ a.failed = DetectToken
  BY <1>1 DEF Bad
<1>4. Borrowed' = Borrowed
  BY DEF Borrowed
<1>5. a.borrowing /\ [access |-> a.client, refresh |-> 0] \in named' => a.paused
  BY <1>1 DEF Bad
<1> QED
  BY <1>1, <1>2, <1>3, <1>4, <1>5 DEF NamedClaude, Bad

LEMMA ClaudeGo ==
  ASSUME NamedClaude, kind \in Claude, UNCHANGED kind,
         NEW a, NEW p \in PollType, NEW pc \in {"token", "owner", "fetch", "reread"}, Go(pc, p, a),
         Bad(DetectToken') => a.paused /\ a.failed = DetectToken',
         pc \in {"fetch", "reread"} => ~a.paused,
         pc = "fetch" => ~Bad(a.client),
         a.last # 0 => a.client \in {a.last, Borrowed},
         a.borrowing /\ Bad(a.client) => a.paused,
         pc = "owner" => ~Bad(DetectToken')
  PROVE  NamedClaude'
<1>1. Borrowed' = Borrowed
  BY DEF Borrowed
<1> QED
  BY <1>1, GoEffect DEF NamedClaude, Bad

\* the owner of the isolated profile has failed
LEMMA ClaudeOwnerFailed ==
  ASSUME AuthTypeOK, NamedClaude, kind \in Claude, UNCHANGED <<kind, disk, age>>,
         NEW p \in PollType, NEW a \in AgentType, OwnerFailed(p, a), ~Bad(DetectToken)
  PROVE  NamedClaude'
<1> DEFINE b == [a EXCEPT !.client = Borrowed, !.paused = FALSE, !.fails = 0, !.borrowing = TRUE]
           c == [a EXCEPT !.client = 0, !.last = 0, !.failed = p.creds.access, !.borrowing = FALSE]
<1>1. b.client = Borrowed /\ c.last = 0 /\ c.borrowing = FALSE
  BY DEF AgentType
<1>2. Go("token", p, b) \/ End("failure", c)
  BY DEF OwnerFailed
<1>3. ~Bad(Borrowed)
  BY NotNamed, AuthConstants DEF Own, Borrowed
<1> HIDE DEF b, c
<1>4. DetectToken' = DetectToken
  BY ClaudeToken
<1> QED
  BY <1>1, <1>2, <1>3, <1>4, ClaudeGo, ClaudeEnd

LEMMA ClaudeFresh ==
  ASSUME AuthTypeOK, kind \in Claude, UNCHANGED kind, Unissued # {}, disk'.access = Fresh,
         age' = [age EXCEPT ![Fresh] = "fresh"]
  PROVE  DetectToken' = Fresh /\ ~Bad(DetectToken')
<1>1. Fresh \in 1 .. Tokens /\ Fresh \notin Own
  BY FreshIsUnissued
<1>2. ~Bad(Fresh)
  BY <1>1, NotNamed
<1> HIDE DEF Fresh
<1>3. age'[disk'.access] = "fresh"
  BY <1>1 DEF AuthTypeOK
<1>4. DetectToken' = disk'.access
  BY <1>3 DEF DetectToken, Claude, Expired
<1> QED
  BY <1>2, <1>4

LEMMA ClaudePoll ==
  ASSUME AuthTypeOK, Where, NamedClaude, kind \in Claude, PollStep
  PROVE  NamedClaude'
<1>0. /\ poll \in PollType /\ agent \in AgentType /\ disk \in Pair /\ 0 \in Own
      /\ Claude = {"claude", "claude_hybrid", "claude_owner"} /\ kind \notin Codex
      /\ ~Bad(0) /\ ~Bad(Borrowed)
  BY NotNamed, AuthConstants DEF AuthTypeOK, Codex, Claude, Own, Borrowed
<1> DEFINE t == DetectToken
<1>1. t \in Own
  BY ReadType
<1>2. CASE BeginPoll
  <2> DEFINE p == Read(FALSE)
             q == Read(TRUE)
             b == [agent EXCEPT !.cycle = ~@]
  <2>1. p \in PollType /\ q \in PollType /\ UNCHANGED <<kind, disk, age>>
    BY <1>0, <1>2, ReadType DEF BeginPoll, credentials
  <2>2. /\ b.client = agent.client /\ b.last = agent.last /\ b.paused = agent.paused
        /\ b.failed = agent.failed /\ b.borrowing = agent.borrowing
    BY <1>0 DEF AgentType
  <2>3. CASE BeginClaude
    <3>1. Go("token", p, agent) \/ Go("token", q, b) \/ End("success", b)
      BY <2>3 DEF BeginClaude
    <3> HIDE DEF p, q, b
    <3>2. t' = t
      BY <2>1, ClaudeToken
    <3> QED
      BY <2>1, <2>2, <3>1, <3>2, ClaudeGo, ClaudeEnd DEF NamedClaude
  <2>4. CASE BeginOwner
    <3>1. \/ Go("token", p, agent)
          \/ t = 0 /\ (Go("owner", p, agent) \/ OwnerFailed(p, agent))
      BY <2>4, ClaudeToken DEF BeginOwner
    <3> HIDE DEF p
    <3>2. t' = t
      BY <2>1, ClaudeToken
    <3> HIDE DEF t
    <3>3. CASE Go("token", p, agent)
      BY <2>1, <3>2, <3>3, ClaudeGo DEF NamedClaude, t
    <3>4. CASE t = 0 /\ Go("owner", p, agent)
      BY <1>0, <2>1, <3>2, <3>4, ClaudeGo DEF NamedClaude, t
    <3>5. CASE t = 0 /\ OwnerFailed(p, agent)
      BY <1>0, <2>1, <3>5, ClaudeOwnerFailed DEF t
    <3> QED
      BY <3>1, <3>3, <3>4, <3>5
  <2> QED
    BY <1>0, <1>2, <2>3, <2>4 DEF BeginPoll, BeginCodex, BeginCursor, BeginGemini
<1>3. CASE StatuslineFails
  BY <1>3, ClaudeEnd DEF StatuslineFails, NamedClaude, credentials
<1>4. CASE OwnerRefresh
  <2> DEFINE better == [agent EXCEPT !.refreshFails = 0, !.waiting = FALSE, !.borrowing = FALSE]
             worse == [agent EXCEPT !.refreshFails = OneMore(agent.refreshFails),
                                    !.waiting = OneMore(agent.refreshFails) = MaxFailures]
             next == IF agent.paused THEN Lift(better) ELSE better
  <2>1. poll.pc = "owner" /\ UNCHANGED kind /\ ~Bad(t)
    BY <1>4 DEF OwnerRefresh, NamedClaude
  <2>2. \/ Issue(disk) /\ disk' = Issued(disk) /\ Go("token", poll, next)
        \/ UNCHANGED <<age, disk>> /\ (Go("token", poll, next) \/ OwnerFailed(poll, worse))
    BY <1>4 DEF OwnerRefresh
  <2>3. worse \in AgentType
    <3>1. OneMore(agent.refreshFails) \in 0 .. MaxFailures
      BY <1>0, AuthConstants DEF AgentType, OneMore
    <3>2. (OneMore(agent.refreshFails) = MaxFailures) \in BOOLEAN
      OBVIOUS
    <3> QED
      BY <1>0, <3>1, <3>2 DEF AgentType
  <2>4. next.client = agent.client /\ next.last = agent.last /\ next.borrowing = FALSE
    <3>0. 0 \in 0 .. MaxFailures
      BY AuthConstants
    <3>1. /\ better \in AgentType /\ better.client = agent.client /\ better.last = agent.last
          /\ better.borrowing = FALSE
      BY <1>0, <3>0 DEF AgentType
    <3> HIDE DEF better
    <3> QED
      BY <3>1, LiftEffect
  <2> HIDE DEF worse, next
  <2>6. CASE Go("token", poll, next)
    <3>1. next.last # 0 => next.client \in {next.last, Borrowed}
      BY <2>4 DEF NamedClaude
    <3>2. ~Bad(t')
      <4>1. CASE UNCHANGED <<age, disk>>
        BY <2>1, <4>1, ClaudeToken
      <4>2. CASE Issue(disk) /\ disk' = Issued(disk)
        <5>1. /\ Unissued # {} /\ disk'.access = Fresh /\ age' = [age EXCEPT ![Fresh] = "fresh"]
          BY <1>0, <4>2, IssueType DEF Issue, Renewable
        <5> QED
          BY <2>1, <5>1, ClaudeFresh
      <4> QED
        BY <2>2, <4>1, <4>2
    <3> QED
      BY <1>0, <2>1, <2>4, <2>6, <3>1, <3>2, ClaudeGo
  <2>7. CASE UNCHANGED <<age, disk>> /\ OwnerFailed(poll, worse)
    BY <1>0, <2>1, <2>3, <2>7, ClaudeOwnerFailed
  <2> QED
    BY <2>2, <2>6, <2>7
<1>5. CASE ReadToken
  <2> DEFINE left == [agent EXCEPT !.client = 0, !.last = IF agent.client # 0 THEN 0 ELSE @]
             x == Adopt(agent, t)
             b == [x EXCEPT !.borrowing = FALSE]
             p == [poll EXCEPT !.message = FALSE]
             a == CASE t = 0 /\ ~agent.borrowing -> left
                    [] t # 0 /\ (t # agent.last \/ agent.borrowing) -> Changed(b, t)
                    [] OTHER -> agent
  <2>0. UNCHANGED <<kind, disk, age>> /\ p \in PollType
    BY <1>0, <1>5 DEF ReadToken, credentials, PollType
  <2>1. (End("failure", a) /\ ~a.paused /\ a.client = 0) \/ (Paused(p, a) /\ (a.paused \/ a.client # 0))
    BY <1>0, <1>5 DEF ReadToken, TokenClaude
  <2>2. left.client = 0 /\ left.borrowing = agent.borrowing
        /\ left.last = IF agent.client # 0 THEN 0 ELSE agent.last
    BY <1>0 DEF AgentType
  <2>3. /\ b \in AgentType /\ b.client = t /\ b.last = t /\ b.borrowing = FALSE
        /\ b.paused = agent.paused /\ b.failed = agent.failed
    <3>1. /\ x \in AgentType /\ x.client = t /\ x.last = t
          /\ x.paused = agent.paused /\ x.failed = agent.failed
      BY <1>0, <1>1, AgentOps, AdoptEffect
    <3> HIDE DEF x
    <3> QED
      BY <3>1 DEF AgentType
  <2>4. \/ t = 0 /\ ~agent.borrowing /\ a = left
        \/ t # 0 /\ a = Changed(b, t)
        \/ a = agent /\ ((t = 0 /\ agent.borrowing) \/ (t # 0 /\ t = agent.last))
    <3> HIDE DEF left, b, t
    <3> QED
      BY <1>0 DEF AgentType
  <2> HIDE DEF left, b, p, a, x
  <2>5. t' = t
    BY <2>0, ClaudeToken
  <2>6. \/ (\E o : End(o, a)) /\ (a.paused \/ a.client = 0)
        \/ Go("fetch", p, a) /\ ~a.paused /\ a.client # 0
    BY <2>1 DEF Paused
  <2>7. ASSUME Bad(t) => a.paused /\ a.failed = t,
               a.last # 0 => a.client \in {a.last, Borrowed},
               a.borrowing /\ Bad(a.client) => a.paused,
               ~a.paused => ~Bad(a.client)
        PROVE  NamedClaude'
    <3>1. CASE \E o : End(o, a)
      BY <2>0, <2>7, <3>1, ClaudeEnd
    <3>2. CASE Go("fetch", p, a) /\ ~a.paused
      BY <2>0, <2>5, <2>7, <3>2, ClaudeGo
    <3> QED
      BY <2>6, <3>1, <3>2
  <2>8. CASE t = 0 /\ ~agent.borrowing /\ a = left
    <3>1. left.last = 0
      BY <1>0, <2>2, AuthConstants DEF NamedClaude, Borrowed
    <3> HIDE DEF t
    <3> QED
      BY <1>0, <2>2, <2>7, <2>8, <3>1
  <2>9. CASE t # 0 /\ a = Changed(b, t)
    <3>1. /\ Changed(b, t).client = t /\ Changed(b, t).last = t /\ Changed(b, t).borrowing = FALSE
      BY <2>3, LiftEffect DEF Changed
    <3>2. Bad(t) => Changed(b, t).paused /\ Changed(b, t).failed = t
      BY <2>3 DEF Changed, NamedClaude
    <3> HIDE DEF t
    <3> QED
      BY <2>7, <2>9, <3>1, <3>2
  <2>10. CASE a = agent /\ ((t = 0 /\ agent.borrowing) \/ (t # 0 /\ t = agent.last))
    <3>1. Bad(t) => agent.paused /\ agent.failed = t
      BY DEF NamedClaude
    <3>2. ~agent.paused => ~Bad(agent.client)
      BY <1>0, <2>10, <3>1 DEF NamedClaude
    <3> HIDE DEF t
    <3> QED
      BY <2>7, <2>10, <3>1, <3>2 DEF NamedClaude
  <2> QED
    BY <2>4, <2>8, <2>9, <2>10
<1>6. ASSUME NEW stored \in BOOLEAN, FetchAnswers(stored) PROVE NamedClaude'
  <2> DEFINE a == [agent EXCEPT !.fails = 0]
  <2>1. UNCHANGED <<kind, disk, age>> /\ poll.pc = "fetch" /\ \E o : End(o, a)
    BY <1>0, <1>6 DEF FetchAnswers, Answered, credentials
  <2>2. /\ a.client = agent.client /\ a.last = agent.last
        /\ a.paused = agent.paused /\ a.borrowing = agent.borrowing
    BY <1>0 DEF AgentType
  <2> HIDE DEF a
  <2> QED
    BY <2>1, <2>2, ClaudeEnd DEF NamedClaude
<1>7. CASE FetchFails
  BY <1>7, ClaudeEnd DEF FetchFails, NamedClaude, credentials
<1>8. CASE FetchRefused
  <2>1. /\ UNCHANGED <<kind, disk, age>> /\ poll.pc = "fetch" /\ ~agent.paused /\ ~Bad(t)
        /\ ~Bad(agent.client)
    BY <1>8 DEF FetchRefused, NamedClaude, credentials
  <2>2. CASE poll.retry
    <3> DEFINE c == Counted(agent, agent.client)
    <3>0. agent.client \in Own
      BY <1>0, <2>1, <2>2 DEF AgentType, Where
    <3>1. c.client = agent.client /\ c.last = agent.last
      BY <1>0, <3>0, CountedEffect
    <3>2. End("failure", c)
      BY <1>0, <1>8, <2>2 DEF FetchRefused, RefusedAgain
    <3> HIDE DEF c
    <3> QED
      BY <2>1, <3>1, <3>2, ClaudeEnd DEF NamedClaude
  <2>3. CASE ~poll.retry
    <3> DEFINE a == [agent EXCEPT !.last = 0]
               p == [poll EXCEPT !.retry = TRUE]
    <3>1. p \in PollType /\ a.last = 0 /\ a.paused = agent.paused /\ a.client = agent.client
      BY <1>0 DEF PollType, AgentType
    <3>2. Go("reread", p, a)
      BY <1>0, <1>8, <2>3 DEF FetchRefused, RefusedFirst
    <3> HIDE DEF a, p
    <3>3. t' = t
      BY <2>1, ClaudeToken
    <3> QED
      BY <2>1, <3>1, <3>2, <3>3, ClaudeGo
  <2> QED
    BY <2>2, <2>3
<1>9. CASE Reread
  <2>1. UNCHANGED <<kind, disk, age>> /\ poll.pc = "reread" /\ ~agent.paused /\ ~Bad(t)
    BY <1>9 DEF Reread, NamedClaude, credentials
  <2>2. End("failure", agent) \/ Go("fetch", poll, Adopt(agent, t))
    BY <1>0, <1>9 DEF Reread, RereadToken
  <2>3. CASE End("failure", agent)
    BY <2>1, <2>3, ClaudeEnd DEF NamedClaude
  <2>4. CASE Go("fetch", poll, Adopt(agent, t))
    <3> DEFINE b == Adopt(agent, t)
    <3>1. b.client = t /\ b.last = t /\ b.paused = agent.paused
      BY <1>0, AdoptEffect
    <3> HIDE DEF b
    <3>2. t' = t
      BY <2>1, ClaudeToken
    <3> QED
      BY <1>0, <2>1, <2>4, <3>1, <3>2, ClaudeGo DEF b
  <2> QED
    BY <2>2, <2>3, <2>4
<1>10. ~RenewAccepted /\ ~RenewRefused /\ ~RenewLost /\ ~Saving
  BY <1>0 DEF RenewAccepted, RenewRefused, RenewLost, Saving, SaveCodex, CursorWriteSucceeds,
     CursorWriteFails, Writing, SaveCursor, SaveGemini, Where
<1> QED
  BY <1>2, <1>3, <1>4, <1>5, <1>6, <1>7, <1>8, <1>9, <1>10 DEF PollStep, Saving

LEMMA ClaudeSurroundings ==
  ASSUME AuthTypeOK, NamedClaude, kind \in Claude, RetryWindowElapses \/ Surroundings
  PROVE  NamedClaude'
<1>0. agent \in AgentType /\ disk \in Pair /\ kind \notin {"gemini", "cursor"} /\ Borrowed' = Borrowed
  BY DEF AuthTypeOK, Claude, Borrowed
<1>1. CASE RetryWindowElapses
  <2>1. /\ agent'.client = agent.client /\ agent'.last = agent.last
        /\ agent'.borrowing = agent.borrowing
        /\ agent'.paused = agent.paused /\ agent'.failed = agent.failed
        /\ UNCHANGED <<kind, disk, age, poll, named>>
    BY <1>0, <1>1 DEF RetryWindowElapses, AgentType, credentials
  <2>2. DetectToken' = DetectToken
    BY <2>1, ClaudeToken
  <2> QED
    BY <1>0, <2>1, <2>2 DEF NamedClaude, Bad
<1>2. CASE Restart
  BY <1>2 DEF Restart, NamedClaude, Bad, Started, NoPoll
<1>3. CASE Logout
  BY <1>0, <1>3 DEF Logout, NamedClaude, Bad
<1>4. ASSUME UNCHANGED <<kind, agent, poll, named>>, DetectToken' = DetectToken \/ ~Bad(DetectToken')
      PROVE  NamedClaude'
  BY <1>0, <1>4 DEF NamedClaude, Bad
<1>5. CASE Login
  BY <1>0, <1>4, <1>5, ClaudeFresh DEF Login
<1>6. CASE OwnerRenews
  <2>1. Unissued # {} /\ disk'.access = Fresh /\ age' = [age EXCEPT ![Fresh] = "fresh"]
    BY <1>0, <1>6, IssueType DEF OwnerRenews, Issue, Renewable
  <2> QED
    BY <1>4, <1>6, <2>1, ClaudeFresh DEF OwnerRenews
<1>7. CASE Revoke \/ DefaultProfile
  BY <1>4, <1>7, ClaudeToken DEF Revoke, DefaultProfile
<1>8. ASSUME NEW t \in 1 .. Tokens, Age(t) PROVE NamedClaude'
  <2>1. DetectToken' \in {0, disk.access} /\ UNCHANGED <<kind, agent, poll, named>>
    BY <1>8 DEF DetectToken, Claude, Age
  <2>2. DetectToken' = 0 \/ DetectToken' = DetectToken
    <3>1. Expired(disk.access) => Expired(disk.access)'
      BY <1>8 DEF Age, AuthTypeOK, Pair, Own, Expired
    <3> QED
      BY <1>8, <3>1 DEF DetectToken, Claude, Age
  <2>3. ~Bad(0)
    BY NotNamed
  <2> QED
    BY <1>4, <2>1, <2>2, <2>3
<1> QED
  BY <1>1, <1>2, <1>3, <1>5, <1>6, <1>7, <1>8 DEF Surroundings

-----------------------------------------------------------------------------
(* The tokens a pause was for are not sent: Cursor. *)
\* what a cursor agent would read
LEMMA CursorToken ==
  ASSUME kind = "cursor"
  PROVE  /\ DetectToken = IF disk = Nobody THEN db.access ELSE disk.access
         /\ UNCHANGED kind => DetectToken' = IF disk' = Nobody THEN db'.access ELSE disk'.access
         /\ UNCHANGED kind /\ UNCHANGED disk /\ UNCHANGED db => DetectToken' = DetectToken
  BY DEF DetectToken, DetectCredentials, Claude, Nobody

LEMMA CursorEnd ==
  ASSUME NamedCursor, kind = "cursor", UNCHANGED <<kind, disk, db>>,
         NEW a, NEW outcome, End(outcome, a),
         ~a.paused => ~Bad(DetectToken) /\ ~Bad(a.client),
         Bad(DetectToken) => a.failed = DetectToken
  PROVE  NamedCursor'
<1>1. /\ agent' = a /\ poll'.pc = "idle" /\ (~a.paused => named' = named)
      /\ \A n \in named' : n \in named \/ n = [access |-> a.failed, refresh |-> a.failedRefresh]
  BY EndEffect
<1>2. DetectToken' = DetectToken
  BY CursorToken
<1>3. [access |-> DetectToken, refresh |-> 0] \in named' => a.failed = DetectToken
  BY <1>1 DEF Bad
<1> QED
  BY <1>1, <1>2, <1>3 DEF NamedCursor, Bad

LEMMA CursorGo ==
  ASSUME NamedCursor, UNCHANGED kind,
         NEW a, NEW p \in PollType, NEW pc \in {"token", "oauth", "fetch", "reread"}, Go(pc, p, a),
         ~Bad(DetectToken'), ~Bad(a.client)
  PROVE  NamedCursor'
  BY GoEffect DEF NamedCursor, Bad

\* one write of a save puts a token that was just issued in place, or none
LEMMA CursorWriteNamed ==
  ASSUME AuthTypeOK, Where, NamedCursor, CursorWriteSucceeds \/ CursorWriteFails
  PROVE  NamedCursor'
<1>1. /\ UNCHANGED <<kind, agent, named>> /\ kind = "cursor" /\ poll.pc = "save" /\ poll'.pc = "save"
      /\ poll'.issued = poll.issued
  BY CursorWriteEffect
<1>2. disk \in Pair /\ db \in Pair /\ poll.issued \in Pair
  BY DEF AuthTypeOK, PollType
<1>3. ~Bad(DetectToken) /\ ~Bad(agent.client) /\ ~Bad(poll.issued.access) /\ ~Bad(0)
  BY <1>1, NotNamed DEF NamedCursor
<1>5. poll.issued.access # 0 /\ poll.issued.refresh # 0
  BY <1>1 DEF Where
<1>4. ~Bad(DetectToken')
  <2>1. CASE CursorWriteFails
    <3>1. UNCHANGED disk /\ UNCHANGED db
      BY <2>1 DEF CursorWriteFails, credentials
    <3> QED
      BY <1>1, <1>3, <3>1, CursorToken
  <2>2. CASE CursorWriteSucceeds /\ poll.writes < 2
    <3>1. db' = db /\ disk' = [disk EXCEPT ![Field] = poll.issued[Field]]
      BY <2>2 DEF CursorWriteSucceeds, Place
    <3>2. Field = "access" \/ Field = "refresh"
      BY DEF Field
    <3>3. CASE Field = "access"
      <4>1. disk'.access = poll.issued.access
        BY <1>2, <3>1, <3>3 DEF Pair
      <4>2. DetectToken' = poll.issued.access
        BY <1>1, <1>5, <4>1, CursorToken DEF Nobody
      <4> QED
        BY <1>3, <4>2
    <3>4. CASE Field = "refresh"
      <4>1. disk'.access = disk.access /\ disk'.refresh = poll.issued.refresh
        BY <1>2, <3>1, <3>4 DEF Pair
      <4>2. DetectToken' = disk.access
        BY <1>1, <1>5, <4>1, CursorToken DEF Nobody
      <4>3. disk.access \in {0, DetectToken}
        BY <1>1, CursorToken DEF Nobody
      <4> QED
        BY <1>3, <4>2, <4>3
    <3> QED
      BY <3>2, <3>3, <3>4
  <2>3. CASE CursorWriteSucceeds /\ ~(poll.writes < 2)
    <3>1. disk' = disk /\ db' = [db EXCEPT ![Field] = poll.issued[Field]]
      BY <2>3 DEF CursorWriteSucceeds, Place
    <3>2. Field = "access" \/ Field = "refresh"
      BY DEF Field
    <3>3. db'.access \in {db.access, poll.issued.access}
      BY <1>2, <3>1, <3>2 DEF Pair
    <3> QED
      BY <1>1, <1>3, <3>1, <3>3, CursorToken
  <2> QED
    BY <2>1, <2>2, <2>3
<1> QED
  BY <1>1, <1>3, <1>4 DEF NamedCursor, Bad

LEMMA CursorPoll ==
  ASSUME AuthTypeOK, Where, NamedCursor, kind = "cursor", PollStep
  PROVE  NamedCursor'
<1>0. /\ poll \in PollType /\ agent \in AgentType /\ disk \in Pair
      /\ poll.creds \in Pair /\ poll.issued \in Pair /\ kind \notin Claude /\ kind \notin Codex
  BY DEF AuthTypeOK, PollType, Codex, Claude
<1> DEFINE t == DetectToken
<1>1. UNCHANGED kind /\ UNCHANGED disk /\ UNCHANGED db => DetectToken' = t
  BY CursorToken
<1> HIDE DEF t
<1>2. CASE BeginPoll
  <2> DEFINE p == Read(FALSE)
             b == [agent EXCEPT !.paused = FALSE, !.fails = 0, !.client = t]
  <2>1. p \in PollType /\ UNCHANGED <<kind, disk, db>> /\ BeginCursor
    BY <1>0, <1>2, ReadType DEF BeginPoll, credentials, BeginCodex, BeginGemini, BeginOwner, BeginClaude, Claude
  <2>2. b.client = t
    BY <1>0 DEF AgentType
  <2>3. ASSUME NEW a, RenewFirst(a), ~Bad(t), ~Bad(a.client) PROVE NamedCursor'
    <3>1. Go("oauth", p, a) \/ Go("token", p, a)
      BY <2>3 DEF RenewFirst
    <3> HIDE DEF p
    <3> QED
      BY <1>1, <2>1, <2>3, <3>1, CursorGo
  <2>4. CASE ~agent.paused /\ RenewFirst(agent)
    BY <2>3, <2>4 DEF NamedCursor, t
  <2>5. CASE agent.paused /\ t \notin {0, agent.failed} /\ RenewFirst(b)
    <3>1. ~Bad(t)
      BY <2>5 DEF NamedCursor, t
    <3> HIDE DEF b
    <3> QED
      BY <2>2, <2>3, <2>5, <3>1
  <2>6. CASE agent.paused /\ End("silent", agent)
    BY <2>1, <2>6, CursorEnd DEF NamedCursor
  <2> QED
    BY <2>1, <2>4, <2>5, <2>6 DEF BeginCursor, Resumes, t
<1>3. ASSUME poll.pc # "idle", UNCHANGED <<kind, disk, db>>, NEW p \in PollType,
             NEW pc \in {"token", "oauth", "fetch", "reread"}, NEW a, a.client = agent.client, Go(pc, p, a)
      PROVE  NamedCursor'
  BY <1>1, <1>3, CursorGo DEF NamedCursor, t
<1>4. ASSUME poll.pc # "idle", UNCHANGED <<kind, disk, db>>, NEW o, NEW a, a.client = agent.client, End(o, a)
      PROVE  NamedCursor'
  BY <1>4, CursorEnd DEF NamedCursor
<1> DEFINE gone == [agent EXCEPT !.paused = TRUE]
<1>6. gone.client = agent.client
  BY <1>0 DEF AgentType
<1> HIDE DEF gone
<1>7. CASE RenewAccepted
  <2>1. Issue(poll.creds) /\ UNCHANGED <<kind, disk, db, named, agent>> /\ poll.pc = "oauth"
    BY <1>7 DEF RenewAccepted, Go
  <2>2. Fresh \notin Own /\ Issued(poll.creds).access = Fresh
    BY <1>0, <2>1, IssueType
  <2>3. poll' = [[poll EXCEPT !.issued = Issued(poll.creds), !.writes = 0, !.kept = {}] EXCEPT !.pc = "save"]
    BY <1>7 DEF RenewAccepted, Go
  <2>4. poll'.pc = "save" /\ poll'.issued = Issued(poll.creds)
    BY <1>0, <2>3 DEF PollType
  <2>5. ~Bad(Fresh)
    BY <2>2, NotNamed
  <2> QED
    BY <1>1, <2>1, <2>2, <2>4, <2>5 DEF NamedCursor, Bad, t
<1>8. CASE RenewRefused \/ RenewLost
  <2>0. poll.pc = "oauth" /\ UNCHANGED <<kind, disk, db>>
    BY <1>8 DEF RenewRefused, RenewLost, credentials
  <2>1. PICK reason : RenewalFails(reason)
    BY <1>8 DEF RenewRefused, RenewLost
  <2>2. End("failure", gone) \/ Go("token", poll, gone) \/ Go("token", poll, agent)
    BY <1>0, <2>1 DEF RenewalFails, gone, PollType
  <2> QED
    BY <1>0, <1>3, <1>4, <1>6, <2>0, <2>2
<1>9. CASE SaveCursor
  <2> DEFINE i == poll.issued.access
             b == Adopt(agent, i)
             a == [b EXCEPT !.failed = 0]
  <2>0. poll.pc = "save" /\ UNCHANGED <<kind, disk, db>>
    BY <1>9 DEF SaveCursor, credentials
  <2>1. Go("fetch", poll, a) \/ End("failure", gone) \/ Go("token", poll, agent)
    BY <1>0, <1>9 DEF SaveCursor, gone, PollType
  <2>2. a.client = i
    BY <1>0 DEF Adopt, AgentType
  <2>3. ~Bad(i) /\ ~Bad(t)
    BY <2>0 DEF NamedCursor, t
  <2> HIDE DEF a
  <2> QED
    BY <1>0, <1>1, <1>3, <1>4, <1>6, <2>0, <2>1, <2>2, <2>3, CursorGo
<1>10. CASE ReadToken
  <2>0. poll.pc = "token" /\ UNCHANGED <<kind, disk, db>> /\ TokenCursor
    BY <1>0, <1>10 DEF ReadToken, credentials
  <2>1. Go("fetch", poll, agent) \/ Go("fetch", poll, Adopt(agent, t))
    BY <2>0 DEF TokenCursor, t
  <2>2. Adopt(agent, t).client = t /\ ~Bad(t)
    BY <1>0, <2>0, AdoptEffect DEF NamedCursor, t
  <2> QED
    BY <1>0, <1>1, <1>3, <2>0, <2>1, <2>2, CursorGo
<1>11. ASSUME NEW stored \in BOOLEAN, FetchAnswers(stored) PROVE NamedCursor'
  <2> DEFINE a == [agent EXCEPT !.fails = 0, !.paused = FALSE]
  <2>1. poll.pc = "fetch" /\ UNCHANGED <<kind, disk, db>> /\ \E o : End(o, a)
    BY <1>0, <1>11 DEF FetchAnswers, Answered, credentials
  <2>2. a.client = agent.client
    BY <1>0 DEF AgentType
  <2> HIDE DEF a
  <2> QED
    BY <1>4, <2>1, <2>2
<1>12. CASE FetchFails
  BY <1>4, <1>12 DEF FetchFails, credentials
<1>13. CASE FetchRefused
  <2> DEFINE c == [agent EXCEPT !.fails = OneMore(agent.fails), !.failed = agent.client]
             p == [poll EXCEPT !.retry = TRUE]
  <2>1. poll.pc = "fetch" /\ UNCHANGED <<kind, disk, db>> /\ p \in PollType /\ c.client = agent.client
    BY <1>0, <1>13 DEF FetchRefused, credentials, PollType, AgentType
  <2>2. End("failure", gone) \/ End("failure", c) \/ Go("reread", p, c)
    <3>1. CASE poll.retry
      BY <1>0, <1>13, <3>1 DEF FetchRefused, RefusedAgain, gone
    <3>2. CASE ~poll.retry
      <4>1. c.fails \in Nat
        BY <1>0, AuthConstants DEF AgentType, OneMore
      <4>2. c.fails < MaxFailures \/ c.fails >= MaxFailures
        BY <4>1, AuthConstants
      <4> QED
        BY <1>0, <1>13, <3>2, <4>2 DEF FetchRefused, RefusedFirst
    <3> QED
      BY <3>1, <3>2
  <2> HIDE DEF c, p
  <2> QED
    BY <1>3, <1>4, <1>6, <2>1, <2>2
<1>14. CASE Reread
  <2> DEFINE p == [poll EXCEPT !.creds = DetectCredentials]
  <2>1. poll.pc = "reread" /\ UNCHANGED <<kind, disk, db>> /\ p \in PollType
    BY <1>0, <1>14, ReadType DEF Reread, credentials, PollType
  <2>2. Go("oauth", p, agent) \/ End("failure", gone) \/ End("failure", agent)
    BY <1>0, <1>14 DEF Reread, RereadCredentials, gone
  <2> HIDE DEF p
  <2> QED
    BY <1>3, <1>4, <1>6, <2>1, <2>2
<1>15. ~StatuslineFails /\ ~SaveGemini /\ ~OwnerRefresh /\ ~(\E saved \in BOOLEAN : SaveCodex(saved))
  BY <1>0 DEF StatuslineFails, SaveGemini, OwnerRefresh, SaveCodex, Where
<1>16. CASE CursorWriteSucceeds \/ CursorWriteFails
  BY <1>16, CursorWriteNamed
<1> QED
  BY <1>2, <1>7, <1>8, <1>9, <1>10, <1>11, <1>12, <1>13, <1>14, <1>15, <1>16 DEF PollStep

LEMMA CursorSurroundings ==
  ASSUME AuthTypeOK, NamedCursor, kind = "cursor", RetryWindowElapses \/ Surroundings
  PROVE  NamedCursor'
<1>0. agent \in AgentType /\ disk \in Pair /\ db \in Pair /\ ~Bad(0)
  BY NotNamed DEF AuthTypeOK
<1>1. CASE RetryWindowElapses
  <2>1. /\ agent'.client = agent.client /\ agent'.paused = agent.paused /\ agent'.failed = agent.failed
        /\ UNCHANGED <<kind, disk, db, poll, named>>
    BY <1>0, <1>1 DEF RetryWindowElapses, AgentType, credentials
  <2>2. DetectToken' = DetectToken
    BY <2>1, CursorToken
  <2> QED
    BY <2>1, <2>2 DEF NamedCursor, Bad
<1>2. ASSUME named' = {}, poll' = NoPoll \/ poll' = poll PROVE NamedCursor'
  BY <1>2 DEF NamedCursor, Bad
<1>3. CASE Restart
  BY <1>2, <1>3 DEF Restart
<1>4. ASSUME UNCHANGED <<kind, agent, poll, named>>, DetectToken' = DetectToken \/ ~Bad(DetectToken')
      PROVE  NamedCursor'
  BY <1>4 DEF NamedCursor, Bad
<1>5. ASSUME UNCHANGED <<kind, agent, poll, named>>, NEW t, ~Bad(t), t # 0,
             \/ disk'.access = t /\ UNCHANGED db
             \/ db'.access = t /\ UNCHANGED disk
      PROVE  NamedCursor'
  <2>1. DetectToken' \in {DetectToken, t}
    BY <1>5, CursorToken DEF Nobody
  <2> QED
    BY <1>4, <1>5, <2>1
<1>6. CASE Login
  <2>1. Fresh # 0 /\ ~Bad(Fresh)
    BY <1>6, FreshIsUnissued, NotNamed DEF Login
  <2> QED
    BY <1>5, <1>6, <2>1 DEF Login
<1>7. CASE OwnerRenews
  <2>1. ASSUME NEW c \in Pair, Issue(c)
        PROVE  Issued(c).access # 0 /\ ~Bad(Issued(c).access)
    BY <2>1, IssueType, NotNamed
  <2> QED
    BY <1>0, <1>5, <1>7, <2>1 DEF OwnerRenews
<1>8. CASE Logout
  <2>1. CASE named' = {}
    BY <1>2, <1>8, <2>1 DEF Logout
  <2>2. CASE db' = Nobody /\ UNCHANGED <<disk, named>>
    <3>1. DetectToken' \in {DetectToken, 0}
      BY <1>8, <2>2, CursorToken DEF Logout, Nobody
    <3> QED
      BY <1>0, <1>4, <1>8, <2>2, <3>1 DEF Logout
  <2> QED
    BY <1>8, <2>1, <2>2 DEF Logout
<1>9. CASE Revoke \/ DefaultProfile \/ (\E t \in 1 .. Tokens : Age(t))
  BY <1>4, <1>9, CursorToken DEF Revoke, DefaultProfile, Age
<1> QED
  BY <1>1, <1>3, <1>6, <1>7, <1>8, <1>9 DEF Surroundings

-----------------------------------------------------------------------------
(* The tokens a pause was for are not sent: Gemini. *)
LEMMA MergedSame ==
  ASSUME UNCHANGED <<disk, db>>
  PROVE  Merged' = Merged
  BY DEF Merged

LEMMA GeminiEnd ==
  ASSUME NamedGemini, UNCHANGED <<kind, disk, db>>,
         NEW a, NEW outcome, End(outcome, a),
         \A n \in named : n.refresh = Merged.refresh =>
           a.paused /\ a.waiting /\ a.failedRefresh = n.refresh,
         a.paused => a.waiting
  PROVE  NamedGemini'
<1>1. /\ agent' = a /\ poll'.pc = "idle" /\ (~a.paused => named' = named)
      /\ \A n \in named' : n \in named \/ n = [access |-> a.failed, refresh |-> a.failedRefresh]
  BY EndEffect
<1>2. ASSUME NEW n \in named', n.refresh = Merged.refresh
      PROVE  a.paused /\ a.waiting /\ a.failedRefresh = n.refresh
  BY <1>1, <1>2
<1> QED
  BY <1>1, <1>2, MergedSame DEF NamedGemini

LEMMA GeminiGo ==
  ASSUME NamedGemini, UNCHANGED kind,
         NEW a, NEW p \in PollType, NEW pc \in {"token", "oauth", "fetch", "reread"}, Go(pc, p, a),
         ~a.paused,
         \A n \in named : n.refresh # Merged'.refresh /\ n.refresh # p.creds.refresh
  PROVE  NamedGemini'
  BY GoEffect DEF NamedGemini

LEMMA GeminiPoll ==
  ASSUME AuthTypeOK, Where, NamedGemini, kind = "gemini", PollStep
  PROVE  NamedGemini'
<1>0. /\ poll \in PollType /\ agent \in AgentType /\ disk \in Pair /\ Merged \in Pair
      /\ poll.creds \in Pair /\ poll.issued \in Pair /\ kind \notin Claude /\ kind \notin Codex
      /\ DetectCredentials = Merged /\ poll.creds.refresh \in Own /\ agent.last \in Own
  BY ReadType DEF AuthTypeOK, PollType, Codex, Claude, DetectCredentials, Pair, AgentType
<1>1. CASE BeginPoll
  <2> DEFINE p == Read(FALSE)
  <2>1. p \in PollType /\ p.creds = Merged /\ UNCHANGED <<kind, disk, db>> /\ BeginGemini
    BY <1>0, <1>1, ReadType, ReadEffect
    DEF BeginPoll, credentials, BeginCodex, BeginCursor, BeginOwner, BeginClaude, Claude
  <2>2. ASSUME NEW a, RenewFirst(a), ~a.paused, \A n \in named : n.refresh # Merged.refresh
        PROVE  NamedGemini'
    <3>1. Go("oauth", p, a) \/ Go("token", p, a)
      BY <2>2 DEF RenewFirst
    <3> HIDE DEF p
    <3> QED
      BY <2>1, <2>2, <3>1, GeminiGo, MergedSame
  <2>3. CASE ~agent.paused /\ RenewFirst(agent)
    BY <2>2, <2>3 DEF NamedGemini
  <2>4. CASE agent.paused /\ Merged.refresh \notin {0, agent.failedRefresh}
             /\ RenewFirst(ResetAuthentication(agent))
    <3>1. ~ResetAuthentication(agent).paused
      BY <1>0, LiftEffect
    <3> QED
      BY <2>2, <2>4, <3>1 DEF NamedGemini
  <2>5. CASE agent.paused /\ ~agent.waiting /\ RenewFirst([agent EXCEPT !.paused = FALSE])
    <3> DEFINE b == [agent EXCEPT !.paused = FALSE]
    <3>1. ~b.paused
      BY <1>0 DEF AgentType
    <3> HIDE DEF b
    <3> QED
      BY <2>2, <2>5, <3>1 DEF NamedGemini, b
  <2>6. CASE agent.paused /\ agent.waiting /\ End("silent", agent)
    BY <2>1, <2>6, GeminiEnd DEF NamedGemini
  <2> QED
    BY <2>1, <2>3, <2>4, <2>5, <2>6 DEF BeginGemini
<1>2. ASSUME poll.pc # "idle"
      PROVE  /\ ~agent.paused
             /\ \A n \in named : n.refresh # Merged.refresh /\ n.refresh # poll.creds.refresh
  BY <1>2 DEF NamedGemini
<1>3. ASSUME poll.pc # "idle", UNCHANGED <<kind, disk, db>>, NEW p \in PollType,
             p.creds \in {poll.creds, Merged}, NEW a, ~a.paused,
             NEW pc \in {"token", "oauth", "fetch", "reread"}, Go(pc, p, a)
      PROVE  NamedGemini'
  BY <1>2, <1>3, GeminiGo, MergedSame
<1>4. ASSUME poll.pc # "idle", UNCHANGED <<kind, disk, db>>, NEW o, NEW a, End(o, a),
             a.paused => a.waiting /\ a.failedRefresh = poll.creds.refresh
      PROVE  NamedGemini'
  BY <1>2, <1>4, GeminiEnd
<1>5. ASSUME poll.pc # "idle", NEW t \in Own
      PROVE  LET a == PauseAuthentication(agent, t, poll.creds.refresh)
             IN  a.paused => a.waiting /\ a.failedRefresh = poll.creds.refresh
  BY <1>0, <1>2, <1>5, PauseAuthenticationEffect
<1>6. CASE RenewAccepted
  <2>1. UNCHANGED <<kind, disk, db, named, agent>> /\ poll.pc = "oauth"
    BY <1>6 DEF RenewAccepted, Go
  <2>2. poll' = [[poll EXCEPT !.issued = Issued(poll.creds), !.writes = 0, !.kept = {}] EXCEPT !.pc = "save"]
    BY <1>6 DEF RenewAccepted, Go
  <2>3. poll'.pc = "save" /\ poll'.creds = poll.creds
    BY <1>0, <2>2 DEF PollType
  <2> QED
    BY <1>2, <2>1, <2>3, MergedSame DEF NamedGemini
<1>7. CASE RenewRefused \/ RenewLost
  <2>0. poll.pc = "oauth" /\ UNCHANGED <<kind, disk, db>>
    BY <1>7 DEF RenewRefused, RenewLost, credentials
  <2>1. PICK reason : RenewalFails(reason)
    BY <1>7 DEF RenewRefused, RenewLost
  <2>2. \/ End("failure", PauseAuthentication(agent, agent.last, poll.creds.refresh))
        \/ Go("token", poll, agent)
    BY <1>0, <2>1 DEF RenewalFails, PollType
  <2> QED
    BY <1>0, <1>2, <1>3, <1>4, <1>5, <2>0, <2>2
<1>8. CASE SaveGemini
  <2> DEFINE i == poll.issued
             p == [poll EXCEPT !.creds.access = i.access]
             a == Adopt(agent, i.access)
  <2>0. poll.pc = "save" /\ UNCHANGED kind /\ i.refresh = poll.creds.refresh /\ i.refresh # 0
    BY <1>8 DEF SaveGemini, Where
  <2>1. p \in PollType /\ p.creds.refresh = poll.creds.refresh
    BY <1>0 DEF PollType, Pair
  <2>2. a.paused = agent.paused
    BY <1>0, AdoptEffect
  <2>3. Go("fetch", p, a) \/ Go("token", p, a)
    BY <1>8 DEF SaveGemini
  <2>4. Merged'.refresh \in {Merged.refresh, poll.creds.refresh}
    <3>1. disk'.refresh = disk.refresh /\ db' \in {db, i}
      BY <1>0, <1>8 DEF SaveGemini, WriteCredentials, Pair
    <3> QED
      BY <2>0, <3>1 DEF Merged
  <2> HIDE DEF p, a
  <2> QED
    BY <1>2, <2>0, <2>1, <2>2, <2>3, <2>4, GeminiGo
<1>9. CASE ReadToken
  <2> DEFINE b == Adopt(agent, poll.creds.access)
  <2>0. poll.pc = "token" /\ UNCHANGED <<kind, disk, db>> /\ TokenGemini
    BY <1>0, <1>9 DEF ReadToken, credentials
  <2>1. Go("fetch", poll, agent) \/ Go("fetch", poll, b)
    BY <2>0 DEF TokenGemini
  <2>2. b.paused = agent.paused
    BY <1>0, AdoptEffect
  <2> HIDE DEF b
  <2> QED
    BY <1>0, <1>2, <1>3, <2>0, <2>1, <2>2
<1>10. ASSUME NEW stored \in BOOLEAN, FetchAnswers(stored) PROVE NamedGemini'
  <2>1. poll.pc = "fetch" /\ UNCHANGED <<kind, disk, db>> /\ \E o : End(o, Answered(stored))
    BY <1>10 DEF FetchAnswers, credentials
  <2>2. ~Answered(stored).paused
    BY <1>0, <1>2, <2>1, LiftEffect DEF Answered, AgentType
  <2> HIDE DEF Answered
  <2> QED
    BY <1>4, <2>1, <2>2
<1>11. CASE FetchFails
  BY <1>2, <1>4, <1>11 DEF FetchFails, credentials
<1>12. CASE FetchRefused
  <2> DEFINE p == [poll EXCEPT !.retry = TRUE]
             a == PauseAuthentication(agent, agent.client, poll.creds.refresh)
  <2>1. poll.pc = "fetch" /\ UNCHANGED <<kind, disk, db>> /\ p \in PollType /\ p.creds = poll.creds
    BY <1>0, <1>12 DEF FetchRefused, credentials, PollType
  <2>2. CASE poll.retry
    <3>1. agent.client \in Own
      BY <1>0 DEF AgentType, Where
    <3>2. a.paused => a.waiting /\ a.failedRefresh = poll.creds.refresh
      BY <1>5, <2>1, <3>1
    <3>3. End("failure", a)
      BY <1>0, <1>12, <2>2 DEF FetchRefused, RefusedAgain
    <3> HIDE DEF a
    <3> QED
      BY <1>4, <2>1, <3>2, <3>3
  <2>3. CASE ~poll.retry
    <3>1. Go("reread", p, agent)
      BY <1>0, <1>12, <2>3 DEF FetchRefused, RefusedFirst
    <3> HIDE DEF p
    <3> QED
      BY <1>2, <1>3, <2>1, <3>1
  <2> QED
    BY <2>2, <2>3
<1>13. CASE Reread
  <2> DEFINE p == [poll EXCEPT !.creds = DetectCredentials]
  <2>1. /\ poll.pc = "reread" /\ UNCHANGED <<kind, disk, db>> /\ p \in PollType /\ p.creds = Merged
    BY <1>0, <1>13 DEF Reread, credentials, PollType
  <2>2. Go("oauth", p, agent) \/ End("failure", agent)
    BY <1>0, <1>13 DEF Reread, RereadCredentials
  <2> HIDE DEF p
  <2> QED
    BY <1>2, <1>3, <1>4, <2>1, <2>2
<1>14. ~StatuslineFails /\ ~OwnerRefresh /\ ~(\E saved \in BOOLEAN : SaveCodex(saved)) /\ ~SaveCursor
         /\ ~CursorWriteSucceeds /\ ~CursorWriteFails
  BY DEF StatuslineFails, SaveCodex, SaveCursor, CursorWriteSucceeds, CursorWriteFails, Writing,
     OwnerRefresh, Where
<1> QED
  BY <1>1, <1>6, <1>7, <1>8, <1>9, <1>10, <1>11, <1>12, <1>13, <1>14 DEF PollStep

LEMMA GeminiSurroundings ==
  ASSUME AuthTypeOK, NamedGemini, kind = "gemini", RetryWindowElapses \/ Surroundings
  PROVE  NamedGemini'
<1>0. disk \in Pair /\ named \subseteq [access : Own \ {0}, refresh : Own]
  BY DEF AuthTypeOK
<1>1. CASE RetryWindowElapses \/ Restart \/ Logout
  <2>1. named' = {} /\ (poll'.pc = "idle" \/ (poll' = poll /\ agent'.paused = agent.paused))
    BY <1>1 DEF RetryWindowElapses, Restart, Logout, NoPoll, AuthTypeOK, AgentType
  <2> QED
    BY <2>1 DEF NamedGemini
<1>2. ASSUME UNCHANGED <<kind, agent, poll, named>>,
             Merged'.refresh = Merged.refresh \/ \A n \in named : n.refresh # Merged'.refresh
      PROVE  NamedGemini'
  BY <1>2 DEF NamedGemini
<1>3. CASE Login
  <2>1. Fresh \notin Own
    BY <1>3, FreshIsUnissued DEF Login
  <2>2. \A n \in named : n.refresh # Fresh
    BY <1>0, <2>1
  <2>3. Merged'.refresh = Merged.refresh \/ Merged'.refresh = Fresh
    BY <1>3 DEF Login, Merged
  <2> QED
    BY <1>2, <1>3, <2>2, <2>3 DEF Login
<1>4. CASE OwnerRenews
  <2>1. Issue(disk) /\ disk' = Issued(disk) /\ db' = db
    BY <1>4 DEF OwnerRenews
  <2>2. disk'.refresh = disk.refresh
    BY <2>1 DEF Issued, OneTime
  <2>3. Merged'.refresh = Merged.refresh
    BY <2>1, <2>2 DEF Merged
  <2> QED
    BY <1>2, <1>4, <2>3 DEF OwnerRenews
<1>5. CASE Revoke \/ DefaultProfile \/ (\E t \in 1 .. Tokens : Age(t))
  BY <1>2, <1>5, MergedSame DEF Revoke, DefaultProfile, Age
<1> QED
  BY <1>1, <1>3, <1>4, <1>5 DEF Surroundings

LEMMA NamedStep ==
  ASSUME AuthTypeOK, Where, NamedInv, AuthNext
  PROVE  NamedInv'
<1>1. kind' = kind
  BY DEF AuthNext, PollStep, BeginPoll, StatuslineFails, RenewAccepted, RenewRefused, RenewLost,
     SaveCodex, CursorWriteSucceeds, CursorWriteFails, SaveCursor, credentials, SaveGemini, OwnerRefresh, ReadToken, FetchAnswers, FetchFails, FetchRefused, Reread,
     RetryWindowElapses, Surroundings, Restart, Login, OwnerRenews, Logout, Revoke,
     DefaultProfile, Age
<1>2. CASE kind \in Codex
  <2>1. kind \notin Claude \cup {"cursor", "gemini"}
    BY <1>2 DEF Codex, Claude
  <2>2. NamedCodex'
    BY <1>2, CodexPoll, CodexSurroundings DEF NamedInv, AuthNext
  <2> QED
    BY <1>1, <2>1, <2>2 DEF NamedInv, Codex, Claude
<1>3. CASE kind \in Claude
  <2>1. kind \notin Codex \cup {"cursor", "gemini"}
    BY <1>3 DEF Codex, Claude
  <2>2. NamedClaude'
    BY <1>3, ClaudePoll, ClaudeSurroundings DEF NamedInv, AuthNext
  <2> QED
    BY <1>1, <2>1, <2>2 DEF NamedInv, Codex, Claude
<1>4. CASE kind = "cursor"
  <2>1. NamedCursor'
    BY <1>4, CursorPoll, CursorSurroundings DEF NamedInv, AuthNext
  <2> QED
    BY <1>1, <1>4, <2>1 DEF NamedInv, Codex, Claude
<1>5. CASE kind = "gemini"
  <2>1. NamedGemini'
    BY <1>5, GeminiPoll, GeminiSurroundings DEF NamedInv, AuthNext
  <2> QED
    BY <1>1, <1>5, <2>1 DEF NamedInv, Codex, Claude
<1> QED
  BY <1>2, <1>3, <1>4, <1>5, AuthConstants DEF AuthTypeOK

-----------------------------------------------------------------------------
\* the inductive invariant of an agent and its credentials
AuthInv == AuthTypeOK /\ Where /\ Renewal /\ NamedInv /\ Told

LEMMA AuthInvInit == AuthInit => AuthInv
<1> SUFFICES ASSUME AuthInit PROVE AuthInv
  OBVIOUS
<1>1. AuthTypeOK
  BY InitType
<1>2. agent = Started(1) /\ poll = NoPoll /\ sent = {} /\ named = {}
  BY DEF AuthInit
<1>3. Borrowed # 1
  BY AuthConstants DEF Borrowed
<1>4. Where
  BY <1>2, <1>3 DEF Where, Started, NoPoll
<1>5. Renewal
  BY <1>2 DEF Renewal, NoPoll
<1>6. NamedInv
  BY <1>2 DEF NamedInv, NamedCodex, NamedCursor, NamedClaude, NamedGemini, Bad, Started, NoPoll
<1>7. Told
  BY <1>2 DEF Told, Started, NoPoll
<1> QED
  BY <1>1, <1>4, <1>5, <1>6, <1>7 DEF AuthInv

LEMMA AuthInvStep == AuthInv /\ [AuthNext]_authVars => AuthInv'
<1> SUFFICES ASSUME AuthInv, [AuthNext]_authVars PROVE AuthInv'
  OBVIOUS
<1>1. CASE AuthNext
  BY <1>1, TypeStep, WhereStep, RenewalStep, NamedStep, ToldStep DEF AuthInv
<1>2. CASE UNCHANGED authVars
  BY <1>2 DEF authVars, AuthInv, AuthTypeOK, Where, Renewal, NamedInv, NamedCodex, NamedCursor,
     NamedClaude, NamedGemini, Bad, Told, Own, Pair, AgentType, PollType, DetectToken, DetectCredentials, Expired, Merged, Borrowed,
     Unwritten
<1> QED
  BY <1>1, <1>2

(* The inductive invariant: polls, renewals, saves, sign-ins, revocations,  *)
(* restarts and failures of any of them keep it.                            *)
THEOREM AuthInvHolds == AuthSpec => []AuthInv
  BY AuthInvInit, AuthInvStep, PTL DEF AuthSpec

(* The types of the agent, its poll and its credentials: the counters stay  *)
(* at their limits and every token was issued.                              *)
THEOREM AuthTypeCorrect == AuthSpec => []AuthTypeOK
<1>1. AuthInv => AuthTypeOK
  BY DEF AuthInv
<1> QED
  BY <1>1, AuthInvHolds, PTL

(* codex_agent.go, cursor_agent.go: a one-time refresh token whose successor *)
(* the agent has written wherever it keeps the token is never sent by it    *)
(* again, whatever another program writes between the read, the renewal and *)
(* the writes of the save.  One that a failed write has left in a place is  *)
(* not in `sent`, even if cursor_token_unix.go reports the save as made.    *)
THEOREM RefreshedOnce == AuthSpec => []RefreshTokenOnce
<1>1. AuthInv => RefreshTokenOnce
  BY DEF AuthInv, Renewal, RefreshTokenOnce
<1> QED
  BY <1>1, AuthInvHolds, PTL

(* The polls of codex, cursor, gemini and claude: no request goes out with a *)
(* token the agent has paused for, until it restarts, the credentials were  *)
(* removed or, for gemini, its retry window has passed.                     *)
THEOREM FailedTokenStaysOut == AuthSpec => []NamedStaysOut
<1>1. AuthInv => NamedStaysOut
  <2> SUFFICES ASSUME AuthInv, poll.pc = "fetch"
               PROVE  [access |-> agent.client,
                       refresh |-> IF kind = "gemini" THEN poll.creds.refresh ELSE 0] \notin named
    BY DEF NamedStaysOut
  <2>1. CASE kind = "gemini"
    BY <2>1 DEF AuthInv, NamedInv, NamedGemini
  <2>2. CASE kind # "gemini"
    <3>1. ~Bad(agent.client)
      <4>1. kind \in Codex \cup Claude \cup {"cursor"}
        BY <2>2, AuthConstants DEF AuthInv, AuthTypeOK
      <4> QED
        BY <4>1 DEF AuthInv, NamedInv, NamedCodex, NamedClaude, NamedCursor
    <3> QED
      BY <2>2, <3>1 DEF Bad
  <2> QED
    BY <2>1, <2>2
<1> QED
  BY <1>1, AuthInvHolds, PTL

(* recordPollFailure: an agent that is paused between two polls, and will   *)
(* skip them without a word, has reported a failure (but for the claude     *)
(* agent with a statusline, whose success hides it).                        *)
THEOREM PauseIsReported == AuthSpec => []PausedIsTold
<1>1. AuthInv => PausedIsTold
  BY DEF AuthInv, Told, PausedIsTold
<1> QED
  BY <1>1, AuthInvHolds, PTL
=============================================================================
