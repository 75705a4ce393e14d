------------------------------ MODULE AgentManager ------------------------------
(***************************************************************************)
(* The life of the provider agents (internal/agent/manager.go): requests of *)
(* the web handlers that start, stop and restart agents concurrently, the   *)
(* goroutine of each run, and the StopAll of the shutdown (main.go), which  *)
(* comes before the web server is shut down.                               *)
(*                                                                         *)
(* The mutex is released between the look-ups, the factory, the change of   *)
(* the map and the waiting: each critical section is an action.             *)
(***************************************************************************)
EXTENDS Naturals

CONSTANTS
  Keys,      \* providers
  Requests,  \* web requests under way at the same time
  Runs       \* bound: runs that exist at the same time

ASSUME ManagerConstants == "main" \notin Requests /\ "none" \notin Runs \cup Keys

Callers == Requests \cup {"main"}

VARIABLES
  running,  \* AgentManager.running: the run of each key, or "none"
  run,      \* the goroutines
  call,     \* the calls in progress
  down      \* the shutdown's StopAll has returned

vars == <<running, run, call, down>>

Idle == [step |-> "idle", key |-> "none", todo |-> {}, again |-> FALSE, runs |-> {}]
Gone == [state |-> "done"]

Init ==
  /\ running = [k \in Keys |-> "none"]
  /\ run = [r \in Runs |-> Gone]
  /\ call = [p \in Callers |-> Idle]
  /\ down = FALSE

At(p, s) == call[p].step = s
Goto(p, s) == call' = [call EXCEPT ![p].step = s]

(* A call returns; TriggerPollAll goes on with the next key it has read.    *)
Return(p) ==
  IF call[p].todo = {} THEN call' = [call EXCEPT ![p] = Idle]
  ELSE \E k \in call[p].todo :
         call' = [call EXCEPT ![p] = [step |-> "trigger", key |-> k, todo |-> call[p].todo \ {k},
                                      again |-> FALSE, runs |-> {}]]

Call(p, s, k, todo) ==
  /\ At(p, "idle")
  /\ call' = [call EXCEPT ![p] = [step |-> s, key |-> k, todo |-> todo, again |-> FALSE, runs |-> {}]]
  /\ UNCHANGED <<running, run, down>>

CallStart(p, k) == Call(p, "start", k, {})
CallStop(p, k) == Call(p, "stop", k, {})

(* TriggerPollAll: the keys are read once.                                  *)
CallTriggerPollAll(p) ==
  LET keys == {k \in Keys : running[k] # "none"} IN
    \E k \in keys : Call(p, "trigger", k, keys \ {k})

-----------------------------------------------------------------------------
(* Start. *)
StartCheck(p) ==
  /\ At(p, "start")
  /\ IF running[call[p].key] # "none" THEN Return(p) ELSE Goto(p, "factory")
  /\ UNCHANGED <<running, run, down>>

Factory(p) ==
  /\ At(p, "factory")
  /\ Goto(p, "install") \/ Return(p)
  /\ UNCHANGED <<running, run, down>>

(* A goroutine that nobody refers to any more. *)
Unused(r) == run[r] = Gone /\ \A p \in Callers : r \notin call[p].runs

Install(p) ==
  /\ At(p, "install")
  /\ \/ running[call[p].key] # "none" /\ UNCHANGED <<running, run>>
     \/ /\ running[call[p].key] = "none"
        /\ \E r \in Runs :
             /\ Unused(r)
             /\ run' = [run EXCEPT ![r] = [state |-> "running", key |-> call[p].key, cancelled |-> FALSE]]
             /\ running' = [running EXCEPT ![call[p].key] = r]
  /\ Return(p) /\ UNCHANGED down

-----------------------------------------------------------------------------
(* Stop, StopAll, TriggerPoll. *)
Take(p, keys) ==
  /\ running' = [k \in Keys |-> IF k \in keys THEN "none" ELSE running[k]]
  /\ call' = [call EXCEPT ![p] = [call[p] EXCEPT !.step = "cancel", !.runs = {running[k] : k \in keys} \ {"none"}]]
  /\ UNCHANGED <<run, down>>

StopTake(p) ==
  /\ At(p, "stop")
  /\ Take(p, {call[p].key})

(* The graceful shutdown: StopAll, once.                                    *)
StopAll ==
  /\ At("main", "idle") /\ ~down
  /\ Take("main", Keys)

(* Mutant: the run is taken from the map but its context goes on. *)
Cancel_Forgotten(p) ==
  /\ At(p, "cancel")
  /\ Goto(p, "wait")
  /\ UNCHANGED <<running, run, down>>

Cancel(p) ==
  /\ At(p, "cancel")
  /\ run' = [r \in Runs |-> IF r \in call[p].runs /\ run[r] # Gone THEN [run[r] EXCEPT !.cancelled = TRUE] ELSE run[r]]
  /\ Goto(p, "wait")
  /\ UNCHANGED <<running, down>>

(* Every run that was taken is over; TriggerPoll then starts a new one.     *)
Wait(p) ==
  /\ At(p, "wait")
  /\ \A r \in call[p].runs : run[r] = Gone
  /\ IF call[p].again
     THEN call' = [call EXCEPT ![p] = [call[p] EXCEPT !.step = "start", !.again = FALSE, !.runs = {}]]
     ELSE Return(p)
  /\ down' = (down \/ p = "main")
  /\ UNCHANGED <<running, run>>

TriggerCheck(p) ==
  /\ At(p, "trigger")
  /\ IF running[call[p].key] = "none" THEN Return(p)
     ELSE call' = [call EXCEPT ![p] = [call[p] EXCEPT !.step = "stop", !.again = TRUE]]
  /\ UNCHANGED <<running, run, down>>

-----------------------------------------------------------------------------
(* The goroutine of a run: Run returns, cancelled or by itself, ...         *)
RunReturns(r) ==
  /\ run[r].state = "running"
  /\ run' = [run EXCEPT ![r].state = "returned"]
  /\ UNCHANGED <<running, call, down>>

(* Mutant: whatever run the key has is removed. *)
Deregister_Any(r) ==
  /\ run[r].state = "returned"
  /\ running' = [running EXCEPT ![run[r].key] = "none"]
  /\ run' = [run EXCEPT ![r] = Gone]
  /\ UNCHANGED <<call, down>>

(* ... the map is cleaned, and done is closed.                              *)
Deregister(r) ==
  /\ run[r].state = "returned"
  /\ running' = IF running[run[r].key] = r THEN [running EXCEPT ![run[r].key] = "none"] ELSE running
  /\ run' = [run EXCEPT ![r] = Gone]
  /\ UNCHANGED <<call, down>>

-----------------------------------------------------------------------------
Proceed(p) ==
  \/ StartCheck(p) \/ Factory(p) \/ Install(p)
  \/ StopTake(p) \/ Cancel(p) \/ Wait(p) \/ TriggerCheck(p)

Begin(p) ==
  \/ \E k \in Keys : CallStart(p, k) \/ CallStop(p, k)
  \/ CallTriggerPollAll(p)

Next ==
  \/ \E p \in Requests : Begin(p)
  \/ \E p \in Callers : Proceed(p)
  \/ StopAll
  \/ \E r \in Runs : RunReturns(r) \/ Deregister(r)

Spec == Init /\ [][Next]_vars

(* Goroutines are scheduled, and an agent returns when it is cancelled.     *)
FairSpec ==
  /\ Spec
  /\ \A p \in Callers : WF_vars(Proceed(p))
  /\ \A r \in Runs : WF_vars(run[r].state = "running" /\ run[r].cancelled /\ RunReturns(r))
                     /\ WF_vars(Deregister(r))

-----------------------------------------------------------------------------
Live(r) == run[r].state = "running"

Goroutines == {Gone} \cup [state : {"running", "returned"}, key : Keys, cancelled : BOOLEAN]

Calls ==
  [step : {"idle", "trigger", "start", "factory", "install", "stop", "cancel", "wait"},
   key : Keys \cup {"none"}, todo : SUBSET Keys, again : BOOLEAN, runs : SUBSET Runs]

TypeOK ==
  /\ running \in [Keys -> Runs \cup {"none"}]
  /\ run \in [Runs -> Goroutines]
  /\ call \in [Callers -> Calls]
  /\ down \in BOOLEAN

(* "replacement run was removed by previous run cleanup": an agent that     *)
(* polls can always be stopped.  It is the run in the map, or cancelled, or *)
(* a Stop has taken it and is about to cancel it.                           *)
NoOrphan ==
  \A r \in Runs : Live(r) =>
    \/ running[run[r].key] = r
    \/ run[r].cancelled
    \/ \E p \in Callers : At(p, "cancel") /\ r \in call[p].runs

(* The map names runs that have not ended: IsRunning is not stuck at true,  *)
(* and no Start is refused, for an agent that has stopped by itself.        *)
RegisteredRuns ==
  \A k \in Keys : running[k] # "none" => run[running[k]] # Gone /\ run[running[k]].key = k

(* No Stop, TriggerPollAll or StopAll hangs: nobody waits for a run that    *)
(* nobody ends.                                                             *)
CallsReturn == \A p \in Callers : At(p, "wait") ~> ~At(p, "wait")
=============================================================================
