----------------------------- MODULE PollOwnership -----------------------------
(***************************************************************************)
(* Who may poll a provider account: the active row of provider_poll_owners *)
(* and the desired configuration of each device (internal/store/           *)
(* central.go), the command line that edits both in separate transactions  *)
(* (device_command.go), the Antigravity binding (central_binding.go), and  *)
(* the collectors that adopt a configuration and upload what they observe. *)
(*                                                                         *)
(* A command is a process of its own: its steps interleave with those of   *)
(* other commands and with the server.  One transaction is one action.     *)
(***************************************************************************)
EXTENDS Integers, FiniteSets

CONSTANTS
  Devices, Accounts,
  Bindable,     \* accounts of the provider that needs an account binding
  Commands,     \* command-line processes that can run at the same time
  MaxRevision,  \* bound: configuration revisions of a device
  MaxFaults     \* bound: killed commands, failed writes, lost answers, restarts

ASSUME OwnershipConstants ==
  /\ Bindable \subseteq Accounts
  /\ MaxRevision \in Nat \ {0} /\ MaxFaults \in Nat
  /\ "server" \notin Devices /\ "nobody" \notin Devices

VARIABLES
  owner,        \* the active poll owner of an account
  revoked,      \* devices with revoked_at
  revision,     \* desired_config_revision
  config,       \* desired_config_json: how each account is assigned
  cli,          \* the commands in progress
  adopted,      \* collector: revision and configuration in use
  saved,        \* collector: the same, in collector-state.json
  answer,       \* the request a collector waits for, or NoAnswer
  observed,     \* collector: quota observations in its spool
  receipts,     \* server: observations with a receipt
  faults

adminVars == <<owner, revoked, revision, config>>
collectorVars == <<adopted, saved, answer, observed, receipts>>
vars == <<adminVars, cli, collectorVars, faults>>

Assignment == {"absent", "plain", "bound"}
Configs == {cfg \in [Accounts -> Assignment] : \A a \in Accounts \ Bindable : cfg[a] # "bound"}
Empty == [a \in Accounts |-> "absent"]
Adopted == [rev : 0..MaxRevision, cfg : Configs]
Observations == [acct : Accounts, rev : 0..MaxRevision]

NoCommand == [step |-> "none"]
NoAnswer == [step |-> "none", refused |-> {}]

Init ==
  /\ owner = [a \in Accounts |-> "nobody"] /\ revoked = {}
  /\ revision = [d \in Devices |-> 0] /\ config = [d \in Devices |-> Empty]
  /\ cli = [c \in Commands |-> NoCommand]
  /\ adopted = [d \in Devices |-> [rev |-> 0, cfg |-> Empty]] /\ saved = adopted
  /\ answer = [d \in Devices |-> NoAnswer]
  /\ observed = [d \in Devices |-> {}] /\ receipts = [d \in Devices |-> {}]
  /\ faults = 0

Fault == faults < MaxFaults /\ faults' = faults + 1
NoFault == UNCHANGED faults

-----------------------------------------------------------------------------
(* Transactions of the store. *)

(* Mutant: SetPollOwner does not look at revoked_at. *)
CanOwn_Revoked(a, o) == owner[a] \in {o, "nobody"}

(* Mutant: SetPollOwner replaces the active owner. *)
CanOwn_Replace(a, o) == o \notin revoked

(* SetPollOwner: an owner is never replaced, and only a device that is not  *)
(* revoked becomes one.                                                     *)
CanOwn(a, o) == owner[a] = o \/ (owner[a] = "nobody" /\ o \notin revoked)

SetPollOwner(a, o) ==
  /\ CanOwn(a, o)
  /\ owner' = [owner EXCEPT ![a] = o]
  /\ UNCHANGED <<revoked, revision, config>>

NextRevision(d) == revision[d] < MaxRevision /\ revision' = [revision EXCEPT ![d] = @ + 1]

(* Mutant: ClearPollOwner ends the ownership only. *)
ClearPollOwner_OwnerOnly(a) ==
  /\ owner[a] # "nobody"
  /\ owner' = [owner EXCEPT ![a] = "nobody"]
  /\ UNCHANGED <<revoked, revision, config>>

(* Mutant: the configuration changes under its old revision. *)
ClearPollOwner_SameRevision(a) ==
  /\ owner[a] # "nobody"
  /\ owner' = [owner EXCEPT ![a] = "nobody"]
  /\ IF owner[a] \in Devices
     THEN config' = [config EXCEPT ![owner[a]] = [@ EXCEPT ![a] = "absent"]]
     ELSE UNCHANGED config
  /\ UNCHANGED <<revoked, revision>>

(* ClearPollOwner: a device loses the assignment with the ownership. *)
ClearPollOwner(a) ==
  /\ owner[a] # "nobody"
  /\ owner' = [owner EXCEPT ![a] = "nobody"]
  /\ IF owner[a] \in Devices
     THEN /\ NextRevision(owner[a])
          /\ config' = [config EXCEPT ![owner[a]] = [@ EXCEPT ![a] = "absent"]]
     ELSE UNCHANGED <<revision, config>>
  /\ UNCHANGED revoked

-----------------------------------------------------------------------------
(* Commands. *)
Step(c, s) == cli[c].step = s
Goto(c, s) == cli' = [cli EXCEPT ![c].step = s]
Done(c) == cli' = [cli EXCEPT ![c] = NoCommand]

AssignServer(c, a) ==
  /\ Step(c, "none")
  /\ SetPollOwner(a, "server")
  /\ NoFault /\ UNCHANGED <<cli, collectorVars>>

Unassign(c, a) ==
  /\ Step(c, "none")
  /\ ClearPollOwner(a)
  /\ NoFault /\ UNCHANGED <<cli, collectorVars>>

(* Mutant: revocation leaves the configuration as it is. *)
Revoke_KeepsConfig(c, d) ==
  /\ Step(c, "none") /\ d \notin revoked
  /\ revoked' = revoked \cup {d}
  /\ NextRevision(d) /\ UNCHANGED config
  /\ owner' = [a \in Accounts |-> IF owner[a] = d THEN "nobody" ELSE owner[a]]
  /\ NoFault /\ UNCHANGED <<cli, collectorVars>>

(* RevokeDevice: the ownerships and the configuration end with the device.  *)
Revoke(c, d) ==
  /\ Step(c, "none") /\ d \notin revoked
  /\ revoked' = revoked \cup {d}
  /\ NextRevision(d) /\ config' = [config EXCEPT ![d] = Empty]
  /\ owner' = [a \in Accounts |-> IF owner[a] = d THEN "nobody" ELSE owner[a]]
  /\ NoFault /\ UNCHANGED <<cli, collectorVars>>

(* "device assign": read the device; the new assignment replaces an old one *)
(* of the account, its binding included.                                    *)
AssignRead(c, d, a) ==
  /\ Step(c, "none")
  /\ cli' = [cli EXCEPT ![c] = [step |-> "own", dev |-> d, acct |-> a, rev |-> 0,
                                cfg |-> [config[d] EXCEPT ![a] = "plain"]]]
  /\ NoFault /\ UNCHANGED <<adminVars, collectorVars>>

AssignOwn(c) ==
  /\ Step(c, "own")
  /\ \/ SetPollOwner(cli[c].acct, cli[c].dev) /\ Goto(c, "revision")
     \/ ~CanOwn(cli[c].acct, cli[c].dev) /\ Done(c) /\ UNCHANGED adminVars
  /\ NoFault /\ UNCHANGED collectorVars

(* SetDeviceDesiredConfig reads the revision and then writes, in two        *)
(* statements outside any transaction.                                      *)
AssignRevision(c) ==
  /\ Step(c, "revision") /\ revision[cli[c].dev] < MaxRevision
  /\ cli' = [cli EXCEPT ![c].step = "write", ![c].rev = revision[cli[c].dev] + 1]
  /\ NoFault /\ UNCHANGED <<adminVars, collectorVars>>

AssignWrite(c) ==
  /\ Step(c, "write")
  /\ revision' = [revision EXCEPT ![cli[c].dev] = cli[c].rev]
  /\ config' = [config EXCEPT ![cli[c].dev] = cli[c].cfg]
  /\ Done(c)
  /\ NoFault /\ UNCHANGED <<owner, revoked, collectorVars>>

(* A failed write ends the ownership again, if that succeeds.               *)
AssignFails(c) ==
  /\ cli[c].step \in {"revision", "write"}
  /\ Goto(c, "undo")
  /\ Fault /\ UNCHANGED <<adminVars, collectorVars>>

AssignUndo(c) ==
  /\ Step(c, "undo")
  /\ IF owner[cli[c].acct] = "nobody" THEN UNCHANGED adminVars ELSE ClearPollOwner(cli[c].acct)
  /\ Done(c)
  /\ NoFault /\ UNCHANGED collectorVars

(* "device bind-antigravity --apply": read and check, then compare and swap *)
(* on the revision and the whole configuration.                             *)
BindRead(c, d, a) ==
  /\ Step(c, "none") /\ d \notin revoked
  /\ a \in Bindable /\ config[d][a] # "absent"
  /\ \E v \in {"plain", "bound"} :
       cli' = [cli EXCEPT ![c] = [step |-> "bind", dev |-> d, acct |-> a, rev |-> revision[d],
                                  cfg |-> config[d], value |-> v]]
  /\ NoFault /\ UNCHANGED <<adminVars, collectorVars>>

(* Mutant: the swap writes the previewed configuration unconditionally. *)
BindApply_NoCompare(c) ==
  /\ Step(c, "bind")
  /\ LET d == cli[c].dev IN
       /\ cli[c].rev < MaxRevision
       /\ revision' = [revision EXCEPT ![d] = cli[c].rev + 1]
       /\ config' = [config EXCEPT ![d] = [cli[c].cfg EXCEPT ![cli[c].acct] = cli[c].value]]
  /\ Done(c)
  /\ NoFault /\ UNCHANGED <<owner, revoked, collectorVars>>

BindApply(c) ==
  /\ Step(c, "bind")
  /\ LET d == cli[c].dev
         same == d \notin revoked /\ revision[d] = cli[c].rev /\ config[d] = cli[c].cfg IN
       \/ /\ same /\ NextRevision(d)
          /\ config' = [config EXCEPT ![d] = [@ EXCEPT ![cli[c].acct] = cli[c].value]]
       \/ ~same /\ UNCHANGED <<revision, config>>
  /\ Done(c)
  /\ NoFault /\ UNCHANGED <<owner, revoked, collectorVars>>

Kill(c) ==
  /\ ~Step(c, "none")
  /\ Done(c)
  /\ Fault /\ UNCHANGED <<adminVars, collectorVars>>

-----------------------------------------------------------------------------
(* Collectors.  A request is authenticated, and the answer's configuration  *)
(* read, before its observations are stored.                                *)
Request(d) ==
  /\ d \notin revoked /\ answer[d] = NoAnswer
  /\ \E B \in {{}, observed[d]} :
       answer' = [answer EXCEPT ![d] = [step |-> "sent", rev |-> revision[d], cfg |-> config[d],
                                        batch |-> B, refused |-> {}]]
  /\ NoFault /\ UNCHANGED <<adminVars, cli, adopted, saved, observed, receipts>>

(* storeIngestEvent: a receipt answers a replay, another observation is     *)
(* accepted from the active owner only.                                     *)
OwnershipConflict(d, B) == {o \in B \ receipts[d] : owner[o.acct] # d}

Store(d) ==
  /\ answer[d].step = "sent"
  /\ LET refused == OwnershipConflict(d, answer[d].batch) IN
       /\ answer' = [answer EXCEPT ![d].step = "answered", ![d].refused = refused]
       /\ receipts' = [receipts EXCEPT ![d] = @ \cup (answer[d].batch \ refused)]
  /\ NoFault /\ UNCHANGED <<adminVars, cli, adopted, saved, observed>>

(* Mutant: only the next revision is adopted, none is skipped. *)
Adopt_NextOnly(d) ==
  /\ answer[d].step = "answered"
  /\ observed' = [observed EXCEPT ![d] = @ \ answer[d].batch]
  /\ adopted' = IF answer[d].rev # adopted[d].rev + 1 THEN adopted
                ELSE [adopted EXCEPT ![d] = [rev |-> answer[d].rev, cfg |-> answer[d].cfg]]
  /\ answer' = [answer EXCEPT ![d] = NoAnswer]
  /\ \/ saved' = [saved EXCEPT ![d] = adopted'[d]] /\ NoFault
     \/ UNCHANGED saved /\ Fault
  /\ UNCHANGED <<adminVars, cli, receipts>>

(* The batch is acknowledged and a configuration of another revision        *)
(* adopted; a failed save is only a warning.                                *)
Adopt(d) ==
  /\ answer[d].step = "answered"
  /\ observed' = [observed EXCEPT ![d] = @ \ answer[d].batch]
  /\ adopted' = IF answer[d].rev = adopted[d].rev THEN adopted
                ELSE [adopted EXCEPT ![d] = [rev |-> answer[d].rev, cfg |-> answer[d].cfg]]
  /\ answer' = [answer EXCEPT ![d] = NoAnswer]
  /\ \/ saved' = [saved EXCEPT ![d] = adopted'[d]] /\ NoFault
     \/ UNCHANGED saved /\ Fault
  /\ UNCHANGED <<adminVars, cli, receipts>>

LoseAnswer(d) ==
  /\ answer[d] # NoAnswer
  /\ answer' = [answer EXCEPT ![d] = NoAnswer]
  /\ Fault /\ UNCHANGED <<adminVars, cli, adopted, saved, observed, receipts>>

RestartCollector(d) ==
  /\ adopted' = [adopted EXCEPT ![d] = saved[d]]
  /\ answer' = [answer EXCEPT ![d] = NoAnswer]
  /\ Fault /\ UNCHANGED <<adminVars, cli, saved, observed, receipts>>

(* pollQuota: an account that needs a binding is not polled without one.    *)
Polls(cfg, a) == cfg[a] = "bound" \/ (cfg[a] = "plain" /\ a \notin Bindable)

Poll(d, a) ==
  /\ answer[d] = NoAnswer
  /\ Polls(adopted[d].cfg, a)
  /\ LET o == [acct |-> a, rev |-> adopted[d].rev] IN
       /\ o \notin observed[d] \cup receipts[d]
       /\ observed' = [observed EXCEPT ![d] = @ \cup {o}]
  /\ NoFault /\ UNCHANGED <<adminVars, cli, adopted, saved, answer, receipts>>

-----------------------------------------------------------------------------
Command(c) ==
  \/ \E a \in Accounts : AssignServer(c, a) \/ Unassign(c, a)
  \/ \E d \in Devices : Revoke(c, d)
  \/ \E d \in Devices, a \in Accounts : AssignRead(c, d, a) \/ BindRead(c, d, a)
  \/ AssignOwn(c) \/ AssignRevision(c) \/ AssignWrite(c)
  \/ AssignFails(c) \/ AssignUndo(c) \/ BindApply(c) \/ Kill(c)

Collector(d) ==
  \/ Request(d) \/ Store(d) \/ Adopt(d) \/ LoseAnswer(d) \/ RestartCollector(d)
  \/ \E a \in Accounts : Poll(d, a)

Next ==
  \/ \E c \in Commands : Command(c)
  \/ \E d \in Devices : Collector(d)

Spec == Init /\ [][Next]_vars

(* Tickers send a heartbeat every minute; the server answers.               *)
FairSpec ==
  /\ Spec
  /\ \A d \in Devices : WF_vars(Request(d)) /\ WF_vars(Store(d)) /\ WF_vars(Adopt(d))

-----------------------------------------------------------------------------
TypeOK ==
  /\ owner \in [Accounts -> Devices \cup {"server", "nobody"}] /\ revoked \subseteq Devices
  /\ revision \in [Devices -> 0..MaxRevision] /\ config \in [Devices -> Configs]
  /\ adopted \in [Devices -> Adopted] /\ saved \in [Devices -> Adopted]
  /\ observed \in [Devices -> SUBSET Observations] /\ receipts \in [Devices -> SUBSET Observations]
  /\ faults \in 0..MaxFaults
  /\ \A c \in Commands : cli[c].step \in {"none", "own", "revision", "write", "undo", "bind"}
  /\ \A d \in Devices : answer[d].step \in {"none", "sent", "answered"}
                        /\ answer[d].refused \subseteq Observations

(* A device is only told to poll what it owns, although the two tables are  *)
(* edited in separate transactions by commands that may fail half way; a    *)
(* revoked one is told nothing.                                             *)
ConfigNamesOwned ==
  \A d \in Devices, a \in Accounts : config[d][a] # "absent" => owner[a] = d

(* A revoked device owns nothing: no assignment that was under way when it  *)
(* was revoked gives it an account.                                         *)
RevokedOwnsNothing == \A a \in Accounts : owner[a] \notin revoked

(* The revision names the configuration: a collector that reports the       *)
(* current revision, and therefore is sent nothing, has the current         *)
(* configuration, in memory and after a restart.                            *)
CollectorsAgree ==
  \A d \in Devices : \A p \in {adopted[d], saved[d]} :
    p.rev = revision[d] => p.cfg = config[d]

(* An observation polled under the current configuration is never refused   *)
(* (and put in quarantine) for an ownership conflict.                       *)
CurrentPollsAccepted ==
  [][\A d \in Devices : \A o \in answer'[d].refused \ answer[d].refused : o.rev # revision[d]]_vars

(* "unassign the old owner before assigning a new one": an account never    *)
(* passes from one owner to another without being nobody's in between.      *)
NoSilentHandoff ==
  [][\A a \in Accounts : owner'[a] # owner[a] => "nobody" \in {owner[a], owner'[a]}]_vars

(* "configuration changed; read the current revision and preview again": a   *)
(* binding edits one assignment of the configuration it was previewed on,   *)
(* and no edit of another command is lost to it.                            *)
BindingEditsOne ==
  [][\A c \in Commands : Step(c, "bind") /\ ~Step(c, "bind")' =>
       \A d \in Devices, a \in Accounts :
         config'[d][a] # config[d][a] => d = cli[c].dev /\ a = cli[c].acct /\ d \notin revoked]_vars

(* Once commands and faults are over, every device in service runs the      *)
(* configuration the server wants.                                          *)
Converges ==
  \A d \in Devices : <>[](d \in revoked \/ adopted[d] = [rev |-> revision[d], cfg |-> config[d]])
=============================================================================
