------------------------ MODULE PollOwnershipProofs ------------------------
(***************************************************************************)
(* What ownership promises for every number of devices, accounts and       *)
(* commands that run at once (the first part), and what it promises while  *)
(* assignments are kept apart (the second): "device assign" reads and      *)
(* writes the configuration of its device outside of any transaction, and  *)
(* finds it as it read it only when no other command edits that device in  *)
(* between.  Any other interleaving of commands is allowed.                *)
(***************************************************************************)
EXTENDS PollOwnership, TLAPS

AssignCommand ==
  [step : {"own", "revision", "write", "undo"}, dev : Devices, acct : Accounts,
   rev : 0..MaxRevision, cfg : Configs]

BindCommand ==
  [step : {"bind"}, dev : Devices, acct : Bindable,
   rev : 0..MaxRevision, cfg : Configs, value : {"plain", "bound"}]

Exchange ==
  [step : {"sent", "answered"}, rev : 0..MaxRevision, cfg : Configs,
   batch : SUBSET Observations, refused : SUBSET Observations]

StoreTyped ==
  /\ owner \in [Accounts -> Devices \cup {"server", "nobody"}] /\ revoked \subseteq Devices
  /\ revision \in [Devices -> 0..MaxRevision] /\ config \in [Devices -> Configs]

CliTyped == cli \in [Commands -> {NoCommand} \cup AssignCommand \cup BindCommand]

CollectorTyped ==
  /\ adopted \in [Devices -> Adopted] /\ saved \in [Devices -> Adopted]
  /\ answer \in [Devices -> {NoAnswer} \cup Exchange]
  /\ observed \in [Devices -> SUBSET Observations] /\ receipts \in [Devices -> SUBSET Observations]

Typed == StoreTyped /\ CliTyped /\ CollectorTyped /\ faults \in 0..MaxFaults

GInv == Typed /\ RevokedOwnsNothing

-----------------------------------------------------------------------------
(* Data. *)

LEMMA EmptyConfig == Empty \in Configs
  BY DEF Empty, Configs, Assignment

LEMMA ConfigEdit ==
  ASSUME NEW cfg \in Configs, NEW a \in Accounts, NEW v \in Assignment,
         v = "bound" => a \in Bindable
  PROVE  [cfg EXCEPT ![a] = v] \in Configs
  BY DEF Configs, Assignment

LEMMA InitTyped == Init => Typed
<1> SUFFICES ASSUME Init PROVE Typed
  OBVIOUS
<1>1. 0 \in 0..MaxRevision /\ 0 \in 0..MaxFaults
  BY OwnershipConstants
<1>2. [rev |-> 0, cfg |-> Empty] \in Adopted
  BY <1>1, EmptyConfig DEF Adopted
<1>3. StoreTyped /\ CliTyped
  BY <1>1, EmptyConfig DEF Init, StoreTyped, CliTyped
<1>4. CollectorTyped
  BY <1>2 DEF Init, CollectorTyped
<1> QED
  BY <1>1, <1>3, <1>4 DEF Typed, Init

(* Steps in a command. *)
LEMMA CliFacts ==
  ASSUME CliTyped, NEW c \in Commands
  PROVE  /\ Done(c) => CliTyped'
         /\ \A s \in {"revision", "undo"} :
              cli[c].step \in {"own", "revision", "write"} /\ Goto(c, s)
                => CliTyped'
         /\ \A s \in {"own", "revision", "write", "undo"} :
              Step(c, s) => cli[c] \in AssignCommand
         /\ Step(c, "bind") => cli[c] \in BindCommand
<1>1. cli[c] \in {NoCommand} \cup AssignCommand \cup BindCommand
  BY DEF CliTyped
<1>2. Done(c) => CliTyped'
  BY DEF Done, CliTyped
<1>3. \A s \in {"own", "revision", "write", "undo"} : Step(c, s) => cli[c] \in AssignCommand
  BY <1>1 DEF Step, BindCommand, NoCommand
<1>4. Step(c, "bind") => cli[c] \in BindCommand
  BY <1>1 DEF Step, AssignCommand, NoCommand
<1>5. ASSUME NEW s \in {"revision", "undo"}, cli[c].step \in {"own", "revision", "write"}, Goto(c, s)
      PROVE  CliTyped'
  <2>1. cli[c] \in AssignCommand
    BY <1>3, <1>5 DEF Step
  <2>2. [cli[c] EXCEPT !.step = s] \in AssignCommand
    BY <2>1 DEF AssignCommand
  <2>3. cli' = [cli EXCEPT ![c] = [cli[c] EXCEPT !.step = s]]
    BY <1>5 DEF Goto
  <2> QED
    BY <2>2, <2>3 DEF CliTyped
<1> QED
  BY <1>2, <1>3, <1>4, <1>5

-----------------------------------------------------------------------------
(* Transactions of the store. *)

OwnersOK == StoreTyped /\ RevokedOwnsNothing

LEMMA NeverRevoked ==
  ASSUME StoreTyped
  PROVE  "server" \notin revoked /\ "nobody" \notin revoked
  BY OwnershipConstants DEF StoreTyped

LEMMA SetKeeps ==
  ASSUME OwnersOK, NEW a \in Accounts, NEW o \in Devices \cup {"server"}, SetPollOwner(a, o)
  PROVE  OwnersOK'
<1>1. /\ CanOwn(a, o) /\ owner' = [owner EXCEPT ![a] = o]
      /\ UNCHANGED <<revoked, revision, config>>
  BY DEF SetPollOwner
<1>2. o \notin revoked
  BY <1>1 DEF CanOwn, OwnersOK, RevokedOwnsNothing
<1> QED
  BY <1>1, <1>2 DEF OwnersOK, StoreTyped, RevokedOwnsNothing

LEMMA NextRevisionKeeps ==
  ASSUME StoreTyped, NEW d \in Devices, NextRevision(d)
  PROVE  /\ revision' \in [Devices -> 0..MaxRevision]
         /\ revision' = [revision EXCEPT ![d] = revision[d] + 1]
<1>1. revision[d] \in 0..MaxRevision /\ revision[d] < MaxRevision
  BY DEF StoreTyped, NextRevision
<1>2. revision[d] + 1 \in 0..MaxRevision
  BY <1>1, OwnershipConstants
<1> QED
  BY <1>2 DEF StoreTyped, NextRevision

LEMMA ClearKeeps ==
  ASSUME OwnersOK, NEW a \in Accounts, ClearPollOwner(a)
  PROVE  OwnersOK'
<1>1. /\ owner' = [owner EXCEPT ![a] = "nobody"] /\ UNCHANGED revoked
      /\ IF owner[a] \in Devices
         THEN /\ NextRevision(owner[a])
              /\ config' = [config EXCEPT ![owner[a]] = [config[owner[a]] EXCEPT ![a] = "absent"]]
         ELSE UNCHANGED <<revision, config>>
  BY DEF ClearPollOwner
<1>2. revision' \in [Devices -> 0..MaxRevision] /\ config' \in [Devices -> Configs]
  <2>1. CASE owner[a] \in Devices
    <3>1. revision' \in [Devices -> 0..MaxRevision]
      BY <1>1, <2>1, NextRevisionKeeps DEF OwnersOK
    <3>2. config[owner[a]] \in Configs
      BY <2>1 DEF OwnersOK, StoreTyped
    <3>3. [config[owner[a]] EXCEPT ![a] = "absent"] \in Configs
      BY <3>2, ConfigEdit DEF Assignment
    <3> QED
      BY <1>1, <2>1, <3>1, <3>3 DEF OwnersOK, StoreTyped
  <2>2. CASE owner[a] \notin Devices
    BY <1>1, <2>2 DEF OwnersOK, StoreTyped
  <2> QED
    BY <2>1, <2>2
<1>3. owner' \in [Accounts -> Devices \cup {"server", "nobody"}] /\ revoked' \subseteq Devices
  BY <1>1 DEF OwnersOK, StoreTyped
<1>4. RevokedOwnsNothing'
  BY <1>1, NeverRevoked DEF OwnersOK, StoreTyped, RevokedOwnsNothing
<1> QED
  BY <1>2, <1>3, <1>4 DEF OwnersOK, StoreTyped

LEMMA RevokeKeeps ==
  ASSUME OwnersOK, NEW c \in Commands, NEW d \in Devices, Revoke(c, d)
  PROVE  OwnersOK'
<1>1. /\ revoked' = revoked \cup {d} /\ NextRevision(d)
      /\ config' = [config EXCEPT ![d] = Empty]
      /\ owner' = [a \in Accounts |-> IF owner[a] = d THEN "nobody" ELSE owner[a]]
  BY DEF Revoke
<1>2. revision' \in [Devices -> 0..MaxRevision]
  BY <1>1, NextRevisionKeeps DEF OwnersOK
<1>3. StoreTyped'
  BY <1>1, <1>2, EmptyConfig DEF OwnersOK, StoreTyped
<1>4. "nobody" \notin revoked'
  BY <1>3, OwnershipConstants DEF StoreTyped
<1>5. RevokedOwnsNothing'
  BY <1>1, <1>4 DEF OwnersOK, RevokedOwnsNothing
<1> QED
  BY <1>3, <1>5 DEF OwnersOK

-----------------------------------------------------------------------------
(* Steps of a command. *)

LEMMA FaultTyped ==
  ASSUME faults \in 0..MaxFaults
  PROVE  (NoFault => faults' \in 0..MaxFaults) /\ (Fault => faults' \in 0..MaxFaults)
  BY OwnershipConstants DEF NoFault, Fault

LEMMA AssignReadKeeps ==
  ASSUME StoreTyped, CliTyped, NEW c \in Commands, NEW d \in Devices, NEW a \in Accounts,
         AssignRead(c, d, a)
  PROVE  CliTyped'
<1>1. config[d] \in Configs /\ 0 \in 0..MaxRevision
  BY OwnershipConstants DEF StoreTyped
<1>2. [config[d] EXCEPT ![a] = "plain"] \in Configs
  BY <1>1, ConfigEdit DEF Assignment
<1> DEFINE r == [step |-> "own", dev |-> d, acct |-> a, rev |-> 0,
                 cfg |-> [config[d] EXCEPT ![a] = "plain"]]
<1>3. r \in AssignCommand
  BY <1>1, <1>2 DEF AssignCommand
<1>4. cli' = [cli EXCEPT ![c] = r]
  BY DEF AssignRead
<1> HIDE DEF r
<1> QED
  BY <1>3, <1>4 DEF CliTyped

LEMMA BindReadKeeps ==
  ASSUME StoreTyped, CliTyped, NEW c \in Commands, NEW d \in Devices, NEW a \in Accounts,
         BindRead(c, d, a)
  PROVE  CliTyped'
<1>1. config[d] \in Configs /\ revision[d] \in 0..MaxRevision /\ a \in Bindable
  BY DEF StoreTyped, BindRead
<1>2. PICK v \in {"plain", "bound"} :
        cli' = [cli EXCEPT ![c] = [step |-> "bind", dev |-> d, acct |-> a, rev |-> revision[d],
                                   cfg |-> config[d], value |-> v]]
  BY DEF BindRead
<1> DEFINE r == [step |-> "bind", dev |-> d, acct |-> a, rev |-> revision[d],
                 cfg |-> config[d], value |-> v]
<1>3. r \in BindCommand
  BY <1>1 DEF BindCommand
<1>4. cli' = [cli EXCEPT ![c] = r]
  BY <1>2
<1> HIDE DEF r
<1> QED
  BY <1>3, <1>4 DEF CliTyped

LEMMA AssignRevisionKeeps ==
  ASSUME StoreTyped, CliTyped, NEW c \in Commands, AssignRevision(c)
  PROVE  CliTyped'
<1>1. cli[c] \in AssignCommand
  BY CliFacts DEF AssignRevision
<1>2. revision[cli[c].dev] \in 0..MaxRevision /\ revision[cli[c].dev] < MaxRevision
  BY <1>1 DEF StoreTyped, AssignCommand, AssignRevision
<1>3. revision[cli[c].dev] + 1 \in 0..MaxRevision
  BY <1>2, OwnershipConstants
<1> DEFINE r == [cli[c] EXCEPT !.step = "write", !.rev = revision[cli[c].dev] + 1]
<1>4. r \in AssignCommand
  BY <1>1, <1>3 DEF AssignCommand
<1>5. cli' = [cli EXCEPT ![c] = r]
  BY DEF AssignRevision
<1> HIDE DEF r
<1> QED
  BY <1>4, <1>5 DEF CliTyped

LEMMA AssignWriteKeeps ==
  ASSUME OwnersOK, CliTyped, NEW c \in Commands, AssignWrite(c)
  PROVE  OwnersOK' /\ CliTyped'
<1>1. /\ cli[c].dev \in Devices /\ cli[c].rev \in 0..MaxRevision /\ cli[c].cfg \in Configs
      /\ CliTyped'
  BY CliFacts DEF AssignWrite, AssignCommand
<1>2. /\ revision' = [revision EXCEPT ![cli[c].dev] = cli[c].rev]
      /\ config' = [config EXCEPT ![cli[c].dev] = cli[c].cfg]
      /\ UNCHANGED <<owner, revoked>>
  BY DEF AssignWrite
<1> QED
  BY <1>1, <1>2 DEF OwnersOK, StoreTyped, RevokedOwnsNothing

(* What the swap of a binding writes. *)
LEMMA BindApplied ==
  ASSUME StoreTyped, CliTyped, NEW c \in Commands, BindApply(c)
  PROVE  /\ cli[c] \in BindCommand
         /\ \/ UNCHANGED <<revision, config>>
            \/ /\ cli[c].dev \notin revoked /\ NextRevision(cli[c].dev)
               /\ config' = [config EXCEPT ![cli[c].dev] =
                                [config[cli[c].dev] EXCEPT ![cli[c].acct] = cli[c].value]]
  BY CliFacts DEF BindApply

LEMMA BindApplyKeeps ==
  ASSUME OwnersOK, CliTyped, NEW c \in Commands, BindApply(c)
  PROVE  OwnersOK' /\ CliTyped'
<1>1. CliTyped' /\ UNCHANGED <<owner, revoked>>
  BY CliFacts DEF BindApply
<1>2. cli[c].dev \in Devices /\ cli[c].acct \in Bindable /\ cli[c].value \in {"plain", "bound"}
  BY BindApplied DEF BindCommand, OwnersOK
<1>3. cli[c].acct \in Accounts /\ config[cli[c].dev] \in Configs
  BY <1>2, OwnershipConstants DEF OwnersOK, StoreTyped
<1>4. [config[cli[c].dev] EXCEPT ![cli[c].acct] = cli[c].value] \in Configs
  BY <1>2, <1>3, ConfigEdit DEF Assignment
<1>5. revision' \in [Devices -> 0..MaxRevision] /\ config' \in [Devices -> Configs]
  <2>1. CASE UNCHANGED <<revision, config>>
    BY <2>1 DEF OwnersOK, StoreTyped
  <2>2. CASE ~UNCHANGED <<revision, config>>
    <3>1. /\ NextRevision(cli[c].dev)
          /\ config' = [config EXCEPT ![cli[c].dev] =
                          [config[cli[c].dev] EXCEPT ![cli[c].acct] = cli[c].value]]
      BY <2>2, BindApplied DEF OwnersOK
    <3> QED
      BY <1>2, <1>4, <3>1, NextRevisionKeeps DEF OwnersOK, StoreTyped
  <2> QED
    BY <2>1, <2>2
<1> QED
  BY <1>1, <1>5 DEF OwnersOK, StoreTyped, RevokedOwnsNothing

LEMMA CommandKeeps ==
  ASSUME OwnersOK, CliTyped, faults \in 0..MaxFaults, NEW c \in Commands, Command(c)
  PROVE  OwnersOK' /\ CliTyped' /\ faults' \in 0..MaxFaults /\ UNCHANGED collectorVars
<1> USE DEF OwnersOK
<1>1. ASSUME UNCHANGED adminVars PROVE OwnersOK'
  BY <1>1 DEF adminVars, StoreTyped, RevokedOwnsNothing
<1>2. ASSUME UNCHANGED cli PROVE CliTyped'
  BY <1>2 DEF CliTyped
<1> HIDE DEF OwnersOK
<1>3. ASSUME NEW a \in Accounts, AssignServer(c, a) \/ Unassign(c, a)
      PROVE  OwnersOK' /\ CliTyped' /\ faults' \in 0..MaxFaults /\ UNCHANGED collectorVars
  <2>1. UNCHANGED <<cli, collectorVars>> /\ faults' \in 0..MaxFaults
    BY <1>3, FaultTyped DEF AssignServer, Unassign
  <2>2. SetPollOwner(a, "server") \/ ClearPollOwner(a)
    BY <1>3 DEF AssignServer, Unassign
  <2> QED
    BY <1>2, <2>1, <2>2, SetKeeps, ClearKeeps
<1>4. ASSUME NEW d \in Devices, Revoke(c, d)
      PROVE  OwnersOK' /\ CliTyped' /\ faults' \in 0..MaxFaults /\ UNCHANGED collectorVars
  <2>1. UNCHANGED <<cli, collectorVars>> /\ faults' \in 0..MaxFaults
    BY <1>4, FaultTyped DEF Revoke
  <2> QED
    BY <1>2, <1>4, <2>1, RevokeKeeps
<1>5. ASSUME NEW d \in Devices, NEW a \in Accounts, AssignRead(c, d, a) \/ BindRead(c, d, a)
      PROVE  OwnersOK' /\ CliTyped' /\ faults' \in 0..MaxFaults /\ UNCHANGED collectorVars
  <2>1. UNCHANGED <<adminVars, collectorVars>> /\ faults' \in 0..MaxFaults
    BY <1>5, FaultTyped DEF AssignRead, BindRead
  <2>2. StoreTyped
    BY DEF OwnersOK
  <2>3. CliTyped'
    BY <1>5, <2>2, AssignReadKeeps, BindReadKeeps
  <2> QED
    BY <1>1, <2>1, <2>3
<1>6. CASE AssignOwn(c)
  <2>1. UNCHANGED collectorVars /\ faults' \in 0..MaxFaults /\ Step(c, "own")
    BY <1>6, FaultTyped DEF AssignOwn
  <2>2. cli[c].acct \in Accounts /\ cli[c].dev \in Devices
    BY <2>1, CliFacts DEF AssignCommand
  <2>3. CASE SetPollOwner(cli[c].acct, cli[c].dev) /\ Goto(c, "revision")
    BY <2>1, <2>2, <2>3, SetKeeps, CliFacts DEF Step
  <2>4. CASE Done(c) /\ UNCHANGED adminVars
    BY <1>1, <2>1, <2>4, CliFacts
  <2> QED
    BY <1>6, <2>3, <2>4 DEF AssignOwn
<1>7. CASE AssignRevision(c)
  <2>1. UNCHANGED <<adminVars, collectorVars>> /\ faults' \in 0..MaxFaults
    BY <1>7, FaultTyped DEF AssignRevision
  <2>2. CliTyped'
    BY <1>7, AssignRevisionKeeps DEF OwnersOK
  <2> QED
    BY <1>1, <2>1, <2>2
<1>8. CASE AssignWrite(c)
  <2>1. UNCHANGED collectorVars /\ faults' \in 0..MaxFaults
    BY <1>8, FaultTyped DEF AssignWrite
  <2> QED
    BY <1>8, <2>1, AssignWriteKeeps
<1>9. CASE AssignFails(c)
  <2>1. UNCHANGED <<adminVars, collectorVars>> /\ faults' \in 0..MaxFaults
    BY <1>9, FaultTyped DEF AssignFails
  <2>2. CliTyped'
    BY <1>9, CliFacts DEF AssignFails
  <2> QED
    BY <1>1, <2>1, <2>2
<1>10. CASE AssignUndo(c)
  <2>1. UNCHANGED collectorVars /\ faults' \in 0..MaxFaults /\ Step(c, "undo") /\ CliTyped'
    BY <1>10, FaultTyped, CliFacts DEF AssignUndo
  <2>2. cli[c].acct \in Accounts
    BY <2>1, CliFacts DEF AssignCommand
  <2>3. UNCHANGED adminVars \/ ClearPollOwner(cli[c].acct)
    BY <1>10 DEF AssignUndo
  <2> QED
    BY <1>1, <2>1, <2>2, <2>3, ClearKeeps
<1>11. CASE BindApply(c)
  <2>1. UNCHANGED collectorVars /\ faults' \in 0..MaxFaults
    BY <1>11, FaultTyped DEF BindApply
  <2> QED
    BY <1>11, <2>1, BindApplyKeeps
<1>12. CASE Kill(c)
  <2>1. UNCHANGED <<adminVars, collectorVars>> /\ faults' \in 0..MaxFaults /\ CliTyped'
    BY <1>12, FaultTyped, CliFacts DEF Kill
  <2> QED
    BY <1>1, <2>1
<1> QED
  BY <1>3, <1>4, <1>5, <1>6, <1>7, <1>8, <1>9, <1>10, <1>11, <1>12 DEF Command

-----------------------------------------------------------------------------
(* Steps of a collector. *)

LEMMA AdoptKeeps ==
  ASSUME CollectorTyped, NEW d \in Devices, answer[d].step \in {"sent", "answered"}
  PROVE  answer[d] \in Exchange
  BY DEF CollectorTyped, NoAnswer

LEMMA CollectorKeeps ==
  ASSUME StoreTyped, CollectorTyped, faults \in 0..MaxFaults, NEW d \in Devices, Collector(d)
  PROVE  CollectorTyped' /\ faults' \in 0..MaxFaults /\ UNCHANGED <<adminVars, cli>>
<1>1. CASE Request(d)
  <2>1. UNCHANGED <<adminVars, cli, adopted, saved, observed, receipts>> /\ faults' \in 0..MaxFaults
    BY <1>1, FaultTyped DEF Request
  <2>2. PICK B \in {{}, observed[d]} :
          answer' = [answer EXCEPT ![d] = [step |-> "sent", rev |-> revision[d], cfg |-> config[d],
                                           batch |-> B, refused |-> {}]]
    BY <1>1 DEF Request
  <2>3. /\ B \in SUBSET Observations /\ revision[d] \in 0..MaxRevision /\ config[d] \in Configs
        /\ {} \in SUBSET Observations
    BY <2>2 DEF CollectorTyped, StoreTyped
  <2>4. [step |-> "sent", rev |-> revision[d], cfg |-> config[d], batch |-> B, refused |-> {}]
          \in Exchange
    BY <2>3 DEF Exchange
  <2> QED
    BY <2>1, <2>2, <2>4 DEF CollectorTyped
<1>2. CASE Store(d)
  <2>1. UNCHANGED <<adminVars, cli, adopted, saved, observed>> /\ faults' \in 0..MaxFaults
    BY <1>2, FaultTyped DEF Store
  <2>2. answer[d] \in Exchange
    BY <1>2, AdoptKeeps DEF Store
  <2>3. PICK refused : /\ refused = OwnershipConflict(d, answer[d].batch)
                       /\ answer' = [answer EXCEPT ![d] = [answer[d] EXCEPT !.step = "answered",
                                                                            !.refused = refused]]
                       /\ receipts' = [receipts EXCEPT ![d] = receipts[d]
                                                               \cup (answer[d].batch \ refused)]
    BY <1>2 DEF Store
  <2>4. refused \in SUBSET Observations
    BY <2>2, <2>3 DEF OwnershipConflict, Exchange
  <2>5. [answer[d] EXCEPT !.step = "answered", !.refused = refused] \in Exchange
    BY <2>2, <2>4 DEF Exchange
  <2>6. receipts[d] \cup (answer[d].batch \ refused) \in SUBSET Observations
    BY <2>2 DEF Exchange, CollectorTyped
  <2> QED
    BY <2>1, <2>3, <2>5, <2>6 DEF CollectorTyped
<1>3. CASE Adopt(d)
  <2>1. UNCHANGED <<adminVars, cli, receipts>> /\ faults' \in 0..MaxFaults
    BY <1>3, FaultTyped DEF Adopt
  <2>2. answer[d] \in Exchange
    BY <1>3, AdoptKeeps DEF Adopt
  <2>3. [rev |-> answer[d].rev, cfg |-> answer[d].cfg] \in Adopted
    BY <2>2 DEF Exchange, Adopted
  <2>4. adopted' \in [Devices -> Adopted]
    BY <1>3, <2>3 DEF Adopt, CollectorTyped
  <2>5. saved' \in [Devices -> Adopted]
    BY <1>3, <2>4 DEF Adopt, CollectorTyped
  <2>6. observed' \in [Devices -> SUBSET Observations]
    BY <1>3 DEF Adopt, CollectorTyped
  <2>7. answer' \in [Devices -> {NoAnswer} \cup Exchange]
    BY <1>3 DEF Adopt, CollectorTyped
  <2> QED
    BY <2>1, <2>4, <2>5, <2>6, <2>7 DEF CollectorTyped
<1>4. CASE LoseAnswer(d)
  BY <1>4, FaultTyped DEF LoseAnswer, CollectorTyped
<1>5. CASE RestartCollector(d)
  BY <1>5, FaultTyped DEF RestartCollector, CollectorTyped
<1>6. ASSUME NEW a \in Accounts, Poll(d, a)
      PROVE  CollectorTyped' /\ faults' \in 0..MaxFaults /\ UNCHANGED <<adminVars, cli>>
  <2>1. UNCHANGED <<adminVars, cli, adopted, saved, answer, receipts>> /\ faults' \in 0..MaxFaults
    BY <1>6, FaultTyped DEF Poll
  <2>2. [acct |-> a, rev |-> adopted[d].rev] \in Observations
    BY DEF CollectorTyped, Adopted, Observations
  <2> QED
    BY <1>6, <2>1, <2>2 DEF CollectorTyped, Poll
<1> QED
  BY <1>1, <1>2, <1>3, <1>4, <1>5, <1>6 DEF Collector

-----------------------------------------------------------------------------
(* Any number of commands. *)

LEMMA OwnershipStep == GInv /\ [Next]_vars => GInv'
<1> SUFFICES ASSUME GInv, [Next]_vars PROVE GInv'
  OBVIOUS
<1>1. OwnersOK /\ CliTyped /\ CollectorTyped /\ faults \in 0..MaxFaults
  BY DEF GInv, Typed, OwnersOK
<1>2. ASSUME OwnersOK', CliTyped', CollectorTyped', faults' \in 0..MaxFaults PROVE GInv'
  BY <1>2 DEF GInv, Typed, OwnersOK
<1>3. ASSUME NEW c \in Commands, Command(c) PROVE GInv'
  <2>1. OwnersOK' /\ CliTyped' /\ faults' \in 0..MaxFaults /\ UNCHANGED collectorVars
    BY <1>1, <1>3, CommandKeeps
  <2>2. CollectorTyped'
    BY <1>1, <2>1 DEF collectorVars, CollectorTyped
  <2> QED
    BY <1>2, <2>1, <2>2
<1>4. ASSUME NEW d \in Devices, Collector(d) PROVE GInv'
  <2>1. StoreTyped
    BY <1>1 DEF OwnersOK
  <2>2. CollectorTyped' /\ faults' \in 0..MaxFaults /\ UNCHANGED <<adminVars, cli>>
    BY <1>1, <1>4, <2>1, CollectorKeeps
  <2>3. OwnersOK' /\ CliTyped'
    BY <1>1, <2>2 DEF adminVars, OwnersOK, StoreTyped, RevokedOwnsNothing, CliTyped
  <2> QED
    BY <1>2, <2>2, <2>3
<1>5. CASE UNCHANGED vars
  BY <1>5 DEF vars, adminVars, collectorVars, GInv, Typed, StoreTyped, CliTyped, CollectorTyped,
              RevokedOwnsNothing
<1> QED
  BY <1>3, <1>4, <1>5 DEF Next

(* The inductive invariant: everything has its type, the record of every    *)
(* command under way included, and no revoked device owns an account.       *)
THEOREM OwnershipInvariant == Spec => []GInv
<1>1. Init => GInv
  BY InitTyped DEF GInv, Init, RevokedOwnsNothing
<1> QED
  BY <1>1, OwnershipStep, PTL DEF Spec

(* TypeOK for every number of devices, accounts and commands.               *)
THEOREM OwnershipTypeCorrect == Spec => []TypeOK
<1>1. GInv => TypeOK
  <2> SUFFICES ASSUME GInv PROVE TypeOK
    OBVIOUS
  <2>1. StoreTyped /\ CliTyped /\ CollectorTyped /\ faults \in 0..MaxFaults
    BY DEF GInv, Typed
  <2>2. ASSUME NEW c \in Commands
        PROVE  cli[c].step \in {"none", "own", "revision", "write", "undo", "bind"}
    BY <2>1 DEF CliTyped, NoCommand, AssignCommand, BindCommand
  <2>3. ASSUME NEW d \in Devices
        PROVE  answer[d].step \in {"none", "sent", "answered"} /\ answer[d].refused \subseteq Observations
    BY <2>1 DEF CollectorTyped, NoAnswer, Exchange
  <2> QED
    BY <2>1, <2>2, <2>3 DEF TypeOK, StoreTyped, CollectorTyped
<1> QED
  BY <1>1, OwnershipInvariant, PTL

(* RevokedOwnsNothing: an assignment that read the device before it was     *)
(* revoked still cannot make it an owner afterwards (SetPollOwner looks at  *)
(* revoked_at inside its transaction).                                      *)
THEOREM RevokedNeverOwns == Spec => []RevokedOwnsNothing
<1>1. GInv => RevokedOwnsNothing
  BY DEF GInv
<1> QED
  BY <1>1, OwnershipInvariant, PTL

LEMMA OwnerSteps ==
  ASSUME GInv, [Next]_vars, NEW a \in Accounts, owner'[a] # owner[a]
  PROVE  owner[a] = "nobody" \/ owner'[a] = "nobody"
<1>1. owner \in [Accounts -> Devices \cup {"server", "nobody"}]
  BY DEF GInv, Typed, StoreTyped
<1>2. ASSUME NEW b, NEW o, SetPollOwner(b, o) PROVE owner[a] = "nobody"
  BY <1>1, <1>2 DEF SetPollOwner, CanOwn
<1>3. ASSUME NEW b, ClearPollOwner(b) PROVE owner'[a] = "nobody"
  BY <1>1, <1>3 DEF ClearPollOwner
<1>4. ASSUME UNCHANGED owner PROVE FALSE
  BY <1>4
<1>5. ASSUME NEW c \in Commands, Command(c) PROVE owner[a] = "nobody" \/ owner'[a] = "nobody"
  <2>1. ASSUME NEW b \in Accounts, AssignServer(c, b) \/ Unassign(c, b)
        PROVE  owner[a] = "nobody" \/ owner'[a] = "nobody"
    BY <1>2, <1>3, <2>1 DEF AssignServer, Unassign
  <2>2. ASSUME NEW d \in Devices, Revoke(c, d) PROVE owner'[a] = "nobody"
    BY <2>2 DEF Revoke
  <2>3. ASSUME NEW d \in Devices, NEW b \in Accounts, AssignRead(c, d, b) \/ BindRead(c, d, b)
        PROVE  FALSE
    BY <1>4, <2>3 DEF AssignRead, BindRead, adminVars
  <2>4. CASE AssignOwn(c)
    BY <1>2, <1>4, <2>4 DEF AssignOwn, adminVars
  <2>5. CASE AssignUndo(c)
    BY <1>3, <1>4, <2>5 DEF AssignUndo, adminVars
  <2>6. CASE AssignRevision(c) \/ AssignWrite(c) \/ AssignFails(c) \/ BindApply(c) \/ Kill(c)
    BY <1>4, <2>6 DEF AssignRevision, AssignWrite, AssignFails, BindApply, Kill, adminVars
  <2> QED
    BY <1>5, <2>1, <2>2, <2>3, <2>4, <2>5, <2>6 DEF Command
<1>6. ASSUME NEW d \in Devices, Collector(d) PROVE FALSE
  <2>1. UNCHANGED <<adminVars, cli>>
    BY <1>6, CollectorKeeps DEF GInv, Typed
  <2> QED
    BY <1>4, <2>1 DEF adminVars
<1>7. CASE UNCHANGED vars
  BY <1>4, <1>7 DEF vars, adminVars
<1> QED
  BY <1>5, <1>6, <1>7 DEF Next

(* NoSilentHandoff: whatever commands run at once, an account passes from   *)
(* one owner to another only through nobody's.                              *)
THEOREM OwnersNeverReplaced == Spec => NoSilentHandoff
<1>1. GInv /\ [Next]_vars =>
        [\A a \in Accounts : owner'[a] # owner[a] => "nobody" \in {owner[a], owner'[a]}]_vars
  BY OwnerSteps
<1> QED
  BY <1>1, OwnershipInvariant, PTL DEF Spec, NoSilentHandoff

LEMMA EditedOne ==
  ASSUME NEW cfg \in [Devices -> Configs], NEW d \in Devices, NEW a \in Accounts, NEW v,
         NEW e \in Devices, NEW b \in Accounts,
         [cfg EXCEPT ![d] = [cfg[d] EXCEPT ![a] = v]][e][b] # cfg[e][b]
  PROVE  e = d /\ b = a
<1>1. cfg[d] \in [Accounts -> Assignment]
  BY DEF Configs
<1> QED
  BY <1>1

LEMMA BindSteps ==
  ASSUME GInv, [Next]_vars, NEW c \in Commands, Step(c, "bind"), ~Step(c, "bind")',
         NEW d \in Devices, NEW a \in Accounts, config'[d][a] # config[d][a]
  PROVE  d = cli[c].dev /\ a = cli[c].acct /\ d \notin revoked
<1>1. StoreTyped /\ CliTyped /\ CollectorTyped /\ faults \in 0..MaxFaults
  BY DEF GInv, Typed
<1>2. ASSUME UNCHANGED cli PROVE FALSE
  BY <1>2 DEF Step
<1>3. ASSUME UNCHANGED config PROVE FALSE
  BY <1>3
<1>4. ASSUME NEW e \in Commands, e # c, NEW r, cli' = [cli EXCEPT ![e] = r] PROVE FALSE
  BY <1>1, <1>4 DEF Step, CliTyped
<1>5. ASSUME NEW e \in Commands, Command(e), e # c PROVE FALSE
  <2>1. ASSUME Done(e) \/ (\E s : Goto(e, s)) PROVE FALSE
    BY <1>4, <1>5, <2>1 DEF Done, Goto
  <2>2. ASSUME NEW b \in Accounts, AssignServer(e, b) \/ Unassign(e, b) PROVE FALSE
    BY <1>2, <2>2 DEF AssignServer, Unassign
  <2>3. ASSUME NEW f \in Devices, Revoke(e, f) PROVE FALSE
    BY <1>2, <2>3 DEF Revoke
  <2>4. ASSUME NEW f \in Devices, NEW b \in Accounts, AssignRead(e, f, b) \/ BindRead(e, f, b)
        PROVE  FALSE
    BY <1>3, <2>4 DEF AssignRead, BindRead, adminVars
  <2>5. CASE AssignRevision(e)
    BY <1>3, <2>5 DEF AssignRevision, adminVars
  <2>6. CASE AssignOwn(e) \/ AssignWrite(e) \/ AssignFails(e) \/ AssignUndo(e) \/ BindApply(e) \/ Kill(e)
    BY <2>1, <2>6 DEF AssignOwn, AssignWrite, AssignFails, AssignUndo, BindApply, Kill
  <2> QED
    BY <1>5, <2>2, <2>3, <2>4, <2>5, <2>6 DEF Command
<1>6. ASSUME Command(c) PROVE BindApply(c)
  <2>1. cli[c].step = "bind"
    BY DEF Step
  <2>2. ~AssignOwn(c) /\ ~AssignRevision(c) /\ ~AssignWrite(c) /\ ~AssignFails(c) /\ ~AssignUndo(c)
    BY <2>1 DEF AssignOwn, AssignRevision, AssignWrite, AssignFails, AssignUndo, Step
  <2>3. ~Kill(c)
    BY <1>3 DEF Kill, adminVars
  <2>4. \A b \in Accounts : ~AssignServer(c, b) /\ ~Unassign(c, b)
    BY <2>1 DEF AssignServer, Unassign, Step
  <2>5. \A f \in Devices : ~Revoke(c, f)
    BY <2>1 DEF Revoke, Step
  <2>6. \A f \in Devices, b \in Accounts : ~AssignRead(c, f, b) /\ ~BindRead(c, f, b)
    BY <2>1 DEF AssignRead, BindRead, Step
  <2> QED
    BY <1>6, <2>2, <2>3, <2>4, <2>5, <2>6 DEF Command
<1>7. ASSUME NEW f \in Devices, Collector(f) PROVE FALSE
  BY <1>1, <1>2, <1>7, CollectorKeeps
<1>8. CASE UNCHANGED vars
  BY <1>2, <1>8 DEF vars
<1>9. CASE BindApply(c)
  <2>1. cli[c].dev \in Devices /\ cli[c].acct \in Accounts
    BY <1>1, <1>9, BindApplied, OwnershipConstants DEF BindCommand
  <2>2. /\ cli[c].dev \notin revoked
        /\ config' = [config EXCEPT ![cli[c].dev] =
                        [config[cli[c].dev] EXCEPT ![cli[c].acct] = cli[c].value]]
    BY <1>1, <1>3, <1>9, BindApplied
  <2>3. config \in [Devices -> Configs]
    BY <1>1 DEF StoreTyped
  <2>4. d = cli[c].dev /\ a = cli[c].acct
    BY <2>1, <2>2, <2>3, EditedOne
  <2> QED
    BY <2>2, <2>4
<1> QED
  BY <1>5, <1>6, <1>7, <1>8, <1>9 DEF Next

(* BindingEditsOne: with any number of other commands between the preview   *)
(* and the swap, a binding changes the one assignment it was asked for, of  *)
(* a device in service.                                                     *)
THEOREM BindingLosesNoEdit == Spec => BindingEditsOne
<1>1. GInv /\ [Next]_vars =>
        [\A c \in Commands : Step(c, "bind") /\ ~Step(c, "bind")' =>
           \A d \in Devices, a \in Accounts :
             config'[d][a] # config[d][a] => d = cli[c].dev /\ a = cli[c].acct /\ d \notin revoked]_vars
  BY BindSteps
<1> QED
  BY <1>1, OwnershipInvariant, PTL DEF Spec, BindingEditsOne

-----------------------------------------------------------------------------
(* Assignments apart.                                                      *)

Assigning(e) == cli[e].step \in {"own", "revision", "write"}

(* A step leaves alone what the assignments of other commands depend on:    *)
(* the row of their device, and an ownership of it that they took.  A lock  *)
(* per device around "device assign" would give no less; bindings,          *)
(* revocations and assignments of other devices still interleave freely.    *)
Apart ==
  \A e \in Commands : Assigning(e) /\ cli'[e] = cli[e] =>
    /\ revision'[cli[e].dev] = revision[cli[e].dev]
    /\ config'[cli[e].dev] = config[cli[e].dev]
    /\ owner[cli[e].acct] = cli[e].dev => owner'[cli[e].acct] = cli[e].dev

(* A single command-line process.                                           *)
OneCommand == \A c, e \in Commands : c = e

(* What a command under way has read is still so, and an assignment owns    *)
(* the account it is about to configure.                                    *)
Held(c) ==
  /\ cli[c].step \in {"own", "revision", "write"} =>
       cli[c].cfg = [config[cli[c].dev] EXCEPT ![cli[c].acct] = "plain"]
  /\ cli[c].step \in {"revision", "write"} => owner[cli[c].acct] = cli[c].dev
  /\ Step(c, "write") => cli[c].rev = revision[cli[c].dev] + 1
  /\ Step(c, "bind") => cli[c].cfg[cli[c].acct] # "absent"

(* A revision is at most the current one and names one configuration.       *)
Names(d, rev, cfg) == rev <= revision[d] /\ (rev = revision[d] => cfg = config[d])

(* What a device observed under the current revision it is assigned.        *)
Assigned(d, o) == o.rev <= revision[d] /\ (o.rev = revision[d] => config[d][o.acct] # "absent")

Follows(d) ==
  /\ Names(d, adopted[d].rev, adopted[d].cfg) /\ Names(d, saved[d].rev, saved[d].cfg)
  /\ \A o \in observed[d] : Assigned(d, o)
  /\ answer[d] # NoAnswer =>
       Names(d, answer[d].rev, answer[d].cfg) /\ \A o \in answer[d].batch : Assigned(d, o)

CommandsHeld == \A c \in Commands : Held(c)
AllFollow == \A d \in Devices : Follows(d)

ApartInv == GInv /\ ConfigNamesOwned /\ CommandsHeld /\ AllFollow

(* A device keeps its revision and configuration, or gets the next revision. *)
Moves(d) == \/ revision'[d] = revision[d] /\ config'[d] = config[d]
            \/ revision'[d] = revision[d] + 1

LEMMA NextRevisionMoves ==
  ASSUME StoreTyped, NEW d \in Devices, NextRevision(d), NEW x, config' = [config EXCEPT ![d] = x]
  PROVE  \A e \in Devices : Moves(e)
  BY DEF StoreTyped, NextRevision, Moves

LEMMA StoreMoves ==
  ASSUME StoreTyped, NEW a \in Accounts
  PROVE  /\ \A o : SetPollOwner(a, o) => \A e \in Devices : Moves(e)
         /\ ClearPollOwner(a) => \A e \in Devices : Moves(e)
         /\ UNCHANGED adminVars => \A e \in Devices : Moves(e)
<1>1. ASSUME UNCHANGED <<revision, config>> PROVE \A e \in Devices : Moves(e)
  BY <1>1 DEF Moves
<1>2. ASSUME ClearPollOwner(a) PROVE \A e \in Devices : Moves(e)
  <2>1. CASE owner[a] \in Devices
    BY <1>2, <2>1, NextRevisionMoves DEF ClearPollOwner
  <2>2. CASE owner[a] \notin Devices
    BY <1>1, <1>2, <2>2 DEF ClearPollOwner
  <2> QED
    BY <2>1, <2>2
<1> QED
  BY <1>1, <1>2 DEF SetPollOwner, adminVars

LEMMA CommandMoves ==
  ASSUME StoreTyped, CliTyped, NEW c \in Commands, Held(c), Command(c)
  PROVE  \A d \in Devices : Moves(d)
<1>1. ASSUME NEW a \in Accounts, AssignServer(c, a) \/ Unassign(c, a) PROVE \A d \in Devices : Moves(d)
  BY <1>1, StoreMoves DEF AssignServer, Unassign
<1>2. ASSUME NEW d \in Devices, Revoke(c, d) PROVE \A e \in Devices : Moves(e)
  BY <1>2, NextRevisionMoves DEF Revoke
<1>3. ASSUME UNCHANGED adminVars PROVE \A d \in Devices : Moves(d)
  BY <1>3 DEF Moves, adminVars
<1>4. CASE AssignOwn(c)
  <2>1. cli[c].acct \in Accounts
    BY <1>4, CliFacts DEF AssignOwn, AssignCommand
  <2> QED
    BY <1>3, <1>4, <2>1, StoreMoves DEF AssignOwn
<1>5. CASE AssignWrite(c)
  <2>1. cli[c].rev = revision[cli[c].dev] + 1
    BY <1>5 DEF AssignWrite, Held
  <2>2. revision' = [revision EXCEPT ![cli[c].dev] = revision[cli[c].dev] + 1]
    BY <1>5, <2>1 DEF AssignWrite
  <2>3. config' = [config EXCEPT ![cli[c].dev] = cli[c].cfg]
    BY <1>5 DEF AssignWrite
  <2> QED
    BY <2>2, <2>3 DEF StoreTyped, Moves
<1>6. CASE AssignUndo(c)
  <2>1. cli[c].acct \in Accounts
    BY <1>6, CliFacts DEF AssignUndo, AssignCommand
  <2> QED
    BY <1>3, <1>6, <2>1, StoreMoves DEF AssignUndo
<1>7. CASE BindApply(c)
  <2>1. cli[c].dev \in Devices
    BY <1>7, BindApplied DEF BindCommand
  <2>2. CASE UNCHANGED <<revision, config>>
    BY <2>2 DEF Moves
  <2>3. CASE ~UNCHANGED <<revision, config>>
    BY <1>7, <2>1, <2>3, BindApplied, NextRevisionMoves
  <2> QED
    BY <2>2, <2>3
<1>8. CASE AssignRevision(c) \/ AssignFails(c) \/ Kill(c)
  BY <1>3, <1>8 DEF AssignRevision, AssignFails, Kill
<1>9. ASSUME NEW d \in Devices, NEW a \in Accounts, AssignRead(c, d, a) \/ BindRead(c, d, a)
      PROVE  \A e \in Devices : Moves(e)
  BY <1>3, <1>9 DEF AssignRead, BindRead
<1> QED
  BY <1>1, <1>2, <1>4, <1>5, <1>6, <1>7, <1>8, <1>9 DEF Command

LEMMA Later == \A r, s \in Nat : r <= s => r <= s + 1 /\ r # s + 1
  OBVIOUS

(* What was true of an older revision stays true when the device moves on.  *)
LEMMA MovesKeep ==
  ASSUME StoreTyped, NEW d \in Devices, Moves(d)
  PROVE  /\ \A rev \in 0..MaxRevision, cfg \in Configs : Names(d, rev, cfg) =>
              rev <= revision'[d] /\ (rev = revision'[d] => cfg = config'[d])
         /\ \A o \in Observations : Assigned(d, o) =>
              o.rev <= revision'[d] /\ (o.rev = revision'[d] => config'[d][o.acct] # "absent")
<1>1. revision[d] \in Nat /\ \A rev \in 0..MaxRevision : rev \in Nat
  BY OwnershipConstants DEF StoreTyped
<1>2. \A o \in Observations : o.rev \in 0..MaxRevision
  BY DEF Observations
<1>3. CASE revision'[d] = revision[d] /\ config'[d] = config[d]
  BY <1>3 DEF Names, Assigned
<1>4. CASE revision'[d] = revision[d] + 1
  BY <1>1, <1>2, <1>4, Later DEF Names, Assigned
<1> QED
  BY <1>3, <1>4 DEF Moves

LEMMA CommandFollows ==
  ASSUME StoreTyped, CollectorTyped, AllFollow, UNCHANGED collectorVars,
         \A d \in Devices : Moves(d)
  PROVE  AllFollow'
<1> SUFFICES ASSUME NEW d \in Devices PROVE Follows(d)'
  BY DEF AllFollow
<1>1. /\ UNCHANGED <<adopted[d], saved[d], answer[d], observed[d]>>
      /\ Follows(d) /\ Moves(d)
  BY DEF collectorVars, AllFollow
<1>2. /\ adopted[d] \in Adopted /\ saved[d] \in Adopted /\ observed[d] \subseteq Observations
      /\ answer[d] # NoAnswer => /\ answer[d].rev \in 0..MaxRevision /\ answer[d].cfg \in Configs
                               /\ answer[d].batch \subseteq Observations
  BY DEF CollectorTyped, Exchange
<1>3. Names(d, adopted[d].rev, adopted[d].cfg)' /\ Names(d, saved[d].rev, saved[d].cfg)'
  BY <1>1, <1>2, MovesKeep DEF Follows, Names, Adopted
<1>4. \A o \in observed'[d] : Assigned(d, o)'
  BY <1>1, <1>2, MovesKeep DEF Follows, Assigned
<1>5. ASSUME answer'[d] # NoAnswer
      PROVE  /\ Names(d, answer[d].rev, answer[d].cfg)'
             /\ \A o \in answer'[d].batch : Assigned(d, o)'
  <2>1. answer[d] # NoAnswer /\ answer'[d] = answer[d]
    BY <1>1, <1>5
  <2>2. Names(d, answer[d].rev, answer[d].cfg)'
    BY <1>1, <1>2, <2>1, MovesKeep DEF Follows, Names
  <2>3. \A o \in answer'[d].batch : Assigned(d, o)'
    BY <1>1, <1>2, <2>1, MovesKeep DEF Follows, Assigned
  <2> QED
    BY <2>2, <2>3
<1> QED
  BY <1>3, <1>4, <1>5 DEF Follows

(* What a collector adopts was current when the server answered.            *)
LEMMA CollectorFollows ==
  ASSUME StoreTyped, CollectorTyped, AllFollow, NEW e \in Devices, Collector(e),
         UNCHANGED adminVars
  PROVE  AllFollow'
<1> SUFFICES ASSUME NEW d \in Devices PROVE Follows(d)'
  BY DEF AllFollow
<1>1. UNCHANGED <<revision, config>> /\ Follows(d)
  BY DEF adminVars, AllFollow
<1>2. ASSUME UNCHANGED <<adopted[d], saved[d], answer[d], observed[d]>> PROVE Follows(d)'
  BY <1>1, <1>2 DEF Follows, Names, Assigned
<1>3. CASE d # e
  <2>1. UNCHANGED <<adopted[d], saved[d], answer[d], observed[d]>>
    BY <1>3 DEF Collector, Request, Store, Adopt, LoseAnswer, RestartCollector, Poll, CollectorTyped
  <2> QED
    BY <1>2, <2>1
<1>4. CASE d = e /\ Request(d)
  <2>1. PICK B \in {{}, observed[d]} :
          answer' = [answer EXCEPT ![d] = [step |-> "sent", rev |-> revision[d], cfg |-> config[d],
                                           batch |-> B, refused |-> {}]]
    BY <1>4 DEF Request
  <2>2. /\ answer'[d].rev = revision[d] /\ answer'[d].cfg = config[d] /\ answer'[d].batch = B
        /\ UNCHANGED <<adopted, saved, observed>>
    BY <1>4, <2>1 DEF CollectorTyped, Request
  <2>3. revision[d] \in Nat
    BY OwnershipConstants DEF StoreTyped
  <2>4. Names(d, answer[d].rev, answer[d].cfg)'
    BY <1>1, <2>2, <2>3 DEF Names
  <2> QED
    BY <1>1, <2>1, <2>2, <2>4 DEF Follows, Names, Assigned
<1>5. CASE d = e /\ Store(d)
  <2>1. answer[d] \in Exchange /\ answer[d] # NoAnswer
    BY <1>5, AdoptKeeps DEF Store, NoAnswer
  <2>2. PICK refused : answer' = [answer EXCEPT ![d] = [answer[d] EXCEPT !.step = "answered",
                                                                         !.refused = refused]]
    BY <1>5 DEF Store
  <2>3. /\ answer'[d].rev = answer[d].rev /\ answer'[d].cfg = answer[d].cfg
        /\ answer'[d].batch = answer[d].batch /\ UNCHANGED <<adopted, saved, observed>>
    BY <1>5, <2>1, <2>2 DEF CollectorTyped, Store, Exchange
  <2> QED
    BY <1>1, <2>1, <2>3 DEF Follows, Names, Assigned
<1>6. CASE d = e /\ Adopt(d)
  <2>1. answer[d] # NoAnswer
    BY <1>6 DEF Adopt, NoAnswer
  <2>2. adopted' = IF answer[d].rev = adopted[d].rev THEN adopted
                   ELSE [adopted EXCEPT ![d] = [rev |-> answer[d].rev, cfg |-> answer[d].cfg]]
    BY <1>6 DEF Adopt
  <2>3. Names(d, adopted[d].rev, adopted[d].cfg)'
    BY <1>1, <2>1, <2>2 DEF Follows, Names, CollectorTyped
  <2>4. saved'[d] = saved[d] \/ saved'[d] = adopted'[d]
    BY <1>6 DEF Adopt, CollectorTyped
  <2>5. Names(d, saved[d].rev, saved[d].cfg)'
    BY <1>1, <2>3, <2>4 DEF Follows, Names
  <2>6. observed'[d] \subseteq observed[d] /\ answer'[d] = NoAnswer
    BY <1>6 DEF Adopt, CollectorTyped
  <2> QED
    BY <1>1, <2>3, <2>5, <2>6 DEF Follows, Assigned
<1>7. CASE d = e /\ LoseAnswer(d)
  <2>1. answer'[d] = NoAnswer /\ UNCHANGED <<adopted, saved, observed>>
    BY <1>7 DEF LoseAnswer, CollectorTyped
  <2> QED
    BY <1>1, <2>1 DEF Follows, Names, Assigned
<1>8. CASE d = e /\ RestartCollector(d)
  <2>1. answer'[d] = NoAnswer /\ adopted'[d] = saved[d] /\ UNCHANGED <<saved, observed>>
    BY <1>8 DEF RestartCollector, CollectorTyped
  <2> QED
    BY <1>1, <2>1 DEF Follows, Names, Assigned
<1>9. ASSUME NEW a \in Accounts, d = e, Poll(d, a) PROVE Follows(d)'
  <2>1. /\ UNCHANGED <<adopted, saved, answer>>
        /\ observed'[d] = observed[d] \cup {[acct |-> a, rev |-> adopted[d].rev]}
    BY <1>9 DEF Poll, CollectorTyped
  <2>2. adopted[d].cfg[a] # "absent"
    BY <1>9 DEF Poll, Polls
  <2>3. Assigned(d, [acct |-> a, rev |-> adopted[d].rev])
    BY <1>1, <2>2 DEF Follows, Names, Assigned
  <2>4. \A o \in observed'[d] : Assigned(d, o)'
    BY <1>1, <2>1, <2>3 DEF Follows, Assigned
  <2> QED
    BY <1>1, <2>1, <2>4 DEF Follows, Names, Assigned
<1> QED
  BY <1>3, <1>4, <1>5, <1>6, <1>7, <1>8, <1>9 DEF Collector

(* Only what a device owns is in its configuration: the transactions.       *)
LEMMA OwnedTransactions ==
  ASSUME StoreTyped, ConfigNamesOwned, NEW a \in Accounts
  PROVE  /\ \A o : SetPollOwner(a, o) => ConfigNamesOwned'
         /\ ClearPollOwner(a) => ConfigNamesOwned'
         /\ UNCHANGED adminVars => ConfigNamesOwned'
<1>1. ASSUME UNCHANGED adminVars PROVE ConfigNamesOwned'
  BY <1>1 DEF adminVars, ConfigNamesOwned
<1>2. ASSUME NEW o, SetPollOwner(a, o) PROVE ConfigNamesOwned'
  <2>1. \A d \in Devices : owner[a] = d => o = d
    BY <1>2, OwnershipConstants DEF SetPollOwner, CanOwn
  <2>2. owner' = [owner EXCEPT ![a] = o] /\ config' = config
    BY <1>2 DEF SetPollOwner
  <2> QED
    BY <2>1, <2>2 DEF ConfigNamesOwned, StoreTyped
<1>3. ASSUME ClearPollOwner(a) PROVE ConfigNamesOwned'
  <2> SUFFICES ASSUME NEW d \in Devices, NEW b \in Accounts, config'[d][b] # "absent"
               PROVE  owner'[b] = d
    BY DEF ConfigNamesOwned
  <2>1. owner' = [owner EXCEPT ![a] = "nobody"]
    BY <1>3 DEF ClearPollOwner
  <2>2. config[d][b] # "absent" /\ ~(b = a /\ owner[a] = d)
    <3>1. CASE owner[a] \in Devices
      <4>1. config' = [config EXCEPT ![owner[a]] = [config[owner[a]] EXCEPT ![a] = "absent"]]
        BY <1>3, <3>1 DEF ClearPollOwner
      <4>2. config[d] \in [Accounts -> Assignment] /\ config \in [Devices -> Configs]
        BY DEF StoreTyped, Configs
      <4> QED
        BY <3>1, <4>1, <4>2
    <3>2. CASE owner[a] \notin Devices
      BY <1>3, <3>2 DEF ClearPollOwner
    <3> QED
      BY <3>1, <3>2
  <2>3. owner[b] = d /\ b # a
    BY <2>2 DEF ConfigNamesOwned
  <2> QED
    BY <2>1, <2>3 DEF StoreTyped
<1> QED
  BY <1>1, <1>2, <1>3

LEMMA OwnedAfterRevoke ==
  ASSUME StoreTyped, ConfigNamesOwned, NEW c \in Commands, NEW e \in Devices, Revoke(c, e)
  PROVE  ConfigNamesOwned'
<1> SUFFICES ASSUME NEW d \in Devices, NEW b \in Accounts, config'[d][b] # "absent"
             PROVE  owner'[b] = d
  BY DEF ConfigNamesOwned
<1>1. /\ config' = [config EXCEPT ![e] = Empty]
      /\ owner' = [a \in Accounts |-> IF owner[a] = e THEN "nobody" ELSE owner[a]]
  BY DEF Revoke
<1>2. d # e
  BY <1>1 DEF Empty, StoreTyped
<1>3. owner[b] = d
  BY <1>1, <1>2 DEF ConfigNamesOwned, StoreTyped
<1> QED
  BY <1>1, <1>2, <1>3

LEMMA OwnedAfterWrite ==
  ASSUME StoreTyped, CliTyped, ConfigNamesOwned, NEW c \in Commands, Held(c), AssignWrite(c)
  PROVE  ConfigNamesOwned'
<1>1. /\ cli[c].dev \in Devices /\ cli[c].acct \in Accounts
      /\ cli[c].step = "write"
  BY CliFacts DEF AssignWrite, AssignCommand, Step
<1>2. /\ owner[cli[c].acct] = cli[c].dev
      /\ cli[c].cfg = [config[cli[c].dev] EXCEPT ![cli[c].acct] = "plain"]
  BY <1>1 DEF Held
<1>3. config' = [config EXCEPT ![cli[c].dev] = cli[c].cfg] /\ owner' = owner
  BY DEF AssignWrite
<1>4. config \in [Devices -> Configs] /\ config[cli[c].dev] \in [Accounts -> Assignment]
  BY <1>1 DEF StoreTyped, Configs
<1> QED
  BY <1>1, <1>2, <1>3, <1>4 DEF ConfigNamesOwned

LEMMA OwnedAfterBind ==
  ASSUME StoreTyped, CliTyped, ConfigNamesOwned, NEW c \in Commands, Held(c), BindApply(c)
  PROVE  ConfigNamesOwned'
<1>1. cli[c].dev \in Devices /\ cli[c].acct \in Accounts
  BY BindApplied, OwnershipConstants DEF BindCommand
<1>2. owner' = owner
  BY DEF BindApply
<1>3. CASE UNCHANGED <<revision, config>>
  BY <1>2, <1>3 DEF ConfigNamesOwned
<1>4. CASE ~UNCHANGED <<revision, config>>
  <2>1. config[cli[c].dev] = cli[c].cfg /\ cli[c].cfg[cli[c].acct] # "absent"
    BY <1>4 DEF BindApply, Held
  <2>2. config' = [config EXCEPT ![cli[c].dev] =
                     [config[cli[c].dev] EXCEPT ![cli[c].acct] = cli[c].value]]
    BY <1>4, BindApplied
  <2>3. owner[cli[c].acct] = cli[c].dev
    BY <1>1, <2>1 DEF ConfigNamesOwned
  <2>4. config \in [Devices -> Configs] /\ config[cli[c].dev] \in [Accounts -> Assignment]
    BY <1>1 DEF StoreTyped, Configs
  <2> QED
    BY <1>1, <1>2, <2>2, <2>3, <2>4 DEF ConfigNamesOwned
<1> QED
  BY <1>3, <1>4

LEMMA CommandOwned ==
  ASSUME StoreTyped, CliTyped, ConfigNamesOwned, NEW c \in Commands, Held(c), Command(c)
  PROVE  ConfigNamesOwned'
<1>1. ASSUME NEW a \in Accounts, AssignServer(c, a) \/ Unassign(c, a) PROVE ConfigNamesOwned'
  BY <1>1, OwnedTransactions DEF AssignServer, Unassign
<1>2. ASSUME UNCHANGED adminVars PROVE ConfigNamesOwned'
  BY <1>2 DEF adminVars, ConfigNamesOwned
<1>3. ASSUME cli[c].step \in {"own", "undo"} PROVE cli[c].acct \in Accounts
  BY <1>3, CliFacts DEF AssignCommand, Step
<1>4. CASE AssignOwn(c)
  BY <1>2, <1>3, <1>4, OwnedTransactions DEF AssignOwn, Step
<1>5. CASE AssignUndo(c)
  BY <1>2, <1>3, <1>5, OwnedTransactions DEF AssignUndo, Step
<1>6. CASE AssignRevision(c) \/ AssignFails(c) \/ Kill(c)
  BY <1>2, <1>6 DEF AssignRevision, AssignFails, Kill
<1>7. ASSUME NEW d \in Devices, NEW a \in Accounts, AssignRead(c, d, a) \/ BindRead(c, d, a)
      PROVE  ConfigNamesOwned'
  BY <1>2, <1>7 DEF AssignRead, BindRead
<1> QED
  BY <1>1, <1>4, <1>5, <1>6, <1>7, OwnedAfterRevoke, OwnedAfterWrite, OwnedAfterBind DEF Command

(* A command leaves what it has read as it read it.                         *)
LEMMA CommandHolds ==
  ASSUME StoreTyped, CliTyped, NEW c \in Commands, Held(c), Command(c)
  PROVE  Held(c)'
<1>1. ASSUME cli'[c].step \in {"none", "undo"} PROVE Held(c)'
  BY <1>1 DEF Held, Step
<1>2. ASSUME Done(c) PROVE Held(c)'
  BY <1>1, <1>2 DEF Done, CliTyped, NoCommand
<1>3. ASSUME Step(c, "none"), UNCHANGED cli PROVE Held(c)'
  BY <1>1, <1>3 DEF Step
<1>4. ASSUME NEW a \in Accounts, AssignServer(c, a) \/ Unassign(c, a) PROVE Held(c)'
  BY <1>3, <1>4 DEF AssignServer, Unassign
<1>5. ASSUME NEW d \in Devices, Revoke(c, d) PROVE Held(c)'
  BY <1>3, <1>5 DEF Revoke
<1>6. ASSUME NEW d \in Devices, NEW a \in Accounts, AssignRead(c, d, a) PROVE Held(c)'
  <2>1. /\ cli'[c] = [step |-> "own", dev |-> d, acct |-> a, rev |-> 0,
                      cfg |-> [config[d] EXCEPT ![a] = "plain"]]
        /\ config' = config
    BY <1>6 DEF AssignRead, CliTyped, adminVars
  <2> QED
    BY <2>1 DEF Held, Step
<1>7. ASSUME NEW d \in Devices, NEW a \in Accounts, BindRead(c, d, a) PROVE Held(c)'
  <2>1. PICK v \in {"plain", "bound"} :
          cli' = [cli EXCEPT ![c] = [step |-> "bind", dev |-> d, acct |-> a, rev |-> revision[d],
                                     cfg |-> config[d], value |-> v]]
    BY <1>7 DEF BindRead
  <2>2. cli'[c].step = "bind" /\ cli'[c].cfg = config[d] /\ cli'[c].acct = a
    BY <2>1 DEF CliTyped
  <2> QED
    BY <1>7, <2>2 DEF BindRead, Held, Step
<1>8. CASE AssignOwn(c) /\ ~Done(c)
  <2>1. /\ Step(c, "own") /\ SetPollOwner(cli[c].acct, cli[c].dev)
        /\ cli' = [cli EXCEPT ![c] = [cli[c] EXCEPT !.step = "revision"]]
    BY <1>8 DEF AssignOwn, Goto
  <2>2. cli[c] \in AssignCommand
    BY <2>1, CliFacts
  <2>3. /\ cli'[c].step = "revision" /\ cli'[c].dev = cli[c].dev /\ cli'[c].acct = cli[c].acct
        /\ cli'[c].cfg = cli[c].cfg
    BY <2>1, <2>2 DEF CliTyped, AssignCommand
  <2>4. /\ owner' = [owner EXCEPT ![cli[c].acct] = cli[c].dev] /\ config' = config
    BY <2>1 DEF SetPollOwner
  <2>5. cli[c].cfg = [config[cli[c].dev] EXCEPT ![cli[c].acct] = "plain"]
    BY <2>1 DEF Held, Step
  <2>6. owner'[cli[c].acct] = cli[c].dev
    BY <2>2, <2>4 DEF StoreTyped, AssignCommand
  <2> QED
    BY <2>3, <2>4, <2>5, <2>6 DEF Held, Step
<1>9. CASE AssignRevision(c)
  <2>1. /\ cli' = [cli EXCEPT ![c] = [cli[c] EXCEPT !.step = "write",
                                                    !.rev = revision[cli[c].dev] + 1]]
        /\ UNCHANGED <<owner, revision, config>>
    BY <1>9 DEF AssignRevision, adminVars
  <2>2. cli[c] \in AssignCommand
    BY <1>9, CliFacts DEF AssignRevision
  <2>3. /\ cli'[c].step = "write" /\ cli'[c].dev = cli[c].dev /\ cli'[c].acct = cli[c].acct
        /\ cli'[c].cfg = cli[c].cfg /\ cli'[c].rev = revision[cli[c].dev] + 1
    BY <2>1, <2>2 DEF CliTyped, AssignCommand
  <2>4. /\ cli[c].cfg = [config[cli[c].dev] EXCEPT ![cli[c].acct] = "plain"]
        /\ owner[cli[c].acct] = cli[c].dev
    BY <1>9 DEF Held, Step, AssignRevision
  <2> QED
    BY <2>1, <2>3, <2>4 DEF Held, Step
<1>10. CASE AssignFails(c)
  <2>1. cli'[c].step = "undo"
    BY <1>10, CliFacts DEF AssignFails, Goto, CliTyped, AssignCommand, Step
  <2> QED
    BY <1>1, <2>1
<1> QED
  BY <1>2, <1>4, <1>5, <1>6, <1>7, <1>8, <1>9, <1>10
     DEF Command, AssignWrite, AssignUndo, BindApply, Kill

(* A command moves no other command.                                        *)
LEMMA OthersStay ==
  ASSUME NEW c \in Commands, Command(c), CliTyped, NEW e \in Commands, e # c
  PROVE  cli'[e] = cli[e]
<1>1. ASSUME NEW x, cli' = [cli EXCEPT ![c] = x] PROVE cli'[e] = cli[e]
  BY <1>1 DEF CliTyped
<1>2. ASSUME NEW s, Goto(c, s) PROVE cli'[e] = cli[e]
  BY <1>2 DEF Goto, CliTyped
<1>3. ASSUME NEW d \in Devices, NEW a \in Accounts, AssignRead(c, d, a) \/ BindRead(c, d, a)
      PROVE  cli'[e] = cli[e]
  BY <1>3 DEF AssignRead, BindRead, CliTyped
<1>4. ASSUME Done(c) PROVE cli'[e] = cli[e]
  BY <1>1, <1>4 DEF Done
<1>5. ASSUME NEW d \in Devices, Revoke(c, d) PROVE cli'[e] = cli[e]
  BY <1>5 DEF Revoke
<1>6. ASSUME NEW a \in Accounts, AssignServer(c, a) \/ Unassign(c, a) PROVE cli'[e] = cli[e]
  BY <1>6 DEF AssignServer, Unassign
<1>7. CASE AssignRevision(c)
  BY <1>7 DEF AssignRevision, CliTyped
<1> QED
  BY <1>2, <1>3, <1>4, <1>5, <1>6, <1>7
     DEF Command, AssignOwn, AssignWrite, AssignFails, AssignUndo, BindApply, Kill

(* While assignments are apart, what the other commands read stays as well. *)
LEMMA OthersHeld ==
  ASSUME Apart, NEW e \in Commands, Held(e), cli'[e] = cli[e]
  PROVE  Held(e)'
<1>1. CASE Assigning(e)
  <2>1. /\ revision'[cli[e].dev] = revision[cli[e].dev]
        /\ config'[cli[e].dev] = config[cli[e].dev]
        /\ owner[cli[e].acct] = cli[e].dev => owner'[cli[e].acct] = cli[e].dev
    BY <1>1 DEF Apart
  <2> QED
    BY <1>1, <2>1 DEF Held, Step, Assigning
<1>2. CASE ~Assigning(e)
  BY <1>2 DEF Held, Step, Assigning
<1> QED
  BY <1>1, <1>2

LEMMA ApartStep == ApartInv /\ [Next]_vars /\ [Apart]_vars => ApartInv'
<1> SUFFICES ASSUME ApartInv, [Next]_vars, [Apart]_vars PROVE ApartInv'
  OBVIOUS
<1>1. /\ GInv /\ ConfigNamesOwned /\ CommandsHeld /\ AllFollow
      /\ StoreTyped /\ CliTyped /\ CollectorTyped /\ faults \in 0..MaxFaults
  BY DEF ApartInv, GInv, Typed
<1>2. GInv'
  BY <1>1, OwnershipStep
<1>3. ASSUME UNCHANGED <<adminVars, cli>> PROVE ConfigNamesOwned' /\ CommandsHeld'
  BY <1>1, <1>3 DEF adminVars, ConfigNamesOwned, CommandsHeld, Held, Step
<1>4. CASE UNCHANGED vars
  <2>1. UNCHANGED <<adminVars, cli>>
    BY <1>4 DEF vars
  <2>2. AllFollow'
    BY <1>1, <1>4 DEF vars, adminVars, collectorVars, AllFollow, Follows, Names, Assigned
  <2> QED
    BY <1>2, <1>3, <2>1, <2>2 DEF ApartInv
<1>5. ASSUME NEW c \in Commands, Command(c), Apart PROVE ApartInv'
  <2>1. Held(c)
    BY <1>1 DEF CommandsHeld
  <2>2. ConfigNamesOwned'
    BY <1>1, <1>5, <2>1, CommandOwned
  <2>3. CommandsHeld'
    <3>1. Held(c)'
      BY <1>1, <1>5, <2>1, CommandHolds
    <3>2. ASSUME NEW e \in Commands, e # c PROVE Held(e)'
      <4>1. Held(e)
        BY <1>1 DEF CommandsHeld
      <4>2. cli'[e] = cli[e]
        BY <1>1, <1>5, <3>2, OthersStay
      <4> QED
        BY <1>5, <4>1, <4>2, OthersHeld
    <3> QED
      BY <3>1, <3>2 DEF CommandsHeld
  <2>4. UNCHANGED collectorVars
    BY <1>1, <1>5, CommandKeeps DEF OwnersOK, GInv
  <2>5. \A d \in Devices : Moves(d)
    BY <1>1, <1>5, <2>1, CommandMoves
  <2>6. AllFollow'
    BY <1>1, <2>4, <2>5, CommandFollows
  <2> QED
    BY <1>2, <2>2, <2>3, <2>6 DEF ApartInv
<1>6. ASSUME NEW d \in Devices, Collector(d) PROVE ApartInv'
  <2>1. UNCHANGED <<adminVars, cli>>
    BY <1>1, <1>6, CollectorKeeps
  <2>2. AllFollow'
    BY <1>1, <1>6, <2>1, CollectorFollows
  <2> QED
    BY <1>2, <1>3, <2>1, <2>2 DEF ApartInv
<1> QED
  BY <1>4, <1>5, <1>6 DEF Next

LEMMA ApartInitially == Init => ApartInv
<1> SUFFICES ASSUME Init PROVE ApartInv
  OBVIOUS
<1>1. GInv
  BY InitTyped DEF GInv, Init, RevokedOwnsNothing
<1>2. ConfigNamesOwned
  BY DEF Init, ConfigNamesOwned, Empty
<1>3. CommandsHeld
  BY DEF Init, CommandsHeld, Held, Step, NoCommand
<1>4. AllFollow
  BY OwnershipConstants DEF Init, AllFollow, Follows, Names
<1> QED
  BY <1>1, <1>2, <1>3, <1>4 DEF ApartInv

(* The inductive invariant while assignments are apart: a command finds     *)
(* what it read, and every revision that a collector holds in memory, in    *)
(* its file or in an answer names one configuration.                        *)
THEOREM ApartInvariant == Spec /\ [][Apart]_vars => []ApartInv
<1>1. Init => ApartInv
  BY ApartInitially
<1> QED
  BY <1>1, ApartStep, PTL DEF Spec

(* A step of a command that assigns moves the command.                      *)
LEMMA AssignmentMoves ==
  ASSUME CliTyped, NEW c \in Commands, Command(c), Assigning(c)
  PROVE  cli'[c] # cli[c]
<1>1. ~Step(c, "none") /\ ~Step(c, "undo") /\ ~Step(c, "bind")
  BY DEF Assigning, Step
<1>2. Step(c, "own") \/ Step(c, "revision") \/ Step(c, "write")
  BY DEF Assigning, Step
<1>3. cli[c] \in AssignCommand
  BY <1>2, CliFacts
<1>4. ASSUME Done(c) PROVE cli'[c] # cli[c]
  <2>1. cli'[c].step = "none"
    BY <1>4 DEF Done, CliTyped, NoCommand
  <2> QED
    BY <1>1, <2>1 DEF Step
<1>5. ASSUME NEW s \in {"revision", "undo"}, Goto(c, s), cli[c].step # s PROVE cli'[c] # cli[c]
  <2>1. cli'[c].step = s
    BY <1>3, <1>5 DEF Goto, CliTyped, AssignCommand
  <2> QED
    BY <1>5, <2>1
<1>6. CASE AssignRevision(c)
  <2>1. cli'[c].step = "write"
    BY <1>3, <1>6 DEF AssignRevision, CliTyped, AssignCommand
  <2>2. cli[c].step = "revision"
    BY <1>6 DEF AssignRevision, Step
  <2> QED
    BY <2>1, <2>2
<1>7. ASSUME AssignOwn(c) PROVE cli'[c] # cli[c]
  BY <1>4, <1>5, <1>7 DEF AssignOwn, Step
<1>8. ASSUME AssignFails(c) PROVE cli'[c] # cli[c]
  BY <1>1, <1>5, <1>8 DEF AssignFails, Step
<1>9. ASSUME NEW a \in Accounts PROVE ~AssignServer(c, a) /\ ~Unassign(c, a)
  BY <1>1 DEF AssignServer, Unassign
<1>10. ASSUME NEW d \in Devices PROVE ~Revoke(c, d)
  BY <1>1 DEF Revoke
<1>11. ASSUME NEW d \in Devices, NEW a \in Accounts PROVE ~AssignRead(c, d, a) /\ ~BindRead(c, d, a)
  BY <1>1 DEF AssignRead, BindRead
<1> QED
  BY <1>4, <1>6, <1>7, <1>8, <1>9, <1>10, <1>11
     DEF Command, AssignWrite, AssignUndo, BindApply, Kill

LEMMA OneCommandStep ==
  ASSUME OneCommand, GInv, [Next]_vars
  PROVE  [Apart]_vars
<1>1. OwnersOK /\ CliTyped /\ CollectorTyped /\ faults \in 0..MaxFaults
  BY DEF GInv, Typed, OwnersOK
<1>2. ASSUME NEW c \in Commands, Command(c) PROVE Apart
  <2>1. \A e \in Commands : e = c
    BY DEF OneCommand
  <2>2. Assigning(c) => cli'[c] # cli[c]
    BY <1>1, <1>2, AssignmentMoves
  <2> QED
    BY <2>1, <2>2 DEF Apart
<1>3. ASSUME NEW d \in Devices, Collector(d) PROVE Apart
  <2>1. UNCHANGED adminVars
    BY <1>1, <1>3, CollectorKeeps DEF OwnersOK
  <2> QED
    BY <2>1 DEF adminVars, Apart
<1> QED
  BY <1>2, <1>3 DEF Next

(* A single command-line process keeps assignments apart whatever it does,  *)
(* is killed in or fails at: the theorems below hold of every run of one.   *)
THEOREM OneCommandIsApart ==
  ASSUME OneCommand
  PROVE  Spec => [][Apart]_vars
<1>1. GInv /\ [Next]_vars => [Apart]_vars
  BY OneCommandStep
<1> QED
  BY <1>1, OwnershipInvariant, PTL DEF Spec

(* ConfigNamesOwned: while assignments are apart, a device is told to poll  *)
(* only what it owns, also when a command is killed or its write fails      *)
(* between the two tables.                                                  *)
THEOREM ConfigOwned == Spec /\ [][Apart]_vars => []ConfigNamesOwned
<1>1. ApartInv => ConfigNamesOwned
  BY DEF ApartInv
<1> QED
  BY <1>1, ApartInvariant, PTL

(* CollectorsAgree: while assignments are apart, a revision stands for one  *)
(* configuration, in the memory of the collector and in its file.           *)
THEOREM RevisionNamesConfig == Spec /\ [][Apart]_vars => []CollectorsAgree
<1>1. ApartInv => CollectorsAgree
  BY DEF ApartInv, AllFollow, Follows, Names, CollectorsAgree
<1> QED
  BY <1>1, ApartInvariant, PTL

LEMMA AcceptedStep ==
  ASSUME ApartInv, [Next]_vars, NEW d \in Devices, NEW o \in answer'[d].refused \ answer[d].refused
  PROVE  o.rev # revision[d]
<1>1. /\ ConfigNamesOwned /\ Follows(d)
      /\ StoreTyped /\ CliTyped /\ CollectorTyped /\ OwnersOK /\ faults \in 0..MaxFaults
  BY DEF ApartInv, AllFollow, GInv, Typed, OwnersOK
<1>2. ASSUME UNCHANGED answer PROVE FALSE
  BY <1>2
<1>3. ASSUME NEW c \in Commands, Command(c) PROVE FALSE
  <2>1. UNCHANGED collectorVars
    BY <1>1, <1>3, CommandKeeps
  <2> QED
    BY <1>2, <2>1 DEF collectorVars
<1>4. ASSUME NEW e \in Devices, Collector(e) PROVE e = d /\ Store(d)
  <2>1. ASSUME answer'[d].refused = {} PROVE FALSE
    BY <2>1
  <2>2. CASE e # d
    <3>1. answer'[d] = answer[d]
      BY <1>1, <1>4, <2>2
         DEF Collector, Request, Store, Adopt, LoseAnswer, RestartCollector, Poll, CollectorTyped
    <3> QED
      BY <3>1
  <2>3. ~(e = d /\ Request(d))
    BY <1>1, <2>1 DEF Request, CollectorTyped
  <2>4. ~(e = d /\ (Adopt(d) \/ LoseAnswer(d) \/ RestartCollector(d)))
    BY <1>1, <2>1 DEF Adopt, LoseAnswer, RestartCollector, CollectorTyped, NoAnswer
  <2>5. \A a \in Accounts : ~Poll(e, a)
    BY <1>2 DEF Poll
  <2> QED
    BY <1>4, <2>2, <2>3, <2>4, <2>5 DEF Collector
<1>5. CASE Store(d)
  <2>1. answer[d] \in Exchange /\ answer[d] # NoAnswer
    BY <1>1, <1>5, AdoptKeeps DEF Store, NoAnswer
  <2>2. answer'[d].refused = OwnershipConflict(d, answer[d].batch)
    BY <1>1, <1>5, <2>1 DEF Store, CollectorTyped, Exchange
  <2>3. o \in answer[d].batch /\ owner[o.acct] # d
    BY <2>2 DEF OwnershipConflict
  <2>4. o.acct \in Accounts
    BY <2>1, <2>3 DEF Exchange, Observations
  <2>5. Assigned(d, o)
    BY <1>1, <2>1, <2>3 DEF Follows
  <2> QED
    BY <1>1, <2>3, <2>4, <2>5 DEF ConfigNamesOwned, Assigned
<1>6. CASE UNCHANGED vars
  BY <1>2, <1>6 DEF vars, collectorVars
<1> QED
  BY <1>3, <1>4, <1>5, <1>6 DEF Next

(* CurrentPollsAccepted: while assignments are apart, an observation made   *)
(* under the current revision is never refused for a lack of ownership.     *)
THEOREM AssignedPollsAccepted == Spec /\ [][Apart]_vars => CurrentPollsAccepted
<1>1. ApartInv /\ [Next]_vars =>
        [\A d \in Devices : \A o \in answer'[d].refused \ answer[d].refused : o.rev # revision[d]]_vars
  BY AcceptedStep
<1> QED
  BY <1>1, ApartInvariant, PTL DEF Spec, CurrentPollsAccepted

=============================================================================
