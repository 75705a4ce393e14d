---------------------------- MODULE ProviderAuth ----------------------------
(***************************************************************************)
(* The credentials of the polling agents (internal/agent): how the poll of *)
(* a Codex, Cursor, Gemini or Anthropic agent reads the token another      *)
(* program keeps on disk, renews it, sends it, reacts to a refusal, pauses *)
(* and comes back.  The owner of the credentials (the provider's own       *)
(* program and its user) renews, replaces or removes them at any time in   *)
(* between, the provider revokes them, and the agent is restarted.         *)
(*                                                                         *)
(* One agent of one kind per behaviour:                                    *)
(*   codex         a default profile with CODEX_TOKEN_ROTATION=on          *)
(*   codex_owned   a profile with a credential home, read only             *)
(*   cursor, gemini                                                        *)
(*   claude        reads Claude Code's token                               *)
(*   claude_hybrid the same, with usage from the statusline file           *)
(*   claude_owner  an isolated profile that `claude` renews on demand      *)
(*                                                                         *)
(* A step of a poll lies between two points where another program can be   *)
(* seen: a read or write of the credentials, a request.                    *)
(*                                                                         *)
(* Cursor keeps its tokens in two places, its SQLite database (disk) and   *)
(* the keyring (db); a renewed pair is written to both, one token after    *)
(* the other, and the save is reported when each token is in either.       *)
(***************************************************************************)
EXTENDS Naturals

CONSTANTS
  Kinds,        \* the agents under check
  Tokens,       \* bound: 1 .. Tokens are issued
  MaxFailures,  \* maxAuthFailures and its namesakes
  MaxFaults     \* bound: lost requests, failed writes, restarts, changes of borrowed

Claude == {"claude", "claude_hybrid", "claude_owner"}
Codex == {"codex", "codex_owned"}

ASSUME AuthConstants ==
  /\ Kinds \subseteq Claude \cup Codex \cup {"cursor", "gemini"}
  /\ Tokens \in Nat \ {0} /\ MaxFailures \in Nat \ {0} /\ MaxFaults \in Nat

VARIABLES
  kind,
  age,       \* of each access token: "unissued", "fresh", "expiring", "expired"
  dead,      \* revoked access tokens that have not expired, revoked or used refresh tokens
  disk,      \* the credentials on disk; cursor: in its SQLite database
  db,        \* gemini: the tokens in the settings table; cursor: those in the keyring
  borrowed,  \* claude_owner: the default profile has a usable token
  agent, poll,
  health,    \* the last outcome reported to supervision
  sent,      \* refresh tokens the agent has used and whose successor no write of its has missed
  named,     \* pairs [access, refresh] for which a poll has left the agent paused, the
             \* refresh token being a Gemini agent's
  faults

authVars == <<kind, age, dead, disk, db, borrowed, agent, poll, health, sent, named, faults>>
credentials == <<age, dead, disk, db, borrowed>>

Nobody == [access |-> 0, refresh |-> 0]
Borrowed == Tokens + 1

NoPoll == [pc |-> "idle", creds |-> Nobody, issued |-> Nobody, retry |-> FALSE,
           wasPaused |-> FALSE, message |-> FALSE, usable |-> FALSE,
           writes |-> 0, kept |-> {}] \* cursor: the writes of a save, the tokens in some place

Started(token) ==
  [client |-> token, start |-> IF kind = "codex" THEN token ELSE 0,
   last |-> 0, failed |-> 0, failedRefresh |-> 0,
   fails |-> 0, refreshFails |-> 0, paused |-> FALSE, waiting |-> FALSE,
   borrowing |-> FALSE, cycle |-> FALSE]

AuthInit ==
  /\ kind \in Kinds
  /\ age = [t \in 1 .. Tokens |-> IF t = 1 THEN "fresh" ELSE "unissued"]
  /\ dead = [access |-> {}, refresh |-> {}]
  /\ disk \in {Nobody, [access |-> 1, refresh |-> 1]} /\ (kind # "cursor" => disk # Nobody)
  /\ db \in {Nobody, [access |-> 1, refresh |-> 1]} /\ (kind # "cursor" => db = Nobody)
  /\ <<disk, db>> # <<Nobody, Nobody>>
  /\ borrowed \in BOOLEAN /\ (borrowed => kind = "claude_owner")
  /\ agent = Started(1)
  /\ poll = NoPoll
  /\ health = "none"
  /\ sent = {}
  /\ named = {}
  /\ faults = 0

-----------------------------------------------------------------------------
(* What the agents read. *)

Expired(t) == t # 0 /\ age[t] = "expired"
NearExpiry(c) == c.access # 0 /\ age[c.access] # "fresh"

\* the table has priority over the file, field by field
Merged == [access |-> IF db.access # 0 THEN db.access ELSE disk.access,
           refresh |-> IF db.refresh # 0 THEN db.refresh ELSE disk.refresh]

DetectCredentials ==
  CASE kind = "gemini" -> Merged
    [] kind = "cursor" /\ disk = Nobody -> db
    [] OTHER -> disk

DetectToken ==
  CASE kind = "codex" /\ disk.access = 0 -> agent.start
    [] kind \in Claude /\ Expired(disk.access) -> 0
    [] kind = "cursor" -> DetectCredentials.access
    [] OTHER -> disk.access

-----------------------------------------------------------------------------
(* How a poll ends and how it goes on. *)

End(outcome, a) ==
  /\ agent' = a
  /\ poll' = NoPoll
  /\ health' = CASE outcome = "success" \/ (outcome = "failure" /\ poll.usable) -> "up"
                 [] outcome = "failure" /\ ~poll.usable -> "down"
                 [] outcome = "silent" -> health
  /\ named' = named \cup
       IF a.paused /\ a.failed # 0 THEN {[access |-> a.failed, refresh |-> a.failedRefresh]} ELSE {}

Go(pc, p, a) ==
  /\ agent' = a
  /\ poll' = [p EXCEPT !.pc = pc]
  /\ UNCHANGED <<health, named>>

Fault == faults < MaxFaults /\ faults' = faults + 1
NoFault == UNCHANGED faults

Adopt(a, t) == [a EXCEPT !.client = t, !.last = t]
Lift(a) == [a EXCEPT !.paused = FALSE, !.fails = 0, !.failed = 0]
Pause(a, t) == [a EXCEPT !.paused = TRUE, !.failed = t]

(* Mutant: a token that is not the one that failed does not lift the pause. *)
Changed_Never(a, t) == a

(* Mutant: any token lifts the pause. *)
Changed_Any(a, t) == IF a.paused THEN Lift(a) ELSE a

\* other credentials than those that failed
Changed(a, t) == IF a.paused /\ t # a.failed THEN Lift(a) ELSE a

\* failures are only compared with the limit, which they may pass
OneMore(n) == IF n < MaxFailures THEN n + 1 ELSE n

Counted(a, t) ==
  LET c == [a EXCEPT !.fails = OneMore(a.fails)]
  IN  IF c.fails >= MaxFailures THEN Pause(c, t) ELSE c

\* pauseAuthentication and resetAuthenticationFailures of the Gemini agent
PauseAuthentication(a, t, r) ==
  LET c == [a EXCEPT !.fails = OneMore(a.fails)]
  IN  IF c.fails >= MaxFailures
      THEN [Pause(c, t) EXCEPT !.failedRefresh = r, !.waiting = TRUE]
      ELSE c

ResetAuthentication(a) ==
  [Lift(a) EXCEPT !.failedRefresh = 0, !.waiting = FALSE]

-----------------------------------------------------------------------------
(* The first step of a poll: the credentials are read, a paused agent      *)
(* decides whether it tries.                                               *)

Read(usable) == [NoPoll EXCEPT !.creds = DetectCredentials, !.wasPaused = agent.paused,
                             !.usable = usable]

RenewFirst(a) ==
  LET c == DetectCredentials
  IN  IF NearExpiry(c) /\ c.refresh # 0
      THEN Go("oauth", Read(FALSE), a) ELSE Go("token", Read(FALSE), a)

BeginCodex ==
  /\ kind \in Codex
  /\ IF kind = "codex" /\ ~agent.paused THEN RenewFirst(agent)
                                        ELSE Go("token", Read(FALSE), agent)

Resumes(t) == t \notin {0, agent.failed}

BeginCursor ==
  /\ kind = "cursor"
  /\ \/ ~agent.paused /\ RenewFirst(agent)
     \/ /\ agent.paused /\ Resumes(DetectToken)
        /\ RenewFirst([agent EXCEPT !.paused = FALSE, !.fails = 0, !.client = DetectToken])
     \/ agent.paused /\ ~Resumes(DetectToken) /\ End("silent", agent)

BeginGemini ==
  LET new == Merged.refresh \notin {0, agent.failedRefresh}
  IN  /\ kind = "gemini"
      /\ \/ ~agent.paused /\ RenewFirst(agent)
         \/ agent.paused /\ new /\ RenewFirst(ResetAuthentication(agent))
         \/ agent.paused /\ ~new /\ ~agent.waiting /\ RenewFirst([agent EXCEPT !.paused = FALSE])
         \/ agent.paused /\ ~new /\ agent.waiting /\ End("silent", agent)

\* the owner of the isolated profile has failed: its last token is dropped, or
\* one of the default profile is used
OwnerFailed(p, a) ==
  IF borrowed
  THEN Go("token", p, [a EXCEPT !.client = Borrowed, !.paused = FALSE, !.fails = 0,
                                !.borrowing = TRUE])
  ELSE End("failure", [a EXCEPT !.client = 0, !.last = 0, !.failed = p.creds.access,
                                !.borrowing = FALSE])

BeginOwner ==
  /\ kind = "claude_owner"
  /\ LET p == Read(FALSE)
     IN  IF disk.access # 0 /\ ~Expired(disk.access) THEN Go("token", p, agent)
         ELSE IF agent.waiting THEN OwnerFailed(p, agent) ELSE Go("owner", p, agent)

BeginClaude ==
  /\ kind \in {"claude", "claude_hybrid"}
  /\ \/ Go("token", Read(FALSE), agent) \* no usable statusline
     \/ /\ kind = "claude_hybrid"
        /\ LET a == [agent EXCEPT !.cycle = ~@]
           IN  IF agent.cycle THEN Go("token", Read(TRUE), a) ELSE End("success", a)

BeginPoll ==
  /\ poll.pc = "idle"
  /\ BeginCodex \/ BeginCursor \/ BeginGemini \/ BeginOwner \/ BeginClaude
  /\ NoFault
  /\ UNCHANGED <<kind, credentials, sent>>

\* the usage of the statusline file cannot be stored
StatuslineFails ==
  /\ poll.pc = "idle" /\ kind = "claude_hybrid"
  /\ Fault
  /\ End("failure", agent)
  /\ UNCHANGED <<kind, credentials, sent>>

-----------------------------------------------------------------------------
(* Renewal. *)

Unissued == {t \in 1 .. Tokens : age[t] = "unissued"}
OneTime == kind # "gemini"   \* Google keeps the refresh token
Renewable(c) == c.refresh # 0 /\ c.refresh \notin dead.refresh /\ Unissued # {}
Fresh == CHOOSE t \in Unissued : \A u \in Unissued : t <= u

\* the provider answers a refresh token with a new pair
Issued(c) == [access |-> Fresh, refresh |-> IF OneTime THEN Fresh ELSE c.refresh]

Issue(c) ==
  /\ Renewable(c)
  /\ age' = [age EXCEPT ![Fresh] = "fresh"]
  /\ dead' = IF OneTime THEN [dead EXCEPT !.refresh = @ \cup {c.refresh}] ELSE dead

RenewalFails(reason) ==
  LET p == [poll EXCEPT !.message = TRUE]
      more == [agent EXCEPT !.refreshFails = OneMore(agent.refreshFails)]
      gone == [agent EXCEPT !.paused = TRUE]
  IN  CASE kind = "codex" /\ reason = "reused" -> Go("token", p, Pause(agent, poll.creds.access))
        [] kind = "codex" /\ reason # "reused" ->
             IF more.refreshFails >= MaxFailures
             THEN Go("token", p, Pause(more, poll.creds.access)) ELSE Go("token", poll, more)
        [] kind = "cursor" /\ poll.retry -> End("failure", gone)
        [] kind = "cursor" /\ ~poll.retry -> Go("token", poll, IF reason = "reused" THEN gone ELSE agent)
        [] kind = "gemini" /\ poll.retry ->
             End("failure", PauseAuthentication(agent, agent.last, poll.creds.refresh))
        [] kind = "gemini" /\ ~poll.retry -> Go("token", poll, agent)

RenewAccepted ==
  /\ poll.pc = "oauth"
  /\ Issue(poll.creds)
  /\ Go("save", [poll EXCEPT !.issued = Issued(poll.creds), !.writes = 0, !.kept = {}], agent)
  /\ sent' = IF OneTime THEN sent \cup {poll.creds.refresh} ELSE sent
  /\ NoFault
  /\ UNCHANGED <<kind, disk, db, borrowed>>

RenewRefused ==
  /\ poll.pc = "oauth" /\ ~Renewable(poll.creds)
  /\ \E reason \in {"reused", "other"} : RenewalFails(reason)
  /\ NoFault
  /\ UNCHANGED <<kind, credentials, sent>>

\* the request or its answer is lost
RenewLost ==
  /\ poll.pc = "oauth"
  /\ Fault
  /\ RenewalFails("other")
  /\ Issue(poll.creds) \/ UNCHANGED <<age, dead>>
  /\ UNCHANGED <<kind, disk, db, borrowed, sent>>

(* Mutant: the refresh token of the answer is not written. *)
WriteCredentials_AccessOnly(c) == [disk EXCEPT !.access = c.access]

WriteCredentials(c) ==
  IF kind = "gemini" THEN [disk EXCEPT !.access = c.access] ELSE c

SaveCodex(saved) ==
  LET a == [agent EXCEPT !.refreshFails = 0]
  IN  /\ poll.pc = "save" /\ kind = "codex"
      /\ Go("token", poll, IF saved THEN Adopt(a, poll.issued.access) ELSE a)
      /\ disk' = IF saved THEN WriteCredentials(poll.issued) ELSE disk
      /\ sent' = IF saved THEN sent ELSE sent \ {poll.creds.refresh}
      /\ IF saved THEN NoFault ELSE Fault
      /\ UNCHANGED <<kind, age, dead, db, borrowed>>

\* access and refresh token to the database, access and refresh token to the keyring
AllWrites == 4
Kept == {"access", "refresh"}
Field == IF poll.writes \in {0, 2} THEN "access" ELSE "refresh"
Place == IF poll.writes < 2 THEN disk ELSE db
PlaceDone == IF poll.writes < 2 THEN 2 ELSE AllWrites

Writing == poll.pc = "save" /\ kind = "cursor" /\ poll.writes < AllWrites

CursorWriteSucceeds ==
  LET written == [Place EXCEPT ![Field] = poll.issued[Field]]
  IN  /\ Writing
      /\ IF poll.writes < 2 THEN disk' = written /\ db' = db ELSE disk' = disk /\ db' = written
      /\ Go("save", [poll EXCEPT !.writes = @ + 1, !.kept = @ \cup {Field}], agent)
      /\ NoFault
      /\ UNCHANGED <<kind, age, dead, borrowed, sent>>

\* of one token or of both; a place that holds nothing may not be there at all,
\* one that keeps the old refresh token is as bad as no save
CursorWriteFails ==
  /\ Writing
  /\ \E next \in {poll.writes + 1, PlaceDone} :
       /\ Go("save", [poll EXCEPT !.writes = next], agent)
       /\ sent' = IF Place = Nobody \/ next < PlaceDone THEN sent ELSE sent \ {poll.creds.refresh}
  /\ IF Place = Nobody THEN NoFault ELSE Fault
  /\ UNCHANGED <<kind, credentials>>

\* the save is reported, or its error
SaveCursor ==
  /\ poll.pc = "save" /\ kind = "cursor" /\ poll.writes = AllWrites
  /\ CASE poll.kept = Kept -> Go("fetch", poll, [Adopt(agent, poll.issued.access) EXCEPT !.failed = 0])
       [] poll.kept # Kept /\ poll.retry -> End("failure", [agent EXCEPT !.paused = TRUE])
       [] poll.kept # Kept /\ ~poll.retry -> Go("token", poll, agent)
  /\ NoFault
  /\ UNCHANGED <<kind, credentials, sent>>

\* file and table are written one after the other, a failure of either is ignored
SaveGemini ==
  LET c == poll.issued
  IN  /\ poll.pc = "save" /\ kind = "gemini"
      /\ Go(IF poll.retry THEN "fetch" ELSE "token", [poll EXCEPT !.creds.access = c.access],
            Adopt(agent, c.access))
      /\ \/ disk' = WriteCredentials(c) /\ db' = c /\ NoFault
         \/ disk' = WriteCredentials(c) /\ db' = db /\ Fault
         \/ disk' = disk /\ db' = c /\ Fault
      /\ UNCHANGED <<kind, age, dead, borrowed, sent>>

\* `claude` renews the isolated profile; it may fail, and it may succeed without
\* a token that can be used
OwnerRefresh ==
  LET better == [agent EXCEPT !.refreshFails = 0, !.waiting = FALSE, !.borrowing = FALSE]
      worse == [agent EXCEPT !.refreshFails = OneMore(agent.refreshFails),
                             !.waiting = OneMore(agent.refreshFails) = MaxFailures]
  IN  /\ poll.pc = "owner"
      /\ \/ /\ Issue(disk)
            /\ disk' = Issued(disk)
            /\ Go("token", poll, IF agent.paused THEN Lift(better) ELSE better)
            /\ NoFault
         \/ /\ ~Renewable(disk) /\ DetectToken # 0
            /\ Go("token", poll, IF agent.paused THEN Lift(better) ELSE better)
            /\ NoFault /\ UNCHANGED <<age, dead, disk>>
         \/ /\ IF Renewable(disk) THEN Fault ELSE NoFault
            /\ OwnerFailed(poll, worse)
            /\ UNCHANGED <<age, dead, disk>>
      /\ UNCHANGED <<kind, db, borrowed, sent>>

-----------------------------------------------------------------------------
(* The token is read and adopted, a pause is lifted or holds. *)

(* Mutant: the poll in which the agent pauses is skipped as well. *)
Quiet_Always(p) == "silent"

Quiet(p) == IF ~p.wasPaused \/ p.message THEN "failure" ELSE "silent"

Paused(p, a) == IF a.paused THEN End(Quiet(p), a) ELSE Go("fetch", p, a)

TokenCodex ==
  LET t == DetectToken
  IN  CASE t = 0 -> End("failure", agent)
        [] t \notin {0, agent.last} -> Paused(poll, Changed(Adopt(agent, t), t))
        [] OTHER -> Paused(poll, agent)

TokenCursor ==
  LET t == DetectToken
  IN  Go("fetch", poll, IF t \notin {0, agent.failed, agent.last} THEN Adopt(agent, t) ELSE agent)

\* gemini adopts the token it read at the start of the poll
TokenGemini ==
  LET t == poll.creds.access
  IN  Go("fetch", poll, IF t \notin {0, agent.last} THEN Adopt(agent, t) ELSE agent)

TokenClaude ==
  LET t == DetectToken
      a == CASE t = 0 /\ ~agent.borrowing -> [agent EXCEPT !.client = 0,
                                                           !.last = IF agent.client # 0 THEN 0 ELSE @]
             [] t # 0 /\ (t # agent.last \/ agent.borrowing) ->
                  Changed([Adopt(agent, t) EXCEPT !.borrowing = FALSE], t)
             [] OTHER -> agent
  IN  IF ~a.paused /\ a.client = 0 THEN End("failure", a) ELSE Paused([poll EXCEPT !.message = FALSE], a)

ReadToken ==
  /\ poll.pc = "token"
  /\ CASE kind \in Codex -> TokenCodex
       [] kind = "cursor" -> TokenCursor
       [] kind = "gemini" -> TokenGemini
       [] kind \in Claude -> TokenClaude
  /\ NoFault
  /\ UNCHANGED <<kind, credentials, sent>>

-----------------------------------------------------------------------------
(* The request, and the second one after a refusal. *)

Accepted(t) ==
  IF t = Borrowed THEN borrowed
  ELSE t # 0 /\ age[t] \in {"fresh", "expiring"} /\ t \notin dead.access

\* after an answer; a Gemini agent resets its failures at once or once the
\* snapshot is stored
Answered(stored) ==
  CASE kind = "cursor" -> [agent EXCEPT !.fails = 0, !.paused = FALSE]
    [] kind = "gemini" /\ (stored \/ ~poll.retry) -> ResetAuthentication(agent)
    [] OTHER -> [agent EXCEPT !.fails = 0]

FetchAnswers(stored) ==
  /\ poll.pc = "fetch" /\ Accepted(agent.client)
  /\ End(IF stored THEN "success" ELSE "failure", Answered(stored))
  /\ IF stored THEN NoFault ELSE Fault
  /\ UNCHANGED <<kind, credentials, sent>>

\* no answer, a server error, a rate limit
FetchFails ==
  /\ poll.pc = "fetch"
  /\ Fault
  /\ End("failure", agent)
  /\ UNCHANGED <<kind, credentials, sent>>

RefusedFirst ==
  LET cursor == [agent EXCEPT !.fails = OneMore(agent.fails), !.failed = agent.client]
  IN  CASE kind \in Codex \cup Claude ->
             Go("reread", [poll EXCEPT !.retry = TRUE], [agent EXCEPT !.last = 0])
        [] kind = "cursor" /\ cursor.fails < MaxFailures -> End("failure", cursor)
        [] kind = "cursor" /\ cursor.fails >= MaxFailures ->
             Go("reread", [poll EXCEPT !.retry = TRUE], cursor)
        [] kind = "gemini" -> Go("reread", [poll EXCEPT !.retry = TRUE], agent)

RefusedAgain ==
  CASE kind \in Codex \cup Claude -> End("failure", Counted(agent, agent.client))
    [] kind = "cursor" -> End("failure", [agent EXCEPT !.paused = TRUE])
    [] kind = "gemini" ->
         End("failure", PauseAuthentication(agent, agent.client, poll.creds.refresh))

FetchRefused ==
  /\ poll.pc = "fetch" /\ ~Accepted(agent.client)
  /\ IF poll.retry THEN RefusedAgain ELSE RefusedFirst
  /\ NoFault
  /\ UNCHANGED <<kind, credentials, sent>>

RereadToken ==
  IF DetectToken = 0 THEN End("failure", agent) ELSE Go("fetch", poll, Adopt(agent, DetectToken))

RereadCredentials ==
  LET c == DetectCredentials
  IN  CASE c.refresh # 0 -> Go("oauth", [poll EXCEPT !.creds = c], agent)
        [] c.refresh = 0 /\ kind = "cursor" -> End("failure", [agent EXCEPT !.paused = TRUE])
        [] OTHER -> End("failure", agent)

Reread ==
  /\ poll.pc = "reread"
  /\ IF kind \in {"cursor", "gemini"} THEN RereadCredentials ELSE RereadToken
  /\ NoFault
  /\ UNCHANGED <<kind, credentials, sent>>

-----------------------------------------------------------------------------
(* The agent's surroundings. *)

\* authRetryAt or ownerRetryAt passes; the Gemini agent then tries the token again
RetryWindowElapses ==
  /\ agent.waiting
  /\ agent' = [agent EXCEPT !.waiting = FALSE]
  /\ named' = IF kind = "gemini" THEN {} ELSE named
  /\ UNCHANGED <<kind, credentials, poll, health, sent, faults>>

Restart ==
  /\ Fault
  /\ agent' = Started(DetectToken)
  /\ poll' = NoPoll
  /\ health' = "none"
  /\ named' = {}
  /\ sent' = IF poll.pc = "save" THEN sent \ {poll.creds.refresh} ELSE sent
  /\ UNCHANGED <<kind, credentials>>

\* of a token that somebody still holds; Claude's are read until they expire
Age(t) ==
  /\ t \in {disk.access, db.access, agent.client, poll.creds.access, poll.issued.access}
  /\ age[t] \in {"fresh", "expiring"}
  /\ age' = [age EXCEPT ![t] = IF @ = "fresh" /\ kind \notin Claude THEN "expiring" ELSE "expired"]
  /\ dead' = IF age'[t] = "expired" THEN [dead EXCEPT !.access = @ \ {t}] ELSE dead
  /\ UNCHANGED <<kind, disk, db, borrowed, agent, poll, health, sent, named, faults>>

\* the user signs in: new credentials, whatever there was
Login ==
  /\ Unissued # {}
  /\ age' = [age EXCEPT ![Fresh] = "fresh"]
  /\ \/ disk' = [access |-> Fresh, refresh |-> Fresh] /\ db' = db
     \/ kind = "cursor" /\ db' = [access |-> Fresh, refresh |-> Fresh] /\ disk' = disk
  /\ UNCHANGED <<kind, dead, borrowed, agent, poll, health, sent, named, faults>>

\* the program that owns the credentials renews them
OwnerRenews ==
  /\ \/ Issue(disk) /\ disk' = Issued(disk) /\ db' = db
     \/ kind = "cursor" /\ Issue(db) /\ db' = Issued(db) /\ disk' = disk
  /\ UNCHANGED <<kind, borrowed, agent, poll, health, sent, named, faults>>

Logout ==
  /\ \/ disk # Nobody /\ disk' = Nobody /\ db' = db /\ named' = {}
     \/ kind = "cursor" /\ db # Nobody /\ db' = Nobody /\ UNCHANGED <<disk, named>>
  /\ UNCHANGED <<kind, age, dead, borrowed, agent, poll, health, sent, faults>>

\* the provider ends all sessions
Revoke ==
  /\ dead' = [access |-> {t \in 1 .. Tokens : age[t] \in {"fresh", "expiring"}},
              refresh |-> {t \in 1 .. Tokens : age[t] # "unissued"}]
  /\ dead' # dead
  /\ UNCHANGED <<kind, age, disk, db, borrowed, agent, poll, health, sent, named, faults>>

DefaultProfile ==
  /\ kind = "claude_owner"
  /\ borrowed' = ~borrowed
  /\ Fault
  /\ UNCHANGED <<kind, age, dead, disk, db, agent, poll, health, sent, named>>

-----------------------------------------------------------------------------

PollStep ==
  \/ BeginPoll \/ StatuslineFails
  \/ RenewAccepted \/ RenewRefused \/ RenewLost
  \/ \E saved \in BOOLEAN : SaveCodex(saved)
  \/ CursorWriteSucceeds \/ CursorWriteFails \/ SaveCursor
  \/ SaveGemini \/ OwnerRefresh \/ ReadToken
  \/ \E stored \in BOOLEAN : FetchAnswers(stored)
  \/ FetchFails \/ FetchRefused \/ Reread

Surroundings ==
  \/ Restart \/ Login \/ OwnerRenews \/ Logout \/ Revoke \/ DefaultProfile
  \/ \E t \in 1 .. Tokens : Age(t)

AuthNext == PollStep \/ RetryWindowElapses \/ Surroundings

\* the ticker and the clock go on
AuthSpec ==
  AuthInit /\ [][AuthNext]_authVars
    /\ WF_authVars(PollStep) /\ WF_authVars(RetryWindowElapses)

-----------------------------------------------------------------------------

Ages == {"unissued", "fresh", "expiring", "expired"}
Locations == {"idle", "owner", "oauth", "save", "token", "fetch", "reread"}

\* the tokens issued so far, and none
Own == {0} \cup {t \in 1 .. Tokens : age[t] # "unissued"}
Pair == [access : Own, refresh : Own]

AgentType ==
  [client : Own \cup {Borrowed}, start : Own, last : Own, failed : Own, failedRefresh : Own,
   fails : 0 .. MaxFailures, refreshFails : 0 .. MaxFailures, paused : BOOLEAN,
   waiting : BOOLEAN, borrowing : BOOLEAN, cycle : BOOLEAN]

PollType ==
  [pc : Locations, creds : Pair, issued : Pair, retry : BOOLEAN, wasPaused : BOOLEAN,
   message : BOOLEAN, usable : BOOLEAN, writes : 0 .. AllWrites, kept : SUBSET Kept]

\* Types: whatever token anybody holds has been issued, only a claude_owner agent
\* holds one of the default profile, and it never pauses for that one.
AuthTypeOK ==
  /\ kind \in Kinds
  /\ age \in [1 .. Tokens -> Ages]
  /\ dead \in [access : SUBSET (1 .. Tokens), refresh : SUBSET (1 .. Tokens)]
  /\ disk \in Pair /\ db \in Pair /\ borrowed \in BOOLEAN
  /\ agent \in AgentType
  /\ poll \in PollType
  /\ health \in {"none", "up", "down"}
  /\ sent \subseteq Own \ {0}
  /\ named \subseteq [access : Own \ {0}, refresh : Own]
  /\ faults \in 0 .. MaxFaults

\* A one-time refresh token that an agent has used, and whose successor it has
\* written wherever it keeps the token, is never sent by it again: neither by the
\* second renewal of the same poll nor by a later poll, whatever is written to the
\* credentials meanwhile. Nothing is promised of a Cursor token that a failed write
\* has left in one of its two places, be the save reported as made or not.
RefreshTokenOnce == poll.pc = "oauth" => poll.creds.refresh \notin sent

\* A save that WriteCursorCredentials reports as made keeps the used refresh token
\* from being read again. It need not: a save that reaches the keyring alone is
\* reported too, and the database is read first (README, section 6, 13).
SavedIsRead ==
  [][kind = "cursor" /\ poll.pc = "save" /\ poll'.pc = "fetch" =>
       DetectCredentials'.refresh # poll.creds.refresh]_authVars

\* A token the agent has paused for is not sent again before a restart, unless
\* the credentials were removed; a Gemini agent may try it again with a refresh
\* token it has not failed with, or when its retry window has passed.
NamedStaysOut ==
  poll.pc = "fetch" =>
    [access |-> agent.client,
     refresh |-> IF kind = "gemini" THEN poll.creds.refresh ELSE 0] \notin named

\* An agent that is paused between two polls has said so: the polls it skips
\* without a word follow a reported failure, so no outage goes untold. The agent
\* with a statusline is the exception: the failure it pauses at is reported as
\* the success of the statusline.
PausedIsTold ==
  poll.pc = "idle" /\ agent.paused /\ kind # "claude_hybrid" => health = "down"

\* A login is used: fresh credentials are not left unused for ever, whatever
\* pause, backoff, half-finished poll or restart they meet. The exception is
\* Gemini, whose tokens in the settings table hide those on disk.
Valid(t) == t # 0 /\ age[t] = "fresh" /\ t \notin dead.access
Used == agent.client = disk.access /\ ~agent.paused /\ health = "up"

LoginRecovers ==
  []<>(Valid(disk.access) => Used \/ (kind = "gemini" /\ db # Nobody))
=============================================================================
