--------------------------- MODULE MCProviderAuth ---------------------------
EXTENDS ProviderAuth

AllKinds == Claude \cup Codex \cup {"cursor", "gemini"}

(* A token that nobody holds any more does not come back: whether it has     *)
(* expired, was revoked or was sent makes no difference to what follows.     *)
HeldAccess ==
  {disk.access, db.access, agent.client, agent.start, poll.creds.access, poll.issued.access}
HeldRefresh == {disk.refresh, db.refresh, poll.creds.refresh, poll.issued.refresh}

View ==
  <<kind, disk, db, borrowed, agent, poll, health, named, faults,
    [t \in 1 .. Tokens |-> IF t \in HeldAccess \/ age[t] = "unissued" THEN age[t] ELSE "expired"],
    dead.access \cap HeldAccess, dead.refresh \cap HeldRefresh, sent \cap HeldRefresh>>
=============================================================================
