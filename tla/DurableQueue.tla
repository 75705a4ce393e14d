----------------------------- MODULE DurableQueue -----------------------------
(***************************************************************************)
(* What the collector's spool promises, whatever happens to its files: an  *)
(* accepted event stays pending until the server has answered for it.      *)
(* Pending is a set: that the same event may be queued twice (an Append    *)
(* that reported an error after its write, then a retry) is left to the    *)
(* server's deduplication.                                                 *)
(***************************************************************************)
CONSTANT Events

VARIABLES
  accepted,    \* events the caller was told are safe
  pending,     \* events that a restart would still upload
  delivered    \* events the server has answered for

vars == <<accepted, pending, delivered>>

Init == accepted = {} /\ pending = {} /\ delivered = {}

(* The caller gets a success only for an event that is pending. *)
Accept(e) ==
  /\ accepted' = accepted \cup {e} /\ pending' = pending \cup {e}
  /\ UNCHANGED delivered

(* The caller gets an error, but the event may have been stored. *)
Stray(e) ==
  /\ pending' = pending \cup {e}
  /\ UNCHANGED <<accepted, delivered>>

Deliver(B) ==
  /\ B \subseteq pending
  /\ delivered' = delivered \cup B
  /\ UNCHANGED <<accepted, pending>>

(* Only what the server has answered for is ever forgotten. *)
Forget(B) ==
  /\ B \subseteq pending \cap delivered
  /\ pending' = pending \ B
  /\ UNCHANGED <<accepted, delivered>>

Next ==
  \/ \E e \in Events : Accept(e) \/ Stray(e)
  \/ \E B \in SUBSET Events : Deliver(B) \/ Forget(B)

Spec == Init /\ [][Next]_vars

-----------------------------------------------------------------------------
(* The promise in one line. *)
NothingLost == accepted \ delivered \subseteq pending
=============================================================================
