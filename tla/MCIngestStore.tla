---------------------------- MODULE MCIngestStore ----------------------------
(* Instances of DataTransfer for TLC: six forms of two usages, so that a    *)
(* replay, an enrichment, a conflict, an identity conflict and one usage    *)
(* under two event ids all occur, in requests of one or two events.         *)
EXTENDS DataTransfer, TLC

CONSTANTS d1, d2

line(key, at, fp, tokens, meta) ==
  [key |-> key, at |-> at, fp |-> fp, tokens |-> tokens, meta |-> meta]

first     == line("k1", 1, "f1", 3, {})
enriched  == line("k1", 1, "f1", 3, {"session"})
conflict  == line("k1", 1, "f1", 5, {"mode"})
identity  == line("k1", 2, "f1", 3, {})
renamed   == line("k2", 1, "f1", 3, {"mode"})
second    == line("k3", 2, "f2", 4, {})

MCLines == {first, enriched, conflict, identity, renamed, second}
MCBatches == {<<l>> : l \in {first, enriched, conflict}}
             \cup {<<enriched, second>>, <<renamed, identity>>}
MCCutoffs == {2, 3}

(* The archives of another installation: both usages raw, the second        *)
(* received from a device; then with the first one compacted.               *)
raw(rec, l) ==
  [origin |-> "other", rec |-> rec,
   usage |-> [at |-> l.at, fp |-> l.fp, tokens |-> l.tokens, meta |-> l.meta]]
hour == [origin |-> "other", rec |-> 1, requests |-> 1, tokens |-> 3, times |-> {1}, prints |-> {"f1"}]
from2 == {[origin |-> "other", rec |-> 2]}

MCArchives ==
  {[raw |-> <<raw(1, first), raw(2, second)>>, hourly |-> {}, observed |-> from2],
   [raw |-> <<raw(2, second)>>, hourly |-> {hour}, observed |-> from2]}

(* These archives are as HistoryIsTakenOnce assumes. *)
ASSUME ConsistentArchives == OneIdentity /\ OneHour

Symmetry == Permutations({d1, d2})
=============================================================================
