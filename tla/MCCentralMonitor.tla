--------------------------- MODULE MCCentralMonitor ---------------------------
(* Two accounts of one provider whose weeks end a day apart. *)
EXTENDS CentralMonitor
CONSTANTS a1, a2

MCWeekOf == [a \in Accounts |-> IF a = a1 THEN 2 ELSE 3]
=============================================================================
