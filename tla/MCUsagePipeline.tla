--------------------------- MODULE MCUsagePipeline ---------------------------
(* Instances of UsagePipeline for TLC: one ordinary line, one that cannot   *)
(* be read and one that the server rejects, over two days.                  *)
EXTENDS UsagePipeline

CONSTANTS good, poison, bad
=============================================================================
