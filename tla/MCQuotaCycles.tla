--------------------------- MODULE MCQuotaCycles ---------------------------
(* One quota of each tracker over the end of its first period and, for the  *)
(* trackers that hold no answer back, over the time it takes to miss it.     *)
EXTENDS QuotaCycles

AllKinds == {"synthetic", "search", "anthropic", "cursor", "zai_tokens", "zai_time", "openrouter",
             "copilot", "minimax", "antigravity", "gemini", "codex"}

Horizon == [k \in Kinds |-> IF k \in {"gemini", "codex"} THEN 6 ELSE 7]
=============================================================================
