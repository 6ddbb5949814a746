----------------------------- MODULE MCPipeline -----------------------------
(* Every chain of up to three operators, and senders with up to three signals. *)
EXTENDS Pipeline

Operators == {"transform", "filter", "tap", "switch_on_error"}
AllChains == UNION {[1..n -> Operators] : n \in 0..3}
=============================================================================
