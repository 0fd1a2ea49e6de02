------------------------------ MODULE MCPipeline ------------------------------
(* Small instances of Pipeline for TLC. *)
EXTENDS Pipeline, TLC

MCHeatWeight == [like |-> 1, comment |-> 2]
MCFaults == {"timeout", "crash", "connection", "nack", "mark", "apply", "redis"}
WorkerFaults == [k \in MCFaults |-> IF k \in {"crash", "nack", "redis"} THEN 1 ELSE 0]
=============================================================================
