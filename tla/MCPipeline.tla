------------------------------ MODULE MCPipeline ------------------------------
(* Small instances of Pipeline for TLC. *)
EXTENDS Pipeline

(* Three metrics of one process: one of an hour whose local time is about    *)
(* to end, one which names no time and no client, one of the current hour.   *)
MCMetrics == {"late", "timeless", "fresh"}
MCStarted == [m \in MCMetrics |-> CASE m = "late"     -> 4
                                    [] m = "timeless" -> 0
                                    [] m = "fresh"    -> 8]
MCOneProcess == [m \in MCMetrics |-> "process"]
MCClient == [m \in MCMetrics |-> CASE m = "late"     -> "alice"
                                   [] m = "timeless" -> None
                                   [] m = "fresh"    -> "bob"]
MCBatches == {<<"late", "timeless">>, <<"fresh">>}

(* Two metrics of two calls, for the liveness: one of them names a client. *)
MCPair == 1 .. 2
MCPairStarted == [m \in MCPair |-> 6 + m]
MCPairProcess == [m \in MCPair |-> m]
MCPairClient == [m \in MCPair |-> IF m = 1 THEN "alice" ELSE None]
MCPairBatches == {<<1>>, <<2>>}
===============================================================================
