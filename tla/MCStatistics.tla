----------------------------- MODULE MCStatistics -----------------------------
(* A small instance of Statistics for TLC. *)
EXTENDS Statistics

(* Three events of a service: two of one action and hour, and one of        *)
(* another action which is of the hour it comes in.                        *)
MCData == <<
  [service |-> "api", action |-> "get", started |-> 3, duration |-> 2, success |-> TRUE, fail |-> FALSE],
  [service |-> "api", action |-> "get", started |-> 3, duration |-> 1, success |-> FALSE, fail |-> TRUE],
  [service |-> "api", action |-> "put", started |-> 0, duration |-> 3, success |-> TRUE, fail |-> FALSE]>>
MCEvents == DOMAIN MCData
MCQueries == {[of |-> "services", hour |-> 3],
              [of |-> "actions", hour |-> 3, service |-> "api"]}
===============================================================================
