----------------------------- MODULE MCHourSearch -----------------------------
(* A small hour to be searched: four seconds of ten ticks, of which three  *)
(* are written into beside the search.                                     *)
EXTENDS HourSearch

Plain(time, process, service, action, client) ==
  [time |-> time, process |-> process, service |-> service, action |-> action,
   client |-> client, text |-> 0, names |-> 0, tags |-> 0, core |-> 1]

MCData == <<Plain(1, 1, "billing", "charge", "bob"), Plain(2, 1, "billing", "charge", "alice"),
            Plain(11, 1, "billing", "refund", "alice"), Plain(12, 1, "trading", "open", "bob"),
            Plain(21, 12, "billing", "charge", "alice"),
            Plain(31, 12, "billing", "charge", "alice"),
            Plain(3, 1, "billing", "charge", "bob"), Plain(22, 12, "billing", "charge", "bob"),
            Plain(35, 1, "billing", "charge", "bob")>>
MCRecords == 7 .. 9
MCPreloaded == {<<>>, <<{1, 2, 3, 4, 5, 6}>>}

Action(client, from) ==
  [of |-> "action", service |-> "billing", action |-> "charge", client |-> client, from |-> from]
Trace(process) == [of |-> "process", process |-> process]
MCQueries == {Action("any", 0), Action("bob", 0), Action("bob", 2), Trace(1), Trace(12)}
===============================================================================
