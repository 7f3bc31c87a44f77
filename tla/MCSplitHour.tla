----------------------------- MODULE MCSplitHour ------------------------------
(* An hour of ten seconds which a write halves two frames of: the upper    *)
(* half of the first goes into the second, its upper half into the third.  *)
EXTENDS HourFile

Long(time)  == [time |-> time, process |-> 1, service |-> "billing", action |-> "charge",
                client |-> "alice", text |-> 0, names |-> 0, tags |-> 0, core |-> 2]
Short(time) == [Long(time) EXCEPT !.core = 1]

(* 1 .. 8 are what the hour has been written with, one after another. *)
MCData == <<Long(21), Long(51), Short(61), Long(91), Short(11), Long(41), Long(71), Long(81),
            Long(1), Long(31), Short(42)>>
MCRecords == 9 .. 11
MCPreloaded == {<<{1}, {2}, {3}, {4}, {5}, {6}, {7}, {8}>>}
===============================================================================
