------------------------------ MODULE MCHourFile ------------------------------
(* A small hour for TLC: four seconds of ten ticks, frames of six bytes.   *)
EXTENDS HourFile

Event(time, process, service, action, client, text, names, tags, core) ==
  [time |-> time, process |-> process, service |-> service, action |-> action,
   client |-> client, text |-> text, names |-> names, tags |-> tags, core |-> core]
Plain(time, process, service, action) ==
  Event(time, process, service, action, "alice", 0, 0, 0, 1)

(* 1 .. 7, 12 and 13 are what the hour may have been written with. *)
MCData == <<Plain(1, 1, "billing", "charge"), Plain(2, 1, "billing", "charge"),
            Plain(11, 1, "billing", "refund"), Plain(12, -5, "trading", "open"),
            Plain(31, 12, "billing", "charge"), Plain(32, 12, "billing", "charge"),
            Plain(34, 12, "trading", "open"),
            \* a long one into the first second, one into a new second
            Event(3, 1, "billing", "charge", "alice", 0, 0, 0, 2),
            Plain(25, 12, "billing", "charge"),
            \* a text to be cut, a record which fits no entry
            Event(35, 31, "billing", "charge", "bob", 4, 0, 0, 1),
            Event(13, 11, "trading", "open", "bob", 0, 0, 0, 3),
            \* what fills the second frame
            Event(36, 12, "billing", "charge", "alice", 0, 0, 0, 2),
            Event(37, 12, "trading", "open", "alice", 0, 0, 0, 2)>>
MCRecords == 8 .. 11
MCPreloaded == {<<>>, <<{1, 2, 3, 4, 5, 6}>>, <<{1, 2, 3, 4, 5, 6}, {7}, {12}, {13}>>}
===============================================================================
