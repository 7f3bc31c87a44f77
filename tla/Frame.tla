--------------------------------- MODULE Frame ---------------------------------
(***************************************************************************)
(* A frame of a data file (frame.rs): entries one after another and the    *)
(* frame its chain goes on in.  An offset counts from the start of the     *)
(* frame, its header included.  Bytes which are not an entry - what a      *)
(* write that was torn leaves - are a last "entry" without a time.         *)
(***************************************************************************)
EXTENDS MetricBlock, FiniteSets

CONSTANTS
  FRAME_CAPACITY,   \* what the entries of a frame take at most
  FRAME_HEADER_LEN

(* A full frame always holds at least three entries. *)
ASSUME FrameAssumption ==
  /\ FRAME_CAPACITY \in Nat \ {0} /\ FRAME_HEADER_LEN \in Nat
  /\ 3 * MAX_PAYLOAD_LEN <= FRAME_CAPACITY

NoFrame == -1
HEAD    == 0        \* the first frame of the first file, never a `next`

NewFrame == [entries |-> <<>>, next |-> NoFrame]
NotAnEntry == [time |-> NoTime, len |-> 1, records |-> <<>>, reads |-> FALSE]
IsEntry(e) == e.time # NoTime

LenOf(entries, n) ==
  LET upTo[i \in 0 .. n] == IF i = 0 THEN 0 ELSE upTo[i - 1] + entries[i].len
  IN  upTo[n]
used(f)        == LenOf(f.entries, Len(f.entries))
records_end(f) == FRAME_HEADER_LEN + used(f)
free_AndTheHeader(f) == FRAME_CAPACITY + FRAME_HEADER_LEN - used(f)
free(f)        == FRAME_CAPACITY - used(f)

(* Where the entry of each place starts, up to the first which is not one. *)
OffsetOf(f, i) == FRAME_HEADER_LEN + LenOf(f.entries, i - 1)
Reading(f) == {i \in DOMAIN f.entries : \A j \in 1 .. i : IsEntry(f.entries[j])}
entry_offsets(f) == [i \in Reading(f) |-> OffsetOf(f, i)]

(* How many entries start before the offset; bytes put between two entries *)
(* or inside of one are put where an entry starts, or what follows is lost. *)
Before(f, offset) == Cardinality({i \in DOMAIN f.entries : OffsetOf(f, i) < offset})
IsBoundary(f, offset) ==
  \/ offset = records_end(f)
  \/ \E i \in DOMAIN f.entries : OffsetOf(f, i) = offset

insert(f, offset, entries) ==
  LET n == Before(f, offset)
  IN  IF IsBoundary(f, offset)
      THEN [f EXCEPT !.entries = SubSeq(@, 1, n) \o entries \o SubSeq(@, n + 1, Len(@))]
      ELSE [f EXCEPT !.entries = Append(SubSeq(@, 1, n - 1), NotAnEntry)]

remove(f, offset) == [f EXCEPT !.entries = RemoveAt(@, Before(f, offset) + 1)]

split_off(f, offset) == [f EXCEPT !.entries = SubSeq(@, 1, Before(f, offset))]
SplitOffEntries(f, offset) ==
  SubSeq(f.entries, Before(f, offset) + 1, Len(f.entries))
===============================================================================
