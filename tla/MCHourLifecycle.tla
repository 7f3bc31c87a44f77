--------------------------- MODULE MCHourLifecycle ---------------------------
(* Small instances of HourLifecycle for TLC. *)
EXTENDS HourLifecycle, TLC

CONSTANTS h1, h2, h3

(* Two records, each read by a pass of its own. *)
MCRecords == 1 .. 2
MCWindowOf == [m \in MCRecords |-> m]

(* One record, for the liveness. *)
MCOneWindow == [m \in {1} |-> 1]

(* A handle is told from another one by who holds it only. *)
MCHandles == {h1, h2, h3}
HandleSymmetry == Permutations(MCHandles)

==============================================================================
