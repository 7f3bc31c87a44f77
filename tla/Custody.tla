------------------------------- MODULE Custody -------------------------------
(***************************************************************************)
(* What the server promises of the metrics it is sent, whatever threads,   *)
(* locks and memory it needs to keep it: a metric is on its way in, then   *)
(* held or stored - and found by every search from then on - or it is      *)
(* dropped.  It never goes back, and what is stored stays.                 *)
(***************************************************************************)
CONSTANT Metrics

VARIABLES
  sent,     \* on their way in
  held,     \* handed to the storage, not stored yet
  stored,
  dropped

vars == <<sent, held, stored, dropped>>

Init == sent = {} /\ held = {} /\ stored = {} /\ dropped = {}

Outside == Metrics \ UNION {sent, held, stored, dropped}

Send(some) ==
  /\ some \subseteq Outside
  /\ sent' = sent \union some
  /\ UNCHANGED <<held, stored, dropped>>

(* What is handed over may push out what is held. *)
HandOver(some, out) ==
  /\ some \subseteq sent
  /\ out \subseteq held \union some
  /\ sent' = sent \ some
  /\ held' = (held \union some) \ out
  /\ dropped' = dropped \union out
  /\ UNCHANGED stored

Store(some) ==
  /\ some \subseteq held
  /\ held' = held \ some
  /\ stored' = stored \union some
  /\ UNCHANGED <<sent, dropped>>

Refuse(some) ==
  /\ some \subseteq sent \union held
  /\ sent' = sent \ some
  /\ held' = held \ some
  /\ dropped' = dropped \union some
  /\ UNCHANGED stored

Next ==
  \/ \E some \in SUBSET Outside : Send(some)
  \/ \E some \in SUBSET sent : \E out \in SUBSET (held \union some) : HandOver(some, out)
  \/ \E some \in SUBSET held : Store(some)
  \/ \E some \in SUBSET (sent \union held) : Refuse(some)

Spec == Init /\ [][Next]_vars
===============================================================================
