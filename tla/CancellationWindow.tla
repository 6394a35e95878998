------------------------ MODULE CancellationWindow ------------------------
(***************************************************************************)
(* What the cancellation window of `knowledge ask` promises.  The window   *)
(* opens once; while it is open Ctrl+C deliveries are accepted, and the    *)
(* first of them to be stamped dates the cancellation.  The Answer ID can  *)
(* be formed only before any delivery is accepted.  Sealing closes the     *)
(* window and fixes the report in one step: the report tells exactly       *)
(* whether, and by whom, the command was cancelled.                        *)
(***************************************************************************)
EXTENDS Naturals

CONSTANTS Deliveries, None

VARIABLES
  phase,      \* "closed", "open" or "sealed"
  accepted,   \* the deliveries accepted so far
  first,      \* the delivery that dates the cancellation, or None
  idFormed,   \* the Answer lifecycle has begun
  report      \* what the command reports: None until the seal

windowVars == <<phase, accepted, first, idFormed, report>>

WindowInit ==
  /\ phase = "closed" /\ accepted = {} /\ first = None
  /\ idFormed = FALSE /\ report = None

OpenWindow ==
  /\ phase = "closed" /\ phase' = "open"
  /\ UNCHANGED <<accepted, first, idFormed, report>>

Accept(h) ==
  /\ phase = "open" /\ h \notin accepted
  /\ accepted' = accepted \union {h}
  /\ IF accepted = {} THEN first' \in Deliveries ELSE UNCHANGED first
  /\ UNCHANGED <<phase, idFormed, report>>

FormAnswerId ==
  /\ phase = "open" /\ accepted = {} /\ ~idFormed
  /\ idFormed' = TRUE
  /\ UNCHANGED <<phase, accepted, first, report>>

Seal ==
  /\ phase = "open" /\ phase' = "sealed"
  /\ report' = [cancelled |-> accepted # {}, by |-> first]
  /\ UNCHANGED <<accepted, first, idFormed>>

WindowNext == OpenWindow \/ FormAnswerId \/ Seal \/ \E h \in Deliveries : Accept(h)

WindowSpec == WindowInit /\ [][WindowNext]_windowVars

=============================================================================
