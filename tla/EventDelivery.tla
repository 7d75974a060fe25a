---------------------------- MODULE EventDelivery ----------------------------
(***************************************************************************)
(* What internal/flip/event promises its users, without locks, buffer or   *)
(* workers: an event is taken by Publish or it is not; an event that was   *)
(* taken is handled, and of the events with one ID only one ever is; no    *)
(* event is taken any more once the bus is shut.                           *)
(***************************************************************************)
CONSTANTS
  Calls,     \* the calls of Publish
  EventID,   \* the ID of the event each call publishes
  NoID       \* the empty ID, which identifies no event

VARIABLES
  phase,     \* where the event of each call is
  handled,   \* the calls whose event was given to the handler
  open       \* the bus takes events

vars == <<phase, handled, open>>

(* The event of d was handled and makes the event of c a duplicate. *)
Duplicates(c, d) == EventID[c] # NoID /\ EventID[d] = EventID[c]

Init ==
  /\ phase = [c \in Calls |-> "new"]
  /\ handled = {}
  /\ open = TRUE

Accept(c) ==
  /\ phase[c] = "new"
  /\ open
  /\ phase' = [phase EXCEPT ![c] = "queued"]
  /\ UNCHANGED <<handled, open>>

Reject(c) ==
  /\ phase[c] = "new"
  /\ phase' = [phase EXCEPT ![c] = "rejected"]
  /\ UNCHANGED <<handled, open>>

Handle(c) ==
  /\ phase[c] = "queued"
  /\ \A d \in handled : ~Duplicates(c, d)
  /\ phase' = [phase EXCEPT ![c] = "taken"]
  /\ handled' = handled \cup {c}
  /\ UNCHANGED open

Drop(c) ==
  /\ phase[c] = "queued"
  /\ \E d \in handled : Duplicates(c, d)
  /\ phase' = [phase EXCEPT ![c] = "settled"]
  /\ UNCHANGED <<handled, open>>

Settle(c) ==
  /\ phase[c] = "taken"
  /\ phase' = [phase EXCEPT ![c] = "settled"]
  /\ UNCHANGED <<handled, open>>

Shut ==
  /\ open
  /\ open' = FALSE
  /\ UNCHANGED <<phase, handled>>

Next ==
  \/ \E c \in Calls :
       Accept(c) \/ Reject(c) \/ Handle(c) \/ Drop(c) \/ Settle(c)
  \/ Shut

Spec == Init /\ [][Next]_vars
=============================================================================
