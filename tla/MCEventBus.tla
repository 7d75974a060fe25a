----------------------------- MODULE MCEventBus -----------------------------
(***************************************************************************)
(* A small instance of the event layer for TLC: two calls share an ID and  *)
(* the third has none; the channel holds one event, so that publishers     *)
(* block; two workers, so that both copies of an event are held at once.   *)
(***************************************************************************)
EXTENDS EventBus

CONSTANTS c1, c2, c3, w1, w2, e1

MCCalls == {c1, c2, c3}
MCWorkers == {w1, w2}
MCEventID == [c \in MCCalls |-> IF c = c3 THEN NoID ELSE e1]
=============================================================================
