-------------------------------- MODULE MCApp -------------------------------
(***************************************************************************)
(* A small instance of the process for TLC: two uploads on one slot, one   *)
(* with two failed transactions or with a refused line behind one, and one *)
(* with a failed transaction behind another line or without any line; a    *)
(* channel of one event and one worker, so that a task can wait for room   *)
(* in the bus.                                                             *)
(***************************************************************************)
EXTENDS App

CONSTANTS r1, r2, c1, c2, c3, w1

MCRequests == {r1, r2}
MCCalls == {c1, c2, c3}
MCOwner == [c \in MCCalls |-> IF c = c3 THEN r2 ELSE r1]
MCBodies ==
  [r \in MCRequests |-> IF r = r1 THEN {<<c1, c2>>, <<c1, BareQuote, Plain>>}
                                  ELSE {<<>>, <<Plain, c3>>}]
MCEventID == [c \in MCCalls |-> c]
MCWorkers == {w1}
=============================================================================
