---------------------------- MODULE MCGoroutines ----------------------------
(***************************************************************************)
(* Small instances of the goroutine manager for TLC.  Three calls of Go    *)
(* on two slots are the least with a blocked caller, two functions in      *)
(* progress, and a call left over when Wait wakes up.                      *)
(***************************************************************************)
EXTENDS Goroutines

CONSTANTS t1, t2, t3

MCTasks == {t1, t2, t3}
=============================================================================
