----------------------------- MODULE Goroutines -----------------------------
(***************************************************************************)
(* The goroutine manager of internal/pkg/pkgroutine/goroutine.go: Go runs  *)
(* a function in a goroutine once one of a bounded number of slots is      *)
(* free, Wait joins the goroutines and returns their errors.               *)
(*                                                                         *)
(* A task stands for one call of Go and for the goroutine it may create.   *)
(* What the function of a task does is left to its user; here it ends in   *)
(* one of three ways, a nil error, an error or a panic.                    *)
(***************************************************************************)
EXTENDS Integers, FiniteSets

CONSTANTS
  Tasks,                \* the calls of Go made during one life of the manager
  MaxGoroutine,         \* the argument of NewManager
  DefaultMaxGoroutine   \* the limit used for a non-positive argument

ASSUME TasksAssumption == IsFiniteSet(Tasks)
ASSUME LimitAssumption == /\ MaxGoroutine \in Int
                          /\ DefaultMaxGoroutine \in Nat \ {0}

VARIABLES
  canceled,   \* the context given to Go is done
  pc,         \* how far each call of Go and its goroutine are
  result,     \* what the function of each task ended with
  sema,       \* number of tokens in the channel sema
  wg,         \* counter of the WaitGroup
  errs,       \* tasks whose error has been appended to errs
  waiter,     \* how far the one call of Wait is
  joined      \* the errors Wait returned

vars == <<canceled, pc, result, sema, wg, errs, waiter, joined>>

(* The capacity of the channel sema. *)
Capacity == IF MaxGoroutine < 1 THEN DefaultMaxGoroutine ELSE MaxGoroutine

(***************************************************************************)
(* The places a task can be at.  "parked": blocked in the select of Go.    *)
(* "turnedAway": Go returned without starting anything.  "admitted": a     *)
(* token is in sema, wg.Add has not run.  "started": the goroutine exists  *)
(* and has not looked at the context.  "failing": the function returned an *)
(* error that is not yet in errs.  "exiting": in the first deferred call.  *)
(* "released": the token is taken back, wg.Done has not run.               *)
(***************************************************************************)
Holding   == {"admitted", "started", "running", "failing", "exiting"}
Scheduled == {"started", "running", "failing", "exiting", "released"}
InFunc    == {"running", "failing"}
Settled   == {"turnedAway", "gone"}
Places    == {"idle", "parked"} \cup Holding \cup Scheduled \cup Settled

Results == {"none", "nil", "error", "panic"}

At(S) == {t \in Tasks : pc[t] \in S}

(* The place of t is in S and the process is alive: nothing recovers a     *)
(* panic of wg.Wait.                                                       *)
Is(t, S) == pc[t] \in S /\ waiter # "panicked"

-----------------------------------------------------------------------------
Init ==
  /\ canceled = FALSE
  /\ pc = [t \in Tasks |-> "idle"]
  /\ result = [t \in Tasks |-> "none"]
  /\ sema = 0
  /\ wg = 0
  /\ errs = {}
  /\ waiter = "idle"
  /\ joined = {}

(***************************************************************************)
(* Faults, one plausible slip of the code each; no action below uses them. *)
(***************************************************************************)
(* Go starts without waiting for a slot. *)
AdmitUnbounded(t) ==
  /\ pc[t] \in {"idle", "parked"}
  /\ sema' = sema + 1
  /\ pc' = [pc EXCEPT ![t] = "admitted"]
  /\ UNCHANGED <<canceled, result, wg, errs, waiter, joined>>

(* The slot is taken back after f(pCtx) rather than in a deferred call. *)
ReturnLeaking(t, r) ==
  /\ pc[t] = "running"
  /\ result' = [result EXCEPT ![t] = r]
  /\ pc' = [pc EXCEPT ![t] = CASE r = "error" -> "failing"
                              [] r = "panic" -> "released"
                              [] OTHER -> "exiting"]
  /\ UNCHANGED <<canceled, sema, wg, errs, waiter, joined>>

(* The goroutine calls f without looking at the context. *)
BeginAnyway(t) ==
  /\ pc[t] = "started"
  /\ pc' = [pc EXCEPT ![t] = "running"]
  /\ UNCHANGED <<canceled, result, sema, wg, errs, waiter, joined>>

(* wg.Done on the normal path only: a panic leaves the counter up. *)
DoneUnlessPanic(t) ==
  /\ pc[t] = "released"
  /\ wg' = IF result[t] = "panic" THEN wg ELSE wg - 1
  /\ waiter' = IF wg' = 0 /\ waiter = "parked" THEN "woken" ELSE waiter
  /\ pc' = [pc EXCEPT ![t] = "gone"]
  /\ UNCHANGED <<canceled, result, sema, errs, joined>>

-----------------------------------------------------------------------------
(* The owner of the context cancels it. *)
Cancel ==
  /\ ~canceled
  /\ waiter # "panicked"
  /\ canceled' = TRUE
  /\ UNCHANGED <<pc, result, sema, wg, errs, waiter, joined>>

(* Go finds no case of its select ready and blocks. *)
Park(t) ==
  /\ Is(t, {"idle"})
  /\ sema = Capacity
  /\ ~canceled
  /\ pc' = [pc EXCEPT ![t] = "parked"]
  /\ UNCHANGED <<canceled, result, sema, wg, errs, waiter, joined>>

(* The send case: a slot is taken.  When the context is done as well the   *)
(* select may still choose this case.                                      *)
Admit(t) ==
  /\ Is(t, {"idle", "parked"})
  /\ sema < Capacity
  /\ sema' = sema + 1
  /\ pc' = [pc EXCEPT ![t] = "admitted"]
  /\ UNCHANGED <<canceled, result, wg, errs, waiter, joined>>

(* The context case: Go logs "goroutine canceled before start". *)
TurnAway(t) ==
  /\ Is(t, {"idle", "parked"})
  /\ canceled
  /\ pc' = [pc EXCEPT ![t] = "turnedAway"]
  /\ UNCHANGED <<canceled, result, sema, wg, errs, waiter, joined>>

(* wg.Add(1) and the go statement, after which Go returns. *)
Spawn(t) ==
  /\ Is(t, {"admitted"})
  /\ wg' = wg + 1
  /\ pc' = [pc EXCEPT ![t] = "started"]
  /\ UNCHANGED <<canceled, result, sema, errs, waiter, joined>>

(* The goroutine's own look at the context: default case, f is called. *)
Begin(t) ==
  /\ Is(t, {"started"})
  /\ ~canceled
  /\ pc' = [pc EXCEPT ![t] = "running"]
  /\ UNCHANGED <<canceled, result, sema, wg, errs, waiter, joined>>

(* The goroutine's own look at the context: it is done, f is not called. *)
Skip(t) ==
  /\ Is(t, {"started"})
  /\ canceled
  /\ pc' = [pc EXCEPT ![t] = "exiting"]
  /\ UNCHANGED <<canceled, result, sema, wg, errs, waiter, joined>>

(* The function ends: with a nil error, an error, or a panic that the      *)
(* deferred recover stops.                                                 *)
Return(t, r) ==
  /\ Is(t, {"running"})
  /\ result' = [result EXCEPT ![t] = r]
  /\ pc' = [pc EXCEPT ![t] = IF r = "error" THEN "failing" ELSE "exiting"]
  /\ UNCHANGED <<canceled, sema, wg, errs, waiter, joined>>

(* errs = append(errs, err), under mu. *)
Collect(t) ==
  /\ Is(t, {"failing"})
  /\ errs' = errs \cup {t}
  /\ pc' = [pc EXCEPT ![t] = "exiting"]
  /\ UNCHANGED <<canceled, result, sema, wg, waiter, joined>>

(* The first deferred call: take a token back, then recover. *)
Release(t) ==
  /\ Is(t, {"exiting"})
  /\ sema' = sema - 1
  /\ pc' = [pc EXCEPT ![t] = "released"]
  /\ UNCHANGED <<canceled, result, wg, errs, waiter, joined>>

(* wg.Done: the call that brings the counter to zero wakes the waiter. *)
Done(t) ==
  /\ Is(t, {"released"})
  /\ wg' = wg - 1
  /\ waiter' = IF wg = 1 /\ waiter = "parked" THEN "woken" ELSE waiter
  /\ pc' = [pc EXCEPT ![t] = "gone"]
  /\ UNCHANGED <<canceled, result, sema, errs, joined>>

-----------------------------------------------------------------------------
(* Wait has one caller, App.Stop, which cancels the context first; the     *)
(* tests call it when every call of Go has returned.                       *)
NoMoreGo == At({"idle", "parked", "admitted"}) = {}
WaitMayBeCalled == canceled \/ NoMoreGo

(* wg.Wait returns at once on a zero counter, else it parks the caller. *)
Wait ==
  /\ waiter = "idle"
  /\ WaitMayBeCalled
  /\ waiter' = IF wg = 0 THEN "awaited" ELSE "parked"
  /\ UNCHANGED <<canceled, pc, result, sema, wg, errs, joined>>

(* The woken caller looks at the counter again: an Add that came in        *)
(* between makes sync.WaitGroup panic ("WaitGroup is reused before         *)
(* previous Wait has returned"), which ends the process.                   *)
Wake ==
  /\ waiter = "woken"
  /\ waiter' = IF wg = 0 THEN "awaited" ELSE "panicked"
  /\ UNCHANGED <<canceled, pc, result, sema, wg, errs, joined>>

(* errors.Join(errs...), which reads errs without mu. *)
Join ==
  /\ waiter = "awaited"
  /\ joined' = errs
  /\ waiter' = "returned"
  /\ UNCHANGED <<canceled, pc, result, sema, wg, errs>>

(* Nothing is left to do, or the process is gone. *)
Finished ==
  /\ waiter = "panicked" \/ (waiter = "returned" /\ At(Settled) = Tasks)
  /\ UNCHANGED vars

Goroutine(t) ==
  \/ Spawn(t) \/ Begin(t) \/ Skip(t)
  \/ \E r \in Results \ {"none"} : Return(t, r)
  \/ Collect(t) \/ Release(t) \/ Done(t)

Next ==
  \/ Cancel
  \/ \E t \in Tasks : Park(t) \/ Admit(t) \/ TurnAway(t) \/ Goroutine(t)
  \/ Wait \/ Wake \/ Join
  \/ Finished

Spec == Init /\ [][Next]_vars

(***************************************************************************)
(* Goroutines that can run are run by the Go scheduler, the function of a  *)
(* task ends, a sender blocked on sema is served (the runtime queues       *)
(* blocked senders in order), and a caller of Wait that can go on does.    *)
(* Nothing makes anyone cancel the context, call Go or call Wait.          *)
(***************************************************************************)
Fairness ==
  /\ \A t \in Tasks :
       /\ WF_vars(pc[t] = "parked" /\ (Admit(t) \/ TurnAway(t)))
       /\ WF_vars(Goroutine(t))
  /\ WF_vars(Wake \/ Join)

FairSpec == Spec /\ Fairness

-----------------------------------------------------------------------------
(* Type correctness of the manager's state. *)
TypeOK ==
  /\ canceled \in BOOLEAN
  /\ pc \in [Tasks -> Places]
  /\ result \in [Tasks -> Results]
  /\ sema \in 0..Capacity
  /\ wg \in Nat
  /\ errs \subseteq Tasks
  /\ waiter \in {"idle", "parked", "woken", "awaited", "returned", "panicked"}
  /\ joined \subseteq Tasks

(* sema holds one token for each task between its admission and its        *)
(* deferred release, and wg counts the goroutines whose Done is to come:   *)
(* neither a panic nor a cancellation leaks a slot or a count.             *)
NoLeak ==
  /\ sema = Cardinality(At(Holding))
  /\ wg = Cardinality(At(Scheduled))

(* The limit given to NewManager: at most Capacity functions are in        *)
(* progress at once, however Go calls, endings and panics interleave.      *)
LimitRespected == Cardinality(At(InFunc)) <= Capacity

(* What Stop relies on when it closes the module after Wait: once wg.Wait  *)
(* has let go, no function is in progress and, although Go may still be    *)
(* called, none will be; so the unlocked read of errs races with no        *)
(* append, and Wait returns the error of every function that ever failed.  *)
WaitIsFinal ==
  /\ waiter \in {"awaited", "returned"} => At(InFunc) = {}
  /\ waiter = "returned" => joined = {t \in Tasks : result[t] = "error"}

(* Every call of Go that blocked, and every goroutine, comes to its end:   *)
(* the slots of panicking and cancelled tasks are given to the others.     *)
EveryTaskSettles ==
  \A t \in Tasks :
    pc[t] \notin {"idle"} \cup Settled ~> (pc[t] \in Settled \/ waiter = "panicked")

(* A call of Wait ends, whatever the tasks end with. *)
WaitEnds == waiter # "idle" ~> waiter \in {"returned", "panicked"}

(* Doc comment of Go (goroutine.go lines 38-39): "If the manager is        *)
(* already at its concurrency limit, the function is not run and a warning *)
(* is logged."  A call that met a full manager never runs its function.    *)
AtLimitNotRun ==
  \A t \in Tasks : [](pc[t] = "parked" => [](pc[t] # "running"))

(* Doc comment of Wait (goroutine.go line 73): "Wait blocks until all      *)
(* scheduled goroutines finish and returns any collected errors."  It does *)
(* not panic instead.                                                      *)
WaitNeverPanics == waiter # "panicked"
=============================================================================
