------------------------------ MODULE EventBus ------------------------------
(***************************************************************************)
(* The event layer of internal/flip/event: the bus (bus.go), a buffered    *)
(* channel behind a read-write lock, and the reconciliation consumer       *)
(* (consumer.go), a pool of workers that handle each event with retries    *)
(* and skip the events whose ID they have met.                             *)
(*                                                                         *)
(* A call stands for one call of Publish and for the event it carries.     *)
(* Calls may carry the same ID; some carry the empty ID, which is never    *)
(* compared.  Time is left out: a backoff ends, a deadline may pass.       *)
(***************************************************************************)
EXTENDS Integers, Sequences, FiniteSets

CONSTANTS
  Calls,        \* the calls of Publish
  EventID,      \* the ID of the event each call publishes
  NoID,         \* the empty ID
  Workers,      \* the goroutines of the pool
  Buffer,       \* the argument of NewBus
  MaxRetries,   \* ConsumerConfig.MaxRetries
  NoCall        \* a worker that holds no event

ASSUME CallsAssumption == IsFiniteSet(Calls) /\ NoCall \notin Calls
(* A pool of less than one worker becomes one of four. *)
ASSUME WorkersAssumption == Workers # {}
ASSUME ConfigAssumption == Buffer \in Int /\ MaxRetries \in Int

VARIABLES
  canceled,   \* the context given to Publish is done
  pub,        \* how far each call of Publish is
  closed,     \* Bus.closed; the channel is closed in the same step
  ch,         \* the channel: the accepted events no worker has received
  at,         \* how far each worker is
  job,        \* the event each worker holds
  attempt,    \* the loop variable of processEvent, per worker
  seen,       \* the IDs in ReconciliationConsumer.seen
  stop,       \* how far Stop is
  tries,      \* history: number of calls of Handle for each event
  outcome     \* history: what became of each event

busVars == <<pub, closed, ch>>
poolVars == <<at, job, attempt, seen, tries, outcome>>
vars == <<canceled, busVars, poolVars, stop>>

(* NewBus makes the buffer at least one event long. *)
Capacity == IF Buffer < 1 THEN 1 ELSE Buffer

(* NewReconciliationConsumer raises a negative MaxRetries to zero. *)
Retries == IF MaxRetries < 0 THEN 0 ELSE MaxRetries

(* The calls that are inside the select of Publish, and so hold the read   *)
(* lock of the bus.                                                        *)
Sending == {c \in Calls : pub[c] = "sending"}

-----------------------------------------------------------------------------
Init ==
  /\ canceled = FALSE
  /\ pub = [c \in Calls |-> "idle"]
  /\ closed = FALSE
  /\ ch = <<>>
  /\ at = [w \in Workers |-> "receive"]
  /\ job = [w \in Workers |-> NoCall]
  /\ attempt = [w \in Workers |-> 0]
  /\ seen = {}
  /\ stop = "idle"
  /\ tries = [c \in Calls |-> 0]
  /\ outcome = [c \in Calls |-> "none"]

(***************************************************************************)
(* Faults, one plausible slip of the code each; no action below uses them. *)
(***************************************************************************)
(* Close does not wait for the publishers inside Publish, as if they gave  *)
(* the read lock back before the select.                                   *)
CloseWithoutLock ==
  /\ stop = "closing"
  /\ closed' = TRUE
  /\ stop' = "draining"
  /\ UNCHANGED <<canceled, pub, ch, poolVars>>

(* A worker leaves as soon as the bus is closed, events left or not. *)
LeaveAtOnce(w) ==
  /\ at[w] = "receive"
  /\ closed
  /\ at' = [at EXCEPT ![w] = "exited"]
  /\ UNCHANGED <<canceled, busVars, job, attempt, seen, tries, outcome, stop>>

(* A worker leaves when it finds the channel empty. *)
LeaveWhenEmpty(w) ==
  /\ at[w] = "receive"
  /\ ch = <<>>
  /\ at' = [at EXCEPT ![w] = "exited"]
  /\ UNCHANGED <<canceled, busVars, job, attempt, seen, tries, outcome, stop>>

(* The ID is remembered but the duplicate is not turned away. *)
ClaimAgain(w) ==
  /\ at[w] = "claim"
  /\ seen' = seen \cup ({EventID[job[w]]} \ {NoID})
  /\ at' = [at EXCEPT ![w] = "handle"]
  /\ UNCHANGED <<canceled, busVars, job, attempt, tries, outcome, stop>>

(* The loop bound is one attempt too far. *)
FailOnceMore(w) ==
  /\ at[w] = "handle"
  /\ tries' = [tries EXCEPT ![job[w]] = @ + 1]
  /\ at' = [at EXCEPT ![w] = IF attempt[w] > Retries THEN "receive" ELSE "backoff"]
  /\ job' = [job EXCEPT ![w] = IF attempt[w] > Retries THEN NoCall ELSE @]
  /\ attempt' = [attempt EXCEPT ![w] = IF attempt[w] > Retries THEN 0 ELSE @]
  /\ outcome' = [outcome EXCEPT ![job[w]] =
                   IF attempt[w] > Retries THEN "abandoned" ELSE @]
  /\ UNCHANGED <<canceled, busVars, seen, stop>>

(* A worker looks at the next event without taking it off the channel. *)
ReceiveCopy(w) ==
  /\ at[w] = "receive"
  /\ ch # <<>>
  /\ job' = [job EXCEPT ![w] = Head(ch)]
  /\ at' = [at EXCEPT ![w] = "claim"]
  /\ UNCHANGED <<canceled, busVars, attempt, seen, tries, outcome, stop>>

(* The loop goes on after Handle has returned nil. *)
ReconcileAgain(w) ==
  /\ at[w] = "handle"
  /\ tries' = [tries EXCEPT ![job[w]] = @ + 1]
  /\ outcome' = [outcome EXCEPT ![job[w]] = "reconciled"]
  /\ at' = [at EXCEPT ![w] = IF attempt[w] = Retries THEN "receive" ELSE "backoff"]
  /\ job' = [job EXCEPT ![w] = IF attempt[w] = Retries THEN NoCall ELSE @]
  /\ attempt' = [attempt EXCEPT ![w] = IF attempt[w] = Retries THEN 0 ELSE @]
  /\ UNCHANGED <<canceled, busVars, seen, stop>>

-----------------------------------------------------------------------------
(* The owner of the context cancels it. *)
Cancel ==
  /\ ~canceled
  /\ canceled' = TRUE
  /\ UNCHANGED <<busVars, poolVars, stop>>

(* Publish takes the read lock, which a waiting Close holds back, and      *)
(* looks at closed.                                                        *)
Enter(c) ==
  /\ pub[c] = "idle"
  /\ stop # "closing"
  /\ pub' = [pub EXCEPT ![c] = IF closed THEN "refused" ELSE "sending"]
  /\ UNCHANGED <<canceled, closed, ch, poolVars, stop>>

(* The send case of the select.  On a closed channel it would panic. *)
Send(c) ==
  /\ pub[c] = "sending"
  /\ closed \/ Len(ch) < Capacity
  /\ pub' = [pub EXCEPT ![c] = IF closed THEN "panicked" ELSE "accepted"]
  /\ ch' = IF closed THEN ch ELSE Append(ch, c)
  /\ UNCHANGED <<canceled, closed, poolVars, stop>>

(* The context case of the select, which may be taken although there is    *)
(* room in the channel.                                                    *)
GiveUp(c) ==
  /\ pub[c] = "sending"
  /\ canceled
  /\ pub' = [pub EXCEPT ![c] = "canceled"]
  /\ UNCHANGED <<canceled, closed, ch, poolVars, stop>>

-----------------------------------------------------------------------------
(* range over the channel: the next event. *)
Receive(w) ==
  /\ at[w] = "receive"
  /\ ch # <<>>
  /\ ch' = Tail(ch)
  /\ job' = [job EXCEPT ![w] = Head(ch)]
  /\ at' = [at EXCEPT ![w] = "claim"]
  /\ UNCHANGED <<canceled, pub, closed, attempt, seen, tries, outcome, stop>>

(* range over the channel: it is closed and drained, the worker is done. *)
Leave(w) ==
  /\ at[w] = "receive"
  /\ ch = <<>>
  /\ closed
  /\ at' = [at EXCEPT ![w] = "exited"]
  /\ UNCHANGED <<canceled, busVars, job, attempt, seen, tries, outcome, stop>>

(* processEvent ends: the worker is back at its range, holding nothing. *)
Settle(w, what) ==
  /\ at' = [at EXCEPT ![w] = "receive"]
  /\ job' = [job EXCEPT ![w] = NoCall]
  /\ attempt' = [attempt EXCEPT ![w] = 0]
  /\ outcome' = [outcome EXCEPT ![job[w]] = what]

(* seen.LoadOrStore finds the ID: the event is a duplicate. *)
SkipDuplicate(w) ==
  /\ at[w] = "claim"
  /\ EventID[job[w]] \in seen
  /\ Settle(w, "skipped")
  /\ UNCHANGED <<canceled, busVars, seen, tries, stop>>

(* seen.LoadOrStore stores the ID; the empty ID is not looked up. *)
Claim(w) ==
  /\ at[w] = "claim"
  /\ EventID[job[w]] \notin seen
  /\ seen' = seen \cup ({EventID[job[w]]} \ {NoID})
  /\ at' = [at EXCEPT ![w] = "handle"]
  /\ UNCHANGED <<canceled, busVars, job, attempt, tries, outcome, stop>>

(* Handle returns nil. *)
Reconcile(w) ==
  /\ at[w] = "handle"
  /\ tries' = [tries EXCEPT ![job[w]] = @ + 1]
  /\ Settle(w, "reconciled")
  /\ UNCHANGED <<canceled, busVars, seen, stop>>

(* Handle returns an error on the last attempt. *)
Abandon(w) ==
  /\ at[w] = "handle"
  /\ attempt[w] = Retries
  /\ tries' = [tries EXCEPT ![job[w]] = @ + 1]
  /\ Settle(w, "abandoned")
  /\ UNCHANGED <<canceled, busVars, seen, stop>>

(* Handle returns an error and an attempt is left: sleepBackoff. *)
Fail(w) ==
  /\ at[w] = "handle"
  /\ attempt[w] # Retries
  /\ tries' = [tries EXCEPT ![job[w]] = @ + 1]
  /\ at' = [at EXCEPT ![w] = "backoff"]
  /\ UNCHANGED <<canceled, busVars, job, attempt, seen, outcome, stop>>

(* The timer of sleepBackoff fires. *)
Retry(w) ==
  /\ at[w] = "backoff"
  /\ attempt' = [attempt EXCEPT ![w] = @ + 1]
  /\ at' = [at EXCEPT ![w] = "handle"]
  /\ UNCHANGED <<canceled, busVars, job, seen, tries, outcome, stop>>

-----------------------------------------------------------------------------
(* Stop calls Close, which queues for the write lock.  A Stop that timed   *)
(* out may be called again.                                                *)
StopCall ==
  /\ stop \in {"idle", "timedOut"}
  /\ stop' = "closing"
  /\ UNCHANGED <<canceled, busVars, poolVars>>

(* Close gets the write lock when no publisher is inside Publish.  The     *)
(* second Close finds closed set and does nothing.                         *)
Close ==
  /\ stop = "closing"
  /\ Sending = {}
  /\ closed' = TRUE
  /\ stop' = "draining"
  /\ UNCHANGED <<canceled, pub, ch, poolVars>>

(* wg.Wait is over: Stop returns nil. *)
StopReturns ==
  /\ stop = "draining"
  /\ \A w \in Workers : at[w] = "exited"
  /\ stop' = "stopped"
  /\ UNCHANGED <<canceled, busVars, poolVars>>

(* The context of Stop is done first: Stop returns its error. *)
StopTimesOut ==
  /\ stop = "draining"
  /\ stop' = "timedOut"
  /\ UNCHANGED <<canceled, busVars, poolVars>>

(* Stop has returned nil, every Publish has returned. *)
Finished ==
  /\ stop = "stopped"
  /\ \A c \in Calls : pub[c] \notin {"idle", "sending"}
  /\ UNCHANGED vars

Publisher(c) == Enter(c) \/ Send(c) \/ GiveUp(c)

Worker(w) ==
  \/ Receive(w) \/ Leave(w) \/ SkipDuplicate(w) \/ Claim(w)
  \/ Reconcile(w) \/ Abandon(w) \/ Fail(w) \/ Retry(w)

Next ==
  \/ Cancel
  \/ \E c \in Calls : Publisher(c)
  \/ \E w \in Workers : Worker(w)
  \/ StopCall \/ Close \/ StopReturns \/ StopTimesOut
  \/ Finished

Spec == Init /\ [][Next]_vars

(***************************************************************************)
(* Workers are goroutines that are never blocked but on the channel;       *)
(* handlers return and timers fire; a blocked sender and a blocked Close   *)
(* go on when they can.  Nobody has to publish, to cancel, to call Stop,   *)
(* and no deadline has to pass.                                            *)
(***************************************************************************)
Fairness ==
  /\ \A w \in Workers : WF_vars(Worker(w))
  /\ \A c \in Calls : WF_vars(Send(c) \/ GiveUp(c))
  /\ WF_vars(Close)
  /\ WF_vars(StopReturns)

FairSpec == Spec /\ Fairness

-----------------------------------------------------------------------------
(* Type correctness of the event layer. *)
TypeOK ==
  /\ canceled \in BOOLEAN
  /\ pub \in [Calls -> {"idle", "sending", "accepted", "refused", "canceled", "panicked"}]
  /\ closed \in BOOLEAN
  /\ ch \in Seq(Calls) /\ Len(ch) <= Capacity
  /\ at \in [Workers -> {"receive", "claim", "handle", "backoff", "exited"}]
  /\ job \in [Workers -> Calls \cup {NoCall}]
  /\ attempt \in [Workers -> 0..Retries]
  /\ seen \subseteq {EventID[c] : c \in Calls} \ {NoID}
  /\ stop \in {"idle", "closing", "draining", "stopped", "timedOut"}
  /\ tries \in [Calls -> Nat]
  /\ outcome \in [Calls -> {"none", "skipped", "reconciled", "abandoned"}]

(* The lock around Publish: no publisher that has seen the bus open is     *)
(* still sending when the channel is closed, so no send panics.            *)
NoSendOnClosedChannel ==
  /\ closed => Sending = {}
  /\ \A c \in Calls : pub[c] # "panicked"

(* Idempotency: events that share an ID reach the handler through one of   *)
(* them only, whichever workers receive them at the same time.             *)
HandledOncePerID ==
  \A c, d \in Calls :
    /\ EventID[c] = EventID[d] /\ EventID[c] # NoID
    /\ tries[c] > 0 /\ tries[d] > 0
    => c = d

(* An event is given up after the first attempt and Retries more, no       *)
(* earlier and no later; a duplicate is never tried.                       *)
RetryBudget ==
  \A c \in Calls :
    /\ tries[c] <= Retries + 1
    /\ outcome[c] = "abandoned" => tries[c] = Retries + 1
    /\ outcome[c] = "skipped" => tries[c] = 0

(* The places where the event of a call is. *)
Queued(c) == \E i \in 1..Len(ch) : ch[i] = c
Held(c) == \E w \in Workers : job[w] = c

Places(c) ==
  {<<"channel", i>> : i \in {k \in 1..Len(ch) : ch[k] = c}}
    \cup {<<"worker", w>> : w \in {v \in Workers : job[v] = c}}
    \cup {<<"outcome", o>> : o \in {outcome[c]} \ {"none"}}

(* No event is lost, handed out twice or tried again once it has its       *)
(* outcome: an accepted event is at one position of the channel, or with   *)
(* one worker, or has an outcome, and in one of these places only.  An     *)
(* event that Publish did not accept is nowhere.  A Stop that returns nil  *)
(* leaves nothing but outcomes.                                            *)
AcceptedIsAccountedFor ==
  \A c \in Calls :
    /\ pub[c] = "accepted" => \E p \in Places(c) : Places(c) = {p}
    /\ pub[c] # "accepted" => Places(c) = {}
    /\ pub[c] = "accepted" /\ stop = "stopped" => outcome[c] # "none"

(* Every accepted event is dealt with, although its bus may be closing. *)
AcceptedIsSettled ==
  \A c \in Calls : pub[c] = "accepted" ~> outcome[c] # "none"

(* Publish and Stop do not block each other for good, although Close waits *)
(* for publishers that wait for room in a full channel.                    *)
NoStandoff ==
  /\ \A c \in Calls : pub[c] = "sending" ~> pub[c] # "sending"
  /\ stop = "closing" ~> stop \in {"stopped", "timedOut"}

(* The event layer implements EventDelivery. *)
Stage(c) ==
  IF outcome[c] # "none" THEN "settled"
  ELSE IF \E w \in Workers : job[w] = c /\ at[w] # "claim" THEN "taken" ELSE "queued"

Phase(c) ==
  CASE pub[c] \in {"idle", "sending", "panicked"} -> "new"
    [] pub[c] \in {"refused", "canceled"} -> "rejected"
    [] pub[c] = "accepted" -> Stage(c)

Handled ==
  {c \in Calls : \/ outcome[c] \in {"reconciled", "abandoned"}
                 \/ \E w \in Workers : job[w] = c /\ at[w] # "claim"}

Delivery == INSTANCE EventDelivery
  WITH phase <- [c \in Calls |-> Phase(c)], handled <- Handled, open <- ~closed

ImplementsDelivery == Delivery!Spec
=============================================================================
