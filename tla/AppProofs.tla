----------------------------- MODULE AppProofs ------------------------------
(***************************************************************************)
(* Theorems about module App, for any uploads and lines, any limit of the  *)
(* manager and any configuration of the event layer: the process runs its  *)
(* goroutine manager and its event layer as their modules say, so that     *)
(* what is proved of these holds in the process; and the order in which    *)
(* App.Stop ends everything is safe.                                       *)
(***************************************************************************)
EXTENDS App, TLAPS

(* The components with what is proved of them. *)
ManagerFacts == INSTANCE GoroutinesProofs WITH Tasks <- Requests
EventFacts == INSTANCE EventBusProofs

(* How far Stop is, seen from the server, the manager and the consumer:    *)
(* wg.Wait is called after Shutdown has returned and is over before the    *)
(* module is closed, and nothing else closes the bus.                      *)
StopOrder ==
  /\ http = "listening" <=> main \in {"running", "stopping", "failed"}
  /\ http \in {"closing", "polling"} <=> main = "shutdown"
  /\ waiter # "idle" => main \in {"waiting", "closing", "exited"}
  /\ main \in {"closing", "exited"} => waiter = "returned"
  /\ stop # "idle" => main \in {"closing", "exited"}
  /\ closed => stop # "idle"
  /\ main = "exited" => stop \in {"stopped", "timedOut"}

(* After a Shutdown that returned nil no handler is left to call Go, so    *)
(* that the counter stays at zero once it has woken the caller of Wait.    *)
DrainedQuiet ==
  http = "drained" =>
    /\ Active = {}
    /\ waiter # "panicked"
    /\ waiter = "woken" => wg = 0

NeverRefused == \A c \in Calls : pub[c] # "refused"

(* Nothing of a body has gone through the pipe while it may still change. *)
BodyFlow ==
  /\ body \in [Requests -> Seq(Calls \cup {Plain, BareQuote})]
  /\ fed \in [Requests -> Nat] /\ read \in [Requests -> Nat]
  /\ \A r \in Requests : handler[r] \in {"idle", "connected", "scheduling"} => fed[r] = 0

ComponentInv == ManagerFacts!IInv /\ EventFacts!IInv

(* The inductive invariant. *)
IInv == ComponentInv /\ TypeOK /\ StopOrder /\ DrainedQuiet /\ NeverRefused /\ BodyFlow

-----------------------------------------------------------------------------
LEMMA Finiteness == ManagerFacts!IsFiniteSet(Requests) /\ EventFacts!IsFiniteSet(Calls)
BY ManagerAssumption, EventsAssumption
   DEF IsFiniteSet, ManagerFacts!IsFiniteSet, EventFacts!IsFiniteSet

(* A step of the process is a step of the manager or leaves it alone.      *)
LEMMA ManagerRuns ==
  ASSUME [Next]_vars
  PROVE  [ManagerFacts!Next]_ManagerFacts!vars
<1>1. CASE UNCHANGED <<canceled, managerVars>>
  BY <1>1 DEF managerVars, ManagerFacts!vars
<1>2. ASSUME NEW r \in Requests, CallGo(r) \/ GoReturns(r)
      PROVE  ManagerFacts!Next
  <2>1. Manager!Park(r) \/ Manager!Admit(r) \/ Manager!TurnAway(r) \/ Manager!Spawn(r)
    BY <1>2 DEF CallGo, GoReturns
  <2> QED
    BY <2>1 DEF Manager!Park, Manager!Admit, Manager!TurnAway, Manager!Spawn, Manager!Is,
         Manager!Capacity, ManagerFacts!Park, ManagerFacts!Admit, ManagerFacts!TurnAway,
         ManagerFacts!Spawn, ManagerFacts!Is, ManagerFacts!Capacity,
         ManagerFacts!Goroutine, ManagerFacts!Next
<1>3. ASSUME NEW r \in Requests, RunTask(r)
      PROVE  ManagerFacts!Next
  <2>1. Manager!Begin(r) \/ Manager!Skip(r) \/ Manager!Collect(r) \/ Manager!Release(r) \/ Manager!Done(r)
    BY <1>3 DEF RunTask
  <2> QED
    BY <2>1 DEF Manager!Begin, Manager!Skip, Manager!Collect, Manager!Release, Manager!Done,
         Manager!Is, ManagerFacts!Begin, ManagerFacts!Skip, ManagerFacts!Collect,
         ManagerFacts!Release, ManagerFacts!Done, ManagerFacts!Is,
         ManagerFacts!Goroutine, ManagerFacts!Next
<1>4. ASSUME NEW r \in Requests, TakeEnd(r) \/ TakeRefused(r)
      PROVE  ManagerFacts!Next
  <2>1. PICK how \in {"nil", "error"} : Manager!Return(r, how)
    BY <1>4 DEF TakeEnd, TakeRefused
  <2>2. ManagerFacts!Return(r, how) /\ how \in ManagerFacts!Results \ {"none"}
    BY <2>1 DEF Manager!Return, Manager!Is, ManagerFacts!Return, ManagerFacts!Is,
         ManagerFacts!Results
  <2> QED
    BY <2>2 DEF ManagerFacts!Goroutine, ManagerFacts!Next
<1>5. CASE Signal \/ Await \/ Joined
  <2>1. Manager!Cancel \/ Manager!Wait \/ Manager!Wake \/ Manager!Join
    BY <1>5 DEF Signal, Await, Joined
  <2> QED
    BY <2>1 DEF Manager!Cancel, Manager!Wait, Manager!Wake, Manager!Join, Manager!WaitMayBeCalled,
         Manager!NoMoreGo, Manager!At, ManagerFacts!Cancel, ManagerFacts!Wait, ManagerFacts!Wake,
         ManagerFacts!Join, ManagerFacts!WaitMayBeCalled, ManagerFacts!NoMoreGo, ManagerFacts!At,
         ManagerFacts!Next
<1>6. \/ UNCHANGED <<canceled, managerVars>>
      \/ \E r \in Requests : CallGo(r) \/ GoReturns(r) \/ RunTask(r) \/ TakeEnd(r) \/ TakeRefused(r)
      \/ Signal \/ Await \/ Joined
  <2>1. ASSUME NEW c \in Calls, Events!Enter(c) \/ Events!Send(c) \/ Events!GiveUp(c)
        PROVE  UNCHANGED canceled
    BY <2>1 DEF Events!Enter, Events!Send, Events!GiveUp
  <2>2. ASSUME NEW w \in Workers, Consume(w)
        PROVE  UNCHANGED <<canceled, managerVars>>
    BY <2>2 DEF Consume, Events!Receive, Events!Claim, Events!Reconcile, Events!Leave
  <2>3. ASSUME CloseModule \/ CloseBus \/ Exit
        PROVE  UNCHANGED <<canceled, managerVars>>
    BY <2>3 DEF CloseModule, CloseBus, Exit, Events!StopCall, Events!Close, Events!StopReturns,
         Events!StopTimesOut
  <2>4. ASSUME NEW c \in Calls, EndPublish(c) \/ \E r \in Requests : TakeCall(r, c)
        PROVE  UNCHANGED <<canceled, managerVars>>
    BY <2>1, <2>4 DEF EndPublish, TakeCall
  <2> QED
    BY <2>2, <2>3, <2>4 DEF Next, Client, Handler, Task, Stop, Connect, HangUp, Receive, Answer,
         TakeBlock, TakePlain, Expire, ListenFails, Shutdown, ShutdownDone, ShutdownPolls,
         ShutdownCut, Finished, vars
<1> QED
  BY <1>1, <1>2, <1>3, <1>4, <1>5, <1>6

(* A step of the process is a step of the event layer or leaves it alone.  *)
LEMMA EventsRun ==
  ASSUME [Next]_vars
  PROVE  [EventFacts!Next]_EventFacts!vars
<1>1. CASE UNCHANGED <<canceled, eventVars>>
  BY <1>1 DEF eventVars, EventFacts!vars, EventFacts!busVars, EventFacts!poolVars
<1>2. ASSUME NEW c \in Calls, EndPublish(c) \/ \E r \in Requests : TakeCall(r, c)
      PROVE  EventFacts!Next
  <2>1. Events!Enter(c) \/ Events!Send(c) \/ Events!GiveUp(c)
    BY <1>2 DEF EndPublish, TakeCall
  <2> QED
    BY <2>1 DEF Events!Enter, Events!Send, Events!GiveUp, Events!Capacity, Events!poolVars,
         EventFacts!Enter, EventFacts!Send, EventFacts!GiveUp, EventFacts!Capacity,
         EventFacts!poolVars, EventFacts!Publisher, EventFacts!Next
<1>3. ASSUME NEW w \in Workers, Consume(w)
      PROVE  EventFacts!Next
  <2>1. Events!Receive(w) \/ Events!Claim(w) \/ Events!Reconcile(w) \/ Events!Leave(w)
    BY <1>3 DEF Consume
  <2> QED
    BY <2>1 DEF Events!Receive, Events!Claim, Events!Reconcile, Events!Leave, Events!Settle,
         Events!busVars, EventFacts!Receive, EventFacts!Claim, EventFacts!Reconcile,
         EventFacts!Leave, EventFacts!Settle, EventFacts!busVars, EventFacts!Worker,
         EventFacts!Next
<1>4. CASE Signal \/ CloseModule \/ CloseBus \/ Exit
  <2>1. Events!Cancel \/ Events!StopCall \/ Events!Close \/ Events!StopReturns \/ Events!StopTimesOut
    BY <1>4 DEF Signal, CloseModule, CloseBus, Exit
  <2> QED
    BY <2>1 DEF Events!Cancel, Events!StopCall, Events!Close, Events!StopReturns,
         Events!StopTimesOut, Events!Sending, Events!busVars, Events!poolVars,
         EventFacts!Cancel, EventFacts!StopCall, EventFacts!Close, EventFacts!StopReturns,
         EventFacts!StopTimesOut, EventFacts!Sending, EventFacts!busVars, EventFacts!poolVars,
         EventFacts!Next
<1>5. \/ UNCHANGED <<canceled, eventVars>>
      \/ \E c \in Calls : EndPublish(c) \/ \E r \in Requests : TakeCall(r, c)
      \/ \E w \in Workers : Consume(w)
      \/ Signal \/ CloseModule \/ CloseBus \/ Exit
  <2>1. ASSUME NEW r \in Requests, CallGo(r) \/ GoReturns(r) \/ RunTask(r) \/ TakeEnd(r) \/ TakeRefused(r)
        PROVE  UNCHANGED <<canceled, eventVars>>
    BY <2>1 DEF CallGo, GoReturns, RunTask, TakeEnd, TakeRefused, Manager!Park, Manager!Admit,
         Manager!TurnAway, Manager!Spawn, Manager!Begin, Manager!Skip, Manager!Collect,
         Manager!Release, Manager!Done, Manager!Return
  <2>2. ASSUME Await \/ Joined
        PROVE  UNCHANGED <<canceled, eventVars>>
    BY <2>2 DEF Await, Joined, Manager!Wait, Manager!Wake, Manager!Join
  <2> QED
    BY <2>1, <2>2 DEF Next, Client, Handler, Task, Stop, Connect, HangUp, Receive, Answer,
         TakeBlock, TakePlain, Expire, ListenFails, Shutdown, ShutdownDone, ShutdownPolls,
         ShutdownCut, Finished, vars
<1> QED
  BY <1>1, <1>2, <1>3, <1>4, <1>5

-----------------------------------------------------------------------------
LEMMA InitIInv == Init => IInv
<1> SUFFICES ASSUME Init PROVE IInv
  OBVIOUS
<1>1. ManagerFacts!Init /\ EventFacts!Init
  BY DEF Init, Manager!Init, Events!Init, ManagerFacts!Init, EventFacts!Init
<1>2. ComponentInv
  BY <1>1, ManagerFacts!InitIInv, EventFacts!InitIInv, ManagerAssumption, EventsAssumption, Finiteness
     DEF ComponentInv
<1>3. TypeOK /\ DrainedQuiet /\ BodyFlow
  <2>1. \A r \in Requests : body[r] = <<>> /\ Len(body[r]) = 0 /\ fed[r] = 0 /\ read[r] = 0
    BY DEF Init
  <2>2. \A r \in Requests : fed[r] \in 0..Len(body[r]) /\ read[r] \in 0..fed[r]
    BY <2>1
  <2>3. TypeOK /\ DrainedQuiet
    BY <2>2 DEF Init, TypeOK, DrainedQuiet
  <2> QED
    BY <2>3 DEF Init, BodyFlow
<1>4. StopOrder /\ NeverRefused
  BY DEF Init, Manager!Init, Events!Init, StopOrder, NeverRefused
<1> QED
  BY <1>2, <1>3, <1>4 DEF IInv

(* The components keep their invariants.                                   *)
LEMMA ComponentStep ==
  ASSUME ComponentInv, [Next]_vars
  PROVE  ComponentInv'
<1>1. ManagerFacts!IInv'
  BY ManagerRuns, ManagerFacts!NextIInv, ManagerAssumption, Finiteness DEF ComponentInv
<1>2. EventFacts!IInv'
  BY EventsRun, EventFacts!NextIInv, EventsAssumption, Finiteness DEF ComponentInv
<1> QED
  BY <1>1, <1>2 DEF ComponentInv

(* What the invariants of the components say of the state of the process.  *)
LEMMA Components ==
  ASSUME ComponentInv
  PROVE  /\ pc \in [Requests -> ManagerFacts!Places]
         /\ pub \in [Calls -> {"idle", "sending", "accepted", "refused", "canceled", "panicked"}]
         /\ \A r \in Requests : pc[r] \in {"started", "running", "failing", "exiting", "released"} => wg # 0
         /\ waiter = "returned" => \A r \in Requests : pc[r] \notin {"running", "failing"}
         /\ closed => \A c \in Calls : pub[c] # "sending"
         /\ \A c \in Calls : pub[c] # "panicked"
<1>1. ManagerFacts!TypeOK /\ ManagerFacts!NoLeak /\ ManagerFacts!Quiet
  BY DEF ComponentInv, ManagerFacts!IInv
<1>2. EventFacts!TypeOK /\ EventFacts!NoSendOnClosedChannel
  BY DEF ComponentInv, EventFacts!IInv
<1>3. ASSUME wg = 0
      PROVE  \A r \in Requests : pc[r] \notin {"started", "running", "failing", "exiting", "released"}
  <2>1. ManagerFacts!At(ManagerFacts!Scheduled) = {}
    BY <1>1, <1>3, ManagerFacts!NobodyThere, ManagerAssumption, Finiteness DEF ManagerFacts!NoLeak
  <2> QED
    BY <2>1 DEF ManagerFacts!At, ManagerFacts!Scheduled
<1>4. waiter = "returned" => \A r \in Requests : pc[r] \notin {"running", "failing"}
  BY <1>1 DEF ManagerFacts!Quiet, ManagerFacts!At, ManagerFacts!InFunc
<1> QED
  BY <1>1, <1>2, <1>3, <1>4 DEF ManagerFacts!TypeOK, EventFacts!TypeOK,
     EventFacts!NoSendOnClosedChannel, EventFacts!Sending

-----------------------------------------------------------------------------
(* Own is the part of the invariant that is not the components'. *)
Own == TypeOK /\ StopOrder /\ DrainedQuiet /\ NeverRefused /\ BodyFlow

(* Clients and handlers: a connection is new only while the server         *)
(* listens, and wg grows only for a handler that Shutdown would wait for.  *)
LEMMA ClientStep ==
  ASSUME IInv, NEW r \in Requests, Client(r) \/ Answer(r)
  PROVE  Own'
<1>1. /\ UNCHANGED <<appVars, fed, read, canceled, managerVars, eventVars>>
      /\ \E h \in {"connected", "answered", "scheduling"} :
           /\ handler' = [handler EXCEPT ![r] = h]
           /\ h = "connected" => http = "listening"
           /\ h = "scheduling" => handler[r] = "connected"
           /\ h = "connected" => handler[r] = "idle"
  BY DEF Client, Answer, Connect, HangUp, Receive, appVars, lineVars
<1>2. \/ UNCHANGED body
      \/ /\ handler[r] = "connected"
         /\ \E b \in Seq(Calls \cup {Plain, BareQuote}) : body' = [body EXCEPT ![r] = b]
  BY BodiesAssumption DEF Client, Answer, Connect, HangUp, Receive, lineVars
<1> USE DEF appVars, managerVars, eventVars
<1>3. BodyFlow'
  BY <1>1, <1>2 DEF IInv, BodyFlow, TypeOK
<1>4. \A q \in Requests : fed[q] \in 0..Len(body'[q])
  <2> SUFFICES ASSUME NEW q \in Requests PROVE fed[q] \in 0..Len(body'[q])
    OBVIOUS
  <2>1. CASE body'[q] = body[q]
    BY <2>1 DEF IInv, TypeOK
  <2>2. CASE body'[q] # body[q]
    <3>1. q = r /\ handler[r] = "connected"
      BY <1>2, <2>2 DEF IInv, BodyFlow
    <3>2. fed[q] = 0
      BY <3>1 DEF IInv, BodyFlow
    <3>3. Len(body'[q]) \in Nat
      BY <1>3 DEF BodyFlow
    <3> QED
      BY <3>2, <3>3
  <2> QED
    BY <2>1, <2>2
<1>5. TypeOK'
  BY <1>1, <1>4 DEF IInv, TypeOK
<1>6. DrainedQuiet'
  BY <1>1 DEF IInv, DrainedQuiet, Active, TypeOK
<1> QED
  BY <1>1, <1>3, <1>5, <1>6 DEF IInv, Own, StopOrder, NeverRefused

LEMMA CallGoStep ==
  ASSUME IInv, NEW r \in Requests, CallGo(r) \/ GoReturns(r)
  PROVE  Own'
<1>1. /\ handler[r] = "scheduling"
      /\ UNCHANGED <<main, http, expired, body, fed, read, waiter, closed, stop, pub>>
      /\ handler' = handler \/ handler' = [handler EXCEPT ![r] = "streaming"]
      /\ http # "drained"
  BY DEF CallGo, GoReturns, appVars, lineVars, eventVars, Manager!Park, Manager!Admit, Manager!TurnAway,
         Manager!Spawn, IInv, DrainedQuiet, Active
<1>2. TypeOK'
  <2>1. CASE CallGo(r)
    BY <1>1, <2>1, Components DEF CallGo, Manager!Park, Manager!Admit, IInv, TypeOK
  <2>2. CASE GoReturns(r)
    BY <1>1, <2>2, Components DEF GoReturns, Manager!TurnAway, Manager!Spawn, IInv, TypeOK
  <2> QED
    BY <2>1, <2>2
<1>3. BodyFlow'
  BY <1>1 DEF IInv, BodyFlow, TypeOK
<1> QED
  BY <1>1, <1>2, <1>3 DEF IInv, Own, StopOrder, DrainedQuiet, NeverRefused

-----------------------------------------------------------------------------
(* The goroutine of an upload; a line reaches an open bus. *)
LEMMA TaskStep ==
  ASSUME IInv, NEW r \in Requests, Task(r)
  PROVE  Own'
<1>1. CASE RunTask(r)
  <2>1. /\ \E p \in {"running", "exiting", "released", "gone"} : pc' = [pc EXCEPT ![r] = p]
        /\ pc[r] \in {"started", "failing", "exiting", "released"}
        /\ UNCHANGED <<main, http, expired, handler, body, fed, read, closed, stop, pub>>
    BY <1>1 DEF RunTask, appVars, lineVars, eventVars, Manager!Begin, Manager!Skip, Manager!Collect,
         Manager!Release, Manager!Done, Manager!Is
  <2>2. TypeOK'
    BY <2>1, Components DEF IInv, TypeOK
  <2>3. /\ waiter' = waiter \/ (waiter = "parked" /\ waiter' = "woken" /\ wg' = 0)
        /\ wg # 0
    <3>1. wg # 0
      BY <2>1, Components DEF IInv
    <3>2. waiter' = waiter \/ (waiter = "parked" /\ waiter' = "woken" /\ wg = 1 /\ wg' = wg - 1)
      BY <1>1 DEF RunTask, Manager!Begin, Manager!Skip, Manager!Collect, Manager!Release, Manager!Done
    <3> QED
      BY <3>1, <3>2
  <2>4. StopOrder'
    BY <2>1, <2>3 DEF IInv, StopOrder
  <2>5. DrainedQuiet'
    BY <2>1, <2>3 DEF IInv, DrainedQuiet, Active
  <2> QED
    BY <2>1, <2>2, <2>4, <2>5 DEF IInv, Own, NeverRefused, BodyFlow
<1>2. CASE TakeEnd(r) \/ TakeRefused(r)
  <2>1. /\ \E p \in {"failing", "exiting"} : pc' = [pc EXCEPT ![r] = p]
        /\ UNCHANGED <<main, http, expired, handler, body, fed, wg, waiter, closed, stop, pub>>
    BY <1>2 DEF TakeEnd, TakeRefused, appVars, lineVars, eventVars, Manager!Return
  <2>2. read' = read \/ (read[r] < fed[r] /\ read' = [read EXCEPT ![r] = @ + 1])
    BY <1>2 DEF TakeEnd, TakeRefused, HasLine, lineVars
  <2>3. TypeOK' /\ BodyFlow'
    BY <2>1, <2>2, Components DEF IInv, TypeOK, BodyFlow
  <2> QED
    BY <2>1, <2>3 DEF IInv, Own, StopOrder, DrainedQuiet, Active, NeverRefused
<1>3. ASSUME NEW n \in 1..Len(body[r]), TakeBlock(r, n)
      PROVE  Own'
  <2>1. /\ UNCHANGED <<main, http, expired, handler, body, read, pc, wg, waiter, closed, stop, pub>>
        /\ handler[r] = "streaming" /\ n \in (fed[r] + 1)..Len(body[r])
        /\ fed' = [fed EXCEPT ![r] = n]
    BY <1>3 DEF TakeBlock, appVars, managerVars, eventVars
  <2>2. BodyFlow'
    BY <2>1 DEF IInv, BodyFlow
  <2>3. \A q \in Requests : fed'[q] \in 0..Len(body[q]) /\ fed[q] <= fed'[q]
    BY <2>1 DEF IInv, TypeOK, BodyFlow
  <2>4. TypeOK'
    BY <2>1, <2>2, <2>3 DEF IInv, TypeOK, BodyFlow
  <2> QED
    BY <2>1, <2>2, <2>4 DEF IInv, Own, StopOrder, DrainedQuiet, Active, NeverRefused
<1>4. CASE TakePlain(r)
  <2>1. /\ UNCHANGED <<main, http, expired, handler, body, fed, pc, wg, waiter, closed, stop, pub>>
        /\ read[r] < fed[r] /\ read' = [read EXCEPT ![r] = @ + 1]
    BY <1>4 DEF TakePlain, HasLine, appVars, managerVars, eventVars
  <2>2. TypeOK' /\ BodyFlow'
    BY <2>1 DEF IInv, TypeOK, BodyFlow
  <2> QED
    BY <2>1, <2>2 DEF IInv, Own, StopOrder, DrainedQuiet, Active, NeverRefused
<1>5. ASSUME NEW c \in Calls, TakeCall(r, c)
      PROVE  Own'
  <2>1. /\ pc[r] = "running"
        /\ UNCHANGED <<main, http, expired, handler, body, fed, pc, wg, waiter, closed, stop>>
        /\ read[r] < fed[r] /\ read' = [read EXCEPT ![r] = @ + 1]
        /\ pub' = [pub EXCEPT ![c] = IF closed THEN "refused" ELSE "sending"]
    BY <1>5 DEF TakeCall, HasLine, Reading, appVars, managerVars, Events!Enter
  <2>2. ~closed
    BY <2>1, Components DEF IInv, StopOrder
  <2>3. NeverRefused'
    BY <2>1, <2>2, Components DEF IInv, NeverRefused
  <2>4. TypeOK' /\ BodyFlow'
    BY <2>1 DEF IInv, TypeOK, BodyFlow
  <2> QED
    BY <2>1, <2>3, <2>4 DEF IInv, Own, StopOrder, DrainedQuiet, Active
<1> QED
  BY <1>1, <1>2, <1>3, <1>4, <1>5 DEF Task

(* The event layer at work. *)
LEMMA EventStep ==
  ASSUME IInv, (\E c \in Calls : EndPublish(c)) \/ (\E w \in Workers : Consume(w))
  PROVE  Own'
<1>1. UNCHANGED <<main, http, expired, handler, body, fed, read, pc, wg, waiter, closed, stop>>
  BY DEF EndPublish, Consume, appVars, lineVars, managerVars, Events!Send, Events!GiveUp, Events!Receive,
         Events!Claim, Events!Reconcile, Events!Leave, Events!busVars
<1>2. NeverRefused'
  <2>1. CASE UNCHANGED pub
    BY <2>1 DEF IInv, NeverRefused
  <2>2. ASSUME NEW c \in Calls, EndPublish(c)
        PROVE  NeverRefused'
    <3>1. \E p \in {"panicked", "accepted", "canceled"} : pub' = [pub EXCEPT ![c] = p]
      BY <2>2 DEF EndPublish, Events!Send, Events!GiveUp
    <3> QED
      BY <3>1, Components DEF IInv, NeverRefused
  <2>3. ASSUME NEW w \in Workers, Consume(w)
        PROVE  UNCHANGED pub
    BY <2>3 DEF Consume, Events!Receive, Events!Claim, Events!Reconcile, Events!Leave, Events!busVars
  <2> QED
    BY <2>1, <2>2, <2>3
<1> QED
  BY <1>1, <1>2 DEF IInv, Own, TypeOK, StopOrder, DrainedQuiet, Active, BodyFlow

-----------------------------------------------------------------------------
(* The server and Stop, one step after the other. *)
LEMMA ServerStep ==
  ASSUME IInv, Expire \/ ListenFails \/ Signal \/ Shutdown \/ ShutdownDone \/ ShutdownPolls \/ ShutdownCut
  PROVE  Own'
<1>1. UNCHANGED <<handler, body, fed, read, pc, wg, waiter, closed, stop, pub>>
  BY DEF Expire, ListenFails, Signal, Shutdown, ShutdownDone, ShutdownPolls, ShutdownCut,
         lineVars, managerVars, eventVars, Manager!Cancel, Events!Cancel, Events!busVars
<1>2. TypeOK' /\ NeverRefused' /\ BodyFlow'
  BY <1>1 DEF Expire, ListenFails, Signal, Shutdown, ShutdownDone, ShutdownPolls, ShutdownCut,
              IInv, TypeOK, NeverRefused, BodyFlow, StopOrder
<1>3. StopOrder'
  BY <1>1 DEF Expire, ListenFails, Signal, Shutdown, ShutdownDone, ShutdownPolls, ShutdownCut,
              IInv, StopOrder, TypeOK
<1>4. DrainedQuiet'
  BY <1>1 DEF Expire, ListenFails, Signal, Shutdown, ShutdownDone, ShutdownPolls, ShutdownCut,
              IInv, StopOrder, DrainedQuiet, Active
<1> QED
  BY <1>2, <1>3, <1>4 DEF Own

LEMMA AwaitStep ==
  ASSUME IInv, Await \/ Joined
  PROVE  Own'
<1>1. /\ main = "waiting"
      /\ UNCHANGED <<http, expired, handler, body, fed, read, pc, wg, closed, stop, pub>>
      /\ \/ main' = main /\ waiter' \in {"parked", "awaited"}
         \/ main' = main /\ waiter = "woken" /\ waiter' = "panicked" /\ wg # 0
         \/ main' = "closing" /\ waiter' = "returned"
  BY DEF Await, Joined, appVars, lineVars, eventVars, Manager!Wait, Manager!Wake, Manager!Join
<1> QED
  BY <1>1 DEF IInv, Own, TypeOK, StopOrder, DrainedQuiet, Active, NeverRefused, BodyFlow

LEMMA CloseStep ==
  ASSUME IInv, CloseModule \/ CloseBus \/ Exit
  PROVE  Own'
<1>1. /\ UNCHANGED <<http, expired, handler, body, fed, read, pc, wg, waiter, pub>>
      /\ Alive /\ main \in {"closing", "exited"} /\ stop' # "idle"
      /\ main' = main \/ (main' = "exited" /\ stop' \in {"stopped", "timedOut"})
  <2>1. CASE CloseModule
    BY <2>1 DEF CloseModule, appVars, lineVars, managerVars, Events!StopCall, Events!busVars
  <2>2. CASE CloseBus
    BY <2>2 DEF CloseBus, appVars, lineVars, managerVars, Events!Close, IInv, StopOrder
  <2>3. CASE Exit
    BY <2>3 DEF Exit, lineVars, managerVars, Events!StopReturns, Events!StopTimesOut, Events!busVars,
         IInv, StopOrder
  <2> QED
    BY <2>1, <2>2, <2>3
<1> QED
  BY <1>1 DEF IInv, Own, TypeOK, StopOrder, DrainedQuiet, Active, NeverRefused, BodyFlow, Alive

LEMMA NextIInv == IInv /\ [Next]_vars => IInv'
<1> SUFFICES ASSUME IInv, [Next]_vars PROVE IInv'
  OBVIOUS
<1>1. ComponentInv'
  BY ComponentStep DEF IInv
<1>2. Own'
  <2>1. CASE UNCHANGED vars
    BY <2>1 DEF vars, appVars, lineVars, managerVars, eventVars, IInv, Own, TypeOK, StopOrder,
         DrainedQuiet, Active, NeverRefused, BodyFlow
  <2> QED
    BY <2>1, ClientStep, CallGoStep, TaskStep, EventStep, ServerStep, AwaitStep, CloseStep
       DEF Next, Handler, Stop, Finished
<1> QED
  BY <1>1, <1>2 DEF IInv, Own

LEMMA Invariance == Spec => []IInv
BY InitIInv, NextIInv, PTL DEF Spec

-----------------------------------------------------------------------------
(* The uploads of the process run under the goroutine manager of module    *)
(* Goroutines: handlers, tasks and Stop take its steps and no other step   *)
(* of the process touches its state.                                       *)
THEOREM RunsManager == Spec => Manager!Spec
<1>1. Init => Manager!Init
  BY DEF Init
<1>2. [Next]_vars => [Manager!Next]_(Manager!vars)
  <2> SUFFICES ASSUME [Next]_vars PROVE [Manager!Next]_(Manager!vars)
    OBVIOUS
  <2>1. [ManagerFacts!Next]_ManagerFacts!vars
    BY ManagerRuns
  <2> QED
    BY <2>1
       DEF ManagerFacts!vars, ManagerFacts!Next, ManagerFacts!Goroutine, ManagerFacts!Finished,
         ManagerFacts!Cancel, ManagerFacts!Park, ManagerFacts!Admit, ManagerFacts!TurnAway,
         ManagerFacts!Spawn, ManagerFacts!Begin, ManagerFacts!Skip, ManagerFacts!Return,
         ManagerFacts!Collect, ManagerFacts!Release, ManagerFacts!Done, ManagerFacts!Wait,
         ManagerFacts!Wake, ManagerFacts!Join, ManagerFacts!Is, ManagerFacts!Capacity,
         ManagerFacts!WaitMayBeCalled, ManagerFacts!NoMoreGo, ManagerFacts!At,
         ManagerFacts!Results, ManagerFacts!Settled,
         Manager!vars, Manager!Next, Manager!Goroutine, Manager!Finished,
         Manager!Cancel, Manager!Park, Manager!Admit, Manager!TurnAway,
         Manager!Spawn, Manager!Begin, Manager!Skip, Manager!Return,
         Manager!Collect, Manager!Release, Manager!Done, Manager!Wait,
         Manager!Wake, Manager!Join, Manager!Is, Manager!Capacity,
         Manager!WaitMayBeCalled, Manager!NoMoreGo, Manager!At, Manager!Results, Manager!Settled
<1> QED
  BY <1>1, <1>2, PTL DEF Spec, Manager!Spec

(* The events of the process go through the event layer of module EventBus *)
(* and through nothing else; its consumer is stopped by App.Stop only.     *)
THEOREM RunsEvents == Spec => Events!Spec
<1>1. Init => Events!Init
  BY DEF Init
<1>2. [Next]_vars => [Events!Next]_(Events!vars)
  <2> SUFFICES ASSUME [Next]_vars PROVE [Events!Next]_(Events!vars)
    OBVIOUS
  <2>1. [EventFacts!Next]_EventFacts!vars
    BY EventsRun
  <2> QED
    BY <2>1
       DEF EventFacts!vars, EventFacts!busVars, EventFacts!poolVars, EventFacts!Next,
         EventFacts!Publisher, EventFacts!Worker, EventFacts!Finished, EventFacts!Cancel,
         EventFacts!Enter, EventFacts!Send, EventFacts!GiveUp, EventFacts!Receive,
         EventFacts!Leave, EventFacts!Settle, EventFacts!SkipDuplicate, EventFacts!Claim,
         EventFacts!Reconcile, EventFacts!Abandon, EventFacts!Fail, EventFacts!Retry,
         EventFacts!StopCall, EventFacts!Close, EventFacts!StopReturns,
         EventFacts!StopTimesOut, EventFacts!Sending, EventFacts!Capacity, EventFacts!Retries,
         Events!vars, Events!busVars, Events!poolVars, Events!Next,
         Events!Publisher, Events!Worker, Events!Finished, Events!Cancel,
         Events!Enter, Events!Send, Events!GiveUp, Events!Receive,
         Events!Leave, Events!Settle, Events!SkipDuplicate, Events!Claim,
         Events!Reconcile, Events!Abandon, Events!Fail, Events!Retry,
         Events!StopCall, Events!Close, Events!StopReturns,
         Events!StopTimesOut, Events!Sending, Events!Capacity, Events!Retries
<1> QED
  BY <1>1, <1>2, PTL DEF Spec, Events!Spec

(* Type correctness; a handler streams once its Go has returned.           *)
THEOREM TypeCorrect == Spec => []TypeOK
<1>1. IInv => TypeOK
  BY DEF IInv
<1> QED
  BY <1>1, Invariance, PTL

(* When Stop closes the module, and the bus with it, no upload is left     *)
(* that could publish, so that no event is refused by a closed bus and no  *)
(* send meets a closed channel.                                            *)
THEOREM ClosesLast == Spec => []ModuleClosesLast
<1>1. ASSUME IInv PROVE ModuleClosesLast
  BY <1>1, Components DEF IInv, StopOrder, NeverRefused, ModuleClosesLast, Manager!At, Manager!InFunc
<1> QED
  BY <1>1, Invariance, PTL

(* The WaitGroup does not panic after a Shutdown that found every          *)
(* connection idle.                                                        *)
THEOREM DrainedSafe == Spec => []DrainedStopIsSafe
<1>1. IInv => DrainedStopIsSafe
  BY DEF IInv, DrainedQuiet, DrainedStopIsSafe, Active
<1> QED
  BY <1>1, Invariance, PTL

(* When consumer.Stop has returned in time, main leaves no accepted event  *)
(* and no publisher behind.                                                *)
THEOREM InTimeSettles == Spec => []InTimeExitSettles
<1>1. ASSUME IInv PROVE InTimeExitSettles
  <2>1. EventFacts!AccountedFor /\ EventFacts!LeftDrained /\ EventFacts!JobsMatch
        /\ EventFacts!NoSendOnClosedChannel
    BY <1>1 DEF IInv, ComponentInv, EventFacts!IInv
  <2>2. Workers # {}
    BY EventsAssumption
  <2> SUFFICES ASSUME stop = "stopped"
               PROVE  \A c \in Calls : /\ pub[c] = "accepted" => outcome[c] # "none"
                                       /\ pub[c] # "sending"
    BY <1>1 DEF IInv, StopOrder, InTimeExitSettles
  <2>3. closed /\ ch = <<>> /\ \A w \in Workers : at[w] = "exited" /\ job[w] = NoCall
    BY <2>1, <2>2 DEF EventFacts!LeftDrained, EventFacts!JobsMatch
  <2>4. \A c \in Calls : ~EventFacts!Queued(c) /\ ~EventFacts!Held(c)
    BY <2>3, EventsAssumption DEF EventFacts!Queued, EventFacts!Held
  <2> QED
    BY <2>1, <2>3, <2>4 DEF EventFacts!AccountedFor, EventFacts!NoSendOnClosedChannel,
       EventFacts!Sending
<1> QED
  BY <1>1, Invariance, PTL
=============================================================================
