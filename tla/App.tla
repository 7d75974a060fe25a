-------------------------------- MODULE App ---------------------------------
(***************************************************************************)
(* The life of the process: main.go and internal/app/server.go around the  *)
(* HTTP server, the goroutine manager (module Goroutines) and the event    *)
(* layer (module EventBus), wired as in internal/flip/module.go.  The      *)
(* steps of the two components are theirs; what is new is who takes them   *)
(* when, and the order in which App.Stop ends everything.                  *)
(*                                                                         *)
(* A request is one POST /statements; the task of the same name is the     *)
(* upload it hands to the manager.  A line of its body is a call, which is *)
(* a failed transaction and the Publish that follows from it, or Plain, a  *)
(* line without an event, or BareQuote, which encoding/csv refuses.  The   *)
(* body goes through the pipe in blocks, as in module Upload.              *)
(***************************************************************************)
EXTENDS Integers, Sequences, FiniteSets

CONSTANTS
  Requests,                            \* the uploads of one run of the process
  Calls, Owner,                        \* the calls, and the request of each
  Plain, BareQuote,                    \* the other lines
  Bodies,                              \* what may arrive with each request
  MaxGoroutine, DefaultMaxGoroutine,   \* see Goroutines
  Workers, Buffer, MaxRetries,         \* see EventBus
  EventID, NoID, NoCall

ASSUME OwnerAssumption == Owner \in [Calls -> Requests]
(* A body is a sequence of lines; a call is one line of one request. *)
ASSUME BodiesAssumption ==
  \A r \in Requests : \A b \in Bodies[r] :
    /\ b \in Seq(Calls \cup {Plain, BareQuote})
    /\ \A i, j \in DOMAIN b : b[i] \in Calls => Owner[b[i]] = r /\ (b[j] = b[i] => j = i)
(* What the two components assume of their constants. *)
ASSUME ManagerAssumption ==
  IsFiniteSet(Requests) /\ MaxGoroutine \in Int /\ DefaultMaxGoroutine \in Nat \ {0}
ASSUME EventsAssumption ==
  /\ IsFiniteSet(Calls) /\ NoCall \notin Calls
  /\ Plain \notin Calls /\ BareQuote \notin Calls \cup {Plain}
  /\ Workers # {}
  /\ Buffer \in Int /\ MaxRetries \in Int

VARIABLES
  main,      \* how far main and App.Stop are
  http,      \* the server: listening, closing, polling the connections that
             \* Shutdown found in use, or how Shutdown returned
  expired,   \* the ten seconds of the context made in main are over
  handler,   \* how far the connection and the handler of each request are
  body,      \* the lines that arrived with it
  fed,       \* the number of them that went through the pipe
  read,      \* the number of those that the csv reader has returned or refused
  canceled,  \* the root context App.ctx is done
  pc, result, sema, wg, errs, waiter, joined,                      \* Goroutines
  pub, closed, ch, at, job, attempt, seen, stop, tries, outcome    \* EventBus

Manager == INSTANCE Goroutines WITH Tasks <- Requests
Events == INSTANCE EventBus

managerVars == <<pc, result, sema, wg, errs, waiter, joined>>
eventVars == <<pub, closed, ch, at, job, attempt, seen, stop, tries, outcome>>
appVars == <<main, http, expired>>
lineVars == <<body, fed, read>>
vars == <<appVars, handler, lineVars, canceled, managerVars, eventVars>>

(* The process runs: no os.Exit, no return from main, no panic in Wait. *)
Alive == main \notin {"exited", "failed"} /\ waiter # "panicked"

(* The call of Publish that the task of a request is in. *)
Sending(r) == {c \in Calls : Owner[c] = r /\ pub[c] = "sending"}

(* Connections that Shutdown waits for. *)
Active == {r \in Requests : handler[r] \in {"connected", "scheduling", "streaming"}}

-----------------------------------------------------------------------------
Init ==
  /\ main = "running"
  /\ http = "listening"
  /\ expired = FALSE
  /\ handler = [r \in Requests |-> "idle"]
  /\ body = [r \in Requests |-> <<>>]
  /\ fed = [r \in Requests |-> 0]
  /\ read = [r \in Requests |-> 0]
  /\ Manager!Init
  /\ Events!Init

(***************************************************************************)
(* Faults, one plausible slip of the code each; no action below uses them. *)
(***************************************************************************)
(* Stop runs the closers before it waits for the goroutines. *)
CloseModuleFirst ==
  /\ Alive
  /\ main = "waiting"
  /\ Events!StopCall
  /\ UNCHANGED <<appVars, handler, lineVars, managerVars>>

(* The handler keeps the pipe open until the task has taken its leave. *)
AnswerAfterTask(r) ==
  /\ Alive
  /\ handler[r] = "streaming"
  /\ fed[r] = Len(body[r])
  /\ pc[r] \in {"turnedAway", "gone"}
  /\ handler' = [handler EXCEPT ![r] = "answered"]
  /\ UNCHANGED <<appVars, lineVars, canceled, managerVars, eventVars>>

(* Stop closes the listener only and goes on at once. *)
CloseListener ==
  /\ Alive
  /\ main = "shutdown"
  /\ http' = "drained"
  /\ main' = "waiting"
  /\ UNCHANGED <<expired, handler, lineVars, canceled, managerVars, eventVars>>

(* The handler streams before Go has returned. *)
ParkAndStream(r) ==
  /\ Alive
  /\ handler[r] = "scheduling"
  /\ Manager!Park(r) \/ Manager!Admit(r)
  /\ handler' = [handler EXCEPT ![r] = "streaming"]
  /\ UNCHANGED <<appVars, lineVars, eventVars>>

-----------------------------------------------------------------------------
(* A client connects while the server accepts. *)
Connect(r) ==
  /\ Alive
  /\ http = "listening"
  /\ handler[r] = "idle"
  /\ handler' = [handler EXCEPT ![r] = "connected"]
  /\ UNCHANGED <<appVars, lineVars, canceled, managerVars, eventVars>>

(* The connection ends before its request is there. *)
HangUp(r) ==
  /\ Alive
  /\ handler[r] = "connected"
  /\ handler' = [handler EXCEPT ![r] = "answered"]
  /\ UNCHANGED <<appVars, lineVars, canceled, managerVars, eventVars>>

(* The request has arrived: middlewareLogging holds its whole body, so the *)
(* upload waits for no client from here on.  Upload registers it.          *)
Receive(r, b) ==
  /\ Alive
  /\ handler[r] = "connected"
  /\ handler' = [handler EXCEPT ![r] = "scheduling"]
  /\ body' = [body EXCEPT ![r] = b]
  /\ UNCHANGED <<appVars, fed, read, canceled, managerVars, eventVars>>

(* Upload is inside Runner.Go. *)
CallGo(r) ==
  /\ Alive
  /\ handler[r] = "scheduling"
  /\ Manager!Park(r) \/ Manager!Admit(r)
  /\ UNCHANGED <<appVars, handler, lineVars, eventVars>>

(* Runner.Go returns, with or without a goroutine; Upload succeeds. *)
GoReturns(r) ==
  /\ Alive
  /\ handler[r] = "scheduling"
  /\ Manager!TurnAway(r) \/ Manager!Spawn(r)
  /\ handler' = [handler EXCEPT ![r] = "streaming"]
  /\ UNCHANGED <<appVars, lineVars, eventVars>>

(* streamToPipe is through, its last block taken, and the handler responds *)
(* while the task may have lines of that block before it.                  *)
Answer(r) ==
  /\ Alive
  /\ handler[r] = "streaming"
  /\ fed[r] = Len(body[r])
  /\ handler' = [handler EXCEPT ![r] = "answered"]
  /\ UNCHANGED <<appVars, lineVars, canceled, managerVars, eventVars>>

-----------------------------------------------------------------------------
(* The goroutine of a task, but for what its function does. *)
RunTask(r) ==
  /\ Alive
  /\ \/ Manager!Begin(r) \/ Manager!Skip(r) \/ Manager!Collect(r)
     \/ Manager!Release(r) \/ Manager!Done(r)
  /\ UNCHANGED <<appVars, handler, lineVars, eventVars>>

(* The task is in parseCSV, in front of a line that is in the buffer of    *)
(* the csv reader.                                                         *)
Reading(r) == pc[r] = "running" /\ Sending(r) = {}
HasLine(r) == Reading(r) /\ read[r] < fed[r]
Line(r) == body[r][read[r] + 1]

(* The buffer is empty and the csv reader takes a block from the pipe. *)
TakeBlock(r, n) ==
  /\ Alive
  /\ Reading(r) /\ read[r] = fed[r]
  /\ handler[r] = "streaming"
  /\ n \in (fed[r] + 1)..Len(body[r])
  /\ fed' = [fed EXCEPT ![r] = n]
  /\ UNCHANGED <<appVars, handler, body, read, canceled, managerVars, eventVars>>

(* A line with a failed transaction: the callback calls Publish. *)
TakeCall(r, c) ==
  /\ Alive
  /\ HasLine(r) /\ Line(r) = c
  /\ read' = [read EXCEPT ![r] = @ + 1]
  /\ Events!Enter(c)
  /\ UNCHANGED <<appVars, handler, body, fed, managerVars>>

(* A line without an event. *)
TakePlain(r) ==
  /\ Alive
  /\ HasLine(r) /\ Line(r) = Plain
  /\ read' = [read EXCEPT ![r] = @ + 1]
  /\ UNCHANGED <<appVars, handler, body, fed, canceled, managerVars, eventVars>>

(* The csv reader refuses the line: processUpload saves what it has and    *)
(* returns the error; what is left of the body stays in the pipe.          *)
TakeRefused(r) ==
  /\ Alive
  /\ HasLine(r) /\ Line(r) = BareQuote
  /\ read' = [read EXCEPT ![r] = @ + 1]
  /\ Manager!Return(r, "error")
  /\ UNCHANGED <<appVars, handler, body, fed, eventVars>>

(* processUpload meets the end of its body, or the error with which the    *)
(* handler closed the pipe, saves the results and returns.                 *)
TakeEnd(r) ==
  /\ Alive
  /\ Reading(r) /\ read[r] = fed[r]
  /\ handler[r] = "answered"
  /\ Manager!Return(r, "nil") \/ Manager!Return(r, "error")
  /\ UNCHANGED <<appVars, handler, lineVars, eventVars>>

(* The select of Publish goes on. *)
EndPublish(c) ==
  /\ Alive
  /\ Events!Send(c) \/ Events!GiveUp(c)
  /\ UNCHANGED <<appVars, handler, lineVars, managerVars>>

(* A worker of the consumer.  Its handler is NoopReconciler, which does    *)
(* not fail on an event with an ID, and the IDs are UUIDs: no duplicates.  *)
Consume(w) ==
  /\ Alive
  /\ Events!Receive(w) \/ Events!Claim(w) \/ Events!Reconcile(w) \/ Events!Leave(w)
  /\ UNCHANGED <<appVars, handler, lineVars, managerVars>>

-----------------------------------------------------------------------------
(* Ten seconds after the start of main, whatever it does by then. *)
Expire ==
  /\ Alive
  /\ ~expired
  /\ expired' = TRUE
  /\ UNCHANGED <<main, http, handler, lineVars, canceled, managerVars, eventVars>>

(* ListenAndServe returns another error than ErrServerClosed: os.Exit. *)
ListenFails ==
  /\ Alive
  /\ http = "listening"
  /\ main' = "failed"
  /\ UNCHANGED <<http, expired, handler, lineVars, canceled, managerVars, eventVars>>

(* A signal: the goroutine of Start cancels the root context and wakes     *)
(* main, which calls Stop.                                                 *)
Signal ==
  /\ Alive
  /\ main = "running"
  /\ main' = "stopping"
  /\ Manager!Cancel /\ Events!Cancel
  /\ UNCHANGED <<http, expired, handler, lineVars>>

(* Stop calls Shutdown, which closes the listeners. *)
Shutdown ==
  /\ Alive
  /\ main = "stopping"
  /\ http' = "closing"
  /\ main' = "shutdown"
  /\ UNCHANGED <<expired, handler, lineVars, canceled, managerVars, eventVars>>

(* Shutdown finds no connection in use and returns nil. *)
ShutdownDone ==
  /\ Alive
  /\ main = "shutdown"
  /\ Active = {}
  /\ http' = "drained"
  /\ main' = "waiting"
  /\ UNCHANGED <<expired, handler, lineVars, canceled, managerVars, eventVars>>

(* Shutdown finds one in use and waits for its timer or its context. *)
ShutdownPolls ==
  /\ Alive
  /\ http = "closing"
  /\ Active # {}
  /\ http' = "polling"
  /\ UNCHANGED <<main, expired, handler, lineVars, canceled, managerVars, eventVars>>

(* The context is over and Shutdown returns its error without another look *)
(* at the connections; the handlers run on.                                *)
ShutdownCut ==
  /\ Alive
  /\ http = "polling"
  /\ expired
  /\ http' = "cut"
  /\ main' = "waiting"
  /\ UNCHANGED <<expired, handler, lineVars, canceled, managerVars, eventVars>>

(* a.goroutine.Wait(), which has no deadline. *)
Await ==
  /\ Alive
  /\ main = "waiting"
  /\ Manager!Wait \/ Manager!Wake
  /\ UNCHANGED <<appVars, handler, lineVars, eventVars>>

(* Wait returns. *)
Joined ==
  /\ Alive
  /\ main = "waiting"
  /\ Manager!Join
  /\ main' = "closing"
  /\ UNCHANGED <<http, expired, handler, lineVars, eventVars>>

(* The closer "Flip", consumer.Stop; the closer "Config" shares nothing    *)
(* with it, so that the random order of the map does not matter.           *)
CloseModule ==
  /\ Alive
  /\ main = "closing"
  /\ Events!StopCall
  /\ UNCHANGED <<appVars, handler, lineVars, managerVars>>

(* bus.Close inside consumer.Stop. *)
CloseBus ==
  /\ Alive
  /\ Events!Close
  /\ UNCHANGED <<appVars, handler, lineVars, managerVars>>

(* consumer.Stop returns, with nil or on its deadline, and so does main. *)
Exit ==
  /\ Alive
  /\ Events!StopReturns \/ (expired /\ Events!StopTimesOut)
  /\ main' = "exited"
  /\ UNCHANGED <<http, expired, handler, lineVars, managerVars>>

(* The process is gone. *)
Finished == ~Alive /\ UNCHANGED vars

-----------------------------------------------------------------------------
Client(r) == Connect(r) \/ HangUp(r) \/ \E b \in Bodies[r] : Receive(r, b)
Handler(r) == CallGo(r) \/ GoReturns(r) \/ Answer(r)
Task(r) == \/ RunTask(r) \/ TakePlain(r) \/ TakeRefused(r) \/ TakeEnd(r)
           \/ \E n \in 1..Len(body[r]) : TakeBlock(r, n)
           \/ \E c \in Calls : TakeCall(r, c)
Stop == \/ Shutdown \/ ShutdownDone \/ ShutdownPolls \/ ShutdownCut \/ Await \/ Joined
        \/ CloseModule \/ CloseBus \/ Exit

Next ==
  \/ \E r \in Requests : Client(r) \/ Handler(r) \/ Task(r)
  \/ \E c \in Calls : EndPublish(c)
  \/ \E w \in Workers : Consume(w)
  \/ Expire \/ ListenFails \/ Signal \/ Stop
  \/ Finished

Spec == Init /\ [][Next]_vars

(***************************************************************************)
(* Goroutines run when they can, main's among them, and the clock goes on. *)
(* No client has to connect or to send, no signal has to come.  What a     *)
(* task finds in its body is data: it never fails for want of another way. *)
(***************************************************************************)
Fairness ==
  /\ \A r \in Requests : WF_vars(Handler(r)) /\ WF_vars(Task(r))
  /\ \A c \in Calls : WF_vars(EndPublish(c))
  /\ \A w \in Workers : WF_vars(Consume(w))
  /\ WF_vars(Stop) /\ WF_vars(Expire)

FairSpec == Spec /\ Fairness

-----------------------------------------------------------------------------
(* Type correctness; a handler streams once its Go has returned. *)
TypeOK ==
  /\ main \in {"running", "stopping", "shutdown", "waiting", "closing", "exited", "failed"}
  /\ http \in {"listening", "closing", "polling", "drained", "cut"}
  /\ expired \in BOOLEAN
  /\ handler \in [Requests -> {"idle", "connected", "scheduling", "streaming", "answered"}]
  /\ \A r \in Requests :
       /\ handler[r] = "streaming" => pc[r] \notin {"idle", "parked", "admitted"}
       /\ fed[r] \in 0..Len(body[r]) /\ read[r] \in 0..fed[r]

(* Stop closes the module when no upload is left that could publish: no    *)
(* event is refused by a closed bus and no send meets a closed channel,    *)
(* although handlers that Shutdown gave up on go on calling Go.            *)
ModuleClosesLast ==
  /\ main \in {"closing", "exited"} \/ closed => Manager!At(Manager!InFunc) = {}
  /\ \A c \in Calls : pub[c] \notin {"refused", "panicked"}

(* The panic of the WaitGroup needs a Shutdown that was cut short: after   *)
(* one that returned nil no handler is left to call Go.                    *)
DrainedStopIsSafe ==
  http = "drained" => /\ waiter # "panicked"
                      /\ \A r \in Requests : handler[r] # "scheduling"

(* The counterpart of ExitSettlesEvents below: when consumer.Stop was not  *)
(* cut short by its deadline, main leaves nothing behind, neither an       *)
(* accepted event nor a publisher.                                         *)
InTimeExitSettles ==
  main = "exited" /\ stop # "timedOut" =>
    \A c \in Calls : /\ pub[c] = "accepted" => outcome[c] # "none"
                     /\ pub[c] # "sending"

(* A signal ends the process, whatever hangs: a handler in the pipe of a   *)
(* task that refused a line or never ran, a client that does not send.  No *)
(* task hangs: each one gets the rest of its body, with its end, and room  *)
(* in the bus or the error of Publish.                                     *)
StopEnds == main = "stopping" ~> ~Alive

(* README.md line 11: "App wiring [...] handles graceful shutdown".  An    *)
(* event that the bus accepted is dealt with before main returns.          *)
ExitSettlesEvents ==
  main = "exited" => \A c \in Calls : pub[c] = "accepted" => outcome[c] # "none"
=============================================================================
