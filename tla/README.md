# goflip in TLA+

goflip takes bank statements over HTTP (`POST /statements`), reads them line by
line in the background, keeps a balance and the failed and pending transactions
of each upload in memory, sends an event for every failed transaction to a pool
of workers, and answers polls (`GET /balance`, `GET /transactions/issues`).
This directory models that program in TLA+: TLC checks small instances, and
TLAPS proves every safety property that the runs check, and both refinements,
for every instance. Liveness is model-checked.

All paths below are relative to `src/`.

## 1. The system

### Components

| component | state | operations | who calls it |
|---|---|---|---|
| goroutine manager, `internal/pkg/pkgroutine/goroutine.go` | the channel `sema` (slots in use), the `WaitGroup`, `errs` under `mu` | `Go`, `Wait`, the goroutine `Go` makes and its two deferred calls | `Usecase.Upload`, `App.Stop` |
| event bus, `internal/flip/event/bus.go` | `closed` under a read-write lock, a buffered channel | `Publish`, `Subscribe`, `Close` | `processUpload`, the consumer |
| reconciliation consumer, `internal/flip/event/consumer.go` | `seen` (event IDs), a `WaitGroup` of workers | `Start`, `Stop`, `processEvent` with retries and backoff | module wiring, `App.Stop` |
| statement parser, `internal/flip/usecase/parse.go` | the locals of a loop | `parseCSV`, `parseRecord` | `processUpload` |
| upload use case, `internal/flip/usecase/usecase.go` | none of its own | `Upload`, `processUpload`, `Balance`, `Issues` | the endpoints |
| in-memory store, `internal/flip/store/memory.go` | a map of records; each has its meta data, balance, issues and a lock | `CreateUpload`, `UpdateMeta`, `SaveResults`, `GetBalance`, `ListIssues` | the use case |
| upload endpoint, `internal/flip/inbound/http_endpoint.go` | an `io.Pipe` per request | `Statements`, `streamToPipe`, extraction of the body | the router |
| issue query, the same file with `usecase/models.go` and `store/memory.go` | none | `parsePagination`, `parseIssueFilter`, `Matches`, `ListIssues` | the router |
| application, `internal/app`, `main.go`, `internal/flip/module.go` | the root context, a map of closers, the context of `main` | `New`, `Start`, `Stop` | the operating system |
| router and middlewares, `internal/pkg/pkgrouter` | a `statusRecorder` per request | `endpoint` with its codecs, logging, routing, correlation ID, recovery | net/http |
| error values, `internal/pkg/pkgerror` | none | constructors, `StatusCode` | endpoints and use case |
| configuration, logging set-up, ID generators | none that changes | library calls | everyone |

### How they interact

An HTTP handler registers an upload in the store, asks the manager for a
goroutine and then copies the request body into a pipe whose other end that
goroutine, running `processUpload`, reads. The pipe has no buffer, but the csv
reader takes blocks of 4096 bytes from it: the handler waits while a block is
parsed, and responds when the last one is taken, which may be before its lines
are parsed and their events published. The task goes on to store the results. For each failed transaction the
task calls `Publish`, which blocks while the channel of the bus is full; the
workers of the consumer empty it. The root context reaches `Go`, the task and
`Publish`. A signal cancels it, and `Stop` ends the HTTP server, the tasks and
the consumer in this order.

### What is hard about it

* `Go` chooses in a `select` between a free slot and a cancelled context, and
  `wg.Add` comes after it, possibly while `Wait` is under way.
* A panicking function unwinds through the calls that give its slot back.
* `Close` waits for a write lock that publishers inside a blocking `select`
  hold for reading, and the publishers wait for workers.
* Two workers may hold events with the same ID; every event may be retried.
* An upload is finished in two store operations while clients poll.
* Handler and task of an upload can each end before the other: the csv reader
  may refuse a line, the source of the body may fail, the task may be turned
  away or never start.
* A client makes one picture out of many polls: pages it asks for one after the
  other, statuses from two endpoints, while connections break.
* Three things end at different times on a shutdown, some with a deadline and
  some without.
* Balances are `int64`, page offsets `int`, and both wrap around silently.

### What makes each part correct

* Manager: no slot or count is lost, the limit holds, every blocked call gets
  on, `Wait` returns when, and only when, nothing runs or will run.
* Bus and consumer: no send on a closed channel; each accepted event is handled
  once per ID, with the right number of attempts, and none is lost before
  `Stop` returns nil; `Publish` and `Close` do not block each other for good.
* Parser and callback: what the loop adds up is what the file says.
* Query: the pages of a filter are the issues it asks for, each one once.
* Upload: polls see `QUEUED`, `PROCESSING`, and a final status with the results
  of the whole document; events match the failed transactions; the response
  tells the truth; every upload gets a final status.
* Service: answers to successive polls fit together and move forward, an upload
  whose 202 has arrived is known from then on, and polling comes to an end.
* Application: what is shut down last is used by nobody; a signal ends the
  process.

## 2. The modules

| module | models | uses |
|---|---|---|
| `Goroutines` | the goroutine manager | |
| `GoroutinesProofs` | theorems about it | `Goroutines`, TLAPS |
| `EventBus` | bus and consumer | `EventDelivery` |
| `EventDelivery` | abstract: what the event layer promises | |
| `EventBusProofs` | theorems about the event layer; that it implements `EventDelivery` | `EventBus`, TLAPS |
| `Statement` | record parser and callback as operators, with a reference definition (`Evaluate`) | |
| `StatementProofs` | what one more line does to the reference results | `Statement`, TLAPS |
| `Listing` | parameters, filter and pages of the issue query as operators | `Statement` |
| `ListingProofs` | that a page is the slice that was asked for | `Listing`, `StatementProofs` |
| `ParseLoop` | the loop of `parseCSV`; the queries about its results | `Listing` |
| `ParseLoopProofs` | theorems about it | `ParseLoop`, `ListingProofs` |
| `Errors` | error values, what the use case makes of store errors, HTTP statuses | |
| `Upload` | handler, pipe, task and store of `POST /statements` | `Statement`, `Errors`, `UploadLedger` |
| `UploadLedger` | abstract: what the polls may see | `Statement` |
| `Service` | the polls, the router around every request, broken connections, composed with the uploads | `Upload`, `Listing` |
| `UploadProofs` | theorems about uploads; that they implement `UploadLedger` | `Upload`, `StatementProofs` |
| `ServiceProofs` | theorems about polls and router | `Service`, `UploadProofs`, `ListingProofs` |
| `App` | start, signal, `Stop` and exit, composing manager and event layer | `Goroutines`, `EventBus` |
| `AppProofs` | theorems about it, from those about its components | `App`, `GoroutinesProofs`, `EventBusProofs` |
| `MC*` | the instances TLC checks | |

In the modules that model code, a group of definitions headed "Faults" comes
before the actions. They are slips a programmer could have made; no action
uses them. Putting one in the place of the action it distorts makes TLC report
the property that `PROJECT.json` names for it, which shows that the property
depends on the code.

### Goroutines

A task is one call of `Go` together with the goroutine it may create. `pc[t]`
walks through the code: `idle`, `parked` (blocked in the select), `admitted`
(slot taken, `wg.Add` to come), `started`, `running`, `failing` (`errs` not yet
appended), `exiting` (first deferred call), `released` (`wg.Done` to come),
`gone`; `turnedAway` when the context case was taken. A call of `wg.Wait` that
found a non-zero counter is `parked`, then `woken` by the `Done` that reaches
zero, and looks at the counter once more as `sync.WaitGroup` does; a non-zero
one is its panic "WaitGroup is reused before previous Wait has returned". That
second look is the Go library's; the model takes it from its documented misuse
check. `Wait` may be called once the context is done or no call of `Go` is in
progress; the only caller outside the tests, `App.Stop`, cancels first, and
module `App` composes exactly that.

### EventBus and EventDelivery

A call is one `Publish` with its event. `Enter` is the read lock with the look
at `closed`; while a `Close` waits (`stop = "closing"`) a new reader is held
back, as `sync.RWMutex` does. `Send` and `GiveUp` are the two cases of the
select, both possible when both are ready. A `Send` on a closed channel would
set `pub` to `panicked`. `Receive`, `Claim` or `SkipDuplicate` (one step:
`LoadOrStore` is atomic), `Reconcile`, `Fail`, `Abandon` and `Retry` are
`processEvent`; `Stop` may time out and be called again. `tries` and `outcome`
are history. The handler may fail on any event, which is what the retries are
for. How long a backoff lasts is left out.

`EventDelivery` is the promise without locks, buffer and workers. An event is
"handled" there at the atomic `LoadOrStore`, the point after which no other
event with its ID can reach the handler.

### Statement, Listing, ParseLoop

A line is a record of what the code can tell apart: whether encoding/csv
accepts it, its number of fields, and the values of the fields; a text that is
no `int64` is a number outside `IntRange`, which ends at `MaxInt`. `ReadLine`
and `ReadFails` are the loop body. `Evaluate` says what a file means without a
loop and without recursion: the records are a set of positions, `Nth` is the
position in a set that has k members up to it, and `Pick` takes the members of
a list at some positions in order; only the sums are recursive functions.
This form is what makes it possible to prove something about it. `Asked` and
`PageOf` say the same of the issue query. `ParseLoop` runs the loop over every
body and asks the queries about the result.

### Upload and UploadLedger

Per request: how far the handler is, the file, the part of it that arrives,
whether the handler reads it to a clean end, the ID, and how far the task is.
`Receive` includes what `middlewareLogging` does to every request before the
handler: it reads the whole body, drops the error and hands on what it got;
connections break between lines. `TakeBlock` is the csv reader's read from the
pipe, `TakeRecord` and `TakeRefused` what `reader.Read` makes of the next line
in its buffer; `fed` counts the lines that went through the pipe, `read` those
that were parsed, and the handler waits for the first only. A block has any
number of lines, a line counts with the block that holds its end. `CreateUpload`, `UpdateMeta` and `SaveResults`
are one step each, being atomic under their locks; polls may come between any
two of them. The manager appears with its limit and its two looks at the
context, the bus with its two outcomes for a running task (accepted, or refused
because the root context is done): `App` shows that a task meets no other.

`UploadLedger` is the view of a client that polls. The refinement maps
`document` to what the owner of an ID sent, as far as it arrived, and `results`
to the stored results once the status is final.

### Service

`Service` puts the uploads of `Upload` behind the router and adds clients that
poll. A request is `handling`, then `written` (its response is begun), and over;
`Returned` and `Code` say what its endpoint, the handler of `Upload` or a poll,
has come back with. `Serve` is the endpoint of a poll: it looks at its
parameters, then at the record, in one step under the record's lock; `Balance`,
`Issues`, `Found`, `GetBalance` are the functions of that name (`get` for
`Found`). The answer is on its way while the upload takes further steps.
`WriteReply` is `writeJSON`, of which the client gets the first `WriteHeader`.
Errors go through `Errors`, which `Upload` uses too.

The client side (`Ask`'s choice of a query, `Hear`, `Walked`) is external: a
poller sends one request at a time, any query at any time, and may ask for the
page after the last one it got. `heard` is what it was last told of an upload,
`walk` the pages it has; both are only there to state properties. A connection
may break from the moment its endpoint has returned; what a break before that
does to a body is in `Receive`.

### App

`App` instantiates `Goroutines` and `EventBus` over one root context and takes
their actions: a handler takes those of `Go`, a task those of its goroutine and
of `Publish`, `Stop` those of `Wait`, `Stop` and `Close`. Its own state is
`main` (where `main` and `Stop` are), `http` (how `Shutdown` went), `expired`
(the context that `main` makes), `handler`, and of each request `body`, `fed`
and `read` as in `Upload`. A line is a call (a failed transaction with its
`Publish`), `Plain` (without an event) or `BareQuote` (refused by the csv
reader), so that what a task does with its body depends on the body and on
nothing else. `Shutdown` looks at the connections once (`ShutdownDone`,
`ShutdownPolls`); from then on it may see them idle or give up, whichever its
select finds first. The consumer's handler is the `NoopReconciler` of the
wiring, which does not fail on events with an ID. Once `main` has returned, or
`os.Exit` or a panic in `Wait` has ended the process, nothing moves.

## 3. The runs

| run | asks | instance | states |
|---|---|---|---|
| `goroutines` | do slots, counts, limit and `Wait` hold, does everything end | 3 calls, 2 slots | 19,731 |
| `event_bus` | channel, lock, pool and `Stop`; refines `EventDelivery` | 3 publishers (2 with one ID, 1 with the empty ID), buffer 1, 2 workers, 1 retry | 21,231 |
| `parse_loop` | loop against reference; pages against the issues asked for | bodies of up to 3 of 11 lines, `MaxInt` = 63 | 3,444 |
| `upload` | response, events and stored results; refines `UploadLedger` | 2 requests, 2 IDs, 1 slot, files of up to 2 lines, `MaxInt` = 15 | 137,906 |
| `service` | what a client may conclude from several answers, statuses, end of polling | 1 request, 1 poller, 1 slot, 2 files, 3 listings with pages of 1 issue | 676,724 |
| `app` | order of the shutdown and its end | 2 uploads with up to 2 and 1 events, 1 slot, buffer 1, 1 worker | 144,793 |
| `goroutines_at_limit`, `goroutines_wait_panic`, `paging_overflow`, `upload_unanswered`, `upload_truncated`, `app_exit` | a sentence of the documentation each, see section 6 | as above | violated |

What the passing runs show:

* `goroutines`: `NoLeak` (tokens and counts always match the tasks that hold
  them), `LimitRespected`, `WaitIsFinal` (nothing runs once `wg.Wait` let go,
  and `Wait` returns every error, though it reads `errs` without the lock),
  `EveryTaskSettles`, `WaitEnds`.
* `event_bus`: `NoSendOnClosedChannel`, `HandledOncePerID`, `RetryBudget`,
  `AcceptedIsAccountedFor` (an accepted event is at one position of the channel,
  or with one worker, or has its outcome, and in one of these places only: none
  is lost, handed out twice or tried again after its end),
  `AcceptedIsSettled`, `NoStandoff`, `ImplementsDelivery`.
* `parse_loop`: `ParsedIsEvaluated`, `PagesCoverIssues`.
* `upload`: `EventsMatchIssues`, `AnswerIsHonest` (with a 202 the whole body has
  left the pipe, and an upload with lines is being processed; only one without
  may still be turned away, by a manager that stops; a 500 is never `DONE`),
  `ImplementsLedger`, `EveryUploadSettles`, `ReadableIsAnswered`.
* `service`: `PollsAddUp` (pages asked for one after the other, while
  `SaveResults` may fall between any two, begin the list of the issues of the
  body that arrived; a final status comes with the number of all of them, or
  with the balance of all of it), `PollsAdvance` (successive
  answers, from either endpoint, move forward and a final one stays),
  `KnownOnceAccepted` (no 404 after the 202 has arrived, even if the task was
  turned away), `PollingEnds`.
* `app`: `ModuleClosesLast` (no publisher ever meets a closed bus),
  `DrainedStopIsSafe` (the panic of the WaitGroup needs a `Shutdown` that was
  cut short), `InTimeExitSettles` (a consumer that stops in time leaves no
  accepted event behind), `StopEnds` (a handler may hang in its pipe and a client
  may not send, but no task waits for good, not even for its handler).

### Bounds, and why they are enough

* Three calls on two slots are the least with a blocked caller, two functions
  in progress and one call left over when `Wait` wakes up. The argument of
  `NewManager` is 0 in one run, so that the default applies.
* A buffer of one and two workers give a full channel, a blocked publisher,
  two copies of one event held at once, and a second `Close`. One retry has a
  first, a repeated and a last attempt.
* `MaxInt` = 63: two amounts of the instance overflow the balance, and the last
  pages a client can name overflow the offset while the pages of three issues
  do not. `MaxPageSize` (100 in the code) is 4, so that it cuts.
* `MaxLines = 3` bounds the bodies of `parse_loop`: a refused line before,
  between and after others, and a wrap-around that is undone by the next line.
* Two requests on one slot: one upload waits for the other; two IDs: a conflict
  and a free one. The files cover every way the loop can go.
* One poller in `service`: pollers only read and keep their own picture, so two
  of them do not meet. One upload, since what is polled is one record; two
  uploads are the subject of `upload`. The file with two issues and a payment
  between them has a page before and a page after any step of the upload, a
  balance that is not that of an empty record, a body cut short and an empty
  one; the other file ends in a refused line. One listing is refused with 422.
* In `App` one task can fill the channel and wait for room while the other
  waits for its slot and `Stop` for both. The bodies have two calls that may
  come in one block or in two, a refused line with another behind it, which
  leaves the handler in its pipe when they come in two blocks, a line without
  an event, and no line at all.

Deadlock is checked where the system has a state of rest that the module names
(`Finished`), and in `service`, where a client may always ask again. `parse_loop` and `upload` say `CHECK_DEADLOCK FALSE`: a parse ends,
and in `upload` everything stops once each request is served or stuck.

### Fairness

Weak fairness throughout, and only for what the Go runtime does by itself: a
goroutine that can go on does, a blocked sender or a waiting caller of `Go` is
served when there is room, a timer fires. Retried handlers return, functions
given to the manager end. Nobody has to connect, publish, cancel, call `Stop`
or `Wait`, or send a signal. In `Upload` a call of `Go` that waits for a slot
is a weakly fair action like any other step of the handler: with a finite
number of requests a slot that is free stays free until one of them takes it.
In `Service` a response that can be written is, and what was written arrives or
is lost; no client has to poll, and connections may break for ever. `PollingEnds`
therefore speaks of a client that gets answers again and again (`[]<>` of the
action `Answered` is its premise).
In `App` the ten seconds of `main` pass (`WF(Expire)`); a client that has
connected need never send. The fairness of a task does not end it: it reads,
publishes and returns as its body says, and waits where the code waits, so that
`StopEnds` fails when a task waits for a handler that waits for it
(`AnswerAfterTask`).

## 4. What is proved

### The goroutine manager

`GoroutinesProofs`, checked by TLAPS for every finite set of calls
(`TasksAssumption`) and every integer limit with a positive default
(`LimitAssumption`):

* `TypeCorrect`: `Spec => []TypeOK`, with `sema` within its capacity and `wg`
  never negative (a negative counter would be a panic);
* `CountersHold`: `Spec => []NoLeak`;
* `LimitHolds`: `Spec => []LimitRespected`;
* `WaitFinal`: `Spec => []WaitIsFinal`.

They follow from one inductive invariant, `IInv`. `NoLeak` is inductive with
the types: `CountAfterMove` says what the move of one task does to the number
of tasks in a set of places, and each action is a move that changes the
counters to match. The limit follows, as the functions in progress hold a slot
each. `WaitIsFinal` is not inductive. It needs `CalledInTime` (the context was
done, or all calls of `Go` over, when `Wait` was called), `Quiet` (from then on,
with a zero counter, no task is in its function and whoever is still in `Go`
will find the context done before it calls a function), and `ErrsComplete` (a
task that ended with an error is in `errs` or about to append to it); with these
`joined` is complete.

### The event layer

`EventBusProofs`, for every finite set of calls with any IDs
(`CallsAssumption`), any pool of at least one worker (`WorkersAssumption`; the
code turns a smaller number into four) and any integers as buffer and retries
(`ConfigAssumption`; the code raises those that are too small):

* `TypeCorrect`: `Spec => []TypeOK`;
* `ChannelSafe`: `Spec => []NoSendOnClosedChannel`;
* `OneHandlingPerID`: `Spec => []HandledOncePerID`;
* `AttemptsBounded`: `Spec => []RetryBudget`;
* `NothingLost`: `Spec => []AcceptedIsAccountedFor`, an accepted event is in
  exactly one place.

Only the first two are inductive, together. The others need to know where an
event is: `OneHolder` (in one place of the channel or with one worker),
`Untouched` (nothing has happened to an event before a worker has it),
`AttemptsCounted` (the loop variable of `processEvent` is the number of calls of
`Handle` so far), `SeenGuards` (an event that passed `LoadOrStore` has its ID in
`seen`, and no other event of that ID has passed) and `LeftDrained` (a worker
leaves only a closed and empty channel, so that when all have left nothing is
in it and nothing comes). Their conjunction `IInv` is inductive.

The last one is `Refinement`: `Spec => ImplementsDelivery`. The
end of a `Publish`, accepted or not, the worker's `LoadOrStore`, the end of
`processEvent` and the closing of the bus are the steps of `EventDelivery`; `Receive`, `Fail`, `Retry`, `Leave` and all of
`Stop` but the closing are stutters. To `IInv` the proof adds `SeenIsHandled`
(every ID in `seen` is that of a handled event, so that a skipped event is a
duplicate of one that was handled) and `ReconciledIsTried`.

### Uploads

`UploadProofs`, for every finite set of requests (`RequestsAssumption`), any
files that are sequences (`FilesAssumption`), any IDs and at least one slot
(`SlotsAssumption`; `initLibraries` asks for 100):

* `TypeCorrect`: `Spec => []TypeOK`, with the limit on busy tasks;
* `AnswerTrue`: `Spec => []AnswerIsHonest`, what a response tells of its upload;
* `EventsRight`: `Spec => []EventsMatchIssues`;
* `Refinement`: `Spec => ImplementsLedger`.

The inductive invariant `IInv` adds to `TypeOK` what ties the parts of a request
together: `HandlerFlow` (an ID from `Register` on, a task from `Go` on, a 500
only for a body that broke off), `ReadFlow` (only a task past `marking` has taken
anything; a handler answers when all has gone through the pipe) and `RecordFlow` (no two uploads
have one ID, the stored status follows the task, and a task that ends without an
error has read an intact body). The lemma `StatusMoves` says that each write of
a status finds the one before it.

`EventsRight` needs `EventFlow` besides: a task that is about to publish stands
on a failed transaction, and the events taken and those refused, each in order,
are together what is due of the lines read. It rests on what `InOrder` does when
the set grows at its end.

The refinement needs the values, which `IInv` leaves open. `TotalsFlow` says
that the locals of a running task are `Evaluate` of the lines it has read, those
of a task past its loop `Evaluate` of the whole body, cut short or not, and that
from `SaveResults` on the store has the same. Each step of the loop is the theorem
`NextLine` or `CutShort` (below). With that the second `UpdateMeta` turns out to
write counts that are there already (`FinishKeeps`), so that results become
visible in the one step that makes the status final. `Register`,
`MarkProcessing` and `Finish` are the steps of the ledger, everything else is a
stutter: a body only arrives before its request has an ID (`OneOwner`,
`SameOwners`). `NoUploadAssumption` says that the mark for "no document" is not
a document.

### What a file amounts to

`StatementProofs`, for any integers with a largest one (`MaxIntAssumption`) and
any lines: the results of a body and one more line are those of `ReadLine`
(`NextLine`), and a body that is not read to its end has the results of its
records and one error (`CutShort`). `OrderIsRight` says that `InOrder`, in which
the reference definition and the properties put their positions, is an
enumeration in order. The facts about sums, about wrapping in between (`WrapAdd`
and its like) and about `Nth` are proved by induction over the naturals, taken
as well-foundedness of a set (`NatSet`), since the library's induction rules
cannot be instantiated here.

`ParseLoopProofs` has `ParsesRight`: `Spec => []ParsedIsEvaluated`, for bodies of
any length. The loop's locals are those of a body that ends here, which is
inductive by `NextLine`.

### Pages

`ListingProofs` has `PageIsSlice`: for any list of issues, any valid filter and
any page whose last number is an `int`, `ListIssues` answers with the slice of
the issues asked for and their number. Beyond that bound the offset wraps around
(section 6), so it is part of the statement. `ParseLoopProofs` has `PagesRight`:
`Spec => []PagesCoverIssues`.

### Polls

`ServiceProofs`, under the same assumptions, for any set of pollers that is
disjoint from the uploads (`PollersAssumption`) and any listings:

* `AnswersAdvance`: `ServiceSpec => PollsAdvance`;
* `KnownFromThenOn`: `ServiceSpec => KnownOnceAccepted`;
* `RouterTypes`: `ServiceSpec => []ServiceTypeOK`;
* `PollsFitTogether`: `ServiceSpec => []PollsAddUp`, if the issues of a file and
  one page more are fewer than an `int` can count (`FilesFit`).

A step of the service is a step of `Upload` or leaves its variables alone, so
`IInv` and `StatusMoves` carry over. The invariant for the polls is
`AnswersInOrder`: what a poller was told lies behind what is on its way to it,
and that behind what is in the store. `QueryFlow` keeps its query and its one
answer together while the request is in the router. `RouterInv` is inductive
with `IInv` and `AnswersHaveStatus` (a handler that has returned has set a
status).

`PollsAddUp` relates what a poller has put together from many answers to what
the file amounts to. Its invariant has two halves. `StoreInv` is about the
store: `TotalsFlow`, and `StoreFlow` (a record has an owner, it is empty until
the results are stored, no body is too long). `StoreGoesOn` says that what is
stored stays, with the document it was computed from, so that nothing that was
ever true of an answer stops being true while the upload goes on. `PollFits`
says where a poller is: its pages are the first ones of what its listing asks
for, or it was told that there are none because nothing was stored then, which
no final status went with (`WalkFits`); its query is for a first page or for the one after the pages it
has (`QueryFits`); an answer on its way is the page of its query (`ListFits`);
a balance told with a final status is that of the document (`BalanceFits`, the
point where a final status must imply stored results). A next page is only
asked for while pages are missing, which bounds its offset, so that
`PageIsSlice` applies (`NextFits`); the page then continues the pages before it
(`PagesJoin`).

### The process

`AppProofs`, for any uploads and bodies whose calls have an owner each
(`OwnerAssumption`, `BodiesAssumption`), under the assumptions of the two components (`ManagerAssumption`,
`EventsAssumption`):

* `RunsManager`, `RunsEvents`: every behaviour of `App` is one of `Goroutines`
  and one of `EventBus`;
* `TypeCorrect`: `Spec => []TypeOK`;
* `ClosesLast`: `Spec => []ModuleClosesLast`;
* `DrainedSafe`: `Spec => []DrainedStopIsSafe`;
* `InTimeSettles`: `Spec => []InTimeExitSettles`.

The proof modules of the components are instantiated (`ManagerFacts`,
`EventFacts`) and cited by name: a step of the process is a step of the manager
or leaves it alone, and so for the event layer, hence both inductive invariants
hold of the process. What is left is about the order of things. `StopOrder` ties
`main` to the server, to `Wait` and to `Stop`: `wg.Wait` is called after
`Shutdown` has returned, and only after it has returned is the bus closed.
`DrainedQuiet` says that after a `Shutdown` that found every connection idle no
call of `Go` is left, so that the counter stays at zero. `NeverRefused` says that
no event meets a closed bus; it holds because a task in its function keeps the
counter of the WaitGroup above zero, which is an invariant of the manager.
`BodyFlow` keeps `fed` and `read` within a body that no longer changes.

## 5. Only model-checked, and not modelled

Left to TLC is everything under fairness: `EveryTaskSettles`, `WaitEnds`,
`AcceptedIsSettled`, `NoStandoff`, `EveryUploadSettles`, `ReadableIsAnswered`,
`PollingEnds` and `StopEnds`. Liveness with its `ENABLED` is out of the prover's
reach. Every other property of a passing run is a theorem of section 4. The
violations of section 6 are counterexamples, which need no proof.

Not modelled:

* what the middleware logs, the status kept by its recorder included: `Encode`
  may fail after the first `WriteHeader` and make the recorder keep a second one
  that is not sent, but that is decided inside one call of `writeJSON`;
* configuration (viper, read once at the start; `WatchConfig` follows the file,
  but nobody reads a value again), logging set-up, masking and truncation of
  logged bodies, the JSON envelope, CORS, routing, normalisation of correlation
  IDs: no state that two actors share, no property of interest;
* ID generators: any ID may come, one in use too;
* a client that sends a file again because the response was lost: that is a
  second upload like any other, with event IDs of its own;
* memory: the store keeps every upload and `seen` every event ID for the life of
  the process, so that no bound holds;
* counterparty and description of a transaction, which nothing looks at;
* the recovery middleware: nothing under it panics. The goroutine manager, where
  a function may panic, has a recovery of its own, which is modelled;
* a failing initialisation, which ends the process before it serves.

## 6. Where code and documentation part

* `goroutine.go:38`: "If the manager is already at its concurrency limit, the
  function is not run". `Go` blocks and runs it later (`goroutines_at_limit`).
* `goroutine.go:73`: "Wait blocks until all scheduled goroutines finish". A
  call of `Go` whose select picks the slot after the cancellation can run
  `wg.Add` between the wake-up of `Wait` and its return; the WaitGroup panics
  (`goroutines_wait_panic`). `DrainedStopIsSafe` says when the application is
  safe from it.
* `README.md:46`: the pages of the issue list. `(page - 1) * pageSize` at
  `memory.go:99` overflows for large pages and shows the first issues again
  (`paging_overflow`).
* `README.md:39`: "The response includes `upload_id`". A line that the csv
  reader refuses, with more than the current block behind it, leaves the
  handler in its pipe write: there is no response (`upload_unanswered`).
* `middleware_logging.go:178`: "best effort for logging only". The middleware
  drops the error of a broken connection, and half a file becomes `DONE`
  (`upload_truncated`).
* `README.md:11`: "handles graceful shutdown". The context for `Stop` is made
  when `main` starts (`main.go:11`); after ten seconds of running it is over
  before the signal comes, and accepted events are left behind (`app_exit`).

One divergence is read off the code and has no run: `middleware_cid.go:16` calls
the header the one "used to track requests end-to-end", but `processUpload` logs
with the root context (`usecase.go:93`), so its records carry no correlation ID.

## 7. Plan

Every component that keeps state of its own is modelled, and every safety
property and refinement that a run checks is proved. What would say more:

1. `Spec => Manager!Spec` and `Spec => Events!Spec` tie `App` to its components;
   the same for `Upload`, which has the manager and the bus in short form
   (slots, two looks at the context, two outcomes of `Publish`), would make the
   abstraction itself a theorem.
2. The safety core of the liveness properties as invariants of their own, such
   as: whoever is blocked waits for somebody who is not.
