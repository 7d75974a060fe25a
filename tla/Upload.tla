------------------------------- MODULE Upload -------------------------------
(***************************************************************************)
(* POST /statements from the request to the stored results: the handler    *)
(* Statements and streamToPipe (inbound/http_endpoint.go) on one end of an *)
(* io.Pipe, the background task processUpload (usecase/usecase.go) on the  *)
(* other, and the in-memory store (store/memory.go) that the polls read.   *)
(*                                                                         *)
(* The pipe has no buffer, the csv reader has: it takes the body in blocks *)
(* of 4096 bytes and parses their lines one by one.  The write into the    *)
(* pipe ends when the last block is taken, so the handler may respond      *)
(* while lines of it are still to be parsed.  How many lines a block has   *)
(* is left open.                                                           *)
(* The goroutine manager is module Goroutines, here its slots and its two  *)
(* looks at the context; the bus is module EventBus, here the two outcomes *)
(* that its Publish has for a task that runs.                              *)
(***************************************************************************)
EXTENDS Statement, Errors

CONSTANTS
  Requests,    \* calls of POST /statements
  Files,       \* the files a client may send with each request
  UploadIDs,   \* what the ID generator may return
  NoUpload,    \* no ID yet
  Slots        \* the limit of the goroutine manager

ASSUME SlotsAssumption == Slots \in Nat \ {0}
ASSUME RequestsAssumption == IsFiniteSet(Requests) /\ NoUpload \notin UploadIDs

(* All lines of all files; a file is a finite sequence of them. *)
AllLines == UNION {{f[i] : i \in DOMAIN f} : f \in UNION {Files[r] : r \in Requests}}

ASSUME FilesAssumption == \A r \in Requests : Files[r] \subseteq Seq(AllLines)

(* The mark of an ID that stands for no document is not a document. *)
ASSUME NoUploadAssumption == NoUpload \notin [body : Seq(AllLines), intact : BOOLEAN]

VARIABLES
  canceled,    \* the root context is done: the application is stopping
  handler,     \* how far the handler of each request is
  answer,      \* the status of its response, 0 while there is none
  file,        \* the file the client sends
  body,        \* the lines of it that reach the handler
  intact,      \* the handler reads body to io.EOF rather than to an error
  id,          \* the upload ID of each request
  task,        \* how far processUpload of each request is
  fed,         \* the number of lines that went through the pipe
  read,        \* the number of those that reader.Read has returned
  totals,      \* the locals of processUpload and parseCSV
  failed,      \* parseCSV returned an error
  published,   \* the lines whose event the bus took, in order
  dropped,     \* the lines whose event Publish refused
  status,      \* store: meta.Status of each ID, "ABSENT" when unknown
  saved        \* store: the results kept under each ID

clientVars == <<file, body, intact>>
handlerVars == <<handler, answer, id, clientVars>>
taskVars == <<task, fed, read, totals, failed, published, dropped>>
storeVars == <<status, saved>>
vars == <<canceled, handlerVars, taskVars, storeVars>>

(* The tasks that hold a slot of the manager. *)
Busy == {r \in Requests : task[r] \notin {"none", "turnedAway", "ended"}}

(* UploadResponse.StatusCode. *)
Accepted == 202

-----------------------------------------------------------------------------
Init ==
  /\ canceled = FALSE
  /\ handler = [r \in Requests |-> "idle"]
  /\ answer = [r \in Requests |-> 0]
  /\ file = [r \in Requests |-> <<>>]
  /\ body = [r \in Requests |-> <<>>]
  /\ intact = [r \in Requests |-> TRUE]
  /\ id = [r \in Requests |-> NoUpload]
  /\ task = [r \in Requests |-> "none"]
  /\ fed = [r \in Requests |-> 0]
  /\ read = [r \in Requests |-> 0]
  /\ totals = [r \in Requests |-> NoTotals]
  /\ failed = [r \in Requests |-> FALSE]
  /\ published = [r \in Requests |-> <<>>]
  /\ dropped = [r \in Requests |-> <<>>]
  /\ status = [u \in UploadIDs |-> "ABSENT"]
  /\ saved = [u \in UploadIDs |-> NoTotals]

(***************************************************************************)
(* Faults, one plausible slip of the code each; no action below uses them. *)
(***************************************************************************)
(* CreateUpload does not look for the ID. *)
RegisterOver(r, u) ==
  /\ handler[r] = "received"
  /\ id' = [id EXCEPT ![r] = u]
  /\ status' = [status EXCEPT ![u] = "QUEUED"]
  /\ saved' = [saved EXCEPT ![u] = NoTotals]
  /\ handler' = [handler EXCEPT ![r] = "scheduling"]
  /\ UNCHANGED <<canceled, answer, clientVars, taskVars>>

(* The manager does not count. *)
ScheduleUnbounded(r) ==
  /\ handler[r] = "scheduling"
  /\ task' = [task EXCEPT ![r] = "started"]
  /\ handler' = [handler EXCEPT ![r] = "streaming"]
  /\ UNCHANGED <<canceled, answer, id, clientVars, fed, read, totals, failed, published, dropped, storeVars>>

(* The handler answers without waiting for its writes. *)
CloseWriterEarly(r) ==
  /\ handler[r] = "streaming"
  /\ handler' = [handler EXCEPT ![r] = "answered"]
  /\ answer' = [answer EXCEPT ![r] = IF intact[r] THEN Accepted ELSE errorCodec(NewServer)]
  /\ UNCHANGED <<canceled, id, clientVars, taskVars, storeVars>>

(* An event for every issue, not for the failed ones only. *)
PublishesAll(line) == Parses(line) /\ Tx(line).status # "SUCCESS"

(* A record that does not parse ends the loop: return for continue. *)
TakeRecordOrStop(r) ==
  /\ task[r] = "reading" /\ read[r] < fed[r]
  /\ body[r][read[r] + 1].quoted
  /\ read' = [read EXCEPT ![r] = @ + 1]
  /\ totals' = [totals EXCEPT ![r] = ReadLine(@, body[r][read'[r]])]
  /\ task' = [task EXCEPT ![r] = CASE ~Parses(body[r][read'[r]]) -> "saving"
                                   [] Tx(body[r][read'[r]]).status = "FAILED" -> "publishing"
                                   [] OTHER -> "reading"]
  /\ UNCHANGED <<canceled, handlerVars, fed, failed, published, dropped, storeVars>>

(* processUpload returns the error of parseCSV before it saves anything. *)
TakeRefusedAndReturn(r) ==
  /\ task[r] = "reading" /\ read[r] < fed[r]
  /\ ~body[r][read[r] + 1].quoted
  /\ read' = [read EXCEPT ![r] = @ + 1]
  /\ totals' = [totals EXCEPT ![r] = ReadFails(@)]
  /\ failed' = [failed EXCEPT ![r] = TRUE]
  /\ task' = [task EXCEPT ![r] = "ended"]
  /\ UNCHANGED <<canceled, handlerVars, fed, published, dropped, storeVars>>

(* The record of an upload is made by its task, not by Upload. *)
RegisterLater(r, u) ==
  /\ handler[r] = "received"
  /\ status[u] = "ABSENT"
  /\ id' = [id EXCEPT ![r] = u]
  /\ handler' = [handler EXCEPT ![r] = "scheduling"]
  /\ UNCHANGED <<canceled, answer, clientVars, taskVars, storeVars>>

(* The final status is set when the loop is over, before SaveResults. *)
ReadEndAndMark(r) ==
  /\ task[r] = "reading" /\ read[r] = fed[r]
  /\ handler[r] = "answered"
  /\ totals' = [totals EXCEPT ![r] = IF intact[r] THEN @ ELSE ReadFails(@)]
  /\ failed' = [failed EXCEPT ![r] = ~intact[r]]
  /\ task' = [task EXCEPT ![r] = "saving"]
  /\ status' = [status EXCEPT ![id[r]] = IF intact[r] THEN "DONE" ELSE "FAILED"]
  /\ UNCHANGED <<canceled, handlerVars, fed, read, published, dropped, saved>>

(* SaveResults stores a record of its own, whose status is QUEUED. *)
SaveAsNew(r) ==
  /\ task[r] = "saving"
  /\ saved' = [saved EXCEPT ![id[r]] = totals[r]]
  /\ status' = [status EXCEPT ![id[r]] = "QUEUED"]
  /\ task' = [task EXCEPT ![r] = "finishing"]
  /\ UNCHANGED <<canceled, handlerVars, fed, read, totals, failed, published, dropped>>

-----------------------------------------------------------------------------
(* SIGTERM: the owner of the root context cancels it. *)
Cancel ==
  /\ ~canceled
  /\ canceled' = TRUE
  /\ UNCHANGED <<handlerVars, taskVars, storeVars>>

(* A request that extractCSVReader refuses: a multipart body without a     *)
(* file part, or one that is not multipart at all.                         *)
RefuseForm(r) ==
  /\ handler[r] = "idle"
  /\ handler' = [handler EXCEPT ![r] = "answered"]
  /\ \E err \in {NewInvalidFormat, NewInvalidInput} :
       answer' = [answer EXCEPT ![r] = errorCodec(err)]
  /\ UNCHANGED <<canceled, id, clientVars, taskVars, storeVars>>

(* A request with a file of which the first n lines arrive; the connection *)
(* breaks when n is short of the file.  middlewareLogging has read the     *)
(* whole body by now and dropped the error: a raw body just looks shorter, *)
(* a multipart body ends without its boundary, which the part reports.     *)
Receive(r, f, n, form) ==
  /\ handler[r] = "idle"
  /\ handler' = [handler EXCEPT ![r] = "received"]
  /\ file' = [file EXCEPT ![r] = f]
  /\ body' = [body EXCEPT ![r] = SubSeq(f, 1, n)]
  /\ intact' = [intact EXCEPT ![r] = n = Len(f) \/ form = "raw"]
  /\ UNCHANGED <<canceled, answer, id, taskVars, storeVars>>

(* Usecase.Upload: Generate and CreateUpload. *)
Register(r, u) ==
  /\ handler[r] = "received"
  /\ status[u] = "ABSENT"
  /\ id' = [id EXCEPT ![r] = u]
  /\ status' = [status EXCEPT ![u] = "QUEUED"]
  /\ saved' = [saved EXCEPT ![u] = NoTotals]
  /\ handler' = [handler EXCEPT ![r] = "scheduling"]
  /\ UNCHANGED <<canceled, answer, clientVars, taskVars>>

(* CreateUpload finds the ID in use: Upload fails, both pipe ends close. *)
Conflict(r, u) ==
  /\ handler[r] = "received"
  /\ status[u] # "ABSENT"
  /\ handler' = [handler EXCEPT ![r] = "answered"]
  /\ answer' = [answer EXCEPT ![r] = errorCodec(normalizeErr(NewBusiness("CONFLICT")))]
  /\ UNCHANGED <<canceled, id, clientVars, taskVars, storeVars>>

(* Runner.Go finds a slot, now or after it blocked. *)
Schedule(r) ==
  /\ handler[r] = "scheduling"
  /\ Cardinality(Busy) < Slots
  /\ task' = [task EXCEPT ![r] = "started"]
  /\ handler' = [handler EXCEPT ![r] = "streaming"]
  /\ UNCHANGED <<canceled, answer, id, clientVars, fed, read, totals, failed, published, dropped, storeVars>>

(* Runner.Go gives up on the root context; Upload succeeds all the same. *)
TurnAway(r) ==
  /\ handler[r] = "scheduling"
  /\ canceled
  /\ task' = [task EXCEPT ![r] = "turnedAway"]
  /\ handler' = [handler EXCEPT ![r] = "streaming"]
  /\ UNCHANGED <<canceled, answer, id, clientVars, fed, read, totals, failed, published, dropped, storeVars>>

(* io.Copy is through, every block taken: the pipe is closed, with the     *)
(* error of the source if there was one, and the handler responds.         *)
CloseWriter(r) ==
  /\ handler[r] = "streaming"
  /\ fed[r] = Len(body[r])
  /\ handler' = [handler EXCEPT ![r] = "answered"]
  /\ answer' = [answer EXCEPT ![r] = IF intact[r] THEN Accepted ELSE errorCodec(NewServer)]
  /\ UNCHANGED <<canceled, id, clientVars, taskVars, storeVars>>

-----------------------------------------------------------------------------
(* The goroutine looks at the root context before it calls its function. *)
Begin(r) ==
  /\ task[r] = "started"
  /\ task' = [task EXCEPT ![r] = IF canceled THEN "turnedAway" ELSE "marking"]
  /\ UNCHANGED <<canceled, handlerVars, fed, read, totals, failed, published, dropped, storeVars>>

(* The first UpdateMeta of processUpload. *)
MarkProcessing(r) ==
  /\ task[r] = "marking"
  /\ status' = [status EXCEPT ![id[r]] = "PROCESSING"]
  /\ task' = [task EXCEPT ![r] = "reading"]
  /\ UNCHANGED <<canceled, handlerVars, fed, read, totals, failed, published, dropped, saved>>

(* The callback makes an event of a line. *)
Publishes(line) == Parses(line) /\ Tx(line).status = "FAILED"

(* The csv reader has no line left and takes a block from the pipe. *)
TakeBlock(r, n) ==
  /\ handler[r] = "streaming" /\ task[r] = "reading"
  /\ read[r] = fed[r]
  /\ n \in (fed[r] + 1)..Len(body[r])
  /\ fed' = [fed EXCEPT ![r] = n]
  /\ UNCHANGED <<canceled, handlerVars, task, read, totals, failed, published, dropped, storeVars>>

(* reader.Read returns a line as a record. *)
TakeRecord(r) ==
  /\ task[r] = "reading" /\ read[r] < fed[r]
  /\ body[r][read[r] + 1].quoted
  /\ read' = [read EXCEPT ![r] = @ + 1]
  /\ totals' = [totals EXCEPT ![r] = ReadLine(@, body[r][read'[r]])]
  /\ task' = [task EXCEPT ![r] = IF Publishes(body[r][read'[r]]) THEN "publishing" ELSE "reading"]
  /\ UNCHANGED <<canceled, handlerVars, fed, failed, published, dropped, storeVars>>

(* reader.Read refuses a line: parseCSV returns, without the lines behind  *)
(* it, and nobody reads from the pipe any more, nor closes its end.        *)
TakeRefused(r) ==
  /\ task[r] = "reading" /\ read[r] < fed[r]
  /\ ~body[r][read[r] + 1].quoted
  /\ read' = [read EXCEPT ![r] = @ + 1]
  /\ totals' = [totals EXCEPT ![r] = ReadFails(@)]
  /\ failed' = [failed EXCEPT ![r] = TRUE]
  /\ task' = [task EXCEPT ![r] = "saving"]
  /\ UNCHANGED <<canceled, handlerVars, fed, published, dropped, storeVars>>

(* The bus takes the event of the line. *)
Publish(r) ==
  /\ task[r] = "publishing"
  /\ published' = [published EXCEPT ![r] = Append(@, read[r])]
  /\ task' = [task EXCEPT ![r] = "reading"]
  /\ UNCHANGED <<canceled, handlerVars, fed, read, totals, failed, dropped, storeVars>>

(* Publish returns the error of the root context, which is only logged. *)
PublishFails(r) ==
  /\ task[r] = "publishing"
  /\ canceled
  /\ dropped' = [dropped EXCEPT ![r] = Append(@, read[r])]
  /\ task' = [task EXCEPT ![r] = "reading"]
  /\ UNCHANGED <<canceled, handlerVars, fed, read, totals, failed, published, storeVars>>

(* No line is left and the pipe is closed: reader.Read returns io.EOF or   *)
(* the writer's error.                                                     *)
ReadEnd(r) ==
  /\ task[r] = "reading" /\ read[r] = fed[r]
  /\ handler[r] = "answered"
  /\ totals' = [totals EXCEPT ![r] = IF intact[r] THEN @ ELSE ReadFails(@)]
  /\ failed' = [failed EXCEPT ![r] = ~intact[r]]
  /\ task' = [task EXCEPT ![r] = "saving"]
  /\ UNCHANGED <<canceled, handlerVars, fed, read, published, dropped, storeVars>>

(* SaveResults. *)
Save(r) ==
  /\ task[r] = "saving"
  /\ saved' = [saved EXCEPT ![id[r]] = totals[r]]
  /\ task' = [task EXCEPT ![r] = "finishing"]
  /\ UNCHANGED <<canceled, handlerVars, fed, read, totals, failed, published, dropped, status>>

(* The last UpdateMeta, after which the slot is free. *)
Finish(r) ==
  /\ task[r] = "finishing"
  /\ status' = [status EXCEPT ![id[r]] = IF failed[r] THEN "FAILED" ELSE "DONE"]
  /\ saved' = [saved EXCEPT ![id[r]].totalLines = totals[r].totalLines,
                            ![id[r]].parsedOK = totals[r].parsedOK,
                            ![id[r]].parseErr = totals[r].parseErr]
  /\ task' = [task EXCEPT ![r] = "ended"]
  /\ UNCHANGED <<canceled, handlerVars, fed, read, totals, failed, published, dropped>>

-----------------------------------------------------------------------------
Client(r) ==
  \/ RefuseForm(r)
  \/ \E f \in Files[r], form \in {"raw", "multipart"} :
       \E n \in 0..Len(f) : Receive(r, f, n, form)

Handler(r) ==
  \/ \E u \in UploadIDs : Register(r, u) \/ Conflict(r, u)
  \/ Schedule(r) \/ TurnAway(r) \/ CloseWriter(r)

Task(r) ==
  \/ Begin(r) \/ MarkProcessing(r)
  \/ \E n \in 1..Len(body[r]) : TakeBlock(r, n)
  \/ TakeRecord(r) \/ TakeRefused(r)
  \/ Publish(r) \/ PublishFails(r) \/ ReadEnd(r) \/ Save(r) \/ Finish(r)

Next == Cancel \/ \E r \in Requests : Client(r) \/ Handler(r) \/ Task(r)

Spec == Init /\ [][Next]_vars

(***************************************************************************)
(* Handlers and tasks are goroutines, which run when they can.  Of the     *)
(* calls of Go that wait for a slot one gets it when it is free.  No       *)
(* request has to come and nobody has to cancel.                           *)
(***************************************************************************)
Fairness ==
  \A r \in Requests :
    /\ WF_vars(Task(r))
    /\ WF_vars(Handler(r))

FairSpec == Spec /\ Fairness

-----------------------------------------------------------------------------
(* Type correctness; the manager's limit bounds the busy tasks. *)
TypeOK ==
  /\ canceled \in BOOLEAN
  /\ handler \in [Requests -> {"idle", "received", "scheduling", "streaming", "answered"}]
  /\ answer \in [Requests -> {0, 202, 400, 409, 422, 500}]
  /\ intact \in [Requests -> BOOLEAN]
  /\ id \in [Requests -> UploadIDs \cup {NoUpload}]
  /\ task \in [Requests -> {"none", "turnedAway", "started", "marking", "reading",
                            "publishing", "saving", "finishing", "ended"}]
  /\ \A r \in Requests : fed[r] \in 0..Len(body[r]) /\ read[r] \in 0..fed[r]
  /\ failed \in [Requests -> BOOLEAN]
  /\ status \in [UploadIDs -> {"ABSENT", "QUEUED", "PROCESSING", "DONE", "FAILED"}]
  /\ Cardinality(Busy) <= Slots

(* One event for each failed transaction and for nothing else: every such  *)
(* line read so far went to the bus once and in order, but for those that  *)
(* a shutdown in progress made Publish refuse.                             *)
EventsMatchIssues ==
  \A r \in Requests :
    LET Failed(line) == line.quoted /\ Parses(line) /\ Tx(line).status = "FAILED"
        due == {i \in 1..read[r] : /\ Failed(body[r][i])
                                  /\ ~(task[r] = "publishing" /\ i = read[r])}
        gone == {dropped[r][k] : k \in DOMAIN dropped[r]}
    IN /\ gone \subseteq due
       /\ published[r] = InOrder(due \ gone)
       /\ dropped[r] = InOrder(gone)
       /\ gone # {} => canceled

(* What a response tells.  With a 202 nothing of the body is left in the   *)
(* pipe.  An upload that has lines was begun then, and goes on; one that   *)
(* has none needs no reader and may be turned away after its 202, but only *)
(* by a stopping manager.  A 500 says that the body broke off where the    *)
(* handler could see it: this upload is never DONE.                        *)
AnswerIsHonest ==
  \A r \in Requests :
    /\ answer[r] = 202 =>
         /\ fed[r] = Len(body[r])
         /\ body[r] # <<>> =>
              task[r] \in {"reading", "publishing", "saving", "finishing", "ended"}
         /\ task[r] = "turnedAway" => canceled
    /\ answer[r] = 500 => status[id[r]] # "DONE"

(* The polls see an UploadLedger. *)
Owners(u) == {r \in Requests : id[r] = u}

Document(u) ==
  IF Owners(u) = {} THEN NoUpload
  ELSE LET r == CHOOSE r \in Owners(u) : TRUE
       IN [body |-> body[r], intact |-> intact[r]]

Final == {"DONE", "FAILED"}

Ledger == INSTANCE UploadLedger
  WITH NoDocument <- NoUpload,
       document <- [u \in UploadIDs |-> Document(u)],
       results <- [u \in UploadIDs |-> IF status[u] \in Final THEN saved[u] ELSE NoTotals]

ImplementsLedger == Ledger!Spec

(* Every upload gets a final status, however many wait for a slot, unless  *)
(* the application stops.                                                  *)
EveryUploadSettles ==
  \A u \in UploadIDs : status[u] = "QUEUED" ~> (status[u] \in Final \/ canceled)

(* A request gets its response unless the application stops or a line that *)
(* the csv reader refuses leaves lines behind it in the pipe.              *)
ReadableIsAnswered ==
  \A r \in Requests :
    handler[r] # "idle" ~>
      handler[r] = "answered" \/ canceled \/ Cardinality(Records(body[r])) + 1 < Len(body[r])

(* README.md line 39: "The response includes upload_id; poll GET /balance  *)
(* or GET /transactions/issues until status is DONE": there is a response. *)
EveryRequestIsAnswered ==
  \A r \in Requests : handler[r] # "idle" ~> (handler[r] = "answered" \/ canceled)

(* middleware_logging.go line 178, "best effort for logging only": an      *)
(* upload that is DONE is the file the client sent.                        *)
DoneMeansWholeFile ==
  \A r \in Requests :
    id[r] # NoUpload => (status[id[r]] = "DONE" => body[r] = file[r])
=============================================================================
