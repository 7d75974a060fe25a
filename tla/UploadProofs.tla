---------------------------- MODULE UploadProofs ----------------------------
(***************************************************************************)
(* Theorems about module Upload, for every finite set of requests, any     *)
(* files and any number of slots: type correctness with the limit of busy  *)
(* tasks, what an answer tells the client, which events go to the bus, and *)
(* that the uploads implement UploadLedger.                                *)
(***************************************************************************)
EXTENDS Upload, StatementProofs

(* What TypeOK leaves open. *)
Shapes ==
  /\ body \in [Requests -> Seq(AllLines)]
  /\ fed \in [Requests -> Nat] /\ read \in [Requests -> Nat]
  /\ IsFiniteSet(Busy)

(* A handler has an ID from Register on, and a task from Go on. *)
HandlerFlow ==
  \A r \in Requests :
    /\ handler[r] \in {"idle", "received"} => id[r] = NoUpload
    /\ handler[r] \in {"scheduling", "streaming"} => id[r] # NoUpload
    /\ handler[r] \in {"idle", "received", "scheduling"} => task[r] = "none"
    /\ id[r] = NoUpload => task[r] = "none"
    /\ answer[r] # 0 => handler[r] = "answered"
    /\ answer[r] \in {202, 500} => id[r] # NoUpload
    /\ answer[r] = 500 => ~intact[r]
    /\ task[r] = "turnedAway" => canceled

(* Only a task in its loop, or past it, has taken anything; the handler of *)
(* an upload ends when its copy is through the pipe.                       *)
ReadFlow ==
  \A r \in Requests :
    /\ task[r] \in {"none", "turnedAway", "started", "marking"} => fed[r] = 0 /\ read[r] = 0
    /\ handler[r] = "answered" /\ id[r] # NoUpload => fed[r] = Len(body[r])

(* The record of an upload follows its task: nobody else changes it.       *)
RecordFlow ==
  /\ \A r, s \in Requests : id[r] # NoUpload /\ id[r] = id[s] => r = s
  /\ \A r \in Requests : id[r] # NoUpload =>
       /\ task[r] \in {"none", "turnedAway", "started", "marking"} => status[id[r]] = "QUEUED"
       /\ task[r] \in {"reading", "publishing", "saving", "finishing"} => status[id[r]] = "PROCESSING"
       /\ task[r] = "ended" => status[id[r]] = IF failed[r] THEN "FAILED" ELSE "DONE"
  /\ \A r \in Requests :
       task[r] \in {"saving", "finishing", "ended"} => failed[r] \/ intact[r]

(* The inductive invariant. *)
IInv == TypeOK /\ Shapes /\ HandlerFlow /\ ReadFlow /\ RecordFlow

-----------------------------------------------------------------------------
(* The statuses of the responses. *)
LEMMA Statuses ==
  /\ Accepted = 202
  /\ errorCodec(NewServer) = 500
  /\ errorCodec(NewInvalidFormat) = 400
  /\ errorCodec(NewInvalidInput) = 422
  /\ errorCodec(normalizeErr(NewBusiness("CONFLICT"))) = 409
BY DEF Accepted, errorCodec, NewServer, NewInvalidFormat, NewInvalidInput, normalizeErr,
       NewBusiness, NewError, StatusCode

LEMMA InitIInv == Init => IInv
<1> SUFFICES ASSUME Init PROVE IInv
  OBVIOUS
<1> USE DEF Init
<1>1. Busy = {}
  BY DEF Busy
<1>2. Cardinality(Busy) = 0 /\ IsFiniteSet(Busy)
  BY <1>1, FS_EmptySet
<1>3. \A r \in Requests : body[r] = <<>> /\ Len(body[r]) = 0 /\ fed[r] = 0 /\ read[r] = 0
  OBVIOUS
<1>4. TypeOK
  <2>1. \A r \in Requests : fed[r] \in 0..Len(body[r]) /\ read[r] \in 0..fed[r]
    BY <1>3
  <2>2. /\ canceled \in BOOLEAN
        /\ handler \in [Requests -> {"idle", "received", "scheduling", "streaming", "answered"}]
        /\ answer \in [Requests -> {0, 202, 400, 409, 422, 500}]
        /\ intact \in [Requests -> BOOLEAN]
        /\ id \in [Requests -> UploadIDs \cup {NoUpload}]
        /\ task \in [Requests -> {"none", "turnedAway", "started", "marking", "reading",
                                  "publishing", "saving", "finishing", "ended"}]
        /\ failed \in [Requests -> BOOLEAN]
        /\ status \in [UploadIDs -> {"ABSENT", "QUEUED", "PROCESSING", "DONE", "FAILED"}]
    OBVIOUS
  <2> QED
    BY <1>2, <2>1, <2>2, SlotsAssumption DEF TypeOK
<1>5. Shapes
  BY <1>2 DEF Shapes
<1>6. HandlerFlow /\ ReadFlow /\ RecordFlow
  BY DEF HandlerFlow, ReadFlow, RecordFlow
<1> QED
  BY <1>4, <1>5, <1>6 DEF IInv

-----------------------------------------------------------------------------
(* A step that gives no task a slot leaves the limit alone. *)
LEMMA NoNewBusy ==
  ASSUME IInv, Busy' \subseteq Busy
  PROVE  IsFiniteSet(Busy)' /\ Cardinality(Busy)' <= Slots
<1>1. IsFiniteSet(Busy) /\ Cardinality(Busy) <= Slots
  BY DEF IInv, TypeOK, Shapes
<1>2. IsFiniteSet(Busy') /\ Cardinality(Busy') <= Cardinality(Busy)
  BY <1>1, FS_Subset
<1> QED
  BY <1>1, <1>2, FS_CardinalityType, SlotsAssumption

(* Cancel and stuttering. *)
LEMMA IdleStep ==
  ASSUME IInv, Cancel \/ UNCHANGED vars
  PROVE  IInv'
<1>1. /\ UNCHANGED <<handlerVars, taskVars, storeVars>>
      /\ canceled' \in BOOLEAN /\ (canceled => canceled')
  BY DEF Cancel, vars, IInv, TypeOK
<1>2. Busy' = Busy
  BY <1>1 DEF Busy, taskVars
<1> USE DEF handlerVars, clientVars, taskVars, storeVars
<1>3. TypeOK' /\ Shapes'
  BY <1>1, <1>2 DEF IInv, TypeOK, Shapes
<1>4. HandlerFlow'
  BY <1>1 DEF IInv, HandlerFlow
<1>5. ReadFlow' /\ RecordFlow'
  BY <1>1 DEF IInv, ReadFlow, RecordFlow
<1> QED
  BY <1>3, <1>4, <1>5 DEF IInv

-----------------------------------------------------------------------------
(* The steps of a handler. *)
LEMMA RefuseFormStep ==
  ASSUME IInv, NEW r \in Requests, RefuseForm(r)
  PROVE  IInv'
<1> USE DEF RefuseForm, clientVars, taskVars, storeVars
<1>1. answer' = [answer EXCEPT ![r] = 400] \/ answer' = [answer EXCEPT ![r] = 422]
  <2>1. PICK err \in {NewInvalidFormat, NewInvalidInput} :
          answer' = [answer EXCEPT ![r] = errorCodec(err)]
    OBVIOUS
  <2>2. errorCodec(err) = 400 \/ errorCodec(err) = 422
    BY Statuses
  <2> QED
    BY <2>1, <2>2
<1>2. Busy' = Busy
  BY DEF Busy
<1>3. TypeOK' /\ Shapes'
  BY <1>1, <1>2 DEF IInv, TypeOK, Shapes
<1>4. HandlerFlow' /\ ReadFlow' /\ RecordFlow'
  BY <1>1 DEF IInv, TypeOK, Shapes, HandlerFlow, ReadFlow, RecordFlow
<1> QED
  BY <1>3, <1>4 DEF IInv

LEMMA ReceiveStep ==
  ASSUME IInv, NEW r \in Requests, NEW f \in Files[r], NEW form, NEW n \in 0..Len(f),
         Receive(r, f, n, form)
  PROVE  IInv'
<1> USE DEF Receive, taskVars, storeVars
<1>1. f \in Seq(AllLines)
  BY FilesAssumption
<1>2. SubSeq(f, 1, n) \in Seq(AllLines)
  BY <1>1
<1>3. body' \in [Requests -> Seq(AllLines)] /\ fed[r] = 0 /\ read[r] = 0
      /\ task[r] = "none" /\ answer[r] = 0
  BY <1>2 DEF IInv, TypeOK, Shapes, HandlerFlow, ReadFlow
<1>4. Busy' = Busy
  BY DEF Busy
<1>5. \A q \in Requests : fed[q] \in 0..Len(body'[q]) /\ read[q] \in 0..fed[q]
  BY <1>2, <1>3 DEF IInv, TypeOK, Shapes
<1>6. TypeOK' /\ Shapes'
  BY <1>3, <1>4, <1>5 DEF IInv, TypeOK, Shapes
<1>7. HandlerFlow' /\ ReadFlow' /\ RecordFlow'
  BY <1>3 DEF IInv, TypeOK, Shapes, HandlerFlow, ReadFlow, RecordFlow
<1> QED
  BY <1>6, <1>7 DEF IInv

LEMMA RegisterStep ==
  ASSUME IInv, NEW r \in Requests, NEW u \in UploadIDs, Register(r, u)
  PROVE  IInv'
<1> USE DEF Register, clientVars, taskVars
<1>1. Busy' = Busy
  BY DEF Busy
<1>2. TypeOK' /\ Shapes'
  BY <1>1 DEF IInv, TypeOK, Shapes
<1>3. \A q \in Requests : id[q] # u
  BY RequestsAssumption DEF IInv, TypeOK, RecordFlow
<1>4. HandlerFlow' /\ ReadFlow'
  BY RequestsAssumption DEF IInv, TypeOK, Shapes, HandlerFlow, ReadFlow
<1>5. RecordFlow'
  BY <1>3, RequestsAssumption DEF IInv, TypeOK, HandlerFlow, RecordFlow
<1> QED
  BY <1>2, <1>4, <1>5 DEF IInv

LEMMA ConflictStep ==
  ASSUME IInv, NEW r \in Requests, NEW u \in UploadIDs, Conflict(r, u)
  PROVE  IInv'
<1> USE DEF Conflict, clientVars, taskVars, storeVars
<1>1. answer' = [answer EXCEPT ![r] = 409]
  BY Statuses
<1>2. Busy' = Busy
  BY DEF Busy
<1>3. TypeOK' /\ Shapes'
  BY <1>1, <1>2 DEF IInv, TypeOK, Shapes
<1>4. HandlerFlow' /\ ReadFlow' /\ RecordFlow'
  BY <1>1 DEF IInv, TypeOK, Shapes, HandlerFlow, ReadFlow, RecordFlow
<1> QED
  BY <1>3, <1>4 DEF IInv

LEMMA ScheduleStep ==
  ASSUME IInv, NEW r \in Requests, Schedule(r)
  PROVE  IInv'
<1> USE DEF Schedule, clientVars, storeVars
<1>1. task[r] = "none" /\ Busy' = Busy \cup {r}
  BY DEF IInv, TypeOK, HandlerFlow, Busy
<1>2. IsFiniteSet(Busy') /\ Cardinality(Busy') <= Slots
  <2>1. IsFiniteSet(Busy) /\ Cardinality(Busy) \in Nat
    BY FS_CardinalityType DEF IInv, Shapes
  <2>2. /\ IsFiniteSet(Busy \cup {r})
        /\ Cardinality(Busy \cup {r}) = IF r \in Busy THEN Cardinality(Busy) ELSE Cardinality(Busy) + 1
    BY <2>1, FS_AddElement
  <2> QED
    BY <1>1, <2>1, <2>2, SlotsAssumption
<1>3. TypeOK' /\ Shapes'
  BY <1>2 DEF IInv, TypeOK, Shapes
<1>4. HandlerFlow' /\ ReadFlow' /\ RecordFlow'
  BY <1>1 DEF IInv, TypeOK, Shapes, HandlerFlow, ReadFlow, RecordFlow
<1> QED
  BY <1>3, <1>4 DEF IInv

LEMMA TurnAwayStep ==
  ASSUME IInv, NEW r \in Requests, TurnAway(r)
  PROVE  IInv'
<1> USE DEF TurnAway, clientVars, storeVars
<1>1. task[r] = "none" /\ Busy' = Busy
  BY DEF IInv, TypeOK, HandlerFlow, Busy
<1>2. TypeOK' /\ Shapes'
  BY <1>1 DEF IInv, TypeOK, Shapes
<1>3. HandlerFlow' /\ ReadFlow' /\ RecordFlow'
  BY <1>1 DEF IInv, TypeOK, Shapes, HandlerFlow, ReadFlow, RecordFlow
<1> QED
  BY <1>2, <1>3 DEF IInv

LEMMA CloseWriterStep ==
  ASSUME IInv, NEW r \in Requests, CloseWriter(r)
  PROVE  IInv'
<1> USE DEF CloseWriter, clientVars, taskVars, storeVars
<1>1. answer' = [answer EXCEPT ![r] = IF intact[r] THEN 202 ELSE 500]
  BY Statuses
<1>2. Busy' = Busy
  BY DEF Busy
<1>3. TypeOK' /\ Shapes'
  BY <1>1, <1>2 DEF IInv, TypeOK, Shapes
<1>4. HandlerFlow' /\ ReadFlow' /\ RecordFlow'
  BY <1>1 DEF IInv, TypeOK, Shapes, HandlerFlow, ReadFlow, RecordFlow
<1> QED
  BY <1>3, <1>4 DEF IInv

-----------------------------------------------------------------------------
(* The steps of a task. *)
LEMMA BeginStep ==
  ASSUME IInv, NEW r \in Requests, Begin(r)
  PROVE  IInv'
<1> USE DEF Begin, handlerVars, clientVars, storeVars
<1>1. Busy' \subseteq Busy
  BY DEF IInv, TypeOK, Busy
<1>2. TypeOK' /\ Shapes'
  BY <1>1, NoNewBusy DEF IInv, TypeOK, Shapes
<1>3. HandlerFlow' /\ ReadFlow'
  BY DEF IInv, TypeOK, Shapes, HandlerFlow, ReadFlow
<1>4. RecordFlow'
  BY DEF IInv, TypeOK, Shapes, HandlerFlow, RecordFlow
<1> QED
  BY <1>2, <1>3, <1>4 DEF IInv

LEMMA MarkProcessingStep ==
  ASSUME IInv, NEW r \in Requests, MarkProcessing(r)
  PROVE  IInv'
<1> USE DEF MarkProcessing, handlerVars, clientVars
<1>1. Busy' \subseteq Busy
  BY DEF IInv, TypeOK, Busy
<1>2. TypeOK' /\ Shapes'
  BY <1>1, NoNewBusy DEF IInv, TypeOK, Shapes
<1>3. HandlerFlow' /\ ReadFlow'
  BY DEF IInv, TypeOK, Shapes, HandlerFlow, ReadFlow
<1>4. RecordFlow'
  BY DEF IInv, TypeOK, Shapes, HandlerFlow, RecordFlow
<1> QED
  BY <1>2, <1>3, <1>4 DEF IInv

LEMMA TakeBlockStep ==
  ASSUME IInv, NEW r \in Requests, NEW n \in 1..Len(body[r]), TakeBlock(r, n)
  PROVE  IInv'
<1> USE DEF TakeBlock, handlerVars, clientVars, storeVars
<1>1. Busy' = Busy
  BY DEF Busy
<1>2. /\ fed' \in [Requests -> Nat] /\ fed'[r] \in 0..Len(body[r]) /\ read[r] \in 0..fed'[r]
      /\ \A q \in Requests \ {r} : fed'[q] = fed[q]
  BY DEF IInv, TypeOK, Shapes
<1>3. TypeOK' /\ Shapes'
  BY <1>1, <1>2 DEF IInv, TypeOK, Shapes
<1>4. HandlerFlow' /\ ReadFlow'
  BY <1>2 DEF IInv, TypeOK, Shapes, HandlerFlow, ReadFlow
<1>5. RecordFlow'
  BY DEF IInv, TypeOK, Shapes, HandlerFlow, RecordFlow
<1> QED
  BY <1>3, <1>4, <1>5 DEF IInv

LEMMA TakeRecordStep ==
  ASSUME IInv, NEW r \in Requests, TakeRecord(r)
  PROVE  IInv'
<1> USE DEF TakeRecord, handlerVars, clientVars, storeVars
<1>1. Busy' \subseteq Busy
  BY DEF IInv, TypeOK, Busy
<1>2. TypeOK' /\ Shapes'
  BY <1>1, NoNewBusy DEF IInv, TypeOK, Shapes
<1>3. HandlerFlow' /\ ReadFlow'
  BY DEF IInv, TypeOK, Shapes, HandlerFlow, ReadFlow
<1>4. RecordFlow'
  BY DEF IInv, TypeOK, Shapes, HandlerFlow, RecordFlow
<1> QED
  BY <1>2, <1>3, <1>4 DEF IInv

LEMMA TakeRefusedStep ==
  ASSUME IInv, NEW r \in Requests, TakeRefused(r)
  PROVE  IInv'
<1> USE DEF TakeRefused, handlerVars, clientVars, storeVars
<1>1. Busy' \subseteq Busy
  BY DEF IInv, TypeOK, Busy
<1>2. TypeOK' /\ Shapes'
  BY <1>1, NoNewBusy DEF IInv, TypeOK, Shapes
<1>3. HandlerFlow' /\ ReadFlow'
  BY DEF IInv, TypeOK, Shapes, HandlerFlow, ReadFlow
<1>4. RecordFlow'
  BY DEF IInv, TypeOK, Shapes, HandlerFlow, RecordFlow
<1> QED
  BY <1>2, <1>3, <1>4 DEF IInv

LEMMA PublishStep ==
  ASSUME IInv, NEW r \in Requests, Publish(r) \/ PublishFails(r)
  PROVE  IInv'
<1>1. /\ task[r] = "publishing"
      /\ task' = [task EXCEPT ![r] = "reading"]
      /\ UNCHANGED <<canceled, handlerVars, fed, read, failed, storeVars>>
  BY DEF Publish, PublishFails
<1> USE DEF handlerVars, clientVars, storeVars
<1>2. Busy' \subseteq Busy
  BY <1>1 DEF IInv, TypeOK, Busy
<1>3. TypeOK' /\ Shapes'
  BY <1>1, <1>2, NoNewBusy DEF IInv, TypeOK, Shapes
<1>4. HandlerFlow' /\ ReadFlow'
  BY <1>1 DEF IInv, TypeOK, Shapes, HandlerFlow, ReadFlow
<1>5. RecordFlow'
  BY <1>1 DEF IInv, TypeOK, Shapes, HandlerFlow, RecordFlow
<1> QED
  BY <1>3, <1>4, <1>5 DEF IInv

LEMMA ReadEndStep ==
  ASSUME IInv, NEW r \in Requests, ReadEnd(r)
  PROVE  IInv'
<1> USE DEF ReadEnd, handlerVars, clientVars, storeVars
<1>1. Busy' \subseteq Busy
  BY DEF IInv, TypeOK, Busy
<1>2. failed' \in [Requests -> BOOLEAN] /\ (failed'[r] \/ intact'[r])
  <2>1. CASE intact[r]
    <3>1. failed' = [failed EXCEPT ![r] = FALSE]
      BY <2>1, Zenon
    <3> QED
      BY <2>1, <3>1 DEF IInv, TypeOK
  <2>2. CASE ~intact[r]
    <3>1. failed' = [failed EXCEPT ![r] = TRUE]
      BY <2>2, Zenon
    <3> QED
      BY <2>2, <3>1 DEF IInv, TypeOK
  <2> QED
    BY <2>1, <2>2
<1>3. TypeOK' /\ Shapes'
  BY <1>1, <1>2, NoNewBusy DEF IInv, TypeOK, Shapes
<1>4. HandlerFlow' /\ ReadFlow'
  BY DEF IInv, TypeOK, Shapes, HandlerFlow, ReadFlow
<1>5. RecordFlow'
  BY <1>2 DEF IInv, TypeOK, Shapes, HandlerFlow, RecordFlow
<1> QED
  BY <1>3, <1>4, <1>5 DEF IInv

LEMMA SaveStep ==
  ASSUME IInv, NEW r \in Requests, Save(r)
  PROVE  IInv'
<1> USE DEF Save, handlerVars, clientVars
<1>1. Busy' \subseteq Busy
  BY DEF IInv, TypeOK, Busy
<1>2. TypeOK' /\ Shapes'
  BY <1>1, NoNewBusy DEF IInv, TypeOK, Shapes
<1>3. HandlerFlow' /\ ReadFlow'
  BY DEF IInv, TypeOK, Shapes, HandlerFlow, ReadFlow
<1>4. RecordFlow'
  BY DEF IInv, TypeOK, Shapes, HandlerFlow, RecordFlow
<1> QED
  BY <1>2, <1>3, <1>4 DEF IInv

LEMMA FinishStep ==
  ASSUME IInv, NEW r \in Requests, Finish(r)
  PROVE  IInv'
<1> USE DEF Finish, handlerVars, clientVars
<1>1. Busy' \subseteq Busy
  BY DEF IInv, TypeOK, Busy
<1>2. TypeOK' /\ Shapes'
  BY <1>1, NoNewBusy DEF IInv, TypeOK, Shapes
<1>3. HandlerFlow' /\ ReadFlow'
  BY DEF IInv, TypeOK, Shapes, HandlerFlow, ReadFlow
<1>4. RecordFlow'
  BY DEF IInv, TypeOK, Shapes, HandlerFlow, RecordFlow
<1> QED
  BY <1>2, <1>3, <1>4 DEF IInv

LEMMA NextIInv == IInv /\ [Next]_vars => IInv'
<1> SUFFICES ASSUME IInv, [Next]_vars
             PROVE  IInv'
  OBVIOUS
<1>1. CASE Cancel \/ UNCHANGED vars
  BY <1>1, IdleStep
<1>2. ASSUME NEW r \in Requests, Client(r)
      PROVE  IInv'
  BY <1>2, RefuseFormStep, ReceiveStep DEF Client
<1>3. ASSUME NEW r \in Requests, Handler(r)
      PROVE  IInv'
  BY <1>3, RegisterStep, ConflictStep, ScheduleStep, TurnAwayStep, CloseWriterStep DEF Handler
<1>4. ASSUME NEW r \in Requests, Task(r)
      PROVE  IInv'
  BY <1>4, BeginStep, MarkProcessingStep, TakeBlockStep, TakeRecordStep, TakeRefusedStep,
     PublishStep, ReadEndStep, SaveStep, FinishStep DEF Task
<1> QED
  BY <1>1, <1>2, <1>3, <1>4 DEF Next

LEMMA Invariance == Spec => []IInv
<1> QED
  BY InitIInv, NextIInv, PTL DEF Spec

-----------------------------------------------------------------------------
(* Two statuses that may be seen of an upload, one after the other. *)
Moves(old, new) ==
  \/ old = new
  \/ old = "ABSENT" /\ new = "QUEUED"
  \/ old = "QUEUED" /\ new = "PROCESSING"
  \/ old = "PROCESSING" /\ new \in Final

(* Each write of a status finds the one before it: CreateUpload takes an    *)
(* unused ID, the two UpdateMeta of processUpload the QUEUED and then the  *)
(* PROCESSING of their own upload.                                         *)
LEMMA StatusMoves ==
  ASSUME IInv, [Next]_vars, NEW u \in UploadIDs
  PROVE  Moves(status[u], status'[u])
<1>1. ASSUME NEW r \in Requests, NEW v \in UploadIDs, Register(r, v)
      PROVE  Moves(status[u], status'[u])
  BY <1>1 DEF Register, Moves, IInv, TypeOK
<1>2. ASSUME NEW r \in Requests, MarkProcessing(r)
      PROVE  Moves(status[u], status'[u])
  BY <1>2 DEF MarkProcessing, Moves, IInv, TypeOK, HandlerFlow, RecordFlow
<1>3. ASSUME NEW r \in Requests, Finish(r)
      PROVE  Moves(status[u], status'[u])
  BY <1>3 DEF Finish, Moves, Final, IInv, TypeOK, HandlerFlow, RecordFlow
<1>4. CASE UNCHANGED status
  BY <1>4 DEF Moves
<1>5. \/ \E r \in Requests : MarkProcessing(r) \/ Finish(r) \/ \E v \in UploadIDs : Register(r, v)
      \/ UNCHANGED status
  BY DEF Next, Cancel, Client, Handler, Task, RefuseForm, Receive, Conflict, Schedule, TurnAway,
         CloseWriter, Begin, TakeBlock, TakeRecord, TakeRefused, Publish, PublishFails, ReadEnd,
         Save, storeVars, vars
<1> QED
  BY <1>1, <1>2, <1>3, <1>4, <1>5

-----------------------------------------------------------------------------
(* The types of the state, and the limit of NewManager: no more tasks than *)
(* there are slots are between Go and their end.                           *)
THEOREM TypeCorrect == Spec => []TypeOK
<1>1. IInv => TypeOK
  BY DEF IInv
<1> QED
  BY <1>1, Invariance, PTL

(* The response of Statements: nothing of a body answered with 202 is left *)
(* in the pipe; if it has lines, its task has begun, and if it has none    *)
(* only a stopping manager can have turned it away; an upload answered     *)
(* with 500 is never DONE.                                                 *)
THEOREM AnswerTrue == Spec => []AnswerIsHonest
<1>1. ASSUME IInv PROVE AnswerIsHonest
  <2>1. ASSUME NEW r \in Requests, answer[r] = 202
        PROVE  fed[r] = Len(body[r]) /\ (task[r] = "turnedAway" => canceled)
    BY <1>1, <2>1 DEF IInv, HandlerFlow, ReadFlow
  <2>2. ASSUME NEW r \in Requests, answer[r] = 202, body[r] # <<>>
        PROVE  task[r] \in {"reading", "publishing", "saving", "finishing", "ended"}
    <3>1. Len(body[r]) # 0
      BY <1>1, <2>2 DEF IInv, Shapes
    <3> QED
      BY <1>1, <2>1, <2>2, <3>1 DEF IInv, TypeOK, ReadFlow
  <2>3. ASSUME NEW r \in Requests, answer[r] = 500, status[id[r]] = "DONE"
        PROVE  FALSE
    BY <1>1, <2>3 DEF IInv, TypeOK, HandlerFlow, RecordFlow
  <2> QED
    BY <2>1, <2>2, <2>3 DEF AnswerIsHonest
<1> QED
  BY <1>1, Invariance, PTL

-----------------------------------------------------------------------------
(* What every upload has computed: the results of the lines it has read    *)
(* while its loop runs, and those of its body from the end of the loop on. *)
Prefix(r) == SubSeq(body[r], 1, read[r])
AfterLoop == {"saving", "finishing", "ended"}
Results == {Evaluate(d[1], d[2]) : d \in Seq(AllLines) \X BOOLEAN}

TotalsOf(r) ==
  /\ task[r] \notin AfterLoop => Readable(Prefix(r)) /\ totals[r] = Evaluate(Prefix(r), TRUE)
  /\ task[r] \in AfterLoop =>
       /\ totals[r] = Evaluate(body[r], intact[r])
       /\ failed[r] <=> ~ReadsThrough(body[r], intact[r])
  /\ task[r] \in {"finishing", "ended"} => saved[id[r]] = totals[r]

TotalsFlow ==
  /\ totals \in [Requests -> Results]
  /\ saved \in [UploadIDs -> Results]
  /\ \A r \in Requests : TotalsOf(r)

LEMMA PrefixFacts ==
  ASSUME NEW V, NEW b \in Seq(V), NEW n \in Nat, n <= Len(b)
  PROVE  /\ SubSeq(b, 1, n) \in Seq(V) /\ Len(SubSeq(b, 1, n)) = n
         /\ \A i \in 1..n : SubSeq(b, 1, n)[i] = b[i]
OBVIOUS

LEMMA PrefixNext ==
  ASSUME NEW V, NEW b \in Seq(V), NEW n \in Nat, n < Len(b)
  PROVE  SubSeq(b, 1, n + 1) = Append(SubSeq(b, 1, n), b[n + 1]) /\ b[n + 1] \in V
<1> DEFINE f == SubSeq(b, 1, n)
           g == SubSeq(b, 1, n + 1)
<1>1. f \in Seq(V) /\ Len(f) = n /\ \A i \in 1..n : f[i] = b[i]
  OBVIOUS
<1>2. g \in Seq(V) /\ Len(g) = n + 1 /\ \A i \in 1..(n + 1) : g[i] = b[i]
  OBVIOUS
<1> HIDE DEF f, g
<1>3. f \in [1..n -> V] /\ g \in [1..(n + 1) -> V] /\ \A i \in 1..n : g[i] = f[i]
  BY <1>1, <1>2
<1>4. g = Append(f, g[n + 1])
  BY <1>3, IsAppend
<1> QED
  BY <1>2, <1>4 DEF f, g

LEMMA ResultsAreTotals ==
  /\ NoTotals \in Results
  /\ \A b \in Seq(AllLines), e \in BOOLEAN : Evaluate(b, e) \in Results
<1>1. ASSUME NEW b \in Seq(AllLines), NEW e \in BOOLEAN
      PROVE  Evaluate(b, e) \in Results
  <2>1. <<b, e>> \in Seq(AllLines) \X BOOLEAN /\ <<b, e>>[1] = b /\ <<b, e>>[2] = e
    OBVIOUS
  <2> QED
    BY <2>1 DEF Results
<1>2. <<>> \in Seq(AllLines) /\ TRUE \in BOOLEAN
  BY EmptySeq
<1>3. Evaluate(<<>>, TRUE) \in Results
  BY <1>1, <1>2
<1> QED
  BY <1>1, <1>3, EmptyBody

LEMMA InitTotals == Init => TotalsFlow
<1> SUFFICES ASSUME Init PROVE TotalsFlow
  OBVIOUS
<1>1. totals \in [Requests -> Results] /\ saved \in [UploadIDs -> Results]
  BY ResultsAreTotals DEF Init
<1>2. ASSUME NEW r \in Requests
      PROVE  task[r] = "none" /\ Readable(Prefix(r)) /\ totals[r] = Evaluate(Prefix(r), TRUE)
  <2>1. body[r] = <<>> /\ read[r] = 0 /\ totals[r] = NoTotals /\ task[r] = "none"
    BY DEF Init
  <2>2. Prefix(r) = <<>>
    BY <2>1, SubSeqEmpty DEF Prefix
  <2> QED
    BY <2>1, <2>2, EmptyBody
<1> QED
  BY <1>1, <1>2 DEF TotalsFlow, TotalsOf, AfterLoop

(* A step that no task reads, ends or saves by. *)
LEMMA QuietTotals ==
  ASSUME TotalsFlow, UNCHANGED <<body, intact, read, totals, failed>>,
         saved' \in [UploadIDs -> Results],
         \A q \in Requests :
           /\ task'[q] \in AfterLoop <=> task[q] \in AfterLoop
           /\ task'[q] \in {"finishing", "ended"} =>
                task[q] \in {"finishing", "ended"} /\ saved'[id'[q]] = saved[id[q]]
  PROVE  TotalsFlow'
<1>1. \A q \in Requests : Prefix(q)' = Prefix(q)
  BY DEF Prefix
<1> QED
  BY <1>1 DEF TotalsFlow, TotalsOf

LEMMA IdleTotals ==
  ASSUME IInv, TotalsFlow, Cancel \/ UNCHANGED vars
  PROVE  TotalsFlow'
<1>1. UNCHANGED <<handlerVars, taskVars, storeVars>>
  BY DEF Cancel, vars
<1> QED
  BY <1>1, QuietTotals DEF TotalsFlow, TotalsOf, handlerVars, clientVars, taskVars, storeVars

LEMMA ReceiveTotals ==
  ASSUME IInv, TotalsFlow, NEW r \in Requests, NEW f \in Files[r], NEW form, NEW n \in 0..Len(f),
         Receive(r, f, n, form)
  PROVE  TotalsFlow'
<1>1. /\ UNCHANGED <<read, totals, failed, saved, id, task>>
      /\ \A q \in Requests \ {r} :
           body'[q] = body[q] /\ intact'[q] = intact[q]
      /\ handler[r] = "idle"
  BY DEF Receive, taskVars, storeVars, IInv, TypeOK, Shapes
<1>2. read[r] = 0 /\ task[r] = "none"
  BY <1>1 DEF IInv, HandlerFlow, ReadFlow
<1>3. Prefix(r)' = Prefix(r)
  BY <1>1, <1>2, SubSeqEmpty DEF Prefix
<1>4. \A q \in Requests \ {r} : Prefix(q)' = Prefix(q)
  BY <1>1 DEF Prefix
<1>5. TotalsOf(r)'
  <2>1. TotalsOf(r) /\ task[r] \notin AfterLoop /\ task[r] \notin {"finishing", "ended"}
    BY <1>2 DEF TotalsFlow, AfterLoop
  <2>2. Readable(Prefix(r)) /\ totals[r] = Evaluate(Prefix(r), TRUE)
    BY <2>1 DEF TotalsOf
  <2> QED
    BY <1>1, <1>3, <2>1, <2>2 DEF TotalsOf, AfterLoop
<1>6. ASSUME NEW q \in Requests \ {r}
      PROVE  TotalsOf(q)'
  <2>1. TotalsOf(q)
    BY DEF TotalsFlow
  <2> QED
    BY <1>1, <1>4, <2>1 DEF TotalsOf, AfterLoop
<1> QED
  BY <1>1, <1>5, <1>6 DEF TotalsFlow

LEMMA HandlerTotals ==
  ASSUME IInv, TotalsFlow, NEW r \in Requests, Handler(r) \/ RefuseForm(r)
  PROVE  TotalsFlow'
<1>1. UNCHANGED <<body, intact, read, totals, failed>>
  BY DEF Handler, RefuseForm, Register, Conflict, Schedule, TurnAway, CloseWriter, clientVars, taskVars
<1>2. CASE RefuseForm(r) \/ CloseWriter(r) \/ \E u \in UploadIDs : Conflict(r, u)
  <2>1. UNCHANGED <<task, id, saved>>
    BY <1>2 DEF RefuseForm, CloseWriter, Conflict, taskVars, storeVars
  <2> QED
    BY <1>1, <2>1, QuietTotals DEF TotalsFlow
<1>3. ASSUME NEW u \in UploadIDs, Register(r, u)
      PROVE  TotalsFlow'
  <2>1. /\ UNCHANGED task /\ status[u] = "ABSENT" /\ handler[r] = "received"
        /\ saved' = [saved EXCEPT ![u] = NoTotals]
        /\ \A q \in Requests \ {r} : id'[q] = id[q]
    BY <1>3 DEF Register, taskVars, IInv, TypeOK
  <2>2. saved' \in [UploadIDs -> Results] /\ \A v \in UploadIDs \ {u} : saved'[v] = saved[v]
    BY <2>1, ResultsAreTotals DEF TotalsFlow
  <2>3. task[r] = "none"
    BY <2>1 DEF IInv, HandlerFlow
  <2>4. ASSUME NEW q \in Requests, task[q] \in {"finishing", "ended"}
        PROVE  q # r /\ id[q] \in UploadIDs \ {u}
    BY <2>1, <2>3, <2>4 DEF IInv, TypeOK, HandlerFlow, RecordFlow
  <2>5. ASSUME NEW q \in Requests, task'[q] \in {"finishing", "ended"}
        PROVE  task[q] \in {"finishing", "ended"} /\ saved'[id'[q]] = saved[id[q]]
    BY <2>1, <2>2, <2>4, <2>5
  <2> QED
    BY <1>1, <2>1, <2>2, <2>5, QuietTotals
<1>4. CASE Schedule(r) \/ TurnAway(r)
  <2>1. /\ UNCHANGED <<id, saved>> /\ handler[r] = "scheduling"
        /\ \A q \in Requests \ {r} : task'[q] = task[q]
        /\ task'[r] \in {"started", "turnedAway"}
    BY <1>4 DEF Schedule, TurnAway, storeVars, IInv, TypeOK
  <2>2. task[r] = "none"
    BY <2>1 DEF IInv, HandlerFlow
  <2> QED
    BY <1>1, <2>1, <2>2, QuietTotals DEF TotalsFlow, TotalsOf, AfterLoop
<1> QED
  BY <1>2, <1>3, <1>4 DEF Handler

LEMMA PassingTotals ==
  ASSUME IInv, TotalsFlow, NEW r \in Requests,
         \/ Begin(r) \/ MarkProcessing(r) \/ Publish(r) \/ PublishFails(r)
         \/ \E n \in 1..Len(body[r]) : TakeBlock(r, n)
  PROVE  TotalsFlow'
<1>1. /\ UNCHANGED <<body, intact, read, totals, failed, saved, id>>
      /\ \A q \in Requests \ {r} : task'[q] = task[q]
      /\ task[r] \notin AfterLoop /\ task'[r] \notin AfterLoop
  BY DEF Begin, MarkProcessing, TakeBlock, Publish, PublishFails, handlerVars, clientVars, storeVars,
         AfterLoop, IInv, TypeOK
<1> QED
  BY <1>1, QuietTotals DEF TotalsFlow, TotalsOf, AfterLoop

LEMMA TakeRecordTotals ==
  ASSUME IInv, TotalsFlow, NEW r \in Requests, TakeRecord(r)
  PROVE  TotalsFlow'
<1> DEFINE n == read[r]
           b == body[r]
           line == b[n + 1]
           p == SubSeq(b, 1, n)
<1>1. b \in Seq(AllLines) /\ n \in Nat /\ n < Len(b) /\ line.quoted /\ task[r] = "reading"
  BY DEF TakeRecord, IInv, TypeOK, Shapes
<1>2. /\ UNCHANGED <<body, intact, failed, saved, id>>
      /\ read' = [read EXCEPT ![r] = n + 1] /\ read'[r] = n + 1
      /\ totals' = [totals EXCEPT ![r] = ReadLine(totals[r], line)]
      /\ task'[r] \in {"publishing", "reading"}
      /\ \A q \in Requests \ {r} : task'[q] = task[q] /\ read'[q] = read[q]
  BY DEF TakeRecord, handlerVars, clientVars, storeVars, IInv, TypeOK, Shapes
<1>3. p \in Seq(AllLines) /\ Readable(p) /\ totals[r] = Evaluate(p, TRUE)
  <2>1. p \in Seq(AllLines)
    BY <1>1, PrefixFacts
  <2>2. p = Prefix(r)
    BY DEF Prefix
  <2> QED
    BY <1>1, <2>1, <2>2 DEF TotalsFlow, TotalsOf, AfterLoop
<1>4. SubSeq(b, 1, n + 1) = Append(p, line) /\ line \in AllLines
  BY <1>1, PrefixNext
<1> HIDE DEF p, line
<1>5. Readable(Append(p, line)) /\ Evaluate(Append(p, line), TRUE) = ReadLine(totals[r], line)
  BY <1>1, <1>3, <1>4, NextLine
<1>6. Prefix(r)' = Append(p, line)
  BY <1>2, <1>4 DEF Prefix
<1>7. \A q \in Requests \ {r} : Prefix(q)' = Prefix(q)
  BY <1>2 DEF Prefix
<1>8. Append(p, line) \in Seq(AllLines)
  BY <1>3, <1>4
<1>9. totals'[r] = Evaluate(Append(p, line), TRUE) /\ totals' \in [Requests -> Results]
  BY <1>2, <1>5, <1>8, ResultsAreTotals DEF TotalsFlow
<1>10. \A q \in Requests \ {r} : totals'[q] = totals[q]
  BY <1>2 DEF TotalsFlow
<1>11. TotalsOf(r)'
  BY <1>2, <1>5, <1>6, <1>9 DEF TotalsOf, AfterLoop
<1>12. ASSUME NEW q \in Requests \ {r}
       PROVE  TotalsOf(q)'
  <2>1. TotalsOf(q)
    BY DEF TotalsFlow
  <2> QED
    BY <1>2, <1>7, <1>10, <2>1 DEF TotalsOf
<1> QED
  BY <1>2, <1>9, <1>11, <1>12 DEF TotalsFlow

LEMMA TakeRefusedTotals ==
  ASSUME IInv, TotalsFlow, NEW r \in Requests, TakeRefused(r)
  PROVE  TotalsFlow'
<1> DEFINE n == read[r]
           b == body[r]
           line == b[n + 1]
           p == SubSeq(b, 1, n)
<1>1. b \in Seq(AllLines) /\ n \in Nat /\ n < Len(b) /\ ~line.quoted /\ task[r] = "reading"
  BY DEF TakeRefused, IInv, TypeOK, Shapes
<1>2. /\ UNCHANGED <<body, intact, saved, id>>
      /\ read' = [read EXCEPT ![r] = n + 1]
      /\ totals' = [totals EXCEPT ![r] = ReadFails(totals[r])]
      /\ task'[r] = "saving" /\ failed'[r] = TRUE
      /\ \A q \in Requests \ {r} : task'[q] = task[q] /\ read'[q] = read[q] /\ failed'[q] = failed[q]
  BY DEF TakeRefused, handlerVars, clientVars, storeVars, IInv, TypeOK, Shapes
<1>3. p \in Seq(AllLines) /\ Len(p) = n /\ (\A i \in 1..n : p[i] = b[i])
      /\ Readable(p) /\ totals[r] = Evaluate(p, TRUE)
  <2>1. p \in Seq(AllLines) /\ Len(p) = n /\ \A i \in 1..n : p[i] = b[i]
    BY <1>1, PrefixFacts
  <2>2. p = Prefix(r)
    BY DEF Prefix
  <2> QED
    BY <1>1, <2>1, <2>2 DEF TotalsFlow, TotalsOf, AfterLoop
<1> HIDE DEF p, n, b
<1>4. \A i \in 1..n : b[i].quoted
  BY <1>3 DEF Readable
<1>5. Records(b) = 1..n
  BY <1>1, <1>4, RefusedRecords
<1>6. ~ReadsThrough(b, intact[r])
  <2>1. n + 1 \in DOMAIN b /\ n + 1 \notin 1..n
    BY <1>1
  <2> QED
    BY <1>5, <2>1 DEF ReadsThrough
<1>7. Evaluate(b, intact[r]) = ReadFails(totals[r])
  BY <1>3, <1>5, <1>6, CutShort
<1>8. totals'[r] = Evaluate(b, intact[r]) /\ totals' \in [Requests -> Results]
  <2>1. intact[r] \in BOOLEAN
    BY DEF IInv, TypeOK
  <2>2. Evaluate(b, intact[r]) \in Results
    BY <1>1, <2>1, ResultsAreTotals
  <2> QED
    BY <1>2, <1>7, <2>2 DEF TotalsFlow
<1>9. TotalsOf(r)'
  BY <1>2, <1>6, <1>8 DEF TotalsOf, AfterLoop, b
<1>10. ASSUME NEW q \in Requests \ {r}
       PROVE  TotalsOf(q)'
  <2>1. TotalsOf(q) /\ totals'[q] = totals[q]
    BY <1>2 DEF TotalsFlow
  <2>2. Prefix(q)' = Prefix(q)
    BY <1>2 DEF Prefix
  <2> QED
    BY <1>2, <2>1, <2>2 DEF TotalsOf
<1> QED
  BY <1>2, <1>8, <1>9, <1>10 DEF TotalsFlow

LEMMA ReadEndTotals ==
  ASSUME IInv, TotalsFlow, NEW r \in Requests, ReadEnd(r)
  PROVE  TotalsFlow'
<1> DEFINE b == body[r]
           e == intact[r]
           new == IF e THEN totals[r] ELSE ReadFails(totals[r])
<1>1. /\ UNCHANGED <<body, intact, fed, read, saved, id, handler>>
      /\ totals' = [totals EXCEPT ![r] = new]
      /\ task[r] = "reading" /\ task'[r] = "saving" /\ handler[r] = "answered"
      /\ \A q \in Requests \ {r} : task'[q] = task[q] /\ failed'[q] = failed[q]
  BY DEF ReadEnd, handlerVars, clientVars, storeVars, IInv, TypeOK
<1>2. b \in Seq(AllLines) /\ e \in BOOLEAN /\ id[r] # NoUpload
  BY <1>1 DEF IInv, TypeOK, Shapes, HandlerFlow
<1>3. Prefix(r) = b
  <2>1. read[r] = Len(b)
    BY <1>1, <1>2 DEF ReadEnd, IInv, ReadFlow
  <2> QED
    BY <1>2, <2>1, SubSeqFull DEF Prefix
<1>4. Readable(b) /\ totals[r] = Evaluate(b, TRUE)
  BY <1>1, <1>3 DEF TotalsFlow, TotalsOf, AfterLoop
<1>5. Records(b) = 1..Len(b) /\ DOMAIN b = 1..Len(b)
  BY <1>2, <1>4, ReadableRecords
<1>6. ReadsThrough(b, e) <=> e
  BY <1>5 DEF ReadsThrough
<1>7. failed'[r] <=> ~e
  <2>1. CASE e
    <3>1. failed' = [failed EXCEPT ![r] = FALSE]
      BY <2>1, Zenon DEF ReadEnd
    <3> QED
      BY <2>1, <3>1 DEF IInv, TypeOK
  <2>2. CASE ~e
    <3>1. failed' = [failed EXCEPT ![r] = TRUE]
      BY <2>2, Zenon DEF ReadEnd
    <3> QED
      BY <2>2, <3>1 DEF IInv, TypeOK
  <2> QED
    BY <2>1, <2>2
<1>8. Evaluate(b, e) = new
  <2>1. CASE e
    <3>1. e = TRUE
      BY <1>2, <2>1
    <3> QED
      BY <1>4, <2>1, <3>1
  <2>2. CASE ~e
    <3>1. \A i \in 1..Len(b) : b[i] = b[i]
      OBVIOUS
    <3>2. Evaluate(b, e) = ReadFails(Evaluate(b, TRUE))
      BY <1>2, <1>4, <1>5, <1>6, <2>2, <3>1, CutShort
    <3> QED
      BY <1>4, <2>2, <3>2
  <2> QED
    BY <2>1, <2>2
<1>9. totals'[r] = Evaluate(b, e) /\ totals' \in [Requests -> Results]
  <2>1. new \in Results
    BY <1>2, <1>8, ResultsAreTotals
  <2> HIDE DEF new
  <2> QED
    BY <1>1, <1>8, <2>1 DEF TotalsFlow
<1>10. TotalsOf(r)'
  <2> HIDE DEF new
  <2>1. task'[r] = "saving" /\ body'[r] = b /\ intact'[r] = e
    BY <1>1, <1>2 DEF IInv, TypeOK
  <2> HIDE DEF b, e
  <2> QED
    BY <1>6, <1>7, <1>9, <2>1 DEF TotalsOf, AfterLoop
<1>11. ASSUME NEW q \in Requests \ {r}
       PROVE  TotalsOf(q)'
  <2> HIDE DEF new
  <2>1. TotalsOf(q) /\ totals'[q] = totals[q]
    BY <1>1 DEF TotalsFlow
  <2>2. Prefix(q)' = Prefix(q)
    BY <1>1 DEF Prefix
  <2> QED
    BY <1>1, <2>1, <2>2 DEF TotalsOf
<1> QED
  BY <1>1, <1>9, <1>10, <1>11 DEF TotalsFlow

LEMMA SaveTotals ==
  ASSUME IInv, TotalsFlow, NEW r \in Requests, Save(r)
  PROVE  TotalsFlow'
<1>1. /\ UNCHANGED <<body, intact, read, totals, failed, id>>
      /\ saved' = [saved EXCEPT ![id[r]] = totals[r]]
      /\ task[r] = "saving" /\ task'[r] = "finishing"
      /\ \A q \in Requests \ {r} : task'[q] = task[q]
  BY DEF Save, handlerVars, clientVars, IInv, TypeOK
<1>2. \A q \in Requests : task[q] \in AfterLoop => id[q] \in UploadIDs
  BY DEF AfterLoop, IInv, TypeOK, HandlerFlow
<1>3. \A q \in Requests \ {r} : task[q] \in AfterLoop => id[q] # id[r]
  BY <1>1, <1>2, RequestsAssumption DEF IInv, RecordFlow, AfterLoop
<1>4. saved' \in [UploadIDs -> Results] /\ saved'[id[r]] = totals[r]
  BY <1>1, <1>2 DEF TotalsFlow, AfterLoop
<1>5. \A q \in Requests \ {r} : task[q] \in AfterLoop => saved'[id[q]] = saved[id[q]]
  BY <1>1, <1>2, <1>3 DEF TotalsFlow
<1>6. \A q \in Requests : Prefix(q)' = Prefix(q)
  BY <1>1 DEF Prefix
<1>7. ASSUME NEW q \in Requests
      PROVE  TotalsOf(q)'
  <2>1. TotalsOf(q)
    BY DEF TotalsFlow
  <2> QED
    BY <1>1, <1>4, <1>5, <1>6, <2>1 DEF TotalsOf, AfterLoop
<1> QED
  BY <1>1, <1>4, <1>7 DEF TotalsFlow

(* To store counts that are there already changes nothing. *)
LEMMA SameCounts ==
  ASSUME NEW t \in Results
  PROVE  [t EXCEPT !.totalLines = t.totalLines, !.parsedOK = t.parsedOK, !.parseErr = t.parseErr] = t
<1>1. PICK d \in Seq(AllLines) \X BOOLEAN : t = Evaluate(d[1], d[2])
  BY DEF Results
<1>2. PICK b, i, l, o, e : t = [balance |-> b, issues |-> i, totalLines |-> l, parsedOK |-> o, parseErr |-> e]
  BY <1>1, Zenon DEF Evaluate
<1> QED
  BY <1>2

(* The second UpdateMeta writes the counts that SaveResults has stored. *)
LEMMA FinishKeeps ==
  ASSUME IInv, TotalsFlow, NEW r \in Requests, Finish(r)
  PROVE  saved' = saved
<1> DEFINE u == id[r]
           t == totals[r]
<1>1. u \in UploadIDs /\ saved[u] = t /\ t \in Results
  <2>1. task[r] = "finishing"
    BY DEF Finish
  <2>2. u \in UploadIDs
    BY <2>1 DEF IInv, TypeOK, HandlerFlow
  <2> QED
    BY <2>1, <2>2 DEF TotalsFlow, TotalsOf
<1>2. saved' = [saved EXCEPT ![u].totalLines = t.totalLines, ![u].parsedOK = t.parsedOK,
                             ![u].parseErr = t.parseErr]
  BY DEF Finish
<1>3. saved \in [UploadIDs -> Results]
  BY DEF TotalsFlow
<1> HIDE DEF u, t
<1>4. saved' = [saved EXCEPT ![u] = [t EXCEPT !.totalLines = t.totalLines, !.parsedOK = t.parsedOK,
                                              !.parseErr = t.parseErr]]
  BY <1>1, <1>2, <1>3
<1>5. saved' = [saved EXCEPT ![u] = t]
  BY <1>1, <1>4, SameCounts
<1> QED
  BY <1>1, <1>3, <1>5

LEMMA FinishTotals ==
  ASSUME IInv, TotalsFlow, NEW r \in Requests, Finish(r)
  PROVE  TotalsFlow'
<1>1. /\ UNCHANGED <<body, intact, read, totals, failed, id>>
      /\ task[r] = "finishing" /\ task'[r] = "ended"
      /\ \A q \in Requests \ {r} : task'[q] = task[q]
  BY DEF Finish, handlerVars, clientVars, IInv, TypeOK
<1>2. saved' = saved
  BY FinishKeeps
<1> QED
  BY <1>1, <1>2, QuietTotals DEF TotalsFlow, TotalsOf, AfterLoop

LEMMA NextTotals ==
  ASSUME IInv, TotalsFlow, [Next]_vars
  PROVE  TotalsFlow'
<1>1. CASE Cancel \/ UNCHANGED vars
  BY <1>1, IdleTotals
<1>2. ASSUME NEW r \in Requests, Client(r)
      PROVE  TotalsFlow'
  BY <1>2, ReceiveTotals, HandlerTotals DEF Client
<1>3. ASSUME NEW r \in Requests, Handler(r)
      PROVE  TotalsFlow'
  BY <1>3, HandlerTotals
<1>4. ASSUME NEW r \in Requests, Task(r)
      PROVE  TotalsFlow'
  BY <1>4, PassingTotals, TakeRecordTotals, TakeRefusedTotals, ReadEndTotals, SaveTotals, FinishTotals DEF Task
<1> QED
  BY <1>1, <1>2, <1>3, <1>4 DEF Next

-----------------------------------------------------------------------------
(* The lines whose event a task owes so far, and those whose it lost.      *)
Announced(line) == line.quoted /\ Parses(line) /\ Tx(line).status = "FAILED"
Due(r) == {i \in 1..read[r] : /\ Announced(body[r][i])
                              /\ ~(task[r] = "publishing" /\ i = read[r])}
Gone(r) == {dropped[r][k] : k \in DOMAIN dropped[r]}

EventsOf(r) ==
  /\ task[r] = "publishing" => read[r] # 0 /\ Announced(body[r][read[r]])
  /\ Gone(r) \subseteq Due(r)
  /\ published[r] = InOrder(Due(r) \ Gone(r))
  /\ dropped[r] = InOrder(Gone(r))
  /\ Gone(r) # {} => canceled

EventFlow ==
  /\ DOMAIN published = Requests /\ DOMAIN dropped = Requests
  /\ \A r \in Requests : EventsOf(r)

LEMMA InitEvents == Init => EventFlow
<1> SUFFICES ASSUME Init PROVE EventFlow
  OBVIOUS
<1>1. ASSUME NEW r \in Requests
      PROVE  EventsOf(r)
  <2>1. read[r] = 0 /\ task[r] = "none" /\ published[r] = <<>> /\ dropped[r] = <<>>
    BY DEF Init
  <2>2. Gone(r) = {} /\ Due(r) = {}
    BY <2>1 DEF Gone, Due
  <2>3. Due(r) \ Gone(r) = {}
    BY <2>2
  <2> QED
    BY <2>1, <2>2, <2>3, PickNone DEF EventsOf
<1> QED
  BY <1>1 DEF Init, EventFlow

(* A step that leaves what is due alone. *)
LEMMA QuietEvents ==
  ASSUME EventFlow, UNCHANGED <<canceled, published, dropped>>,
         \A q \in Requests : Due(q)' = Due(q),
         \A q \in Requests :
           task'[q] = "publishing" => read'[q] # 0 /\ Announced(body'[q][read'[q]])
  PROVE  EventFlow'
<1>1. \A q \in Requests : Gone(q)' = Gone(q)
  BY DEF Gone
<1>2. ASSUME NEW q \in Requests
      PROVE  EventsOf(q)'
  <2>1. EventsOf(q) /\ Due(q)' = Due(q) /\ Gone(q)' = Gone(q)
    BY <1>1 DEF EventFlow
  <2> QED
    BY <2>1 DEF EventsOf
<1> QED
  BY <1>2 DEF EventFlow

(* Nothing is read and nothing published. *)
LEMMA OtherEvents ==
  ASSUME EventFlow, UNCHANGED <<canceled, read, published, dropped>>,
         \A q \in Requests :
           /\ body'[q] = body[q] \/ read[q] = 0
           /\ task'[q] = task[q] \/ (task[q] # "publishing" /\ task'[q] # "publishing")
  PROVE  EventFlow'
<1>1. ASSUME NEW q \in Requests
      PROVE  Due(q)' = Due(q)
  <2>1. CASE read[q] = 0
    BY <2>1 DEF Due
  <2>2. CASE body'[q] = body[q]
    BY <2>2 DEF Due
  <2> QED
    BY <2>1, <2>2
<1>2. ASSUME NEW q \in Requests, task'[q] = "publishing"
      PROVE  read'[q] # 0 /\ Announced(body'[q][read'[q]])
  BY <1>2 DEF EventFlow, EventsOf
<1> QED
  BY <1>1, <1>2, QuietEvents

LEMMA ClientEvents ==
  ASSUME IInv, EventFlow, NEW r \in Requests, Client(r)
  PROVE  EventFlow'
<1>1. UNCHANGED <<canceled, read, published, dropped, task>>
  BY DEF Client, RefuseForm, Receive, taskVars
<1>2. body'[r] = body[r] \/ read[r] = 0
  BY DEF Client, RefuseForm, Receive, clientVars, IInv, HandlerFlow, ReadFlow
<1>3. \A q \in Requests \ {r} : body'[q] = body[q]
  BY DEF Client, RefuseForm, Receive, clientVars, IInv, Shapes
<1>4. \A q \in Requests :
        /\ body'[q] = body[q] \/ read[q] = 0
        /\ task'[q] = task[q] \/ (task[q] # "publishing" /\ task'[q] # "publishing")
  BY <1>1, <1>2, <1>3
<1> QED
  BY <1>1, <1>4, OtherEvents

LEMMA HandlerEvents ==
  ASSUME IInv, EventFlow, NEW r \in Requests, Handler(r)
  PROVE  EventFlow'
<1>1. UNCHANGED <<canceled, body, read, published, dropped>>
  BY DEF Handler, Register, Conflict, Schedule, TurnAway, CloseWriter, clientVars, taskVars
<1>2. \/ task' = task
      \/ /\ handler[r] = "scheduling"
         /\ \E next \in {"started", "turnedAway"} : task' = [task EXCEPT ![r] = next]
  BY DEF Handler, Register, Conflict, Schedule, TurnAway, CloseWriter, taskVars
<1>3. handler[r] = "scheduling" => task[r] = "none"
  BY DEF IInv, HandlerFlow
<1>4. ASSUME NEW q \in Requests
      PROVE  task'[q] = task[q] \/ (task[q] # "publishing" /\ task'[q] # "publishing")
  <2>1. CASE task' = task
    BY <2>1
  <2>2. ASSUME NEW next \in {"started", "turnedAway"}, task' = [task EXCEPT ![r] = next], task[r] = "none"
        PROVE  task'[q] = task[q] \/ (task[q] # "publishing" /\ task'[q] # "publishing")
    BY <2>2 DEF IInv, TypeOK
  <2> QED
    BY <1>2, <1>3, <2>1, <2>2
<1> QED
  BY <1>1, <1>4, OtherEvents

LEMMA PassingEvents ==
  ASSUME IInv, EventFlow, NEW r \in Requests,
         \/ Begin(r) \/ MarkProcessing(r) \/ ReadEnd(r) \/ Save(r) \/ Finish(r)
         \/ \E n \in 1..Len(body[r]) : TakeBlock(r, n)
  PROVE  EventFlow'
<1>1. /\ UNCHANGED <<canceled, body, read, published, dropped>>
      /\ task[r] # "publishing"
      /\ \/ UNCHANGED task
         \/ \E next \in {"turnedAway", "marking", "reading", "saving", "finishing", "ended"} :
              task' = [task EXCEPT ![r] = next]
  BY DEF Begin, MarkProcessing, TakeBlock, ReadEnd, Save, Finish, handlerVars, clientVars
<1>2. task'[r] # "publishing" /\ \A q \in Requests \ {r} : task'[q] = task[q]
  BY <1>1 DEF IInv, TypeOK
<1>3. \A q \in Requests :
        task'[q] = task[q] \/ (task[q] # "publishing" /\ task'[q] # "publishing")
  BY <1>1, <1>2
<1> QED
  BY <1>1, <1>3, OtherEvents

LEMMA TakeEvents ==
  ASSUME IInv, EventFlow, NEW r \in Requests, TakeRecord(r) \/ TakeRefused(r)
  PROVE  EventFlow'
<1> DEFINE n == read[r]
           line == body[r][n + 1]
<1>1. /\ UNCHANGED <<canceled, body, published, dropped>> /\ n \in Nat
      /\ task[r] = "reading" /\ read'[r] = n + 1
      /\ \A q \in Requests \ {r} : task'[q] = task[q] /\ read'[q] = read[q]
  BY DEF TakeRecord, TakeRefused, handlerVars, clientVars, IInv, TypeOK, Shapes
<1>2. task'[r] = "publishing" <=> Announced(line)
  <2>1. CASE TakeRecord(r)
    <3>1. line.quoted /\ task'[r] = IF Publishes(line) THEN "publishing" ELSE "reading"
      BY <1>1, <2>1 DEF TakeRecord, IInv, TypeOK
    <3> QED
      BY <3>1 DEF Publishes, Announced
  <2>2. CASE TakeRefused(r)
    BY <2>2 DEF TakeRefused, Announced, IInv, TypeOK
  <2> QED
    BY <2>1, <2>2
<1>3. Due(r)' = Due(r)
  <2>1. \A i \in 1..(n + 1) : i \in 1..n \/ i = n + 1
    BY <1>1
  <2>2. \A i \in 1..n : i \in 1..(n + 1) /\ i # n + 1
    BY <1>1
  <2>3. Due(r) = {i \in 1..n : Announced(body[r][i])}
    BY <1>1 DEF Due
  <2>4. Due(r)' = {i \in 1..(n + 1) : /\ Announced(body[r][i])
                                      /\ ~(Announced(line) /\ i = n + 1)}
    BY <1>1, <1>2 DEF Due
  <2> QED
    BY <2>1, <2>2, <2>3, <2>4
<1>4. \A q \in Requests \ {r} : Due(q)' = Due(q)
  BY <1>1 DEF Due
<1>5. ASSUME NEW q \in Requests, task'[q] = "publishing"
      PROVE  read'[q] # 0 /\ Announced(body'[q][read'[q]])
  <2>1. CASE q = r
    BY <1>1, <1>2, <1>5, <2>1
  <2>2. CASE q # r
    <3>1. task[q] = "publishing" /\ read'[q] = read[q] /\ body'[q] = body[q]
      BY <1>1, <1>5, <2>2
    <3> QED
      BY <3>1 DEF EventFlow, EventsOf
  <2> QED
    BY <2>1, <2>2
<1> QED
  BY <1>1, <1>3, <1>4, <1>5, QuietEvents

LEMMA PublishEvents ==
  ASSUME IInv, EventFlow, NEW r \in Requests, Publish(r) \/ PublishFails(r)
  PROVE  EventFlow'
<1> DEFINE n == read[r]
           D == Due(r)
           G == Gone(r)
<1>1. /\ UNCHANGED <<canceled, body, read>> /\ task[r] = "publishing" /\ task'[r] = "reading"
      /\ \A q \in Requests \ {r} : task'[q] = task[q]
  BY DEF Publish, PublishFails, handlerVars, clientVars, IInv, TypeOK
<1>2. n \in Nat /\ n - 1 \in Nat /\ (n - 1) + 1 = n /\ Announced(body[r][n])
  <2>1. n # 0 /\ Announced(body[r][n])
    BY <1>1 DEF EventFlow, EventsOf
  <2>2. n \in Nat
    BY DEF IInv, Shapes
  <2> HIDE DEF n
  <2> QED
    BY <2>1, <2>2
<1>3. D \in SUBSET (1..(n - 1)) /\ n \notin D /\ Due(r)' = D \cup {n}
  <2>1. D = {i \in 1..n : Announced(body[r][i]) /\ i # n} /\ Due(r)' = {i \in 1..n : Announced(body[r][i])}
    BY <1>1 DEF Due
  <2>2. n \in 1..n /\ \A i \in 1..n : i # n => i \in 1..(n - 1)
    BY <1>2
  <2> HIDE DEF n, D
  <2> QED
    BY <1>2, <2>1, <2>2 DEF n
<1>4. G \subseteq D /\ published[r] = InOrder(D \ G) /\ dropped[r] = InOrder(G) /\ (G # {} => canceled)
  BY DEF EventFlow, EventsOf
<1>5. \A q \in Requests \ {r} : Due(q)' = Due(q)
  BY <1>1 DEF Due
<1>6. ASSUME NEW q \in Requests \ {r}, published'[q] = published[q], dropped'[q] = dropped[q]
      PROVE  EventsOf(q)'
  <2>1. EventsOf(q) /\ Gone(q)' = Gone(q) /\ Due(q)' = Due(q)
    BY <1>5, <1>6 DEF EventFlow, Gone
  <2> QED
    BY <1>1, <1>6, <2>1 DEF EventsOf
<1> HIDE DEF n, D, G
<1>7. CASE Publish(r)
  <2>1. /\ published' = [published EXCEPT ![r] = Append(published[r], n)] /\ dropped' = dropped
        /\ DOMAIN published = Requests /\ DOMAIN dropped = Requests
    BY <1>7 DEF Publish, n, EventFlow
  <2>2. published'[r] = Append(InOrder(D \ G), n) /\ \A q \in Requests \ {r} : published'[q] = published[q]
    BY <1>4, <2>1
  <2>3. D \ G \in SUBSET (1..(n - 1)) /\ (D \cup {n}) \ G = (D \ G) \cup {n}
    BY <1>3, <1>4
  <2>4. InOrder((D \ G) \cup {n}) = Append(InOrder(D \ G), n)
    <3> DEFINE m == n - 1
               S == D \ G
    <3>1. m \in Nat /\ S \in SUBSET (1..m) /\ m + 1 = n
      BY <1>2, <2>3
    <3> HIDE DEF m, S
    <3>2. InOrder(S \cup {m + 1}) = Append(InOrder(S), m + 1)
      BY <3>1, InOrderAppend
    <3> QED
      BY <3>1, <3>2 DEF S
  <2>5. Gone(r)' = G
    BY <2>1 DEF G, Gone
  <2>6. published'[r] = InOrder((D \cup {n}) \ G)
    BY <2>2, <2>3, <2>4
  <2>7. EventsOf(r)'
    BY <1>1, <1>3, <1>4, <2>1, <2>5, <2>6 DEF EventsOf
  <2> QED
    BY <1>6, <2>1, <2>2, <2>7 DEF EventFlow
<1>8. CASE PublishFails(r)
  <2>1. /\ dropped' = [dropped EXCEPT ![r] = Append(dropped[r], n)] /\ published' = published /\ canceled
        /\ DOMAIN published = Requests /\ DOMAIN dropped = Requests
    BY <1>8 DEF PublishFails, n, EventFlow
  <2>2. dropped'[r] = Append(InOrder(G), n) /\ \A q \in Requests \ {r} : dropped'[q] = dropped[q]
    BY <1>4, <2>1
  <2>3. InOrder(G) \in Seq(Nat) /\ InOrder(G \cup {n}) = Append(InOrder(G), n)
    <3> DEFINE m == n - 1
    <3>1. m \in Nat /\ G \in SUBSET (1..m) /\ m + 1 = n
      BY <1>2, <1>3, <1>4
    <3> HIDE DEF m
    <3>2. InOrder(G) \in Seq(Nat) /\ InOrder(G \cup {m + 1}) = Append(InOrder(G), m + 1)
      BY <3>1, InOrderAppend
    <3> QED
      BY <3>1, <3>2
  <2>4. Gone(r)' = G \cup {n}
    <3> DEFINE s == InOrder(G)
               t == Append(s, n)
    <3>1. G = {s[k] : k \in 1..Len(s)} /\ Len(s) \in Nat
      <4>1. G = {dropped[r][k] : k \in DOMAIN dropped[r]}
        BY DEF G, Gone
      <4>2. dropped[r] = s
        BY <1>4
      <4>3. DOMAIN s = 1..Len(s) /\ Len(s) \in Nat
        BY <2>3
      <4> HIDE DEF s
      <4>4. G = {s[k] : k \in DOMAIN s}
        BY <4>1, <4>2
      <4> QED
        BY <4>3, <4>4
    <3>2. /\ DOMAIN t = 1..(Len(s) + 1) /\ t[Len(s) + 1] = n
          /\ \A k \in 1..Len(s) : t[k] = s[k]
      BY <1>2, <2>3
    <3>3. \A k \in 1..(Len(s) + 1) : k \in 1..Len(s) \/ k = Len(s) + 1
      BY <3>1
    <3>4. \A k \in 1..Len(s) : k \in 1..(Len(s) + 1)
      BY <3>1
    <3>5. Len(s) + 1 \in 1..(Len(s) + 1)
      BY <3>1
    <3>6. Gone(r)' = {t[k] : k \in DOMAIN t}
      BY <2>2 DEF Gone
    <3> HIDE DEF s, t
    <3> QED
      BY <3>1, <3>2, <3>3, <3>4, <3>5, <3>6
  <2>5. (D \cup {n}) \ (G \cup {n}) = D \ G
    BY <1>3
  <2>6. dropped'[r] = InOrder(G \cup {n})
    BY <2>2, <2>3
  <2>7. EventsOf(r)'
    <3>1. (Due(r) \ Gone(r))' = D \ G
      BY <1>3, <2>4, <2>5
    <3>2. published'[r] = InOrder(D \ G)
      BY <1>4, <2>1
    <3>3. Gone(r)' \subseteq Due(r)'
      BY <1>3, <1>4, <2>4
    <3>4. canceled'
      BY <1>1, <2>1
    <3> QED
      BY <1>1, <2>4, <2>6, <3>1, <3>2, <3>3, <3>4 DEF EventsOf
  <2> QED
    BY <1>6, <2>1, <2>2, <2>7 DEF EventFlow
<1> QED
  BY <1>7, <1>8

LEMMA IdleEvents ==
  ASSUME EventFlow, Cancel \/ UNCHANGED vars
  PROVE  EventFlow'
<1>1. UNCHANGED <<handlerVars, taskVars>> /\ (canceled' = canceled \/ canceled')
  BY DEF Cancel, vars
<1>2. ASSUME NEW q \in Requests
      PROVE  EventsOf(q)'
  <2>1. EventsOf(q) /\ Due(q)' = Due(q) /\ Gone(q)' = Gone(q)
    BY <1>1 DEF EventFlow, Due, Gone, handlerVars, clientVars, taskVars
  <2> QED
    BY <1>1, <2>1 DEF EventsOf, handlerVars, clientVars, taskVars
<1> QED
  BY <1>1, <1>2 DEF EventFlow, taskVars

LEMMA NextEvents ==
  ASSUME IInv, EventFlow, [Next]_vars
  PROVE  EventFlow'
<1>1. CASE Cancel \/ UNCHANGED vars
  BY <1>1, IdleEvents
<1>2. ASSUME NEW r \in Requests, Client(r) \/ Handler(r)
      PROVE  EventFlow'
  BY <1>2, ClientEvents, HandlerEvents
<1>3. ASSUME NEW r \in Requests, Task(r)
      PROVE  EventFlow'
  BY <1>3, PassingEvents, TakeEvents, PublishEvents DEF Task
<1> QED
  BY <1>1, <1>2, <1>3 DEF Next

(* The events of processUpload: one for each failed transaction that its   *)
(* callback has seen and for nothing else, in the order of the file, but   *)
(* for those that a shutdown in progress made Publish refuse.              *)
THEOREM EventsRight == Spec => []EventsMatchIssues
<1>1. EventFlow => EventsMatchIssues
  BY DEF EventFlow, EventsOf, EventsMatchIssues, Due, Gone, Announced
<1> QED
  BY <1>1, Invariance, InitEvents, NextEvents, PTL DEF Spec

-----------------------------------------------------------------------------
(* The ledger has the reference of module Statement under its own names.   *)
LEMMA LedgerLines ==
  /\ Ledger!NoTotals = NoTotals
  /\ \A x : Ledger!Wrap(x) = Wrap(x)
  /\ \A line : Ledger!Tx(line) = Tx(line) /\ (Ledger!Parses(line) <=> Parses(line))
<1>1. Ledger!NoTotals = NoTotals
  BY DEF Ledger!NoTotals, NoTotals
<1>2. Ledger!MinInt = MinInt /\ Ledger!IntRange = IntRange
  BY DEF Ledger!MinInt, MinInt, Ledger!IntRange, IntRange
<1>3. \A x : Ledger!Wrap(x) = Wrap(x)
  BY <1>2 DEF Ledger!Wrap, Wrap
<1>4. \A word : Ledger!Upper(word) = Upper(word)
  BY DEF Ledger!Upper, Upper
<1>5. \A line : Ledger!Tx(line) = Tx(line)
  BY <1>4 DEF Ledger!Tx, Tx
<1>6. Ledger!TxTypes = TxTypes /\ Ledger!TxStatuses = TxStatuses
  BY DEF Ledger!TxTypes, TxTypes, Ledger!TxStatuses, TxStatuses
<1>7. \A line : Ledger!Parses(line) <=> Parses(line)
  BY <1>2, <1>4, <1>6 DEF Ledger!Parses, Parses
<1> QED
  BY <1>1, <1>3, <1>5, <1>7

LEMMA LedgerEvaluates ==
  \A b, e : /\ Ledger!Evaluate(b, e) = Evaluate(b, e)
            /\ Ledger!ReadsThrough(b, e) <=> ReadsThrough(b, e)
<1> SUFFICES ASSUME NEW b, NEW e
             PROVE  /\ Ledger!Evaluate(b, e) = Evaluate(b, e)
                    /\ Ledger!ReadsThrough(b, e) <=> ReadsThrough(b, e)
  OBVIOUS
<1>1. Ledger!Records(b) = Records(b)
  BY DEF Ledger!Records, Records
<1>2. Ledger!Parsed(b) = Parsed(b)
  BY <1>1, LedgerLines DEF Ledger!Parsed, Parsed
<1>3. Ledger!Unsettled(b) = Unsettled(b)
  BY <1>2, LedgerLines DEF Ledger!Unsettled, Unsettled
<1>4. Ledger!Transactions(b) = Transactions(b)
  BY <1>1, LedgerLines DEF Ledger!Transactions, Transactions
<1>5. \A type : Ledger!Amounts(b, type) = Amounts(b, type)
  BY <1>1, <1>2, <1>3, LedgerLines DEF Ledger!Amounts, Amounts
<1>6. \A s : Ledger!AddUp(s) = AddUp(s)
  BY DEF Ledger!AddUp, AddUp
<1> DEFINE Same == \A S : Ledger!Cardinality(S) = Cardinality(S)
<1>12. Same
  BY DEF Ledger!Cardinality, Cardinality
<1>7. \A S, k : Ledger!Nth(S, k) = Nth(S, k)
  BY <1>12 DEF Ledger!Nth, Nth
<1>8. \A s, S : Ledger!Pick(s, S) = Pick(s, S)
  BY <1>7, <1>12 DEF Ledger!Pick, Pick
<1>9. Ledger!ReadsThrough(b, e) <=> ReadsThrough(b, e)
  BY <1>1 DEF Ledger!ReadsThrough, ReadsThrough
<1>10. \A x : Ledger!Wrap(x) = Wrap(x)
  BY LedgerLines
<1>11. Ledger!Evaluate(b, e) = Evaluate(b, e)
  BY <1>1, <1>2, <1>3, <1>4, <1>5, <1>6, <1>8, <1>9, <1>10, <1>12 DEF Ledger!Evaluate, Evaluate
<1> QED
  BY <1>9, <1>11
-----------------------------------------------------------------------------
(* The state of the ledger: what was uploaded under each ID, and the       *)
(* results that go with a final status.                                    *)
Documents == [u \in UploadIDs |-> Document(u)]
Shown == [u \in UploadIDs |-> IF status[u] \in Final THEN saved[u] ELSE NoTotals]

(* An ID that is in use has one owner, whose body is its document. *)
LEMMA OneOwner ==
  ASSUME IInv, NEW r \in Requests, id[r] # NoUpload
  PROVE  /\ Documents[id[r]] = [body |-> body[r], intact |-> intact[r]]
         /\ status[id[r]] # "ABSENT"
<1>1. id[r] \in UploadIDs
  BY DEF IInv, TypeOK
<1>2. Owners(id[r]) = {r}
  BY DEF Owners, IInv, RecordFlow
<1>3. (CHOOSE q \in Owners(id[r]) : TRUE) = r
  BY <1>2
<1>4. Document(id[r]) = [body |-> body[r], intact |-> intact[r]]
  BY <1>2, <1>3 DEF Document
<1>5. task[r] \in {"none", "turnedAway", "started", "marking", "reading",
                    "publishing", "saving", "finishing", "ended"}
  BY DEF IInv, TypeOK
<1>6. status[id[r]] # "ABSENT"
  BY <1>5 DEF IInv, RecordFlow
<1> QED
  BY <1>1, <1>4, <1>6 DEF Documents

LEMMA InitMaps == Init => Ledger!Init
<1> SUFFICES ASSUME Init PROVE Ledger!Init
  OBVIOUS
<1>1. \A u \in UploadIDs : Owners(u) = {}
  BY RequestsAssumption DEF Init, Owners
<1>2. [u \in UploadIDs |-> Document(u)] = [u \in UploadIDs |-> NoUpload]
  BY <1>1 DEF Document
<1>3. /\ status = [u \in UploadIDs |-> "ABSENT"]
      /\ [u \in UploadIDs |-> IF status[u] \in Final THEN saved[u] ELSE NoTotals]
           = [u \in UploadIDs |-> NoTotals]
  BY DEF Init, Final
<1> QED
  BY <1>2, <1>3, LedgerLines DEF Ledger!Init

(* Steps of a client, a handler or a task that the ledger does not see. *)
LEMMA SameOwners ==
  ASSUME NEW r \in Requests, id[r] = NoUpload, UNCHANGED id,
         \A q \in Requests \ {r} : body'[q] = body[q] /\ intact'[q] = intact[q]
  PROVE  Documents' = Documents
<1> SUFFICES ASSUME NEW u \in UploadIDs
             PROVE  Document(u)' = Document(u)
  BY DEF Documents
<1>1. Owners(u)' = Owners(u)
  BY DEF Owners
<1>2. r \notin Owners(u) /\ Owners(u) \subseteq Requests
  BY RequestsAssumption DEF Owners
<1>3. CASE Owners(u) = {}
  BY <1>1, <1>3 DEF Document
<1>4. CASE Owners(u) # {}
  <2> DEFINE q == CHOOSE q \in Owners(u) : TRUE
  <2>1. q \in Owners(u)
    BY <1>4
  <2>2. q \in Requests \ {r}
    BY <2>1, <1>2
  <2>3. Document(u) = [body |-> body[q], intact |-> intact[q]]
    BY <1>4 DEF Document
  <2>4. Document(u)' = [body |-> body'[q], intact |-> intact'[q]]
    BY <1>1, <1>4 DEF Document
  <2> HIDE DEF q
  <2> QED
    BY <2>2, <2>3, <2>4
<1> QED
  BY <1>3, <1>4

LEMMA QuietMaps ==
  ASSUME UNCHANGED <<status, Documents, Shown>>
  PROVE  UNCHANGED Ledger!vars
BY DEF Ledger!vars, Documents, Shown

LEMMA RegisterMaps ==
  ASSUME IInv, NEW r \in Requests, NEW u \in UploadIDs, Register(r, u)
  PROVE  Ledger!Register(u)
<1>1. /\ handler[r] = "received" /\ status[u] = "ABSENT"
      /\ id' = [id EXCEPT ![r] = u] /\ UNCHANGED <<body, intact>>
      /\ status' = [status EXCEPT ![u] = "QUEUED"]
      /\ saved' = [saved EXCEPT ![u] = NoTotals]
  BY DEF Register, clientVars
<1>2. id[r] = NoUpload /\ u # NoUpload
  BY <1>1, RequestsAssumption DEF IInv, HandlerFlow
<1>3. \A q \in Requests : id[q] # u
  BY <1>1, <1>2, OneOwner
<1>4. \A q \in Requests : id'[q] = IF q = r THEN u ELSE id[q]
  BY <1>1 DEF IInv, TypeOK
<1>5. ASSUME NEW v \in UploadIDs \ {u}
      PROVE  Document(v)' = Document(v)
  <2>1. Owners(v)' = Owners(v)
    BY <1>2, <1>4, <1>5, RequestsAssumption DEF Owners
  <2> QED
    BY <1>1, <2>1 DEF Document
<1>6. Document(u)' = [body |-> body[r], intact |-> intact[r]]
  <2>1. Owners(u)' = {r}
    BY <1>3, <1>4 DEF Owners
  <2>2. (CHOOSE q \in Owners(u)' : TRUE) = r
    BY <2>1
  <2> QED
    BY <1>1, <2>1, <2>2 DEF Document
<1>7. Document(u)' # NoUpload
  BY <1>6, NoUploadAssumption DEF IInv, TypeOK, Shapes
<1>8. Shown' = Shown
  <2>1. \A v \in UploadIDs \ {u} : status'[v] = status[v] /\ saved'[v] = saved[v]
    BY <1>1
  <2>2. status[u] \notin Final /\ status'[u] \notin Final
    BY <1>1 DEF IInv, TypeOK, Final
  <2> QED
    BY <2>1, <2>2 DEF Shown
<1> QED
  BY <1>1, <1>5, <1>7, <1>8 DEF Ledger!Register, Shown

LEMMA StartMaps ==
  ASSUME IInv, NEW r \in Requests, NEW u \in UploadIDs, u = id[r], MarkProcessing(r)
  PROVE  Ledger!Start(u)
<1>1. /\ task[r] = "marking" /\ UNCHANGED <<id, body, intact, saved>>
      /\ status' = [status EXCEPT ![u] = "PROCESSING"]
  BY DEF MarkProcessing, handlerVars, clientVars
<1>2. status[u] = "QUEUED"
  BY <1>1 DEF IInv, TypeOK, HandlerFlow, RecordFlow
<1>3. Documents' = Documents
  BY <1>1 DEF Documents, Document, Owners
<1>4. Shown' = Shown
  BY <1>1, <1>2 DEF Shown, Final, IInv, TypeOK
<1> QED
  BY <1>1, <1>2, <1>3, <1>4 DEF Ledger!Start, Documents, Shown

LEMMA SettleMaps ==
  ASSUME IInv, TotalsFlow, NEW r \in Requests, NEW u \in UploadIDs, u = id[r], Finish(r)
  PROVE  Ledger!Settle(u)
<1>1. /\ task[r] = "finishing" /\ UNCHANGED <<id, body, intact>>
      /\ status' = [status EXCEPT ![u] = IF failed[r] THEN "FAILED" ELSE "DONE"]
  BY DEF Finish, handlerVars, clientVars
<1>2. saved' = saved
  BY FinishKeeps
<1>3. u # NoUpload /\ status[u] = "PROCESSING"
  BY <1>1 DEF IInv, TypeOK, HandlerFlow, RecordFlow
<1>4. Documents' = Documents /\ Documents[u] = [body |-> body[r], intact |-> intact[r]]
  BY <1>1, <1>3, OneOwner DEF Documents, Document, Owners
<1>5. /\ saved[u] = Evaluate(body[r], intact[r])
      /\ failed[r] <=> ~ReadsThrough(body[r], intact[r])
  BY <1>1 DEF TotalsFlow, TotalsOf, AfterLoop
<1>6. status' = [status EXCEPT ![u] = IF Ledger!ReadsThrough(body[r], intact[r]) THEN "DONE" ELSE "FAILED"]
  BY <1>1, <1>5, LedgerEvaluates
<1>7. Shown' = [v \in UploadIDs |-> IF v = u THEN Evaluate(body[r], intact[r]) ELSE Shown[v]]
  <2>1. \A v \in UploadIDs \ {u} : status'[v] = status[v] /\ saved'[v] = saved[v]
    BY <1>1, <1>2
  <2>2. status'[u] \in Final /\ saved'[u] = Evaluate(body[r], intact[r])
    BY <1>1, <1>5, <1>2 DEF IInv, TypeOK, Final
  <2> QED
    BY <2>1, <2>2 DEF Shown
<1>8. Ledger!Evaluate(body[r], intact[r]) = Evaluate(body[r], intact[r])
  BY LedgerEvaluates
<1> DEFINE D == Documents
           R == Shown
<1>9. /\ D[u].body = body[r] /\ D[u].intact = intact[r] /\ D' = D
      /\ R' = [R EXCEPT ![u] = Ledger!Evaluate(body[r], intact[r])]
  <2>1. R = [v \in UploadIDs |-> R[v]]
    BY DEF Shown
  <2> HIDE DEF R
  <2> QED
    BY <1>4, <1>7, <1>8, <2>1 DEF R
<1> QED
  BY <1>3, <1>6, <1>9 DEF Ledger!Settle, Documents, Shown

(* Every other step is a stutter of the ledger. *)
LEMMA OtherMaps ==
  ASSUME IInv, NEW r \in Requests,
         \/ Client(r) \/ Schedule(r) \/ TurnAway(r) \/ CloseWriter(r)
         \/ \E u \in UploadIDs : Conflict(r, u)
         \/ Begin(r) \/ TakeRecord(r) \/ TakeRefused(r) \/ Publish(r) \/ PublishFails(r)
         \/ ReadEnd(r) \/ Save(r) \/ \E n \in 1..Len(body[r]) : TakeBlock(r, n)
  PROVE  UNCHANGED Ledger!vars
<1>1. UNCHANGED <<status, id>>
  BY DEF Client, RefuseForm, Receive, Schedule, TurnAway, CloseWriter, Conflict, Begin, TakeBlock, TakeRecord,
         TakeRefused, Publish, PublishFails, ReadEnd, Save, storeVars, handlerVars
<1>2. Documents' = Documents
  <2>1. CASE UNCHANGED <<body, intact>>
    BY <1>1, <2>1 DEF Documents, Document, Owners
  <2>2. ASSUME NEW f \in Files[r], NEW form, NEW n \in 0..Len(f), Receive(r, f, n, form)
        PROVE  Documents' = Documents
    BY <1>1, <2>2, SameOwners DEF Receive, IInv, TypeOK, Shapes, HandlerFlow
  <2> QED
    BY <2>1, <2>2 DEF Client, RefuseForm, Schedule, TurnAway, CloseWriter, Conflict, Begin,
           TakeBlock, TakeRecord, TakeRefused, Publish, PublishFails, ReadEnd, Save, clientVars, handlerVars
<1>3. Shown' = Shown
  <2>1. CASE UNCHANGED saved
    BY <1>1, <2>1 DEF Shown
  <2>2. CASE Save(r)
    <3>1. task[r] = "saving" /\ saved' = [saved EXCEPT ![id[r]] = totals[r]]
      BY <2>2 DEF Save
    <3>2. id[r] \in UploadIDs /\ status[id[r]] = "PROCESSING"
      BY <3>1 DEF IInv, TypeOK, HandlerFlow, RecordFlow
    <3> QED
      BY <1>1, <3>1, <3>2 DEF Shown, Final
  <2> QED
    BY <2>1, <2>2 DEF Client, RefuseForm, Receive, Schedule, TurnAway, CloseWriter, Conflict, Begin,
           TakeBlock, TakeRecord, TakeRefused, Publish, PublishFails, ReadEnd, storeVars
<1> QED
  BY <1>1, <1>2, <1>3, QuietMaps

LEMMA NextMaps ==
  ASSUME IInv, TotalsFlow, [Next]_vars
  PROVE  Ledger!Next \/ UNCHANGED Ledger!vars
<1>1. CASE Cancel \/ UNCHANGED vars
  <2>1. UNCHANGED <<status, saved, id, body, intact>>
    BY <1>1 DEF Cancel, vars, handlerVars, clientVars, storeVars
  <2>2. UNCHANGED <<status, Documents, Shown>>
    BY <2>1 DEF Documents, Document, Owners, Shown
  <2> QED
    BY <2>2, QuietMaps
<1>2. ASSUME NEW r \in Requests, Client(r) \/ Handler(r) \/ Task(r)
      PROVE  Ledger!Next \/ UNCHANGED Ledger!vars
  <2>1. ASSUME NEW u \in UploadIDs, Register(r, u)
        PROVE  Ledger!Next
    BY <2>1, RegisterMaps DEF Ledger!Next
  <2>2. CASE MarkProcessing(r) \/ Finish(r)
    <3>1. PICK u \in UploadIDs : u = id[r]
      BY <2>2 DEF MarkProcessing, Finish, IInv, TypeOK, HandlerFlow
    <3> QED
      BY <2>2, <3>1, StartMaps, SettleMaps DEF Ledger!Next
  <2> QED
    BY <1>2, <2>1, <2>2, OtherMaps DEF Handler, Task
<1> QED
  BY <1>1, <1>2 DEF Next

(* Handler, pipe, task and store keep what UploadLedger promises: an ID    *)
(* stands for one document for good, its status only moves forward, and    *)
(* with a final status come the results of the whole document, whatever    *)
(* its lines are and however the polls fall between the two writes.        *)
THEOREM Refinement == Spec => ImplementsLedger
<1>1. Init => IInv /\ TotalsFlow /\ Ledger!Init
  BY InitIInv, InitTotals, InitMaps
<1>2. IInv /\ TotalsFlow /\ [Next]_vars => IInv' /\ TotalsFlow' /\ [Ledger!Next]_(Ledger!vars)
  BY NextIInv, NextTotals, NextMaps
<1> QED
  BY <1>1, <1>2, PTL DEF Spec, ImplementsLedger, Ledger!Spec
=============================================================================
