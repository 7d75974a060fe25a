------------------------------ MODULE Service -------------------------------
(***************************************************************************)
(* The API as its clients see it: the uploads of module Upload and the     *)
(* polls GET /balance and GET /transactions/issues (Balance and            *)
(* TransactionIssues of inbound/http_endpoint.go, Balance and Issues of    *)
(* usecase/usecase.go, GetBalance and ListIssues of store/memory.go), each *)
(* inside the router's endpoint with its codecs (pkgrouter/router.go).     *)
(* What the middleware logs of a request is left out.                      *)
(*                                                                         *)
(* A poll reads the record of its upload in one step, under the record's   *)
(* lock; what it read is on its way while the upload goes on.  A poller    *)
(* sends one request at a time, as often as it likes.  It may walk through *)
(* the pages of a listing.  A connection may break at any time.            *)
(***************************************************************************)
EXTENDS Upload, Listing

CONSTANTS
  Pollers,    \* the clients that poll
  Listings    \* the parameters but page of the listings they ask for

ASSUME PollersAssumption == Requests \cap Pollers = {}

(* The issues of a file and a page more are fewer than an int can count. *)
ASSUME FilesFit ==
  \A r \in Requests : \A f \in Files[r] :
    Len(f) + MaxPageSize <= MaxInt /\ Len(f) + DefaultPageSize <= MaxInt

VARIABLES
  stage,    \* how far each request is in the router
  query,    \* what each poller asks
  reply,    \* what the endpoint answers it
  sent,     \* the status line of each response, 0 while there is none
  broken,   \* the connection of each request is broken
  heard,    \* what each poller was last told of each upload
  walk      \* the pages each poller has, if it walks through a listing

pollVars == <<query, reply, heard, walk>>
routerVars == <<stage, sent, broken>>
uploadVars == vars
serviceVars == <<uploadVars, pollVars, routerVars>>

Conns == Requests \cup Pollers

NoQuery == [kind |-> "none"]
NoReply == [code |-> 0]
NoWalk == [page |-> 0]
Untold == [status |-> "UNKNOWN", balance |-> Absent]

(* The endpoint has returned, and with what status. *)
Returned(x) == IF x \in Requests THEN handler[x] = "answered" ELSE reply[x] # NoReply
Code(x) == IF x \in Requests THEN answer[x] ELSE reply[x].code

-----------------------------------------------------------------------------
ServiceInit ==
  /\ Init
  /\ stage = [x \in Conns |-> IF x \in Requests THEN "handling" ELSE "idle"]
  /\ query = [c \in Pollers |-> NoQuery]
  /\ reply = [c \in Pollers |-> NoReply]
  /\ sent = [x \in Conns |-> 0]
  /\ broken = [x \in Conns |-> FALSE]
  /\ heard = [c \in Pollers |-> [u \in UploadIDs |-> Untold]]
  /\ walk = [c \in Pollers |-> NoWalk]

(* The store has a record for the ID, and what GetBalance reads of it. *)
Found(u) == status[u] # "ABSENT"
GetBalance(u) == [status |-> status[u], balance |-> saved[u].balance]

(* The endpoint has returned an error. *)
Refusal(err) == [code |-> errorCodec(err)]

(***************************************************************************)
(* Faults, one plausible slip of the code each; no action below uses them. *)
(***************************************************************************)
(* A response is begun before the endpoint has returned. *)
WriteReplyEarly(x) ==
  /\ stage[x] = "handling"
  /\ sent' = [sent EXCEPT ![x] = Code(x)]
  /\ stage' = [stage EXCEPT ![x] = "written"]
  /\ UNCHANGED <<uploadVars, pollVars, broken>>

-----------------------------------------------------------------------------
(* A poll arrives and has passed the first half of middlewareLogging. *)
Ask(c, q) ==
  /\ stage[c] = "idle"
  /\ stage' = [stage EXCEPT ![c] = "handling"]
  /\ query' = [query EXCEPT ![c] = q]
  /\ UNCHANGED <<uploadVars, reply, sent, broken, heard, walk>>

(* Usecase.Balance and Usecase.Issues: one look at the record each. *)
Balance(u) ==
  IF ~Found(u) THEN Refusal(mapStoreErr(ErrNotFound))
  ELSE [code |-> 200, status |-> GetBalance(u).status, balance |-> GetBalance(u).balance]

Issues(u, filter, page, pageSize) ==
  IF page < 1 \/ pageSize < 1 THEN Refusal(NewInvalidInput)
  ELSE IF ~Found(u) THEN Refusal(mapStoreErr(ErrNotFound))
  ELSE [code |-> 200, status |-> status[u], page |-> page,
        list |-> ListIssues(saved[u].issues, filter, page, pageSize)]

(* GET /balance and GET /transactions/issues: the parameters are looked at *)
(* first.                                                                  *)
BalanceReply(q) == IF q.id = NoUpload THEN Refusal(NewInvalidInput) ELSE Balance(q.id)

IssuesReply(q) ==
  LET paging == ParsePagination(q.page, q.listing.size)
      filter == ParseIssueFilter(q.listing.statuses, q.listing.types)
  IN IF q.id = NoUpload \/ ~paging.ok \/ ~filter.ok THEN Refusal(NewInvalidInput)
     ELSE Issues(q.id, filter, paging.page, paging.pageSize)

(* The endpoint of a poll reads the store and returns. *)
Serve(c) ==
  /\ stage[c] = "handling" /\ ~Returned(c)
  /\ reply' = [reply EXCEPT ![c] =
                 IF query[c].kind = "balance" THEN BalanceReply(query[c]) ELSE IssuesReply(query[c])]
  /\ UNCHANGED <<uploadVars, query, heard, walk, routerVars>>

(* errorCodec or encoder, by way of writeJSON.  The first WriteHeader goes *)
(* out; the second, with a 500, that follows when the connection lets      *)
(* Encode fail is for the log only.                                        *)
WriteReply(x) ==
  /\ stage[x] = "handling" /\ Returned(x)
  /\ sent' = [sent EXCEPT ![x] = Code(x)]
  /\ stage' = [stage EXCEPT ![x] = "written"]
  /\ UNCHANGED <<uploadVars, pollVars, broken>>

(* What a poller knows of an upload once it has answer a: the balance it   *)
(* was told is worth keeping while the status stays.                       *)
Told(old, a) ==
  [status  |-> IF a.code = 404 THEN "ABSENT" ELSE a.status,
   balance |-> IF "balance" \in DOMAIN a THEN a.balance
               ELSE IF a.code = 200 /\ a.status = old.status THEN old.balance ELSE Absent]

(* The pages of a walk with the page that has come. *)
Walked(old, q, a) ==
  [id |-> q.id, listing |-> q.listing, page |-> a.page,
   status |-> a.status, total |-> a.list.total,
   items |-> IF a.page = 1 THEN a.list.items ELSE old.items \o a.list.items]

(* The request is over. *)
Reset(x, end) ==
  /\ stage' = [stage EXCEPT ![x] = end]
  /\ sent' = [sent EXCEPT ![x] = 0]
  /\ broken' = [broken EXCEPT ![x] = FALSE]

(* The poller may ask again. *)
ResetPoll(c) ==
  /\ Reset(c, "idle")
  /\ query' = [query EXCEPT ![c] = NoQuery]
  /\ reply' = [reply EXCEPT ![c] = NoReply]

(* The poller has the response. *)
Hear(c) ==
  LET q == query[c]
      a == reply[c]
  IN /\ stage[c] = "written" /\ ~broken[c]
     /\ heard' = IF a.code \in {200, 404} THEN [heard EXCEPT ![c][q.id] = Told(@, a)] ELSE heard
     /\ walk' = IF "list" \in DOMAIN a THEN [walk EXCEPT ![c] = Walked(@, q, a)] ELSE walk
     /\ ResetPoll(c)
     /\ UNCHANGED uploadVars

(* The response is lost. *)
Lose(c) ==
  /\ stage[c] = "written" /\ broken[c]
  /\ ResetPoll(c)
  /\ UNCHANGED <<uploadVars, heard, walk>>

(* The response to an upload is through, or lost. *)
CloseUpload(r) ==
  /\ stage[r] = "written"
  /\ Reset(r, IF broken[r] THEN "lost" ELSE "delivered")
  /\ UNCHANGED <<uploadVars, pollVars>>

(* A connection breaks.  Until there is a response nobody notices: what it *)
(* does to a body that is still coming is part of Upload!Receive.          *)
Break(x) ==
  /\ Returned(x) /\ stage[x] \in {"handling", "written"} /\ ~broken[x]
  /\ broken' = [broken EXCEPT ![x] = TRUE]
  /\ UNCHANGED <<uploadVars, pollVars, stage, sent>>

-----------------------------------------------------------------------------
BalanceQueries == [kind : {"balance"}, id : UploadIDs \cup {NoUpload}]

FirstPages ==
  [kind : {"issues"}, id : UploadIDs \cup {NoUpload}, listing : Listings, page : {Absent}]

NextPage(w) == [kind |-> "issues", id |-> w.id, listing |-> w.listing, page |-> w.page + 1]

Poller(c) ==
  \/ \E q \in BalanceQueries \cup FirstPages : Ask(c, q)
  \/ walk[c] # NoWalk /\ Len(walk[c].items) < walk[c].total /\ Ask(c, NextPage(walk[c]))

(* An upload goes on, whatever becomes of its connection. *)
UploadStep == Next /\ UNCHANGED <<pollVars, routerVars>>

ServiceNext ==
  \/ UploadStep
  \/ \E c \in Pollers : Poller(c) \/ Serve(c) \/ Hear(c) \/ Lose(c)
  \/ \E r \in Requests : CloseUpload(r)
  \/ \E x \in Conns : WriteReply(x) \/ Break(x)

ServiceSpec == ServiceInit /\ [][ServiceNext]_serviceVars

(***************************************************************************)
(* Every request is served by a goroutine of its own, as in Upload; no     *)
(* client has to poll and any connection may break.                        *)
(***************************************************************************)
ServiceFairness ==
  /\ \A r \in Requests : /\ WF_serviceVars(Task(r) /\ UNCHANGED <<pollVars, routerVars>>)
                         /\ WF_serviceVars(Handler(r) /\ UNCHANGED <<pollVars, routerVars>>)
                         /\ WF_serviceVars(CloseUpload(r))
  /\ \A c \in Pollers : WF_serviceVars(Serve(c) \/ Hear(c) \/ Lose(c))
  /\ \A x \in Conns : WF_serviceVars(WriteReply(x))

FairServiceSpec == ServiceSpec /\ ServiceFairness

-----------------------------------------------------------------------------
(* Type correctness; a response is written after its endpoint returned. *)
ServiceTypeOK ==
  /\ stage \in [Conns -> {"idle", "handling", "written", "delivered", "lost"}]
  /\ broken \in [Conns -> BOOLEAN]
  /\ \A x \in Conns : stage[x] = "written" <=> sent[x] # 0
  /\ \A x \in Conns : sent[x] \in {0, 200, 202, 400, 404, 409, 422, 500}

(* The results of the body that arrived for the upload with an ID. *)
TheDocument(u) == Evaluate(Document(u).body, Document(u).intact)

(* The issues of an upload that a listing asks for, in file order. *)
Wanted(u, listing) ==
  Asked(TheDocument(u).issues, ParseIssueFilter(listing.statuses, listing.types))

(* Pages that were asked for one after the other, while the upload went    *)
(* on, fit together: they begin the list of the issues of the body that    *)
(* arrived, none left out, none twice.  A final status is never ahead of   *)
(* the results: the answer that tells it has the number of all of them, or *)
(* the balance of the whole body.                                          *)
PollsAddUp ==
  \A c \in Pollers :
    /\ walk[c] # NoWalk =>
         LET wanted == Wanted(walk[c].id, walk[c].listing)
         IN /\ walk[c].total \in {0, Len(wanted)}
            /\ walk[c].status \in Final => walk[c].total = Len(wanted)
            /\ Len(walk[c].items) <= Len(wanted)
            /\ walk[c].items = SubSeq(wanted, 1, Len(walk[c].items))
            /\ walk[c].total # 0 => walk[c].items # <<>>
    /\ \A u \in UploadIDs :
         heard[c][u].status \in Final /\ heard[c][u].balance # Absent
           => heard[c][u].balance = TheDocument(u).balance

(* A poller's successive answers about an upload move forward, by either   *)
(* endpoint: unknown, queued, processing, final; what is final stays.      *)
Rank(s) == CASE s \in {"UNKNOWN", "ABSENT"} -> 0 [] s = "QUEUED" -> 1
             [] s = "PROCESSING" -> 2 [] s \in Final -> 3

PollsAdvance ==
  [][\A c \in Pollers, u \in UploadIDs :
       /\ Rank(heard[c][u].status) <= Rank(heard'[c][u].status)
       /\ heard[c][u].status \in Final => heard'[c][u].status = heard[c][u].status
    ]_heard

(* An upload whose 202 its client has is known to every later poll. *)
KnownOnceAccepted ==
  [][\A c \in Pollers, r \in Requests :
       /\ stage[r] = "delivered" /\ answer[r] = Accepted
       /\ reply[c] = NoReply /\ reply'[c] # NoReply /\ query[c].id = id[r]
       => reply'[c].code # 404
    ]_reply

(* README.md line 39, "poll [...] until status is DONE": the client of an  *)
(* accepted upload that goes on polling, and has its answers, is told a    *)
(* final status, unless the application stops.                             *)
Answered(c, u) == Hear(c) /\ query[c].id = u /\ reply[c].code \in {200, 404}

PollingEnds ==
  \A c \in Pollers, r \in Requests, u \in UploadIDs :
    []<><<Answered(c, u)>>_serviceVars =>
      (stage[r] = "delivered" /\ answer[r] = Accepted /\ id[r] = u
         ~> heard[c][u].status \in Final \/ canceled)
=============================================================================
