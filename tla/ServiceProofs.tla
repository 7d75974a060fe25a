---------------------------- MODULE ServiceProofs ----------------------------
(***************************************************************************)
(* Theorems about module Service, for any number of uploads and pollers,   *)
(* any files and any listings: what a client is told of an upload only     *)
(* moves forward, an upload whose 202 has arrived is known, and the        *)
(* statuses, pages and balances that polls bring fit together with the     *)
(* body that arrived.                                                      *)
(***************************************************************************)
EXTENDS Service, UploadProofs, ListingProofs

(* Two statuses a poller may hear of an upload, one after the other. *)
Ahead(old, new) ==
  /\ Rank(old) <= Rank(new)
  /\ old \in Final => new = old

Statuses5 == {"ABSENT", "QUEUED", "PROCESSING", "DONE", "FAILED"}
Known == Statuses5 \cup {"UNKNOWN"}

(* The status that an answer tells. *)
Tells(a) == IF a.code = 404 THEN "ABSENT" ELSE a.status

(* The functions of the pollers and connections have their domains. *)
Domains ==
  /\ stage = [x \in Conns |-> stage[x]]
  /\ reply = [c \in Pollers |-> reply[c]]
  /\ query = [c \in Pollers |-> query[c]]
  /\ walk = [c \in Pollers |-> walk[c]]
  /\ heard = [c \in Pollers |-> [u \in UploadIDs |-> heard[c][u]]]

(* A query asks for an ID of an upload or for none, and there is one, and  *)
(* at most one answer to it, while the poller's request is in the router.  *)
QueryFlow ==
  \A c \in Pollers :
    /\ query[c] # NoQuery => query[c].id \in UploadIDs \cup {NoUpload}
    /\ walk[c] # NoWalk => walk[c].id \in UploadIDs \cup {NoUpload}
    /\ stage[c] \in {"handling", "written"} => query[c] # NoQuery
    /\ reply[c] # NoReply => stage[c] \in {"handling", "written"}

PollShapes == Domains /\ QueryFlow

(* What a poller was told lies behind what is on its way to it, and that   *)
(* behind what is in the store.                                            *)
AnswersInOrder ==
  \A c \in Pollers :
    /\ \A u \in UploadIDs : heard[c][u].status \in Known /\ Ahead(heard[c][u].status, status[u])
    /\ reply[c].code \in {200, 404} =>
         /\ query[c].id \in UploadIDs
         /\ Tells(reply[c]) \in Statuses5
         /\ Ahead(heard[c][query[c].id].status, Tells(reply[c]))
         /\ Ahead(Tells(reply[c]), status[query[c].id])

PInv == IInv /\ PollShapes /\ AnswersInOrder

-----------------------------------------------------------------------------
LEMMA Ranks ==
  /\ Rank("UNKNOWN") = 0 /\ Rank("ABSENT") = 0 /\ Rank("QUEUED") = 1
  /\ Rank("PROCESSING") = 2 /\ Rank("DONE") = 3 /\ Rank("FAILED") = 3
BY DEF Rank, Final

LEMMA AheadOrders ==
  ASSUME NEW a \in Known, NEW b \in Known, NEW c \in Known, Ahead(a, b), Ahead(b, c)
  PROVE  Ahead(a, c)
BY Ranks DEF Ahead, Known, Statuses5, Final

LEMMA AheadMoves ==
  ASSUME NEW a \in Statuses5, NEW b \in Statuses5, Moves(a, b)
  PROVE  Ahead(a, b)
BY Ranks DEF Ahead, Moves, Statuses5, Final

LEMMA AheadReflexive ==
  ASSUME NEW a \in Known
  PROVE  Ahead(a, a)
BY Ranks DEF Ahead, Known, Statuses5, Final

LEMMA ErrorStatuses ==
  /\ Refusal(NewInvalidInput) = [code |-> 422]
  /\ Refusal(mapStoreErr(ErrNotFound)) = [code |-> 404]
BY DEF Refusal, errorCodec, mapStoreErr, ErrNotFound, NewInvalidInput, NewBusiness, NewError, StatusCode

(* What an endpoint answers, from what it finds in the store. *)
LEMMA Answers ==
  ASSUME NEW q, q.id \in UploadIDs \cup {NoUpload},
         NEW a, a = BalanceReply(q) \/ a = IssuesReply(q)
  PROVE  /\ a.code \in {200, 404, 422}
         /\ a.code # 422 => q.id \in UploadIDs
         /\ a.code = 404 <=> (a.code # 422 /\ status[q.id] = "ABSENT")
         /\ a.code = 200 => a.status = status[q.id]
<1>1. CASE a = BalanceReply(q)
  BY <1>1, ErrorStatuses, RequestsAssumption DEF BalanceReply, Balance, Found, GetBalance
<1>2. CASE a = IssuesReply(q)
  <2> DEFINE paging == ParsePagination(q.page, q.listing.size)
             filter == ParseIssueFilter(q.listing.statuses, q.listing.types)
  <2>1. \/ a = [code |-> 422]
        \/ q.id # NoUpload /\ a = Issues(q.id, filter, paging.page, paging.pageSize)
    BY <1>2, ErrorStatuses DEF IssuesReply
  <2>2. CASE a = [code |-> 422]
    BY <2>2
  <2>3. CASE q.id # NoUpload /\ a = Issues(q.id, filter, paging.page, paging.pageSize)
    <3> HIDE DEF paging, filter
    <3> QED
      BY <2>3, ErrorStatuses DEF Issues, Found
  <2> QED
    BY <2>1, <2>2, <2>3
<1> QED
  BY <1>1, <1>2

-----------------------------------------------------------------------------
LEMMA InitPInv == ServiceInit => PInv
<1> SUFFICES ASSUME ServiceInit PROVE PInv
  OBVIOUS
<1>1. IInv
  BY InitIInv DEF ServiceInit
<1>2. PollShapes
  <2>1. \A c \in Pollers : query[c] = NoQuery /\ reply[c] = NoReply /\ walk[c] = NoWalk
    BY DEF ServiceInit
  <2>2. \A c \in Pollers : stage[c] = "idle"
    BY PollersAssumption DEF ServiceInit, Conns
  <2>3. /\ stage = [x \in Conns |-> stage[x]]
        /\ reply = [c \in Pollers |-> reply[c]]
        /\ query = [c \in Pollers |-> query[c]]
        /\ walk = [c \in Pollers |-> walk[c]]
        /\ heard = [c \in Pollers |-> [u \in UploadIDs |-> heard[c][u]]]
    BY DEF ServiceInit
  <2> QED
    BY <2>1, <2>2, <2>3 DEF PollShapes, Domains, QueryFlow
<1>3. AnswersInOrder
  <2>1. \A c \in Pollers, u \in UploadIDs :
           heard[c][u].status = "UNKNOWN" /\ status[u] = "ABSENT"
    <3>1. \A c \in Pollers, u \in UploadIDs : heard[c][u] = Untold
      BY DEF ServiceInit
    <3>2. Untold.status = "UNKNOWN"
      BY DEF Untold
    <3>3. \A u \in UploadIDs : status[u] = "ABSENT"
      BY DEF ServiceInit, Init
    <3> QED
      BY <3>1, <3>2, <3>3
  <2>2. Ahead("UNKNOWN", "ABSENT")
    BY Ranks DEF Ahead, Final
  <2>3. \A c \in Pollers : reply[c].code \notin {200, 404}
    <3>1. \A c \in Pollers : reply[c] = NoReply
      BY DEF ServiceInit
    <3> QED
      BY <3>1 DEF NoReply
  <2>4. "UNKNOWN" \in Known
    BY DEF Known
  <2>5. ASSUME NEW c \in Pollers, NEW u \in UploadIDs
        PROVE  heard[c][u].status \in Known /\ Ahead(heard[c][u].status, status[u])
    BY <2>1, <2>2, <2>4
  <2> QED
    BY <2>3, <2>5 DEF AnswersInOrder
<1> QED
  BY <1>1, <1>2, <1>3 DEF PInv

(* The uploads take their steps or none. *)
LEMMA UploadsGoOn == [ServiceNext]_serviceVars => [Next]_vars
BY DEF ServiceNext, serviceVars, uploadVars, UploadStep, Poller, Serve, Hear, Lose, CloseUpload,
       WriteReply, Break, Ask

(* A step that leaves the pollers' side alone. *)
LEMMA StoreStep ==
  ASSUME PInv, [Next]_vars, UNCHANGED <<query, reply, heard, walk>>,
         stage' = [x \in Conns |-> stage'[x]],
         \A c \in Pollers : stage'[c] \in {"handling", "written"} <=> stage[c] \in {"handling", "written"}
  PROVE  PInv'
<1>1. IInv'
  BY NextIInv DEF PInv
<1>2. PollShapes'
  BY DEF PInv, PollShapes, Domains, QueryFlow
<1>3. AnswersInOrder'
  <2>1. \A u \in UploadIDs : status[u] \in Statuses5 /\ status'[u] \in Statuses5
    BY <1>1 DEF PInv, IInv, TypeOK, Statuses5
  <2>2. \A u \in UploadIDs : Ahead(status[u], status'[u])
    BY <2>1, StatusMoves, AheadMoves DEF PInv
  <2>3. Statuses5 \subseteq Known
    BY DEF Known
  <2>4. ASSUME NEW c \in Pollers, NEW u \in UploadIDs
        PROVE  heard[c][u].status \in Known /\ Ahead(heard[c][u].status, status'[u])
    <3>1. heard[c][u].status \in Known /\ Ahead(heard[c][u].status, status[u])
      BY DEF PInv, AnswersInOrder
    <3> QED
      BY <2>1, <2>2, <2>3, <3>1, AheadOrders
  <2>5. ASSUME NEW c \in Pollers, reply[c].code \in {200, 404}
        PROVE  /\ query[c].id \in UploadIDs
               /\ Tells(reply[c]) \in Statuses5
               /\ Ahead(heard[c][query[c].id].status, Tells(reply[c]))
               /\ Ahead(Tells(reply[c]), status'[query[c].id])
    <3>1. /\ query[c].id \in UploadIDs
          /\ Tells(reply[c]) \in Statuses5
          /\ Ahead(heard[c][query[c].id].status, Tells(reply[c]))
          /\ Ahead(Tells(reply[c]), status[query[c].id])
      BY <2>5 DEF PInv, AnswersInOrder
    <3> QED
      BY <2>1, <2>2, <2>3, <3>1, AheadOrders
  <2> QED
    BY <2>4, <2>5 DEF AnswersInOrder, Tells
<1> QED
  BY <1>1, <1>2, <1>3 DEF PInv

LEMMA AskStep ==
  ASSUME PInv, NEW c \in Pollers, NEW q, Ask(c, q), q # NoQuery, q.id \in UploadIDs \cup {NoUpload}
  PROVE  PInv'
<1> USE DEF Ask, uploadVars
<1>1. IInv' /\ reply[c] = NoReply
  BY NextIInv DEF PInv, PollShapes, Domains, QueryFlow
<1>2. query' = [d \in Pollers |-> IF d = c THEN q ELSE query[d]]
  BY DEF PInv, PollShapes, Domains, QueryFlow
<1>3. stage' = [x \in Conns |-> IF x = c THEN "handling" ELSE stage[x]]
  BY DEF PInv, PollShapes, Domains, QueryFlow
<1>4. PollShapes'
  <2>1. \A d \in Pollers : stage'[d] = IF d = c THEN "handling" ELSE stage[d]
    BY <1>3 DEF Conns
  <2>2. \A d \in Pollers : query'[d] = IF d = c THEN q ELSE query[d]
    BY <1>2
  <2>3. stage' = [x \in Conns |-> stage'[x]] /\ query' = [d \in Pollers |-> query'[d]]
    BY <1>2, <1>3
  <2>4. QueryFlow'
    BY <1>1, <2>1, <2>2 DEF PInv, PollShapes, QueryFlow
  <2>5. Domains'
    BY <2>3 DEF PInv, PollShapes, Domains
  <2> QED
    BY <2>4, <2>5 DEF PollShapes
<1>5. AnswersInOrder'
  <2>1. reply[c].code = 0
    BY <1>1 DEF NoReply
  <2>2. UNCHANGED <<status, reply, heard>>
    BY DEF vars, storeVars
  <2> QED
    BY <1>2, <2>1, <2>2 DEF PInv, AnswersInOrder, Tells
<1> QED
  BY <1>1, <1>4, <1>5 DEF PInv

LEMMA ServeStep ==
  ASSUME PInv, NEW c \in Pollers, Serve(c)
  PROVE  PInv'
<1> USE DEF Serve, uploadVars, routerVars
<1>1. IInv'
  BY NextIInv DEF PInv
<1> DEFINE a == reply'[c]
           u == query[c].id
<1>2. reply' = [d \in Pollers |-> IF d = c THEN a ELSE reply[d]]
  BY DEF PInv, PollShapes, Domains, QueryFlow
<1>3. PollShapes'
  <2>1. UNCHANGED <<stage, query, walk, heard>> /\ stage[c] = "handling"
    OBVIOUS
  <2>2. Domains'
    BY <1>2, <2>1 DEF PInv, PollShapes, Domains
  <2>3. QueryFlow'
    BY <1>2, <2>1 DEF PInv, PollShapes, QueryFlow
  <2> QED
    BY <2>2, <2>3 DEF PollShapes
<1>4. AnswersInOrder'
  <2>1. UNCHANGED <<status, query, heard>>
    BY DEF vars, storeVars
  <2>2. u \in UploadIDs \cup {NoUpload}
    BY DEF PInv, PollShapes, Domains, QueryFlow
  <2>3. a = BalanceReply(query[c]) \/ a = IssuesReply(query[c])
    BY DEF PInv, PollShapes, Domains, QueryFlow
  <2>4. /\ a.code \in {200, 404, 422}
        /\ a.code # 422 => u \in UploadIDs
        /\ a.code # 422 => Tells(a) = status[u]
    BY <2>2, <2>3, Answers DEF Tells
  <2>5. a.code # 422 => /\ status[u] \in Statuses5
                       /\ Ahead(heard[c][u].status, status[u])
                       /\ Ahead(status[u], status[u])
    BY <2>4, AheadReflexive DEF PInv, AnswersInOrder, IInv, TypeOK, Statuses5, Known
  <2> HIDE DEF a
  <2> QED
    BY <1>2, <2>1, <2>4, <2>5 DEF PInv, AnswersInOrder, Tells
<1> QED
  BY <1>1, <1>3, <1>4 DEF PInv

(* The end of a poll: nothing of it is on its way any more. *)
LEMMA ResetPollEffect ==
  ASSUME PInv, NEW c \in Pollers, ResetPoll(c)
  PROVE  /\ reply' = [d \in Pollers |-> IF d = c THEN NoReply ELSE reply[d]]
         /\ query' = [d \in Pollers |-> IF d = c THEN NoQuery ELSE query[d]]
         /\ stage' = [x \in Conns |-> IF x = c THEN "idle" ELSE stage[x]]
<1>1. /\ reply' = [reply EXCEPT ![c] = NoReply]
      /\ query' = [query EXCEPT ![c] = NoQuery]
      /\ stage' = [stage EXCEPT ![c] = "idle"]
  BY DEF ResetPoll, Reset
<1>2. reply = [d \in Pollers |-> reply[d]]
  BY DEF PInv, PollShapes, Domains, QueryFlow
<1>3. query = [d \in Pollers |-> query[d]]
  BY DEF PInv, PollShapes, Domains, QueryFlow
<1>4. stage = [x \in Conns |-> stage[x]]
  BY DEF PInv, PollShapes, Domains, QueryFlow
<1>5. reply' = [d \in Pollers |-> IF d = c THEN NoReply ELSE reply[d]]
  BY <1>1, <1>2
<1>6. query' = [d \in Pollers |-> IF d = c THEN NoQuery ELSE query[d]]
  BY <1>1, <1>3
<1>7. stage' = [x \in Conns |-> IF x = c THEN "idle" ELSE stage[x]]
  BY <1>1, <1>4
<1> QED
  BY <1>5, <1>6, <1>7

LEMMA LoseStep ==
  ASSUME PInv, NEW c \in Pollers, Lose(c)
  PROVE  PInv'
<1>1. IInv' /\ UNCHANGED <<status, heard, walk>> /\ ResetPoll(c)
  BY NextIInv DEF PInv, Lose, uploadVars, vars, storeVars
<1>2. PollShapes'
  <2>1. c \in Conns /\ Pollers \subseteq Conns
    BY DEF Conns
  <2>2. \A d \in Pollers : stage'[d] = IF d = c THEN "idle" ELSE stage[d]
    BY <1>1, <2>1, ResetPollEffect
  <2>3. \A d \in Pollers : /\ reply'[d] = IF d = c THEN NoReply ELSE reply[d]
                          /\ query'[d] = IF d = c THEN NoQuery ELSE query[d]
    BY <1>1, ResetPollEffect
  <2>4. /\ stage' = [x \in Conns |-> stage'[x]]
        /\ reply' = [d \in Pollers |-> reply'[d]]
        /\ query' = [d \in Pollers |-> query'[d]]
    BY <1>1, ResetPollEffect
  <2>5. QueryFlow'
    BY <1>1, <2>2, <2>3 DEF PInv, PollShapes, QueryFlow
  <2>6. Domains'
    BY <1>1, <2>4 DEF PInv, PollShapes, Domains
  <2> QED
    BY <2>5, <2>6 DEF PollShapes
<1>3. AnswersInOrder'
  <2>1. NoReply.code \notin {200, 404}
    BY DEF NoReply
  <2> QED
    BY <1>1, <2>1, ResetPollEffect DEF PInv, AnswersInOrder, Tells
<1> QED
  BY <1>1, <1>2, <1>3 DEF PInv

(* What a response changes in what its poller was told. *)
LEMMA HearTells ==
  ASSUME PInv, NEW c \in Pollers, Hear(c), NEW d \in Pollers, NEW u \in UploadIDs
  PROVE  heard'[d][u].status =
           IF d = c /\ u = query[c].id /\ reply[c].code \in {200, 404}
           THEN Tells(reply[c]) ELSE heard[d][u].status
<1> DEFINE q == query[c]
           a == reply[c]
<1>1. heard' = IF a.code \in {200, 404} THEN [heard EXCEPT ![c][q.id] = Told(@, a)] ELSE heard
  BY DEF Hear
<1>2. CASE a.code \in {200, 404}
  <2>1. heard' = [e \in Pollers |-> [v \in UploadIDs |->
                   IF e = c /\ v = q.id THEN Told(heard[e][v], a) ELSE heard[e][v]]]
    <3>1. heard = [e \in Pollers |-> [v \in UploadIDs |-> heard[e][v]]]
      BY DEF PInv, PollShapes, Domains
    <3>2. heard' = [heard EXCEPT ![c][q.id] = Told(@, a)]
      BY <1>1, <1>2
    <3> QED
      BY <3>1, <3>2
  <2>2. \A old : Told(old, a).status = Tells(a)
    BY DEF Told, Tells
  <2> QED
    BY <1>2, <2>1, <2>2
<1>3. CASE ~(a.code \in {200, 404})
  BY <1>1, <1>3
<1> QED
  BY <1>2, <1>3

LEMMA HearStep ==
  ASSUME PInv, NEW c \in Pollers, Hear(c)
  PROVE  PInv'
<1> DEFINE q == query[c]
           a == reply[c]
<1>1. /\ IInv' /\ UNCHANGED status /\ ResetPoll(c)
      /\ stage[c] = "written"
      /\ heard' = IF a.code \in {200, 404} THEN [heard EXCEPT ![c][q.id] = Told(@, a)] ELSE heard
      /\ walk' = IF "list" \in DOMAIN a THEN [walk EXCEPT ![c] = Walked(@, q, a)] ELSE walk
  BY NextIInv DEF PInv, Hear, uploadVars, vars, storeVars
<1>2. a.code \in {200, 404} => q.id \in UploadIDs
  BY DEF PInv, AnswersInOrder
<1>3. \A d \in Pollers, u \in UploadIDs :
        heard'[d][u].status = IF d = c /\ u = q.id /\ a.code \in {200, 404}
                              THEN Tells(a) ELSE heard[d][u].status
  BY HearTells
<1>4. \A d \in Pollers : /\ reply'[d] = IF d = c THEN NoReply ELSE reply[d]
                         /\ query'[d] = IF d = c THEN NoQuery ELSE query[d]
  BY <1>1, ResetPollEffect
<1>5. PollShapes'
  <2>1. \A d \in Pollers : stage'[d] = IF d = c THEN "idle" ELSE stage[d]
    BY <1>1, ResetPollEffect DEF Conns
  <2>2. \A d \in Pollers : walk'[d] # NoWalk => walk'[d].id \in UploadIDs \cup {NoUpload}
    <3>1. q.id \in UploadIDs \cup {NoUpload}
      BY <1>1 DEF PInv, PollShapes, QueryFlow
    <3>2. \A old : Walked(old, q, a).id = q.id
      BY DEF Walked
    <3>3. \A d \in Pollers : walk'[d] = walk[d] \/ walk'[d] = Walked(walk[d], q, a)
      BY <1>1 DEF PInv, PollShapes, Domains
    <3>4. \A d \in Pollers : walk[d] # NoWalk => walk[d].id \in UploadIDs \cup {NoUpload}
      BY DEF PInv, PollShapes, QueryFlow
    <3> HIDE DEF q, a
    <3>5. ASSUME NEW d \in Pollers, walk'[d] # NoWalk
          PROVE  walk'[d].id \in UploadIDs \cup {NoUpload}
      <4>1. CASE walk'[d] = walk[d]
        BY <3>4, <3>5, <4>1
      <4>2. CASE walk'[d] = Walked(walk[d], q, a)
        BY <3>1, <3>2, <4>2
      <4> QED
        BY <3>3, <4>1, <4>2
    <3> QED
      BY <3>5
  <2>3. QueryFlow'
    BY <1>4, <2>1, <2>2 DEF PInv, PollShapes, QueryFlow
  <2>4. stage' = [x \in Conns |-> stage'[x]] /\ reply' = [d \in Pollers |-> reply'[d]]
        /\ query' = [d \in Pollers |-> query'[d]]
    BY <1>1, ResetPollEffect
  <2>5. walk' = [d \in Pollers |-> walk'[d]]
    BY <1>1 DEF PInv, PollShapes, Domains
  <2>6. heard' = [d \in Pollers |-> [u \in UploadIDs |-> heard'[d][u]]]
    <3>1. heard = [d \in Pollers |-> [u \in UploadIDs |-> heard[d][u]]]
      BY DEF PInv, PollShapes, Domains
    <3>2. CASE heard' = heard
      BY <3>1, <3>2
    <3>3. CASE heard' = [heard EXCEPT ![c][q.id] = Told(@, a)]
      <4>1. heard' = [d \in Pollers |-> [u \in UploadIDs |->
                       IF d = c /\ u = q.id THEN Told(heard[d][u], a) ELSE heard[d][u]]]
        BY <3>1, <3>3
      <4> QED
        BY <4>1
    <3> QED
      BY <1>1, <3>2, <3>3
  <2> QED
    BY <2>3, <2>4, <2>5, <2>6 DEF PollShapes, Domains
<1>6. AnswersInOrder'
  <2>1. NoReply.code \notin {200, 404}
    BY DEF NoReply
  <2>2. ASSUME NEW d \in Pollers, NEW u \in UploadIDs
        PROVE  heard'[d][u].status \in Known /\ Ahead(heard'[d][u].status, status'[u])
    <3>1. Statuses5 \subseteq Known
      BY DEF Known
    <3> QED
      BY <1>1, <1>3, <3>1 DEF PInv, AnswersInOrder
  <2>3. ASSUME NEW d \in Pollers, reply'[d].code \in {200, 404}
        PROVE  /\ query'[d].id \in UploadIDs
               /\ Tells(reply'[d]) \in Statuses5
               /\ Ahead(heard'[d][query'[d].id].status, Tells(reply'[d]))
               /\ Ahead(Tells(reply'[d]), status'[query'[d].id])
    <3>1. d # c /\ reply'[d] = reply[d] /\ query'[d] = query[d]
      BY <1>4, <2>1, <2>3
    <3>2. /\ query[d].id \in UploadIDs
          /\ Tells(reply[d]) \in Statuses5
          /\ Ahead(heard[d][query[d].id].status, Tells(reply[d]))
          /\ Ahead(Tells(reply[d]), status[query[d].id])
      BY <2>3, <3>1 DEF PInv, AnswersInOrder
    <3> QED
      BY <1>1, <1>3, <3>1, <3>2
  <2> QED
    BY <2>2, <2>3 DEF AnswersInOrder, Tells
<1> QED
  BY <1>1, <1>5, <1>6 DEF PInv

(* The steps of the router that concern no poll's content. *)
LEMMA RouterStep ==
  ASSUME PInv, NEW x \in Conns, WriteReply(x) \/ Break(x) \/ (x \in Requests /\ CloseUpload(x))
  PROVE  PInv'
<1>1. UNCHANGED <<uploadVars, query, reply, heard, walk>>
  BY DEF WriteReply, Break, CloseUpload, pollVars
<1>2. \A y \in Conns : stage'[y] # stage[y] =>
        y = x /\ (x \in Requests \/ (stage[x] = "handling" /\ stage'[x] = "written"))
  BY DEF WriteReply, Break, CloseUpload, Reset, PInv, PollShapes, Domains
<1>3. stage' = [y \in Conns |-> stage'[y]]
  BY DEF WriteReply, Break, CloseUpload, Reset, PInv, PollShapes, Domains
<1>4. \A c \in Pollers : stage'[c] \in {"handling", "written"} <=> stage[c] \in {"handling", "written"}
  BY <1>2, PollersAssumption DEF Conns
<1> QED
  BY <1>1, <1>3, <1>4, StoreStep DEF uploadVars

LEMMA NextPInv == PInv /\ [ServiceNext]_serviceVars => PInv'
<1> SUFFICES ASSUME PInv, [ServiceNext]_serviceVars
             PROVE  PInv'
  OBVIOUS
<1>1. CASE UploadStep \/ UNCHANGED serviceVars
  <2>1. [Next]_vars /\ UNCHANGED <<stage, query, reply, heard, walk>>
    BY <1>1 DEF UploadStep, serviceVars, uploadVars, pollVars, routerVars
  <2> QED
    BY <2>1, StoreStep DEF PInv, PollShapes, Domains
<1>2. ASSUME NEW c \in Pollers, Poller(c)
      PROVE  PInv'
  <2>1. ASSUME NEW q \in BalanceQueries \cup FirstPages, Ask(c, q)
        PROVE  PInv'
    <3>1. q.kind \in {"balance", "issues"} /\ q.id \in UploadIDs \cup {NoUpload}
      BY DEF BalanceQueries, FirstPages
    <3>2. q # NoQuery
      BY <3>1 DEF NoQuery
    <3> QED
      BY <2>1, <3>1, <3>2, AskStep
  <2>2. CASE walk[c] # NoWalk /\ Ask(c, NextPage(walk[c]))
    <3>1. /\ NextPage(walk[c]).kind = "issues"
          /\ NextPage(walk[c]).id \in UploadIDs \cup {NoUpload}
      BY <2>2 DEF NextPage, PInv, PollShapes, QueryFlow
    <3>2. NextPage(walk[c]) # NoQuery
      BY <3>1 DEF NoQuery
    <3> QED
      BY <2>2, <3>1, <3>2, AskStep
  <2> QED
    BY <1>2, <2>1, <2>2 DEF Poller
<1>3. ASSUME NEW c \in Pollers, Serve(c) \/ Hear(c) \/ Lose(c)
      PROVE  PInv'
  BY <1>3, ServeStep, HearStep, LoseStep
<1>4. ASSUME NEW x \in Conns, WriteReply(x) \/ Break(x) \/ (x \in Requests /\ CloseUpload(x))
      PROVE  PInv'
  BY <1>4, RouterStep
<1> QED
  BY <1>1, <1>2, <1>3, <1>4 DEF ServiceNext, Conns

LEMMA ServiceInvariance == ServiceSpec => []PInv
<1> QED
  BY InitPInv, NextPInv, PTL DEF ServiceSpec

-----------------------------------------------------------------------------
(* Nothing else writes down what a poller was told, or answers it. *)
LEMMA OnlyHearTells ==
  ASSUME [ServiceNext]_serviceVars
  PROVE  heard' = heard \/ \E c \in Pollers : Hear(c)
BY DEF ServiceNext, serviceVars, pollVars, UploadStep, Poller, Serve, Lose, CloseUpload, WriteReply,
       Break, Ask

LEMMA OnlyServeReplies ==
  ASSUME PInv, [ServiceNext]_serviceVars, NEW c \in Pollers, reply[c] = NoReply, reply'[c] # NoReply
  PROVE  Serve(c)
<1>1. \/ reply' = reply
      \/ \E d \in Pollers : Serve(d) \/ ResetPoll(d)
  BY DEF ServiceNext, serviceVars, pollVars, UploadStep, Poller, Hear, Lose, CloseUpload, WriteReply,
         Break, Ask
<1>2. CASE reply' = reply
  BY <1>2
<1>3. ASSUME NEW d \in Pollers, Serve(d)
      PROVE  d = c
  BY <1>3 DEF Serve, PInv, PollShapes, Domains
<1>4. ASSUME NEW d \in Pollers, ResetPoll(d)
      PROVE  FALSE
  BY <1>4, ResetPollEffect
<1> QED
  BY <1>1, <1>2, <1>3, <1>4

-----------------------------------------------------------------------------
(* Balance and Issues, asked again and again: a poller's answers about an  *)
(* upload never go back, and a final status stays.                         *)
THEOREM AnswersAdvance == ServiceSpec => PollsAdvance
<1>1. ASSUME PInv, [ServiceNext]_serviceVars, NEW c \in Pollers, NEW u \in UploadIDs
      PROVE  /\ Rank(heard[c][u].status) <= Rank(heard'[c][u].status)
             /\ heard[c][u].status \in Final => heard'[c][u].status = heard[c][u].status
  <2>1. heard[c][u].status \in Known
    BY <1>1 DEF PInv, AnswersInOrder
  <2>2. CASE heard' = heard
    BY <2>1, <2>2, AheadReflexive DEF Ahead
  <2>3. CASE \E d \in Pollers : Hear(d)
    <3>1. PICK d \in Pollers : Hear(d)
      BY <2>3
    <3>2. \/ heard'[c][u].status = heard[c][u].status
          \/ /\ d = c /\ u = query[d].id /\ reply[d].code \in {200, 404}
             /\ heard'[c][u].status = Tells(reply[d])
      BY <1>1, <3>1, HearTells
    <3>3. Ahead(heard[c][u].status, heard'[c][u].status)
      BY <1>1, <2>1, <3>2, AheadReflexive DEF PInv, AnswersInOrder
    <3> QED
      BY <3>3 DEF Ahead
  <2> QED
    BY <1>1, <2>2, <2>3, OnlyHearTells
<1>2. PInv /\ [ServiceNext]_serviceVars =>
        [\A c \in Pollers, u \in UploadIDs :
           /\ Rank(heard[c][u].status) <= Rank(heard'[c][u].status)
           /\ heard[c][u].status \in Final => heard'[c][u].status = heard[c][u].status
        ]_heard
  BY <1>1
<1> QED
  BY <1>2, ServiceInvariance, PTL DEF ServiceSpec, PollsAdvance

(* CreateUpload comes before the response of Statements: an upload whose   *)
(* 202 has reached its client is never answered with a 404 again.          *)
THEOREM KnownFromThenOn == ServiceSpec => KnownOnceAccepted
<1>1. ASSUME PInv, [ServiceNext]_serviceVars, NEW c \in Pollers, NEW r \in Requests,
             stage[r] = "delivered", answer[r] = Accepted,
             reply[c] = NoReply, reply'[c] # NoReply, query[c].id = id[r]
      PROVE  reply'[c].code # 404
  <2>1. id[r] \in UploadIDs /\ status[id[r]] # "ABSENT"
    BY <1>1, Statuses DEF PInv, IInv, TypeOK, HandlerFlow, RecordFlow
  <2>2. Serve(c)
    BY <1>1, OnlyServeReplies
  <2>3. reply'[c] = BalanceReply(query[c]) \/ reply'[c] = IssuesReply(query[c])
    BY <1>1, <2>2 DEF Serve, PInv, PollShapes, Domains
  <2> QED
    BY <1>1, <2>1, <2>3, Answers
<1>2. PInv /\ [ServiceNext]_serviceVars =>
        [\A c \in Pollers, r \in Requests :
           /\ stage[r] = "delivered" /\ answer[r] = Accepted
           /\ reply[c] = NoReply /\ reply'[c] # NoReply /\ query[c].id = id[r]
           => reply'[c].code # 404
        ]_reply
  BY <1>1
<1> QED
  BY <1>2, ServiceInvariance, PTL DEF ServiceSpec, KnownOnceAccepted

-----------------------------------------------------------------------------
(* An endpoint that has returned has a status to write. *)
RouterInv ==
  /\ ServiceTypeOK
  /\ sent = [x \in Conns |-> sent[x]]
  /\ \A r \in Requests : handler[r] = "answered" => answer[r] # 0
  /\ \A c \in Pollers : reply[c] = NoReply \/ reply[c].code \in {200, 404, 422}

LEMMA CodeToWrite ==
  ASSUME PInv, RouterInv, NEW x \in Conns, Returned(x)
  PROVE  Code(x) \in {200, 202, 400, 404, 409, 422, 500}
<1>1. CASE x \in Requests
  BY <1>1 DEF RouterInv, Returned, Code, PInv, IInv, TypeOK
<1>2. CASE x \notin Requests
  BY <1>2 DEF RouterInv, Returned, Code, Conns
<1> QED
  BY <1>1, <1>2

(* A step of an upload: the response of its handler gets a status. *)
LEMMA AnswersHaveStatus ==
  ASSUME PInv, RouterInv, [Next]_vars, NEW r \in Requests, handler'[r] = "answered"
  PROVE  answer'[r] # 0
<1>1. IInv /\ (handler[r] = "answered" => answer[r] # 0)
  BY DEF PInv, RouterInv
<1>2. CASE UNCHANGED <<handler, answer>>
  BY <1>1, <1>2
<1>3. ASSUME NEW q \in Requests, UNCHANGED answer,
             \E h : h # "answered" /\ handler' = [handler EXCEPT ![q] = h]
      PROVE  answer'[r] # 0
  BY <1>1, <1>3 DEF IInv, TypeOK
<1>4. ASSUME NEW q \in Requests, RefuseForm(q)
      PROVE  answer'[r] # 0
  <2>1. PICK err \in {NewInvalidFormat, NewInvalidInput} : answer' = [answer EXCEPT ![q] = errorCodec(err)]
    BY <1>4 DEF RefuseForm
  <2>2. errorCodec(err) \in {202, 400, 409, 422, 500}
    BY Statuses
  <2>3. handler' = [handler EXCEPT ![q] = "answered"]
    BY <1>4 DEF RefuseForm
  <2> DEFINE s == errorCodec(err)
  <2> HIDE DEF s
  <2>4. s \in {202, 400, 409, 422, 500} /\ answer' = [answer EXCEPT ![q] = s]
    BY <2>1, <2>2 DEF s
  <2> QED
    BY <1>1, <2>3, <2>4 DEF IInv, TypeOK
<1>5. ASSUME NEW q \in Requests, NEW u \in UploadIDs, Conflict(q, u)
      PROVE  answer'[r] # 0
  <2>1. handler' = [handler EXCEPT ![q] = "answered"] /\ answer' = [answer EXCEPT ![q] = 409]
    BY <1>5, Statuses DEF Conflict
  <2> QED
    BY <1>1, <2>1 DEF IInv, TypeOK
<1>6. ASSUME NEW q \in Requests, CloseWriter(q)
      PROVE  answer'[r] # 0
  <2> DEFINE s == IF intact[q] THEN Accepted ELSE errorCodec(NewServer)
  <2>1. s \in {202, 400, 409, 422, 500}
    BY Statuses
  <2>2. handler' = [handler EXCEPT ![q] = "answered"] /\ answer' = [answer EXCEPT ![q] = s]
    BY <1>6 DEF CloseWriter
  <2> HIDE DEF s
  <2> QED
    BY <1>1, <2>1, <2>2 DEF IInv, TypeOK
<1>7. ASSUME NEW q \in Requests, Schedule(q) \/ TurnAway(q) \/ \E u \in UploadIDs : Register(q, u)
      PROVE  answer'[r] # 0
  BY <1>3, <1>7 DEF Schedule, TurnAway, Register
<1>8. ASSUME NEW q \in Requests, NEW f \in Files[q], NEW form, NEW n \in 0..Len(f), Receive(q, f, n, form)
      PROVE  answer'[r] # 0
  BY <1>3, <1>8 DEF Receive
<1>9. ASSUME NEW q \in Requests, Task(q)
       PROVE  answer'[r] # 0
  BY <1>2, <1>9 DEF Task, Begin, MarkProcessing, TakeBlock, TakeRecord, TakeRefused, Publish,
                     PublishFails, ReadEnd, Save, Finish, handlerVars
<1>10. CASE Cancel \/ UNCHANGED vars
  BY <1>2, <1>10 DEF Cancel, vars, handlerVars
<1> QED
  BY <1>4, <1>5, <1>6, <1>7, <1>8, <1>9, <1>10 DEF Next, Client, Handler

LEMMA InitRouter == ServiceInit => RouterInv
<1> SUFFICES ASSUME ServiceInit PROVE RouterInv
  OBVIOUS
<1>1. ServiceTypeOK /\ sent = [x \in Conns |-> sent[x]]
  BY DEF ServiceInit, ServiceTypeOK
<1>2. \A r \in Requests : handler[r] = "idle"
  BY DEF ServiceInit, Init
<1>3. \A c \in Pollers : reply[c] = NoReply
  BY DEF ServiceInit
<1> QED
  BY <1>1, <1>2, <1>3 DEF RouterInv

LEMMA NextRouter == PInv /\ RouterInv /\ [ServiceNext]_serviceVars => RouterInv'
<1> SUFFICES ASSUME PInv, RouterInv, [ServiceNext]_serviceVars
             PROVE  RouterInv'
  OBVIOUS
<1> DEFINE Endings == \A r \in Requests : handler'[r] = "answered" => answer'[r] # 0
           Stages == {"idle", "handling", "written", "delivered", "lost"}
<1>1. Endings
  BY UploadsGoOn, AnswersHaveStatus
<1>2. ASSUME UNCHANGED <<stage, sent, broken, reply>>
      PROVE  RouterInv'
  BY <1>1, <1>2 DEF RouterInv, ServiceTypeOK
<1>3. ASSUME NEW x \in Conns, NEW end \in Stages \ {"written"}, Reset(x, end),
             \A c \in Pollers : reply'[c] = reply[c] \/ reply'[c] = NoReply
      PROVE  RouterInv'
  <2>1. /\ stage' = [stage EXCEPT ![x] = end] /\ sent' = [sent EXCEPT ![x] = 0]
        /\ broken' = [broken EXCEPT ![x] = FALSE]
    BY <1>3 DEF Reset
  <2>2. \A y \in Conns : /\ stage'[y] = IF y = x THEN end ELSE stage[y]
                         /\ sent'[y] = IF y = x THEN 0 ELSE sent[y]
    BY <2>1 DEF RouterInv, ServiceTypeOK
  <2>3. stage' \in [Conns -> Stages] /\ broken' \in [Conns -> BOOLEAN]
        /\ sent' = [y \in Conns |-> sent'[y]]
    BY <1>3, <2>1 DEF RouterInv, ServiceTypeOK
  <2>4. \A y \in Conns : (stage'[y] = "written" <=> sent'[y] # 0)
                       /\ sent'[y] \in {0, 200, 202, 400, 404, 409, 422, 500}
    BY <1>3, <2>2 DEF RouterInv, ServiceTypeOK
  <2> QED
    BY <1>1, <1>3, <2>3, <2>4 DEF RouterInv, ServiceTypeOK
<1>4. ASSUME NEW c \in Pollers, Lose(c) \/ Hear(c)
      PROVE  RouterInv'
  <2>1. Reset(c, "idle") /\ reply' = [reply EXCEPT ![c] = NoReply] /\ c \in Conns
    BY <1>4 DEF Lose, Hear, ResetPoll, Conns
  <2>2. \A d \in Pollers : reply'[d] = reply[d] \/ reply'[d] = NoReply
    BY <2>1 DEF PInv, PollShapes, Domains
  <2> QED
    BY <1>3, <2>1, <2>2
<1>5. ASSUME NEW r \in Requests, CloseUpload(r)
      PROVE  RouterInv'
  BY <1>3, <1>5 DEF CloseUpload, Conns, pollVars
<1>6. ASSUME NEW x \in Conns, WriteReply(x)
      PROVE  RouterInv'
  <2>1. Code(x) \in {200, 202, 400, 404, 409, 422, 500}
    BY <1>6, CodeToWrite DEF WriteReply
  <2>2. /\ stage' = [stage EXCEPT ![x] = "written"] /\ sent' = [sent EXCEPT ![x] = Code(x)]
        /\ UNCHANGED <<broken, reply>>
    BY <1>6 DEF WriteReply, pollVars
  <2>3. \A y \in Conns : /\ stage'[y] = IF y = x THEN "written" ELSE stage[y]
                         /\ sent'[y] = IF y = x THEN Code(x) ELSE sent[y]
    BY <2>2 DEF RouterInv, ServiceTypeOK
  <2>4. stage' \in [Conns -> Stages] /\ sent' = [y \in Conns |-> sent'[y]]
    BY <2>2 DEF RouterInv, ServiceTypeOK
  <2>5. \A y \in Conns : (stage'[y] = "written" <=> sent'[y] # 0)
                       /\ sent'[y] \in {0, 200, 202, 400, 404, 409, 422, 500}
    BY <2>1, <2>3 DEF RouterInv, ServiceTypeOK
  <2> QED
    BY <1>1, <2>2, <2>4, <2>5 DEF RouterInv, ServiceTypeOK
<1>7. ASSUME NEW x \in Conns, Break(x)
      PROVE  RouterInv'
  BY <1>1, <1>7 DEF Break, RouterInv, ServiceTypeOK, pollVars
<1>8. ASSUME NEW c \in Pollers, NEW q, Ask(c, q)
      PROVE  RouterInv'
  <2>1. stage[c] = "idle" /\ stage' = [stage EXCEPT ![c] = "handling"] /\ UNCHANGED <<sent, broken, reply>>
    BY <1>8 DEF Ask
  <2>2. c \in Conns
    BY DEF Conns
  <2>3. \A y \in Conns : stage'[y] = IF y = c THEN "handling" ELSE stage[y]
    BY <2>1 DEF RouterInv, ServiceTypeOK
  <2>4. stage' \in [Conns -> Stages] /\ \A y \in Conns : stage'[y] = "written" <=> sent[y] # 0
    BY <2>1, <2>2, <2>3 DEF RouterInv, ServiceTypeOK
  <2> QED
    BY <1>1, <2>1, <2>4 DEF RouterInv, ServiceTypeOK
<1>9. ASSUME NEW c \in Pollers, Serve(c)
      PROVE  RouterInv'
  <2>1. reply'[c] = BalanceReply(query[c]) \/ reply'[c] = IssuesReply(query[c])
    BY <1>9 DEF Serve, PInv, PollShapes, Domains
  <2>2. query[c].id \in UploadIDs \cup {NoUpload}
    BY <1>9 DEF Serve, PInv, PollShapes, QueryFlow
  <2>3. reply'[c].code \in {200, 404, 422}
    BY <2>1, <2>2, Answers
  <2>4. UNCHANGED <<stage, sent, broken>> /\ \A d \in Pollers \ {c} : reply'[d] = reply[d]
    BY <1>9 DEF Serve, routerVars, PInv, PollShapes, Domains
  <2> QED
    BY <1>1, <2>3, <2>4 DEF RouterInv, ServiceTypeOK
<1>10. CASE UploadStep \/ UNCHANGED serviceVars
  BY <1>2, <1>10 DEF UploadStep, serviceVars, routerVars, pollVars
<1> QED
  BY <1>4, <1>5, <1>6, <1>7, <1>8, <1>9, <1>10 DEF ServiceNext, Poller

(* The endpoint wrapper of the router: a response is begun exactly when    *)
(* its endpoint or handler has returned, and with one of its statuses.     *)
THEOREM RouterTypes == ServiceSpec => []ServiceTypeOK
<1>1. RouterInv => ServiceTypeOK
  BY DEF RouterInv
<1> QED
  BY <1>1, InitRouter, NextRouter, ServiceInvariance, PTL DEF ServiceSpec

-----------------------------------------------------------------------------
(* The uploads that there are, those whose results are stored, and what    *)
(* those should be.                                                        *)
Done == {"finishing", "ended"}
Owned == {u \in UploadIDs : \E r \in Requests : id[r] = u}
Stored == {u \in UploadIDs : \E r \in Requests : id[r] = u /\ task[r] \in Done}
Outcomes == [u \in UploadIDs |-> TheDocument(u)]

(* A page more than the issues of a file. *)
Fits(n) == n + MaxPageSize <= MaxInt /\ n + DefaultPageSize <= MaxInt

(* A record has an owner, results are there once they are stored, and no   *)
(* body is too long.                                                       *)
StoreFlow ==
  /\ \A u \in UploadIDs : status[u] # "ABSENT" => u \in Owned
  /\ \A u \in UploadIDs : u \notin Stored => saved[u] = NoTotals
  /\ \A r \in Requests : Fits(Len(body[r]))

StoreInv == IInv /\ TotalsFlow /\ StoreFlow

LEMMA InitStore == Init => StoreInv
<1> SUFFICES ASSUME Init PROVE StoreFlow
  BY InitIInv, InitTotals DEF StoreInv
<1>1. /\ \A u \in UploadIDs : status[u] = "ABSENT" /\ saved[u] = NoTotals
      /\ \A r \in Requests : body[r] = <<>>
  BY DEF Init
<1>2. /\ MaxPageSize \in Int /\ MaxPageSize <= MaxInt
      /\ DefaultPageSize \in Int /\ DefaultPageSize <= MaxInt
  BY MaxPageSizeAssumption, MaxIntAssumption DEF IntRange, MinInt
<1>3. Len(<<>>) = 0 /\ 0 + MaxPageSize = MaxPageSize /\ 0 + DefaultPageSize = DefaultPageSize
  BY <1>2
<1> QED
  BY <1>1, <1>2, <1>3 DEF StoreFlow, Fits

(* A final status comes with results. *)
LEMMA FinalIsStored ==
  ASSUME StoreInv, NEW u \in UploadIDs, status[u] \in Final
  PROVE  u \in Stored
<1>1. PICK r \in Requests : id[r] = u
  BY DEF StoreInv, StoreFlow, Final, Owned
<1>2. id[r] # NoUpload
  BY <1>1, RequestsAssumption
<1>3. task[r] = "ended"
  BY <1>1, <1>2 DEF StoreInv, IInv, TypeOK, RecordFlow, Final
<1> QED
  BY <1>1, <1>3 DEF Stored, Done

(* What is stored is what the document should come to. *)
LEMMA OwnedDocument ==
  ASSUME StoreInv, NEW r \in Requests, id[r] \in UploadIDs
  PROVE  Outcomes[id[r]] = Evaluate(body[r], intact[r]) /\ status[id[r]] # "ABSENT" /\ intact[r] \in BOOLEAN
<1>1. id[r] # NoUpload
  BY RequestsAssumption
<1>2. Documents[id[r]] = [body |-> body[r], intact |-> intact[r]] /\ status[id[r]] # "ABSENT"
  BY <1>1, OneOwner DEF StoreInv
<1>3. \A u \in UploadIDs : /\ Documents[u] = Document(u)
                          /\ Outcomes[u] = Evaluate(Document(u).body, Document(u).intact)
  BY DEF Documents, Outcomes, TheDocument
<1>4. Outcomes[id[r]] = Evaluate(Documents[id[r]].body, Documents[id[r]].intact)
  BY <1>3
<1>5. intact[r] \in BOOLEAN
  BY DEF StoreInv, IInv, TypeOK
<1> QED
  BY <1>2, <1>4, <1>5

LEMMA StoredDocument ==
  ASSUME StoreInv, NEW u \in Stored
  PROVE  saved[u] = Outcomes[u] /\ status[u] # "ABSENT" /\ u \in Owned
<1>1. PICK r \in Requests : id[r] = u /\ task[r] \in Done
  BY DEF Stored
<1>2. u \in UploadIDs
  BY DEF Stored
<1>3. Outcomes[u] = Evaluate(body[r], intact[r]) /\ status[u] # "ABSENT"
  BY <1>1, <1>2, OwnedDocument
<1>4. saved[u] = totals[r] /\ totals[r] = Evaluate(body[r], intact[r])
  BY <1>1 DEF StoreInv, TotalsFlow, TotalsOf, AfterLoop, Done
<1> QED
  BY <1>1, <1>2, <1>3, <1>4 DEF Owned

(* A request that has an ID keeps it, and its results once it has some. *)
LEMMA OwnersStay ==
  ASSUME IInv, [Next]_vars, NEW r \in Requests, id[r] # NoUpload
  PROVE  id'[r] = id[r] /\ (task[r] \in Done => task'[r] \in Done)
<1>1. handler[r] \notin {"idle", "received"}
  BY DEF IInv, HandlerFlow
<1>2. id = [q \in Requests |-> id[q]] /\ task = [q \in Requests |-> task[q]]
  BY DEF IInv, TypeOK
<1>3. CASE Cancel \/ UNCHANGED vars
  BY <1>3 DEF Cancel, vars, handlerVars, taskVars
<1>4. ASSUME NEW q \in Requests, Client(q)
      PROVE  UNCHANGED <<id, task>>
  BY <1>4 DEF Client, RefuseForm, Receive, taskVars
<1>5. ASSUME NEW q \in Requests, Handler(q)
      PROVE  id'[r] = id[r] /\ (task[r] \in Done => task'[r] = task[r])
  <2>1. ASSUME NEW u \in UploadIDs, Register(q, u)
        PROVE  id'[r] = id[r] /\ task' = task
    BY <1>1, <1>2, <2>1 DEF Register, taskVars
  <2>2. ASSUME NEW u \in UploadIDs, Conflict(q, u)
        PROVE  UNCHANGED <<id, task>>
    BY <2>2 DEF Conflict, taskVars
  <2>3. CASE Schedule(q) \/ TurnAway(q)
    <3>1. id' = id /\ handler[q] = "scheduling"
      BY <2>3 DEF Schedule, TurnAway
    <3>2. task[q] = "none"
      BY <3>1 DEF IInv, HandlerFlow
    <3>3. q # r => task'[r] = task[r]
      BY <1>2, <2>3 DEF Schedule, TurnAway
    <3> QED
      BY <3>1, <3>2, <3>3 DEF Done
  <2>4. CASE CloseWriter(q)
    BY <2>4 DEF CloseWriter, taskVars
  <2> QED
    BY <1>5, <2>1, <2>2, <2>3, <2>4 DEF Handler
<1>6. ASSUME NEW q \in Requests, Task(q)
      PROVE  id'[r] = id[r] /\ (task[r] \in Done => task'[r] \in Done)
  <2>1. id' = id
    BY <1>6 DEF Task, Begin, MarkProcessing, TakeBlock, TakeRecord, TakeRefused, Publish, PublishFails,
                ReadEnd, Save, Finish, handlerVars
  <2>2. q # r => task'[r] = task[r]
    BY <1>2, <1>6 DEF Task, Begin, MarkProcessing, TakeBlock, TakeRecord, TakeRefused, Publish,
                PublishFails, ReadEnd, Save, Finish
  <2>3. task[q] \in Done => task'[q] = "ended"
    BY <1>2, <1>6 DEF Task, Begin, MarkProcessing, TakeBlock, TakeRecord, TakeRefused, Publish,
                PublishFails, ReadEnd, Save, Finish, Done
  <2> QED
    BY <2>1, <2>2, <2>3 DEF Done
<1> QED
  BY <1>3, <1>4, <1>5, <1>6 DEF Next

(* Only Save fills a record, and only Register makes one. *)
LEMMA RecordsChange ==
  ASSUME IInv, TotalsFlow, [Next]_vars, NEW u \in UploadIDs
  PROVE  /\ saved'[u] = saved[u] \/ saved'[u] = NoTotals \/ u \in Stored'
         /\ status'[u] # "ABSENT" => status[u] # "ABSENT" \/ u \in Owned'
<1>1. /\ status = [v \in UploadIDs |-> status[v]] /\ saved = [v \in UploadIDs |-> saved[v]]
      /\ id = [q \in Requests |-> id[q]] /\ task = [q \in Requests |-> task[q]]
  BY DEF IInv, TypeOK, TotalsFlow
<1>2. CASE Cancel \/ UNCHANGED vars
  BY <1>2 DEF Cancel, vars, storeVars
<1>3. ASSUME NEW q \in Requests, Client(q)
      PROVE  UNCHANGED <<status, saved>>
  BY <1>3 DEF Client, RefuseForm, Receive, storeVars
<1>4. ASSUME NEW q \in Requests, NEW v \in UploadIDs, Register(q, v)
      PROVE  /\ saved'[u] = saved[u] \/ saved'[u] = NoTotals
             /\ u # v => status'[u] = status[u]
             /\ v \in Owned'
  <2>1. id'[q] = v
    BY <1>1, <1>4 DEF Register
  <2> QED
    BY <1>1, <1>4, <2>1 DEF Register, Owned
<1>5. ASSUME NEW q \in Requests,
             \/ Schedule(q) \/ TurnAway(q) \/ CloseWriter(q) \/ \E v \in UploadIDs : Conflict(q, v)
             \/ Begin(q) \/ TakeRecord(q) \/ TakeRefused(q) \/ Publish(q) \/ PublishFails(q) \/ ReadEnd(q)
             \/ \E n \in 1..Len(body[q]) : TakeBlock(q, n)
      PROVE  UNCHANGED <<status, saved>>
  BY <1>5 DEF Schedule, TurnAway, CloseWriter, Conflict, Begin, TakeBlock, TakeRecord, TakeRefused,
              Publish, PublishFails, ReadEnd, storeVars
<1>6. ASSUME NEW q \in Requests, MarkProcessing(q) \/ Finish(q)
      PROVE  saved' = saved
  BY <1>6, FinishKeeps DEF MarkProcessing
<1>7. ASSUME NEW q \in Requests, Save(q)
      PROVE  saved'[u] = saved[u] \/ u \in Stored'
  <2>1. /\ saved' = [saved EXCEPT ![id[q]] = totals[q]]
        /\ task' = [task EXCEPT ![q] = "finishing"] /\ id' = id
    BY <1>7 DEF Save, handlerVars
  <2>2. task'[q] = "finishing" /\ id'[q] = id[q]
    BY <1>1, <2>1
  <2>3. id[q] # u => saved'[u] = saved[u]
    BY <1>1, <2>1
  <2>4. id[q] = u => u \in Stored'
    BY <2>2 DEF Stored, Done
  <2> QED
    BY <2>3, <2>4
<1>8. ASSUME NEW q \in Requests, MarkProcessing(q) \/ Save(q) \/ Finish(q)
      PROVE  status'[u] = status[u] \/ u \in Owned'
  <2>1. id' = id
    BY <1>8 DEF MarkProcessing, Save, Finish, handlerVars
  <2>2. status'[u] # status[u] => id[q] = u
    BY <1>1, <1>8 DEF MarkProcessing, Save, Finish
  <2> QED
    BY <2>1, <2>2 DEF Owned
<1>9. ASSUME NEW q \in Requests, Handler(q) \/ Task(q)
      PROVE  /\ saved'[u] = saved[u] \/ saved'[u] = NoTotals \/ u \in Stored'
             /\ status'[u] # "ABSENT" => status[u] # "ABSENT" \/ u \in Owned'
  BY <1>4, <1>5, <1>6, <1>7, <1>8, <1>9 DEF Handler, Task
<1> QED
  BY <1>2, <1>3, <1>9 DEF Next

(* A body that arrives is no longer than the file. *)
LEMMA BodiesFit ==
  ASSUME IInv, \A r \in Requests : Fits(Len(body[r])), [Next]_vars, NEW r \in Requests
  PROVE  Fits(Len(body'[r]))
<1>1. CASE body'[r] = body[r]
  BY <1>1
<1>2. CASE body'[r] # body[r]
  <2>1. PICK q \in Requests : Client(q)
    BY <1>2 DEF Next, Handler, Task, Cancel, vars, handlerVars, clientVars, Register,
            Conflict, Schedule, TurnAway, CloseWriter, Begin, MarkProcessing, TakeBlock, TakeRecord,
            TakeRefused, Publish, PublishFails, ReadEnd, Save, Finish
  <2>2. PICK f \in Files[q], form \in {"raw", "multipart"} : \E m \in 0..Len(f) : Receive(q, f, m, form)
    BY <1>2, <2>1 DEF Client, RefuseForm, clientVars
  <2>3. PICK n \in 0..Len(f) : Receive(q, f, n, form)
    BY <2>2
  <2>4. body' = [body EXCEPT ![q] = SubSeq(f, 1, n)] /\ body = [s \in Requests |-> body[s]]
    BY <2>3 DEF Receive, IInv, Shapes
  <2>5. body'[r] = SubSeq(f, 1, n) /\ q = r
    BY <1>2, <2>4
  <2>6. f \in Seq(AllLines)
    BY FilesAssumption
  <2>7. Len(SubSeq(f, 1, n)) = n /\ n <= Len(f) /\ n \in Nat /\ Len(f) \in Nat
    BY <2>6
  <2>8. Fits(Len(f))
    BY FilesFit DEF Fits
  <2>9. Fits(n)
    <3>1. MaxPageSize \in Int /\ DefaultPageSize \in Int /\ MaxInt \in Int
      BY MaxPageSizeAssumption, MaxIntAssumption DEF IntRange, MinInt
    <3> QED
      BY <2>7, <2>8, <3>1 DEF Fits
  <2> QED
    BY <2>5, <2>7, <2>9
<1> QED
  BY <1>1, <1>2

(* What is stored stays, and what it should be is settled. *)
LEMMA StoreGoesOn ==
  ASSUME StoreInv, [Next]_vars
  PROVE  /\ StoreInv' /\ Owned \subseteq Owned' /\ Stored \subseteq Stored'
         /\ \A u \in Stored : Outcomes'[u] = Outcomes[u]
<1>1. IInv' /\ TotalsFlow' /\ IInv /\ TotalsFlow /\ StoreFlow
  BY NextIInv, NextTotals DEF StoreInv
<1>2. \A r \in Requests : id[r] # NoUpload =>
        id'[r] = id[r] /\ (task[r] \in Done => task'[r] \in Done)
  BY <1>1, OwnersStay
<1>3. Owned \subseteq Owned' /\ Stored \subseteq Stored'
  BY <1>2, RequestsAssumption DEF Owned, Stored
<1>4. ASSUME NEW u \in Stored
      PROVE  Outcomes'[u] = Outcomes[u]
  <2>1. u \in UploadIDs /\ status[u] # "ABSENT"
    BY StoredDocument DEF Stored
  <2>2. Documents'[u] = Documents[u]
    BY <1>1, <2>1, NextMaps DEF Ledger!Next, Ledger!Register, Ledger!Start, Ledger!Settle, Ledger!vars, Documents
  <2>3. Document(u)' = Document(u)
    BY <2>1, <2>2 DEF Documents
  <2> QED
    BY <2>1, <2>3 DEF Outcomes, TheDocument
<1>5. StoreFlow'
  <2>1. ASSUME NEW u \in UploadIDs
        PROVE  /\ status'[u] # "ABSENT" => u \in Owned'
               /\ u \notin Stored' => saved'[u] = NoTotals
    <3>1. /\ saved'[u] = saved[u] \/ saved'[u] = NoTotals \/ u \in Stored'
          /\ status'[u] # "ABSENT" => status[u] # "ABSENT" \/ u \in Owned'
      BY <1>1, RecordsChange
    <3>2. status[u] # "ABSENT" => u \in Owned'
      BY <1>1, <1>3 DEF StoreFlow
    <3>3. u \notin Stored' => saved[u] = NoTotals
      BY <1>1, <1>3 DEF StoreFlow
    <3> QED
      BY <3>1, <3>2, <3>3
  <2>2. \A r \in Requests : Fits(Len(body'[r]))
    BY <1>1, BodiesFit DEF StoreFlow
  <2> QED
    BY <2>1, <2>2 DEF StoreFlow
<1> QED
  BY <1>1, <1>3, <1>4, <1>5 DEF StoreInv

-----------------------------------------------------------------------------
(* The parameters of a listing that are the same for all its pages. *)
SizeOf(listing) == ParsePagination(Absent, listing.size).pageSize
FilterOf(listing) == ParseIssueFilter(listing.statuses, listing.types)
Sound(listing) == ParsePagination(Absent, listing.size).ok /\ FilterOf(listing).ok

(* The issues that a query or a walk asks for. *)
AskedOf(q, outcomes) == Asked(outcomes[q.id].issues, FilterOf(q.listing))

(* The first pages of a list. *)
FirstPagesOf(s, page, size) == SubSeq(s, 1, IF page * size < Len(s) THEN page * size ELSE Len(s))

(* The pages a poller has are the first ones of the issues it asks for, or *)
(* there were none yet when it asked, and no final status.                 *)
WalkFits(w, owned, stored, outcomes) ==
  /\ w.id \in owned /\ w.page \in Nat \ {0} /\ Sound(w.listing)
  /\ \/ w.total = 0 /\ w.items = <<>> /\ w.status \notin Final
     \/ /\ w.id \in stored
        /\ w.total = Len(AskedOf(w, outcomes))
        /\ w.items = FirstPagesOf(AskedOf(w, outcomes), w.page, SizeOf(w.listing))

(* The page that is asked for is the first one or the next one. *)
QueryFits(q, w) ==
  \/ q = NoQuery \/ q.kind = "balance"
  \/ /\ q.kind = "issues"
     /\ q.page = Absent \/ (w # NoWalk /\ q = NextPage(w) /\ Len(w.items) < w.total)

(* An answer tells what is stored. *)
BalanceFits(a, u, stored, outcomes) ==
  a.status \in Final => u \in stored /\ a.balance = outcomes[u].balance

ListFits(a, q, owned, stored, outcomes) ==
  /\ q.id \in owned /\ q.kind = "issues" /\ Sound(q.listing)
  /\ LET paging == ParsePagination(q.page, q.listing.size) IN paging.ok /\ a.page = paging.page
  /\ \/ a.list.total = 0 /\ a.list.items = <<>> /\ q.page = Absent /\ a.status \notin Final
     \/ /\ q.id \in stored
        /\ a.list.total = Len(AskedOf(q, outcomes))
        /\ a.list.items = PageOf(AskedOf(q, outcomes), a.page, SizeOf(q.listing))

PollerFits(q, a, w, h, owned, stored, outcomes) ==
  /\ w # NoWalk => WalkFits(w, owned, stored, outcomes)
  /\ QueryFits(q, w)
  /\ "balance" \in DOMAIN a => BalanceFits(a, q.id, stored, outcomes)
  /\ "list" \in DOMAIN a => ListFits(a, q, owned, stored, outcomes)
  /\ \A u \in UploadIDs : h[u].balance # Absent => BalanceFits(h[u], u, stored, outcomes)

PollFits ==
  \A c \in Pollers : PollerFits(query[c], reply[c], walk[c], heard[c], Owned, Stored, Outcomes)

(* What fits goes on to, while more is stored. *)
LEMMA FitsGoOn ==
  ASSUME NEW q, NEW a, NEW w, NEW h, NEW O, NEW S, NEW D, PollerFits(q, a, w, h, O, S, D),
         NEW O2, NEW S2, NEW D2, O \subseteq O2, S \subseteq S2, \A u \in S : D2[u] = D[u]
  PROVE  PollerFits(q, a, w, h, O2, S2, D2)
<1>1. \A x : WalkFits(x, O, S, D) => WalkFits(x, O2, S2, D2)
  BY DEF WalkFits, AskedOf
<1>2. \A x, u : BalanceFits(x, u, S, D) => BalanceFits(x, u, S2, D2)
  BY DEF BalanceFits
<1>3. \A x, y : ListFits(x, y, O, S, D) => ListFits(x, y, O2, S2, D2)
  BY DEF ListFits, AskedOf
<1> QED
  BY <1>1, <1>2, <1>3 DEF PollerFits

LEMMA InitPolls == ServiceInit => PollFits
<1> SUFFICES ASSUME ServiceInit, NEW c \in Pollers
             PROVE  PollerFits(query[c], reply[c], walk[c], heard[c], Owned, Stored, Outcomes)
  BY DEF PollFits
<1>1. query[c] = NoQuery /\ reply[c] = NoReply /\ walk[c] = NoWalk
      /\ \A u \in UploadIDs : heard[c][u] = Untold
  BY DEF ServiceInit
<1>2. DOMAIN NoReply = {"code"} /\ Untold.balance = Absent
  BY DEF NoReply, Untold
<1>3. QueryFits(query[c], walk[c])
  BY <1>1, <1>2 DEF QueryFits
<1> QED
  BY <1>1, <1>2, <1>3 DEF PollerFits

(* The answers of the two endpoints, by what they hold. *)
LEMMA BalanceShape ==
  ASSUME NEW q
  PROVE  /\ "list" \notin DOMAIN BalanceReply(q)
         /\ "balance" \in DOMAIN BalanceReply(q) =>
              /\ q.id # NoUpload
              /\ BalanceReply(q).status = status[q.id]
              /\ BalanceReply(q).balance = saved[q.id].balance
<1>1. \/ BalanceReply(q) = [code |-> 422] \/ BalanceReply(q) = [code |-> 404]
      \/ /\ q.id # NoUpload
         /\ BalanceReply(q) = [code |-> 200, status |-> status[q.id], balance |-> saved[q.id].balance]
  BY ErrorStatuses DEF BalanceReply, Balance, GetBalance
<1> QED
  BY <1>1

LEMMA IssuesShape ==
  ASSUME NEW q
  PROVE  /\ "balance" \notin DOMAIN IssuesReply(q)
         /\ "list" \in DOMAIN IssuesReply(q) =>
              /\ q.id # NoUpload /\ status[q.id] # "ABSENT"
              /\ ParsePagination(q.page, q.listing.size).ok /\ FilterOf(q.listing).ok
              /\ IssuesReply(q).status = status[q.id]
              /\ IssuesReply(q).page = ParsePagination(q.page, q.listing.size).page
              /\ IssuesReply(q).list = ListIssues(saved[q.id].issues, FilterOf(q.listing),
                                                  ParsePagination(q.page, q.listing.size).page,
                                                  ParsePagination(q.page, q.listing.size).pageSize)
<1> DEFINE paging == ParsePagination(q.page, q.listing.size)
           filter == FilterOf(q.listing)
           list == ListIssues(saved[q.id].issues, filter, paging.page, paging.pageSize)
<1>1. \/ IssuesReply(q) = [code |-> 422] \/ IssuesReply(q) = [code |-> 404]
      \/ /\ q.id # NoUpload /\ status[q.id] # "ABSENT" /\ paging.ok /\ filter.ok
         /\ IssuesReply(q) = [code |-> 200, status |-> status[q.id], page |-> paging.page, list |-> list]
  BY ErrorStatuses DEF IssuesReply, Issues, Found, FilterOf
<1> HIDE DEF paging, filter, list
<1>2. /\ "balance" \notin DOMAIN IssuesReply(q)
      /\ "list" \in DOMAIN IssuesReply(q) =>
           /\ q.id # NoUpload /\ status[q.id] # "ABSENT" /\ paging.ok /\ filter.ok
           /\ IssuesReply(q).status = status[q.id]
           /\ IssuesReply(q).page = paging.page /\ IssuesReply(q).list = list
  BY <1>1
<1> QED
  BY <1>2 DEF paging, filter, list

(* The size of the pages does not depend on the page. *)
LEMMA SameSize ==
  ASSUME NEW page, NEW size, ParsePagination(page, size).ok
  PROVE  /\ ParsePagination(Absent, size).ok
         /\ ParsePagination(page, size).pageSize = ParsePagination(Absent, size).pageSize
         /\ page = Absent => ParsePagination(page, size).page = 1
         /\ page # Absent => ParsePagination(page, size).page = page
BY DEF ParsePagination, Positive, Invalid

(* The next page goes on where the first pages end. *)
LEMMA PagesJoin ==
  ASSUME NEW T, NEW s \in Seq(T), NEW page \in Nat \ {0}, NEW size \in Nat \ {0},
         Len(FirstPagesOf(s, page, size)) < Len(s)
  PROVE  /\ page * size < Len(s)
         /\ FirstPagesOf(s, page, size) \o PageOf(s, page + 1, size) = FirstPagesOf(s, page + 1, size)
<1> DEFINE n == Len(s)
           m == page * size
           m2 == (page + 1) * size
           h == IF m2 < n THEN m2 ELSE n
<1>1. page + 1 - 1 = page
  OBVIOUS
<1>2. n \in Nat /\ m \in Nat /\ m2 \in Nat /\ m2 = m + size
  OBVIOUS
<1>3. FirstPagesOf(s, page, size) = SubSeq(s, 1, IF m < n THEN m ELSE n)
  BY DEF FirstPagesOf
<1>4. FirstPagesOf(s, page + 1, size) = SubSeq(s, 1, h)
  BY DEF FirstPagesOf
<1>5. PageOf(s, page + 1, size) = SubSeq(s, m + 1, h)
  <2> DEFINE p == page + 1
  <2>1. p - 1 = page
    BY <1>1
  <2> HIDE DEF p
  <2>2. PageOf(s, p, size) = SubSeq(s, page * size + 1, IF p * size < Len(s) THEN p * size ELSE Len(s))
    BY <2>1 DEF PageOf
  <2> QED
    BY <2>2 DEF p
<1> HIDE DEF m, m2
<1>6. h \in Nat /\ h <= n /\ (m < n => m <= h)
  BY <1>2
<1> HIDE DEF h
<1>7. m < n
  BY <1>2, <1>3
<1>8. SubSeq(s, 1, m) \o SubSeq(s, m + 1, h) = SubSeq(s, 1, h)
  <2>1. 1 \in 1..(Len(s) + 1) /\ m \in (1 - 1)..Len(s) /\ h \in m..Len(s)
    BY <1>2, <1>6, <1>7
  <2> QED
    BY <2>1, ConcatAdjacentSubSeq
<1> QED
  BY <1>3, <1>4, <1>5, <1>7, <1>8 DEF m

LEMMA FirstIsFirst ==
  ASSUME NEW T, NEW s \in Seq(T), NEW size \in Nat \ {0}
  PROVE  FirstPagesOf(s, 1, size) = PageOf(s, 1, size)
<1>1. (1 - 1) * size + 1 = 1 /\ 1 * size = size
  OBVIOUS
<1> QED
  BY <1>1 DEF FirstPagesOf, PageOf

(* The issues of an upload that are asked for, and how many they can be. *)
LEMMA OwnedIssues ==
  ASSUME StoreInv, NEW u \in Owned, NEW filter
  PROVE  /\ Outcomes[u].issues \in Seq({Tx(v) : v \in AllLines}) /\ Typed(Outcomes[u].issues)
         /\ Asked(Outcomes[u].issues, filter) \in Seq({Tx(v) : v \in AllLines})
         /\ \E n \in Nat : Fits(n) /\ Len(Asked(Outcomes[u].issues, filter)) <= n
<1>1. PICK r \in Requests : Outcomes[u] = Evaluate(body[r], intact[r])
  BY OwnedDocument DEF Owned
<1>2. body[r] \in Seq(AllLines)
  BY DEF StoreInv, IInv, Shapes
<1> DEFINE s == Outcomes[u].issues
           W == {Tx(v) : v \in AllLines}
<1>3. s \in Seq(W) /\ Typed(s) /\ Len(s) <= Len(body[r])
  BY <1>1, <1>2, IssuesType
<1> HIDE DEF s, W
<1>4. Asked(s, filter) \in Seq(W) /\ Len(Asked(s, filter)) <= Len(s)
  BY <1>3, AskedType
<1>5. Len(body[r]) \in Nat /\ Fits(Len(body[r]))
  BY <1>2 DEF StoreInv, StoreFlow
<1>6. Len(Asked(s, filter)) \in Nat /\ Len(s) \in Nat
  BY <1>3, <1>4
<1>7. Len(Asked(s, filter)) <= Len(body[r])
  BY <1>3, <1>4, <1>5, <1>6
<1> QED
  BY <1>3, <1>4, <1>5, <1>7 DEF s, W

(* The page that is asked for next ends below MaxInt. *)
LEMMA NextFits ==
  ASSUME StoreInv, NEW q, NEW w, q = NextPage(w), Len(w.items) < w.total,
         WalkFits(w, Owned, Stored, Outcomes)
  PROVE  /\ q.id \in Stored /\ q.listing = w.listing /\ q.page = w.page + 1
         /\ (w.page + 1) * SizeOf(q.listing) <= MaxInt
         /\ AskedOf(q, Outcomes) = AskedOf(w, Outcomes)
         /\ Len(FirstPagesOf(AskedOf(w, Outcomes), w.page, SizeOf(w.listing))) < Len(AskedOf(w, Outcomes))
<1>1. q.id = w.id /\ q.listing = w.listing /\ q.page = w.page + 1
  BY DEF NextPage
<1>2. /\ w.id \in Stored /\ w.total = Len(AskedOf(w, Outcomes)) /\ w.page \in Nat \ {0}
      /\ w.items = FirstPagesOf(AskedOf(w, Outcomes), w.page, SizeOf(w.listing))
  <2>1. ~(w.total = 0 /\ w.items = <<>>)
    OBVIOUS
  <2> QED
    BY <2>1 DEF WalkFits
<1> DEFINE s == AskedOf(w, Outcomes)
           size == SizeOf(w.listing)
           W == {Tx(v) : v \in AllLines}
<1>3. s \in Seq(W)
  BY <1>2, StoredDocument, OwnedIssues DEF AskedOf
<1>4. PICK n \in Nat : Fits(n) /\ Len(s) <= n
  BY <1>2, StoredDocument, OwnedIssues DEF AskedOf
<1>5. size \in Nat \ {0} /\ (size <= MaxPageSize \/ size = DefaultPageSize)
  BY ValidPaging DEF WalkFits, Sound, SizeOf
<1>6. AskedOf(q, Outcomes) = s
  BY <1>1 DEF AskedOf
<1> HIDE DEF s, size, W
<1>7. Len(FirstPagesOf(s, w.page, size)) < Len(s)
  BY <1>2 DEF s, size
<1>8. w.page * size < Len(s)
  BY <1>2, <1>3, <1>5, <1>7, PagesJoin
<1>9. (w.page + 1) * size <= MaxInt
  <2>1. MaxPageSize \in Int /\ DefaultPageSize \in Int /\ MaxInt \in Int
    BY MaxPageSizeAssumption, MaxIntAssumption DEF IntRange, MinInt
  <2>2. n + size <= MaxInt
    BY <1>4, <1>5, <2>1 DEF Fits
  <2>3. Len(s) \in Nat
    BY <1>3
  <2> DEFINE m == w.page * size
  <2>4. m \in Nat /\ (w.page + 1) * size = m + size
    BY <1>2, <1>5
  <2> HIDE DEF m
  <2>5. m < Len(s)
    BY <1>8 DEF m
  <2> QED
    BY <1>4, <1>5, <2>1, <2>2, <2>3, <2>4, <2>5
<1> QED
  BY <1>1, <1>2, <1>6, <1>7, <1>9 DEF s, size

(* The page that the endpoint answers with. *)
LEMMA ListServed ==
  ASSUME StoreInv, NEW q, q.kind = "issues", q.id \in UploadIDs \cup {NoUpload}, NEW w, QueryFits(q, w),
         w # NoWalk => WalkFits(w, Owned, Stored, Outcomes), "list" \in DOMAIN IssuesReply(q)
  PROVE  ListFits(IssuesReply(q), q, Owned, Stored, Outcomes)
<1> DEFINE paging == ParsePagination(q.page, q.listing.size)
           filter == FilterOf(q.listing)
           list == ListIssues(saved[q.id].issues, filter, paging.page, paging.pageSize)
           a == IssuesReply(q)
           s == AskedOf(q, Outcomes)
           size == SizeOf(q.listing)
           W == {Tx(v) : v \in AllLines}
<1>1. q.id \in UploadIDs /\ paging.ok /\ filter.ok /\ a.page = paging.page /\ a.list = list
      /\ q.id \in Owned /\ a.status = status[q.id]
  BY IssuesShape DEF StoreInv, StoreFlow
<1>2. Sound(q.listing) /\ paging.pageSize = size
  BY <1>1, SameSize DEF Sound, SizeOf
<1>3. filter.statuses # {}
  BY <1>1, ValidFilter DEF FilterOf
<1>4. /\ paging.page \in Nat \ {0} /\ size \in Nat \ {0}
      /\ size <= MaxPageSize \/ size = DefaultPageSize
  BY <1>1, <1>2, ValidPaging
<1>5. q.page = Absent => paging.page = 1
  BY <1>1, SameSize
<1>6. \/ q.page = Absent
      \/ w # NoWalk /\ q = NextPage(w) /\ Len(w.items) < w.total /\ WalkFits(w, Owned, Stored, Outcomes)
  BY DEF QueryFits, NoQuery
<1>7. q.page # Absent => /\ q.id \in Stored /\ paging.page * size <= MaxInt
  <2>1. q.page # Absent => paging.page = q.page
    BY <1>1, SameSize
  <2> HIDE DEF paging, size
  <2>2. ASSUME q.page # Absent
        PROVE  q.id \in Stored /\ q.page = w.page + 1 /\ (w.page + 1) * SizeOf(q.listing) <= MaxInt
    BY <1>6, <2>2, NextFits
  <2> QED
    BY <2>1, <2>2 DEF size
<1>8. paging.page * size <= MaxInt
  <2>1. MaxPageSize \in Int /\ DefaultPageSize \in Int /\ MaxPageSize <= MaxInt /\ DefaultPageSize <= MaxInt
        /\ MaxInt \in Int
    BY MaxPageSizeAssumption, MaxIntAssumption DEF IntRange, MinInt
  <2> HIDE DEF paging, size
  <2>2. ASSUME q.page = Absent
        PROVE  paging.page * size = size
    BY <1>4, <1>5, <2>2
  <2> QED
    BY <1>4, <1>7, <2>1, <2>2
<1> HIDE DEF paging, filter, list, a, s, size, W
<1>9. list = ListIssues(saved[q.id].issues, filter, paging.page, size)
  BY <1>2 DEF list
<1>10. CASE q.id \in Stored
  <2>1. saved[q.id] = Outcomes[q.id]
    BY <1>10, StoredDocument
  <2>2. Outcomes[q.id].issues \in Seq(W) /\ Typed(Outcomes[q.id].issues)
    BY <1>10, StoredDocument, OwnedIssues DEF W
  <2>3. /\ ListIssues(Outcomes[q.id].issues, filter, paging.page, size).items
              = PageOf(Asked(Outcomes[q.id].issues, filter), paging.page, size)
        /\ ListIssues(Outcomes[q.id].issues, filter, paging.page, size).total
              = Len(Asked(Outcomes[q.id].issues, filter))
    BY <1>3, <1>4, <1>8, <2>2, PageIsSlice
  <2>4. s = Asked(Outcomes[q.id].issues, filter)
    BY DEF s, AskedOf, filter
  <2>5. a.list.items = PageOf(s, a.page, size) /\ a.list.total = Len(s)
    BY <1>1, <1>9, <2>1, <2>3, <2>4
  <2>6. LET p == ParsePagination(q.page, q.listing.size) IN p.ok /\ a.page = p.page
    BY <1>1 DEF paging
  <2> QED
    BY <1>1, <1>2, <1>10, <2>5, <2>6 DEF ListFits, a, s, size
<1>11. CASE q.id \notin Stored
  <2>1. saved[q.id] = NoTotals
    BY <1>1, <1>11 DEF StoreInv, StoreFlow
  <2>2. NoTotals.issues = <<>>
    BY DEF NoTotals
  <2>3. list.items = <<>> /\ list.total = 0
    <3> DEFINE start == FirstOfPage(paging.page, size)
               end == Wrap(start + size)
               found == Pick(<<>>, {i \in DOMAIN <<>> : Matches(filter, <<>>[i])})
    <3>1. list = ListIssues(<<>>, filter, paging.page, size)
      BY <1>9, <2>1, <2>2
    <3>2. list = [items |-> Pick(found, {k \in DOMAIN found : start < k /\ k <= end}), total |-> Len(found)]
      BY <3>1 DEF ListIssues
    <3>3. found = <<>>
      <4>1. {i \in DOMAIN <<>> : Matches(filter, <<>>[i])} = {}
        OBVIOUS
      <4> QED
        BY <4>1, PickNone
    <3> HIDE DEF start, end, found
    <3>4. {k \in DOMAIN found : start < k /\ k <= end} = {}
      BY <3>3
    <3>5. list.items = Pick(found, {}) /\ list.total = Len(found)
      BY <3>2, <3>4
    <3> QED
      BY <3>3, <3>5, PickNone
  <2>4. q.page = Absent
    BY <1>7, <1>11
  <2>5. LET p == ParsePagination(q.page, q.listing.size) IN p.ok /\ a.page = p.page
    BY <1>1 DEF paging
  <2>6. a.status \notin Final
    BY <1>1, <1>11, FinalIsStored
  <2> QED
    BY <1>1, <1>2, <2>3, <2>4, <2>5, <2>6 DEF ListFits, a
<1> QED
  BY <1>10, <1>11

(* The pages with the one that has come. *)
LEMMA WalkGrows ==
  ASSUME StoreInv, NEW q, NEW w, QueryFits(q, w), w # NoWalk => WalkFits(w, Owned, Stored, Outcomes),
         NEW a, ListFits(a, q, Owned, Stored, Outcomes)
  PROVE  WalkFits(Walked(w, q, a), Owned, Stored, Outcomes)
<1> DEFINE v == Walked(w, q, a)
           s == AskedOf(q, Outcomes)
           size == SizeOf(q.listing)
           W == {Tx(l) : l \in AllLines}
<1>1. /\ v.id = q.id /\ v.listing = q.listing /\ v.page = a.page
      /\ v.status = a.status /\ v.total = a.list.total
      /\ v.items = IF a.page = 1 THEN a.list.items ELSE w.items \o a.list.items
  BY DEF Walked
<1>2. /\ q.id \in Owned /\ q.kind = "issues" /\ Sound(q.listing)
      /\ \/ a.list.total = 0 /\ a.list.items = <<>> /\ q.page = Absent /\ a.status \notin Final
         \/ /\ q.id \in Stored /\ a.list.total = Len(s)
            /\ a.list.items = PageOf(s, a.page, size)
  BY DEF ListFits
<1>3. /\ a.page \in Nat \ {0}
      /\ q.page = Absent => a.page = 1
      /\ q.page # Absent => a.page = q.page
  BY SameSize, ValidPaging DEF ListFits
<1>4. size \in Nat \ {0}
  BY <1>2, ValidPaging DEF Sound, SizeOf
<1>5. AskedOf(v, Outcomes) = s /\ SizeOf(v.listing) = size
  BY <1>1 DEF AskedOf
<1>6. q.id \in Stored => s \in Seq(W)
  BY StoredDocument, OwnedIssues DEF AskedOf
<1> HIDE DEF v, s, size, W
<1>7. CASE a.page = 1
  <2>1. q.id \in Stored => FirstPagesOf(s, 1, size) = PageOf(s, 1, size)
    BY <1>4, <1>6, FirstIsFirst
  <2>2. \/ v.total = 0 /\ v.items = <<>> /\ v.status \notin Final
        \/ v.id \in Stored /\ v.total = Len(s) /\ v.items = FirstPagesOf(s, v.page, size)
    BY <1>1, <1>2, <1>7, <2>1
  <2> QED
    BY <1>1, <1>2, <1>3, <1>5, <2>2 DEF WalkFits, v
<1>8. CASE a.page # 1
  <2>1. q.page # Absent /\ a.page = q.page
    BY <1>3, <1>8
  <2>2. w # NoWalk /\ q = NextPage(w) /\ Len(w.items) < w.total /\ WalkFits(w, Owned, Stored, Outcomes)
    BY <1>2, <2>1 DEF QueryFits, NoQuery
  <2>3. /\ q.page = w.page + 1 /\ q.listing = w.listing
        /\ AskedOf(w, Outcomes) = s /\ SizeOf(w.listing) = size
        /\ Len(FirstPagesOf(s, w.page, size)) < Len(s)
    BY <2>2, NextFits DEF s, size
  <2>4. w.page \in Nat \ {0} /\ w.items = FirstPagesOf(s, w.page, size)
    <3>1. ~(w.total = 0 /\ w.items = <<>>)
      BY <2>2
    <3> QED
      BY <2>2, <2>3, <3>1 DEF WalkFits
  <2>5. q.id \in Stored /\ a.list.total = Len(s) /\ a.list.items = PageOf(s, w.page + 1, size)
    BY <1>2, <2>1, <2>3
  <2>6. FirstPagesOf(s, w.page, size) \o PageOf(s, w.page + 1, size) = FirstPagesOf(s, w.page + 1, size)
    BY <1>4, <1>6, <2>3, <2>4, <2>5, PagesJoin
  <2>7. v.id \in Stored /\ v.total = Len(s) /\ v.items = FirstPagesOf(s, v.page, size)
    BY <1>1, <1>8, <2>1, <2>3, <2>4, <2>5, <2>6
  <2> QED
    BY <1>1, <1>2, <1>3, <1>5, <2>7 DEF WalkFits, v
<1> QED
  BY <1>7, <1>8

(* What the store knows goes on while the pollers' side changes. *)
LEMMA PollsGoOn ==
  ASSUME StoreInv, [Next]_vars,
         \A c \in Pollers : PollerFits(query'[c], reply'[c], walk'[c], heard'[c], Owned, Stored, Outcomes)
  PROVE  StoreInv' /\ PollFits'
<1>1. StoreInv' /\ Owned \subseteq Owned' /\ Stored \subseteq Stored' /\ \A u \in Stored : Outcomes'[u] = Outcomes[u]
  BY StoreGoesOn
<1>2. \A c \in Pollers : PollerFits(query'[c], reply'[c], walk'[c], heard'[c], Owned', Stored', Outcomes')
  BY <1>1, FitsGoOn
<1> QED
  BY <1>1, <1>2 DEF PollFits

(* A step of one poller. *)
LEMMA OnePoller ==
  ASSUME StoreInv, PollFits, UNCHANGED uploadVars, NEW c \in Pollers,
         \A d \in Pollers \ {c} : /\ query'[d] = query[d] /\ reply'[d] = reply[d]
                                 /\ walk'[d] = walk[d] /\ heard'[d] = heard[d],
         PollerFits(query'[c], reply'[c], walk'[c], heard'[c], Owned, Stored, Outcomes)
  PROVE  StoreInv' /\ PollFits'
<1>1. [Next]_vars
  BY DEF uploadVars
<1>2. \A d \in Pollers : PollerFits(query'[d], reply'[d], walk'[d], heard'[d], Owned, Stored, Outcomes)
  BY DEF PollFits
<1> QED
  BY <1>1, <1>2, PollsGoOn

LEMMA AskPolls ==
  ASSUME PInv, StoreInv, PollFits, NEW c \in Pollers, Poller(c)
  PROVE  StoreInv' /\ PollFits'
<1>1. PICK q \in BalanceQueries \cup FirstPages \cup {NextPage(walk[c])} :
        Ask(c, q) /\ (q \in BalanceQueries \cup FirstPages
                        \/ (walk[c] # NoWalk /\ Len(walk[c].items) < walk[c].total))
  BY DEF Poller
<1>2. query' = [query EXCEPT ![c] = q] /\ UNCHANGED <<uploadVars, reply, walk, heard>> /\ stage[c] = "idle"
  BY <1>1 DEF Ask
<1>3. /\ query'[c] = q /\ \A d \in Pollers \ {c} : query'[d] = query[d]
      /\ reply[c] = NoReply
  BY <1>2 DEF PInv, PollShapes, Domains, QueryFlow
<1>4. QueryFits(q, walk[c])
  <2>1. CASE q \in BalanceQueries \cup FirstPages
    BY <2>1 DEF QueryFits, BalanceQueries, FirstPages
  <2>2. CASE q = NextPage(walk[c]) /\ walk[c] # NoWalk /\ Len(walk[c].items) < walk[c].total
    <3>1. NextPage(walk[c]).kind = "issues"
      BY DEF NextPage
    <3> QED
      BY <2>2, <3>1 DEF QueryFits
  <2> QED
    BY <1>1, <2>1, <2>2
<1>5. PollerFits(query[c], reply[c], walk[c], heard[c], Owned, Stored, Outcomes)
  BY DEF PollFits
<1>6. DOMAIN NoReply = {"code"}
  BY DEF NoReply
<1>7. PollerFits(q, reply[c], walk[c], heard[c], Owned, Stored, Outcomes)
  BY <1>3, <1>4, <1>5, <1>6 DEF PollerFits
<1> QED
  BY <1>2, <1>3, <1>7, OnePoller

LEMMA ServePolls ==
  ASSUME PInv, StoreInv, PollFits, NEW c \in Pollers, Serve(c)
  PROVE  StoreInv' /\ PollFits'
<1> DEFINE q == query[c]
           a == reply'[c]
           w == walk[c]
           h == heard[c]
<1>1. UNCHANGED <<uploadVars, query, walk, heard>> /\ \A d \in Pollers \ {c} : reply'[d] = reply[d]
  BY DEF Serve, PInv, PollShapes, Domains
<1>2. a = IF q.kind = "balance" THEN BalanceReply(q) ELSE IssuesReply(q)
  BY DEF Serve, PInv, PollShapes, Domains
<1>3. q # NoQuery /\ q.id \in UploadIDs \cup {NoUpload}
  BY DEF Serve, PInv, PollShapes, QueryFlow
<1>4. PollerFits(q, reply[c], w, h, Owned, Stored, Outcomes)
  BY DEF PollFits
<1>5. /\ QueryFits(q, w) /\ (w # NoWalk => WalkFits(w, Owned, Stored, Outcomes))
      /\ \A u \in UploadIDs : h[u].balance # Absent => BalanceFits(h[u], u, Stored, Outcomes)
  BY <1>4 DEF PollerFits
<1>6. ASSUME q.kind = "balance"
      PROVE  PollerFits(q, a, w, h, Owned, Stored, Outcomes)
  <2>1. a = BalanceReply(q)
    BY <1>2, <1>6
  <2>2. "list" \notin DOMAIN a
    BY <2>1, BalanceShape
  <2>3. ASSUME "balance" \in DOMAIN a
        PROVE  BalanceFits(a, q.id, Stored, Outcomes)
    <3>1. q.id \in UploadIDs /\ a.status = status[q.id] /\ a.balance = saved[q.id].balance
      BY <1>3, <2>1, <2>3, BalanceShape
    <3>2. ASSUME status[q.id] \in Final
          PROVE  q.id \in Stored /\ saved[q.id] = Outcomes[q.id]
      BY <3>1, <3>2, FinalIsStored, StoredDocument
    <3> QED
      BY <3>1, <3>2 DEF BalanceFits
  <2> HIDE DEF a, q, w, h
  <2> QED
    BY <1>5, <2>2, <2>3 DEF PollerFits
<1>7. ASSUME q.kind # "balance"
      PROVE  PollerFits(q, a, w, h, Owned, Stored, Outcomes)
  <2>1. a = IssuesReply(q)
    BY <1>2, <1>7
  <2>2. "balance" \notin DOMAIN a
    BY <2>1, IssuesShape
  <2>3. q.kind = "issues"
    BY <1>3, <1>5, <1>7 DEF QueryFits
  <2>4. "list" \in DOMAIN a => ListFits(a, q, Owned, Stored, Outcomes)
    BY <1>3, <1>5, <2>1, <2>3, ListServed
  <2> HIDE DEF a, q, w, h
  <2> QED
    BY <1>5, <2>2, <2>4 DEF PollerFits
<1>8. PollerFits(q, a, w, h, Owned, Stored, Outcomes)
  BY <1>6, <1>7
<1> QED
  BY <1>1, <1>8, OnePoller

LEMMA HearPolls ==
  ASSUME PInv, StoreInv, PollFits, NEW c \in Pollers, Hear(c)
  PROVE  StoreInv' /\ PollFits'
<1> DEFINE q == query[c]
           a == reply[c]
           w == walk[c]
           h == heard[c]
           w2 == walk'[c]
           h2 == heard'[c]
<1>1. /\ UNCHANGED uploadVars /\ ResetPoll(c) /\ stage[c] = "written"
      /\ heard' = IF a.code \in {200, 404} THEN [heard EXCEPT ![c][q.id] = Told(@, a)] ELSE heard
      /\ walk' = IF "list" \in DOMAIN a THEN [walk EXCEPT ![c] = Walked(@, q, a)] ELSE walk
  BY DEF Hear
<1>2. /\ query'[c] = NoQuery /\ reply'[c] = NoReply
      /\ \A d \in Pollers \ {c} : query'[d] = query[d] /\ reply'[d] = reply[d]
  BY <1>1, ResetPollEffect
<1>3. /\ \A d \in Pollers \ {c} : walk'[d] = walk[d]
      /\ w2 = IF "list" \in DOMAIN a THEN Walked(w, q, a) ELSE w
  BY <1>1 DEF PInv, PollShapes, Domains
<1>4. heard = [d \in Pollers |-> [u \in UploadIDs |-> heard[d][u]]]
  BY DEF PInv, PollShapes, Domains
<1>5. /\ \A d \in Pollers \ {c} : heard'[d] = heard[d]
      /\ \A u \in UploadIDs : h2[u] = IF a.code \in {200, 404} /\ u = q.id THEN Told(h[u], a) ELSE h[u]
  BY <1>1, <1>4
<1>6. PollerFits(q, a, w, h, Owned, Stored, Outcomes)
  BY DEF PollFits
<1> HIDE DEF q, a, w, h, w2, h2
<1>7. w2 # NoWalk => WalkFits(w2, Owned, Stored, Outcomes)
  <2>1. CASE "list" \in DOMAIN a
    BY <1>3, <1>6, <2>1, WalkGrows DEF PollerFits
  <2>2. CASE "list" \notin DOMAIN a
    BY <1>3, <1>6, <2>2 DEF PollerFits
  <2> QED
    BY <2>1, <2>2
<1>8. ASSUME NEW u \in UploadIDs, h2[u].balance # Absent
      PROVE  BalanceFits(h2[u], u, Stored, Outcomes)
  <2>1. h[u].balance # Absent => BalanceFits(h[u], u, Stored, Outcomes)
    BY <1>6 DEF PollerFits
  <2>2. CASE h2[u] = h[u]
    BY <1>8, <2>1, <2>2
  <2>3. CASE u = q.id /\ h2[u] = Told(h[u], a)
    <3>1. CASE "balance" \in DOMAIN a
      <4>1. h2[u].balance = a.balance /\ h2[u].status = IF a.code = 404 THEN "ABSENT" ELSE a.status
        BY <2>3, <3>1 DEF Told
      <4>2. BalanceFits(a, u, Stored, Outcomes)
        BY <1>6, <2>3, <3>1 DEF PollerFits
      <4> QED
        BY <4>1, <4>2 DEF BalanceFits, Final
    <3>2. CASE "balance" \notin DOMAIN a
      <4>1. /\ Told(h[u], a).balance = IF a.code = 200 /\ a.status = h[u].status THEN h[u].balance ELSE Absent
            /\ Told(h[u], a).status = IF a.code = 404 THEN "ABSENT" ELSE a.status
        BY <3>2 DEF Told
      <4>2. a.code = 200 /\ a.status = h[u].status /\ h2[u].balance = h[u].balance /\ h2[u].status = h[u].status
        BY <1>8, <2>3, <4>1
      <4> QED
        BY <1>8, <2>1, <4>2 DEF BalanceFits
    <3> QED
      BY <3>1, <3>2
  <2> QED
    BY <1>5, <2>2, <2>3
<1>9. QueryFits(NoQuery, w2) /\ DOMAIN NoReply = {"code"}
  BY DEF QueryFits, NoReply
<1>10. PollerFits(NoQuery, NoReply, w2, h2, Owned, Stored, Outcomes)
  BY <1>7, <1>8, <1>9 DEF PollerFits
<1> QED
  BY <1>1, <1>2, <1>3, <1>5, <1>10, OnePoller DEF w2, h2

LEMMA LosePolls ==
  ASSUME PInv, StoreInv, PollFits, NEW c \in Pollers, Lose(c)
  PROVE  StoreInv' /\ PollFits'
<1>1. UNCHANGED <<uploadVars, heard, walk>> /\ ResetPoll(c)
  BY DEF Lose
<1>2. /\ query'[c] = NoQuery /\ reply'[c] = NoReply
      /\ \A d \in Pollers \ {c} : query'[d] = query[d] /\ reply'[d] = reply[d]
  BY <1>1, ResetPollEffect
<1>3. PollerFits(query[c], reply[c], walk[c], heard[c], Owned, Stored, Outcomes)
  BY DEF PollFits
<1>4. QueryFits(NoQuery, walk[c]) /\ DOMAIN NoReply = {"code"}
  BY DEF QueryFits, NoReply
<1>5. PollerFits(NoQuery, NoReply, walk[c], heard[c], Owned, Stored, Outcomes)
  BY <1>3, <1>4 DEF PollerFits
<1> QED
  BY <1>1, <1>2, <1>5, OnePoller

LEMMA NextPolls ==
  ASSUME PInv, StoreInv, PollFits, [ServiceNext]_serviceVars
  PROVE  StoreInv' /\ PollFits'
<1>1. ASSUME UNCHANGED pollVars
      PROVE  StoreInv' /\ PollFits'
  <2>1. [Next]_vars
    BY UploadsGoOn
  <2>2. \A c \in Pollers : PollerFits(query'[c], reply'[c], walk'[c], heard'[c], Owned, Stored, Outcomes)
    BY <1>1 DEF PollFits, pollVars
  <2> QED
    BY <2>1, <2>2, PollsGoOn
<1>2. CASE UploadStep \/ UNCHANGED serviceVars
  BY <1>1, <1>2 DEF UploadStep, serviceVars
<1>3. ASSUME NEW r \in Requests, CloseUpload(r)
      PROVE  UNCHANGED pollVars
  BY <1>3 DEF CloseUpload
<1>4. ASSUME NEW x \in Conns, WriteReply(x) \/ Break(x)
      PROVE  UNCHANGED pollVars
  BY <1>4 DEF WriteReply, Break
<1> QED
  BY <1>1, <1>2, <1>3, <1>4, AskPolls, ServePolls, HearPolls, LosePolls DEF ServiceNext

(* What pages that fit are. *)
LEMMA WalkAddsUp ==
  ASSUME StoreInv, NEW w, WalkFits(w, Owned, Stored, Outcomes)
  PROVE  LET wanted == Wanted(w.id, w.listing)
         IN /\ w.total \in {0, Len(wanted)}
            /\ w.status \in Final => w.total = Len(wanted)
            /\ Len(w.items) <= Len(wanted)
            /\ w.items = SubSeq(wanted, 1, Len(w.items))
            /\ w.total # 0 => w.items # <<>>
<1> DEFINE s == AskedOf(w, Outcomes)
           size == SizeOf(w.listing)
           W == {Tx(v) : v \in AllLines}
<1>1. w.id \in UploadIDs /\ w.id \in Owned
  BY DEF WalkFits, Owned
<1>2. Wanted(w.id, w.listing) = s
  BY <1>1 DEF Wanted, AskedOf, Outcomes, FilterOf
<1>3. s \in Seq(W)
  BY <1>1, OwnedIssues DEF AskedOf
<1>4. size \in Nat \ {0} /\ w.page \in Nat \ {0}
  BY ValidPaging DEF WalkFits, Sound, SizeOf
<1>5. \/ w.total = 0 /\ w.items = <<>> /\ w.status \notin Final
      \/ w.total = Len(s) /\ w.items = FirstPagesOf(s, w.page, size)
  BY DEF WalkFits
<1> HIDE DEF s, size, W
<1>6. CASE w.total = 0 /\ w.items = <<>> /\ w.status \notin Final
  BY <1>2, <1>3, <1>6
<1>7. CASE w.total = Len(s) /\ w.items = FirstPagesOf(s, w.page, size)
  <2> DEFINE m == w.page * size
             h == IF m < Len(s) THEN m ELSE Len(s)
  <2>1. m \in Nat \ {0} /\ Len(s) \in Nat
    BY <1>3, <1>4
  <2>2. w.items = SubSeq(s, 1, h)
    BY <1>7 DEF FirstPagesOf
  <2> HIDE DEF m
  <2>3. h \in Nat /\ h <= Len(s) /\ (Len(s) # 0 => h # 0)
    BY <2>1
  <2> HIDE DEF h
  <2>4. Len(w.items) = h
    BY <1>3, <2>2, <2>3
  <2>5. w.total # 0 => w.items # <<>>
    BY <1>7, <2>3, <2>4
  <2> QED
    BY <1>2, <1>7, <2>2, <2>3, <2>4, <2>5
<1> QED
  BY <1>5, <1>6, <1>7

(* Whatever uploads and polls do meanwhile, the pages of a listing that    *)
(* were asked for one after the other are the first ones of what the       *)
(* filter picks from the issues of the body that arrived, a page with a    *)
(* final status has the number of all of them, and a balance that came     *)
(* with a final status is that of the whole body.                          *)
THEOREM PollsFitTogether == ServiceSpec => []PollsAddUp
<1>1. ServiceInit => PInv /\ StoreInv /\ PollFits
  BY InitPInv, InitStore, InitPolls DEF ServiceInit
<1>2. PInv /\ (StoreInv /\ PollFits) /\ [ServiceNext]_serviceVars => (StoreInv /\ PollFits)'
  BY NextPolls
<1>3. StoreInv /\ PollFits => PollsAddUp
  <2> SUFFICES ASSUME StoreInv, PollFits
               PROVE  PollsAddUp
    OBVIOUS
  <2>1. ASSUME NEW c \in Pollers, walk[c] # NoWalk
        PROVE  LET wanted == Wanted(walk[c].id, walk[c].listing)
               IN /\ walk[c].total \in {0, Len(wanted)}
                  /\ walk[c].status \in Final => walk[c].total = Len(wanted)
                  /\ Len(walk[c].items) <= Len(wanted)
                  /\ walk[c].items = SubSeq(wanted, 1, Len(walk[c].items))
                  /\ walk[c].total # 0 => walk[c].items # <<>>
    BY <2>1, WalkAddsUp DEF PollFits, PollerFits
  <2>2. ASSUME NEW c \in Pollers, NEW u \in UploadIDs,
               heard[c][u].status \in Final, heard[c][u].balance # Absent
        PROVE  heard[c][u].balance = TheDocument(u).balance
    <3>1. BalanceFits(heard[c][u], u, Stored, Outcomes)
      BY <2>2 DEF PollFits, PollerFits
    <3> QED
      BY <2>2, <3>1 DEF BalanceFits, Outcomes
  <2> QED
    BY <2>1, <2>2 DEF PollsAddUp
<1> QED
  BY <1>1, <1>2, <1>3, ServiceInvariance, PTL DEF ServiceSpec
=============================================================================
