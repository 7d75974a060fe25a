--------------------------- MODULE EventBusProofs ---------------------------
(***************************************************************************)
(* Proofs about the event layer for all calls, IDs and workers, every      *)
(* buffer and every number of retries: no send meets a closed channel, one *)
(* event of each ID is handled, with the right number of attempts, and no  *)
(* accepted event is lost; bus and consumer implement EventDelivery.       *)
(***************************************************************************)
EXTENDS EventBus, TLAPS

(* A worker holds an event exactly while it processes one. *)
JobsMatch ==
  \A w \in Workers :
    /\ job[w] = NoCall <=> at[w] \in {"receive", "exited"}
    /\ at[w] \in {"receive", "claim", "exited"} => attempt[w] = 0

(* An event is in one place of the channel, or with one worker. *)
OneHolder ==
  /\ \A v, w \in Workers : job[v] = job[w] /\ job[v] # NoCall => v = w
  /\ \A i, j \in 1..Len(ch) : ch[i] = ch[j] => i = j
  /\ \A i \in 1..Len(ch), w \in Workers : ch[i] # job[w]

(* Nothing has happened to an event that was not accepted, nor to one that *)
(* is still in the channel.                                                *)
Untouched ==
  \A c \in Calls :
    /\ pub[c] # "accepted" => ~Queued(c) /\ ~Held(c)
    /\ pub[c] # "accepted" \/ Queued(c) => tries[c] = 0 /\ outcome[c] = "none"

(* The loop variable of processEvent counts the attempts made. *)
AttemptsCounted ==
  \A w \in Workers :
    /\ at[w] = "claim" => tries[job[w]] = 0
    /\ at[w] = "handle" => tries[job[w]] = attempt[w]
    /\ at[w] = "backoff" => tries[job[w]] = attempt[w] + 1 /\ attempt[w] < Retries
    /\ job[w] # NoCall => outcome[job[w]] = "none"

(* The event has passed the look-up of its ID. *)
Passed(c) ==
  tries[c] > 0 \/ \E w \in Workers : job[w] = c /\ at[w] \in {"handle", "backoff"}

(* The ID of an event that passed is in seen, and no two of one ID pass. *)
SeenGuards ==
  \A c \in Calls : Passed(c) /\ EventID[c] # NoID =>
    /\ EventID[c] \in seen
    /\ \A d \in Calls : Passed(d) /\ EventID[c] = EventID[d] => c = d

(* A worker leaves a closed and empty channel, Stop after all of them. *)
LeftDrained ==
  /\ \A w \in Workers : at[w] = "exited" => closed /\ ch = <<>>
  /\ stop = "stopped" => \A w \in Workers : at[w] = "exited"

AccountedFor ==
  \A c \in Calls : pub[c] = "accepted" => Queued(c) \/ Held(c) \/ outcome[c] # "none"

IInv ==
  /\ TypeOK /\ NoSendOnClosedChannel /\ JobsMatch /\ OneHolder /\ Untouched
  /\ AttemptsCounted /\ RetryBudget /\ SeenGuards /\ LeftDrained /\ AccountedFor

-----------------------------------------------------------------------------
(* The sizes the constructors settle on. *)
LEMMA Sizes == /\ Capacity \in Nat /\ Capacity > 0
               /\ Retries \in Nat
  BY ConfigAssumption DEF Capacity, Retries

LEMMA InitIInv == Init => IInv
<1> SUFFICES ASSUME Init PROVE IInv
  OBVIOUS
<1> USE Sizes, CallsAssumption DEF Init
<1>1. TypeOK
  <2>1. ch \in Seq(Calls) /\ Len(ch) <= Capacity
    OBVIOUS
  <2>2. attempt \in [Workers -> 0..Retries]
    OBVIOUS
  <2>3. tries \in [Calls -> Nat] /\ seen \subseteq {EventID[c] : c \in Calls} \ {NoID}
    OBVIOUS
  <2>4. pub \in [Calls -> {"idle", "sending", "accepted", "refused", "canceled", "panicked"}]
    OBVIOUS
  <2>5. /\ at \in [Workers -> {"receive", "claim", "handle", "backoff", "exited"}]
        /\ job \in [Workers -> Calls \cup {NoCall}]
        /\ outcome \in [Calls -> {"none", "skipped", "reconciled", "abandoned"}]
    OBVIOUS
  <2> QED
    BY <2>1, <2>2, <2>3, <2>4, <2>5 DEF TypeOK
<1>2. NoSendOnClosedChannel /\ RetryBudget /\ LeftDrained /\ JobsMatch
  BY WorkersAssumption DEF NoSendOnClosedChannel, RetryBudget, LeftDrained, JobsMatch, Sending
<1>3. \A c \in Calls : ~Queued(c) /\ ~Held(c) /\ ~Passed(c)
  BY DEF Queued, Held, Passed
<1>4. OneHolder /\ Untouched /\ AttemptsCounted /\ SeenGuards /\ AccountedFor
  BY <1>3 DEF OneHolder, Untouched, AttemptsCounted, SeenGuards, AccountedFor
<1> QED
  BY <1>1, <1>2, <1>4 DEF IInv

-----------------------------------------------------------------------------
(* Which events are in the channel after one came in at the end. *)
LEMMA Appended ==
  ASSUME ch \in Seq(Calls), NEW c \in Calls, ch' = Append(ch, c)
  PROVE  /\ ch' \in Seq(Calls) /\ Len(ch') = Len(ch) + 1
         /\ \A i \in 1..Len(ch) : ch'[i] = ch[i]
         /\ ch'[Len(ch) + 1] = c
         /\ \A d : Queued(d)' <=> Queued(d) \/ d = c
  BY DEF Queued

(* Which events are in the channel after the first was taken out. *)
LEMMA Taken ==
  ASSUME ch \in Seq(Calls), ch # <<>>, ch' = Tail(ch)
  PROVE  /\ ch' \in Seq(Calls) /\ Len(ch') = Len(ch) - 1
         /\ \A i \in 1..Len(ch') : ch'[i] = ch[i + 1]
         /\ Head(ch) = ch[1] /\ Head(ch) \in Calls
         /\ \A d : Queued(d) <=> Queued(d)' \/ d = Head(ch)
<1>1. /\ ch' \in Seq(Calls) /\ Len(ch') = Len(ch) - 1
      /\ \A i \in 1..Len(ch') : ch'[i] = ch[i + 1]
      /\ Head(ch) = ch[1] /\ Head(ch) \in Calls
  OBVIOUS
<1>2. ASSUME NEW d, Queued(d) PROVE Queued(d)' \/ d = Head(ch)
  <2>1. PICK i \in 1..Len(ch) : ch[i] = d
    BY <1>2 DEF Queued
  <2>2. CASE i = 1
    BY <1>1, <2>1, <2>2
  <2>3. CASE i # 1
    <3>1. i - 1 \in 1..Len(ch') /\ ch'[i - 1] = d
      BY <1>1, <2>1, <2>3
    <3> QED
      BY <3>1 DEF Queued
  <2> QED
    BY <2>2, <2>3
<1>3. ASSUME NEW d, Queued(d)' \/ d = Head(ch) PROVE Queued(d)
  <2>1. CASE d = Head(ch)
    BY <1>1, <2>1 DEF Queued
  <2>2. CASE Queued(d)'
    <3>1. PICK i \in 1..Len(ch') : ch'[i] = d
      BY <2>2 DEF Queued
    <3>2. i + 1 \in 1..Len(ch) /\ ch[i + 1] = d
      BY <1>1, <3>1
    <3> QED
      BY <3>2 DEF Queued
  <2> QED
    BY <1>3, <2>1, <2>2
<1> QED
  BY <1>1, <1>2, <1>3

-----------------------------------------------------------------------------
(* Steps that move no event: the cancellation and those of Stop. *)
LEMMA StopStep ==
  ASSUME IInv, Cancel \/ StopCall \/ Close \/ StopReturns \/ StopTimesOut \/ UNCHANGED vars
  PROVE  IInv'
<1> USE DEF IInv, Cancel, StopCall, Close, StopReturns, StopTimesOut, vars, busVars, poolVars
<1>1. TypeOK'
  BY DEF TypeOK
<1>2. NoSendOnClosedChannel'
  BY DEF NoSendOnClosedChannel, Sending
<1>3. JobsMatch'
  BY DEF JobsMatch
<1>4. OneHolder'
  BY DEF OneHolder
<1>5. Untouched'
  BY DEF Untouched, Queued, Held
<1>6. AttemptsCounted'
  BY DEF AttemptsCounted
<1>7. RetryBudget'
  BY DEF RetryBudget
<1>8. SeenGuards'
  BY DEF SeenGuards, Passed
<1>9. LeftDrained'
  BY DEF LeftDrained
<1>10. AccountedFor'
  BY DEF AccountedFor, Queued, Held
<1> QED
  BY <1>1, <1>2, <1>3, <1>4, <1>5, <1>6, <1>7, <1>8, <1>9, <1>10

-----------------------------------------------------------------------------
(* Publish: an event is new to the channel when it is sent. *)
LEMMA PublisherStep ==
  ASSUME IInv, NEW c \in Calls, Publisher(c)
  PROVE  IInv'
<1> USE DEF IInv
<1>1. CASE Enter(c) \/ GiveUp(c)
  <2> USE <1>1 DEF Enter, GiveUp, poolVars
  <2>1. TypeOK'
    BY DEF TypeOK
  <2>2. NoSendOnClosedChannel'
    BY DEF NoSendOnClosedChannel, Sending, TypeOK
  <2>3. Untouched' /\ AccountedFor'
    <3>1. \A d \in Calls : pub'[d] = "accepted" <=> pub[d] = "accepted"
      BY DEF TypeOK
    <3>2. \A d \in Calls : (Queued(d)' <=> Queued(d)) /\ (Held(d)' <=> Held(d))
      BY DEF Queued, Held
    <3> QED
      BY <3>1, <3>2 DEF Untouched, AccountedFor
  <2>4. JobsMatch' /\ OneHolder' /\ AttemptsCounted' /\ RetryBudget' /\ SeenGuards' /\ LeftDrained'
    BY DEF JobsMatch, OneHolder, AttemptsCounted, RetryBudget, SeenGuards, Passed, LeftDrained
  <2> QED
    BY <2>1, <2>2, <2>3, <2>4
<1>2. CASE Send(c)
  <2> USE <1>2 DEF Send, poolVars
  <2>1. /\ ~closed /\ Len(ch) < Capacity
        /\ pub' = [pub EXCEPT ![c] = "accepted"] /\ ch' = Append(ch, c)
    BY DEF NoSendOnClosedChannel, Sending
  <2>2. /\ ch' \in Seq(Calls) /\ Len(ch') = Len(ch) + 1
        /\ \A i \in 1..Len(ch) : ch'[i] = ch[i]
        /\ ch'[Len(ch) + 1] = c
        /\ \A d : Queued(d)' <=> Queued(d) \/ d = c
    BY <2>1, Appended DEF TypeOK
  <2>3. ~Queued(c) /\ ~Held(c) /\ tries[c] = 0 /\ outcome[c] = "none"
    BY DEF Untouched
  <2>4. TypeOK'
    BY <2>1, <2>2, Sizes DEF TypeOK
  <2>5. NoSendOnClosedChannel'
    BY <2>1 DEF NoSendOnClosedChannel, TypeOK
  <2>6. OneHolder'
    <3>1. \A i \in 1..Len(ch) : ch[i] # c
      BY <2>3 DEF Queued
    <3>2. \A i \in 1..Len(ch') : i \in 1..Len(ch) \/ i = Len(ch) + 1
      BY <2>2 DEF TypeOK
    <3>3. \A v \in Workers : job[v] # c
      BY <2>3 DEF Held
    <3>4. \A i, k \in 1..Len(ch') : ch'[i] = ch'[k] => i = k
      BY <2>2, <3>1, <3>2 DEF OneHolder
    <3>5. \A i \in 1..Len(ch'), v \in Workers : ch'[i] # job'[v]
      BY <2>2, <3>2, <3>3 DEF OneHolder
    <3> QED
      BY <3>4, <3>5 DEF OneHolder
  <2>7. Untouched'
    BY <2>1, <2>2, <2>3 DEF Untouched, Held, TypeOK
  <2>8. AccountedFor'
    BY <2>1, <2>2 DEF AccountedFor, Held, TypeOK
  <2>9. JobsMatch' /\ AttemptsCounted' /\ RetryBudget' /\ SeenGuards'
    BY DEF JobsMatch, AttemptsCounted, RetryBudget, SeenGuards, Passed
  <2>10. LeftDrained'
    BY <2>1 DEF LeftDrained
  <2> QED
    BY <2>4, <2>5, <2>6, <2>7, <2>8, <2>9, <2>10
<1> QED
  BY <1>1, <1>2 DEF Publisher

-----------------------------------------------------------------------------
(* What is known of the event a worker holds. *)
LEMMA HeldEvent ==
  ASSUME IInv, NEW w \in Workers, job[w] # NoCall
  PROVE  /\ job[w] \in Calls
         /\ pub[job[w]] = "accepted" /\ outcome[job[w]] = "none"
         /\ ~Queued(job[w])
         /\ \A v \in Workers \ {w} : job[v] # job[w]
  BY DEF IInv, TypeOK, Untouched, Held, Queued, OneHolder, AttemptsCounted

(* A worker takes the first event out of the channel. *)
LEMMA ReceiveStep ==
  ASSUME IInv, NEW w \in Workers, Receive(w)
  PROVE  IInv'
<1> USE DEF IInv, Receive
<1>1. /\ ch' \in Seq(Calls) /\ Len(ch') = Len(ch) - 1
      /\ \A i \in 1..Len(ch') : ch'[i] = ch[i + 1]
      /\ Head(ch) = ch[1] /\ Head(ch) \in Calls
      /\ \A d : Queued(d) <=> Queued(d)' \/ d = Head(ch)
  BY Taken DEF TypeOK
<1>2. Len(ch) \in Nat /\ Len(ch) > 0
  BY DEF TypeOK
<1>3. job[w] = NoCall /\ Head(ch) # NoCall
  BY <1>1, CallsAssumption DEF JobsMatch
<1>4. Queued(Head(ch)) /\ pub[Head(ch)] = "accepted" /\ tries[Head(ch)] = 0 /\ outcome[Head(ch)] = "none"
  BY <1>1 DEF Untouched
<1>5. job' = [job EXCEPT ![w] = Head(ch)] /\ job'[w] = Head(ch) /\ at'[w] = "claim"
  BY DEF TypeOK
<1>6. TypeOK'
  BY <1>1, <1>2, <1>5, Sizes DEF TypeOK
<1>7. JobsMatch'
  BY <1>3, <1>5 DEF JobsMatch, TypeOK
<1>8. OneHolder'
  <2>1. \A v \in Workers : job[v] # Head(ch)
    BY <1>1, <1>2 DEF OneHolder
  <2>2. \A v \in Workers \ {w} : job'[v] = job[v]
    BY <1>5 DEF TypeOK
  <2>3. \A i \in 1..Len(ch') : i + 1 \in 1..Len(ch) /\ i + 1 # 1
    BY <1>1, <1>2
  <2>4. \A i \in 1..Len(ch') : ch'[i] # Head(ch)
    BY <1>1, <1>2, <2>3 DEF OneHolder
  <2>5. \A i, k \in 1..Len(ch') : ch'[i] = ch'[k] => i = k
    BY <1>1, <2>3 DEF OneHolder
  <2>6. \A u, v \in Workers : job'[u] = job'[v] /\ job'[u] # NoCall => u = v
    BY <1>5, <2>1, <2>2 DEF OneHolder
  <2>7. \A i \in 1..Len(ch'), v \in Workers : ch'[i] # job'[v]
    BY <1>1, <1>5, <2>2, <2>3, <2>4 DEF OneHolder
  <2> QED
    BY <2>5, <2>6, <2>7 DEF OneHolder
<1>9. \A d \in Calls : Held(d)' <=> Held(d) \/ d = Head(ch)
  BY <1>3, <1>5, CallsAssumption DEF Held, TypeOK
<1>10. Untouched' /\ AccountedFor'
  BY <1>1, <1>4, <1>9 DEF Untouched, AccountedFor
<1>11. AttemptsCounted'
  BY <1>4, <1>5 DEF AttemptsCounted, TypeOK
<1>12. SeenGuards'
  BY <1>5 DEF SeenGuards, Passed, TypeOK
<1>13. LeftDrained'
  BY <1>2 DEF LeftDrained, TypeOK
<1>14. NoSendOnClosedChannel' /\ RetryBudget'
  BY DEF NoSendOnClosedChannel, RetryBudget, Sending
<1> QED
  BY <1>6, <1>7, <1>8, <1>10, <1>11, <1>12, <1>13, <1>14

(* A worker finds the channel closed and drained. *)
LEMMA LeaveStep ==
  ASSUME IInv, NEW w \in Workers, Leave(w)
  PROVE  IInv'
<1> USE DEF IInv, Leave, busVars
<1>1. TypeOK' /\ JobsMatch' /\ AttemptsCounted'
  BY DEF TypeOK, JobsMatch, AttemptsCounted
<1>2. SeenGuards'
  BY DEF SeenGuards, Passed, TypeOK
<1>3. LeftDrained'
  BY DEF LeftDrained, TypeOK
<1>4. NoSendOnClosedChannel' /\ OneHolder' /\ Untouched' /\ RetryBudget' /\ AccountedFor'
  BY DEF NoSendOnClosedChannel, OneHolder, Untouched, RetryBudget, AccountedFor, Sending, Queued, Held
<1> QED
  BY <1>1, <1>2, <1>3, <1>4

(* A worker is done with an event: it was skipped without being tried, or  *)
(* tried once more for the last time.                                      *)
LEMMA SettleStep ==
  ASSUME IInv, NEW w \in Workers, NEW what \in {"skipped", "reconciled", "abandoned"},
         at[w] \in {"claim", "handle"}, Settle(w, what),
         UNCHANGED <<canceled, busVars, seen, stop>>,
         \/ at[w] = "claim" /\ what = "skipped" /\ tries' = tries
         \/ /\ at[w] = "handle" /\ what # "skipped"
            /\ tries' = [tries EXCEPT ![job[w]] = @ + 1]
            /\ what = "abandoned" => attempt[w] = Retries
  PROVE  IInv'
<1> USE DEF IInv, Settle, busVars
<1> DEFINE c == job[w]
<1>1. c # NoCall
  BY DEF JobsMatch
<1>2. /\ c \in Calls /\ pub[c] = "accepted" /\ outcome[c] = "none" /\ ~Queued(c)
      /\ \A v \in Workers \ {w} : job[v] # c
  BY <1>1, HeldEvent
<1>3. /\ job'[w] = NoCall /\ at'[w] = "receive" /\ attempt'[w] = 0
      /\ \A v \in Workers \ {w} : job'[v] = job[v] /\ at'[v] = at[v] /\ attempt'[v] = attempt[v]
  BY DEF TypeOK
<1>4. /\ outcome'[c] = what
      /\ \A d \in Calls \ {c} : outcome'[d] = outcome[d] /\ tries'[d] = tries[d]
  BY <1>2 DEF TypeOK
<1>5. attempt[w] \in Nat /\ attempt[w] <= Retries /\ tries[c] \in Nat
  BY <1>2, Sizes DEF TypeOK
<1>6. /\ at[w] = "claim" => tries'[c] = 0
      /\ at[w] = "handle" => tries[c] = attempt[w] /\ tries'[c] = attempt[w] + 1
  BY <1>2 DEF AttemptsCounted, TypeOK
<1>7. TypeOK'
  BY <1>2, <1>5, Sizes DEF TypeOK
<1>8. JobsMatch'
  BY <1>3 DEF JobsMatch
<1>9. OneHolder'
  <2>1. \A v \in Workers : job'[v] = NoCall \/ job'[v] = job[v]
    BY <1>3
  <2>2. \A i \in 1..Len(ch) : ch[i] \in Calls
    BY DEF TypeOK
  <2>3. \A i \in 1..Len(ch) : ch[i] # NoCall
    BY <2>2, CallsAssumption
  <2>4. \A u, v \in Workers : job'[u] = job'[v] /\ job'[u] # NoCall => u = v
    BY <2>1 DEF OneHolder
  <2>5. \A i \in 1..Len(ch), v \in Workers : ch[i] # job'[v]
    BY <2>1, <2>3 DEF OneHolder
  <2>6. ch' = ch /\ \A i, k \in 1..Len(ch) : ch[i] = ch[k] => i = k
    BY DEF OneHolder
  <2> QED
    BY <2>4, <2>5, <2>6 DEF OneHolder
<1>10. \A d \in Calls : (Queued(d)' <=> Queued(d)) /\ (Held(d)' <=> Held(d) /\ d # c)
  BY <1>1, <1>2, <1>3, CallsAssumption DEF Queued, Held
<1>11. Untouched'
  BY <1>2, <1>4, <1>10 DEF Untouched
<1>12. AccountedFor'
  BY <1>4, <1>10 DEF AccountedFor
<1>13. AttemptsCounted'
  <2>1. \A v \in Workers \ {w} : job[v] # NoCall => job[v] \in Calls \ {c}
    BY <1>2 DEF TypeOK
  <2>2. \A v \in Workers : at[v] \in {"claim", "handle", "backoff"} => job[v] # NoCall
    BY DEF JobsMatch
  <2> QED
    BY <1>3, <1>4, <2>1, <2>2 DEF AttemptsCounted
<1>14. RetryBudget'
  <2>1. \A d \in Calls \ {c} :
          /\ tries'[d] <= Retries + 1
          /\ outcome'[d] = "abandoned" => tries'[d] = Retries + 1
          /\ outcome'[d] = "skipped" => tries'[d] = 0
    BY <1>4 DEF RetryBudget
  <2>2. /\ tries'[c] <= Retries + 1
        /\ outcome'[c] = "abandoned" => tries'[c] = Retries + 1
        /\ outcome'[c] = "skipped" => tries'[c] = 0
    BY <1>4, <1>5, <1>6, Sizes
  <2> QED
    BY <2>1, <2>2 DEF RetryBudget
<1>15. SeenGuards'
  <2>1. \A d \in Calls : Passed(d)' => Passed(d)
    BY <1>3, <1>4, <1>5, <1>6 DEF Passed
  <2> QED
    BY <2>1 DEF SeenGuards
<1>16. LeftDrained' /\ NoSendOnClosedChannel'
  BY <1>3 DEF LeftDrained, NoSendOnClosedChannel, Sending
<1> QED
  BY <1>7, <1>8, <1>9, <1>11, <1>12, <1>13, <1>14, <1>15, <1>16

(* LoadOrStore lets an event pass: no event of its ID has passed before. *)
LEMMA ClaimStep ==
  ASSUME IInv, NEW w \in Workers, Claim(w)
  PROVE  IInv'
<1> USE DEF IInv, Claim, busVars
<1> DEFINE c == job[w]
<1>1. c # NoCall
  BY DEF JobsMatch
<1>2. c \in Calls /\ \A v \in Workers \ {w} : job[v] # c
  BY <1>1, HeldEvent
<1>3. /\ at'[w] = "handle"
      /\ \A v \in Workers \ {w} : at'[v] = at[v]
  BY DEF TypeOK
<1>4. TypeOK'
  <2>1. seen' \subseteq {EventID[d] : d \in Calls} \ {NoID}
    BY <1>2 DEF TypeOK
  <2>2. at' \in [Workers -> {"receive", "claim", "handle", "backoff", "exited"}]
    BY DEF TypeOK
  <2> QED
    BY <2>1, <2>2 DEF TypeOK
<1>5. JobsMatch' /\ AttemptsCounted'
  BY <1>3 DEF JobsMatch, AttemptsCounted, TypeOK
<1>6. SeenGuards'
  <2>1. \A d \in Calls : Passed(d)' <=> Passed(d) \/ d = c
    BY <1>2, <1>3 DEF Passed
  <2>2. \A d \in Calls : Passed(d) /\ EventID[d] # NoID => EventID[d] # EventID[c]
    BY DEF SeenGuards
  <2>3. seen' = seen \cup ({EventID[c]} \ {NoID})
    OBVIOUS
  <2> QED
    BY <1>2, <2>1, <2>2, <2>3 DEF SeenGuards
<1>7. LeftDrained'
  BY <1>3 DEF LeftDrained
<1>8. NoSendOnClosedChannel' /\ OneHolder' /\ Untouched' /\ RetryBudget' /\ AccountedFor'
  BY DEF NoSendOnClosedChannel, OneHolder, Untouched, RetryBudget, AccountedFor, Sending, Queued, Held
<1> QED
  BY <1>4, <1>5, <1>6, <1>7, <1>8

(* An attempt fails, or the next one begins. *)
LEMMA RetryStep ==
  ASSUME IInv, NEW w \in Workers, Fail(w) \/ Retry(w)
  PROVE  IInv'
<1> USE DEF IInv, busVars
<1> DEFINE c == job[w]
<1>1. c # NoCall /\ at[w] \in {"handle", "backoff"}
  BY DEF JobsMatch, Fail, Retry
<1>2. /\ c \in Calls /\ pub[c] = "accepted" /\ outcome[c] = "none" /\ ~Queued(c)
      /\ \A v \in Workers \ {w} : job[v] # c
  BY <1>1, HeldEvent
<1>3. attempt[w] \in Nat /\ attempt[w] <= Retries /\ tries[c] \in Nat
  BY <1>2, Sizes DEF TypeOK
<1>4. /\ at'[w] \in {"handle", "backoff"}
      /\ tries'[c] \in Nat /\ tries'[c] <= Retries + 1
      /\ attempt'[w] \in 0..Retries
      /\ at'[w] = "handle" => tries'[c] = attempt'[w]
      /\ at'[w] = "backoff" => tries'[c] = attempt'[w] + 1 /\ attempt'[w] < Retries
  BY <1>1, <1>2, <1>3, Sizes DEF Fail, Retry, AttemptsCounted, TypeOK
<1>5. /\ \A v \in Workers \ {w} : at'[v] = at[v] /\ attempt'[v] = attempt[v]
      /\ \A d \in Calls \ {c} : tries'[d] = tries[d]
      /\ UNCHANGED <<canceled, pub, closed, ch, job, seen, outcome, stop>>
  BY <1>2 DEF Fail, Retry, TypeOK
<1>6. TypeOK'
  <2>1. /\ tries' \in [Calls -> Nat]
        /\ at' \in [Workers -> {"receive", "claim", "handle", "backoff", "exited"}]
        /\ attempt' \in [Workers -> 0..Retries]
    <3>1. CASE Fail(w)
      BY <1>2, <1>3, <3>1 DEF Fail, TypeOK
    <3>2. CASE Retry(w)
      BY <1>2, <1>3, <1>4, <3>2 DEF Retry, TypeOK
    <3> QED
      BY <3>1, <3>2
  <2> QED
    BY <1>5, <2>1 DEF TypeOK
<1>7. JobsMatch'
  BY <1>1, <1>4, <1>5 DEF JobsMatch
<1>8. Untouched'
  BY <1>2, <1>5 DEF Untouched, Queued, Held
<1>9. AttemptsCounted'
  <2>1. \A v \in Workers \ {w} : job[v] # NoCall => job[v] \in Calls \ {c}
    BY <1>2 DEF TypeOK
  <2>2. \A v \in Workers : at[v] \in {"claim", "handle", "backoff"} => job[v] # NoCall
    BY DEF JobsMatch
  <2> QED
    BY <1>2, <1>4, <1>5, <2>1, <2>2 DEF AttemptsCounted
<1>10. RetryBudget'
  BY <1>2, <1>4, <1>5 DEF RetryBudget
<1>11. SeenGuards'
  <2>1. \A d \in Calls : Passed(d)' => Passed(d)
    BY <1>1, <1>5 DEF Passed
  <2> QED
    BY <1>5, <2>1 DEF SeenGuards
<1>12. LeftDrained'
  BY <1>1, <1>4, <1>5 DEF LeftDrained
<1>13. NoSendOnClosedChannel' /\ OneHolder' /\ AccountedFor'
  BY <1>5 DEF NoSendOnClosedChannel, OneHolder, AccountedFor, Sending, Queued, Held
<1> QED
  BY <1>6, <1>7, <1>8, <1>9, <1>10, <1>11, <1>12, <1>13

-----------------------------------------------------------------------------
(* Every step of the event layer keeps the invariant. *)
LEMMA NextIInv == IInv /\ [Next]_vars => IInv'
<1> SUFFICES ASSUME IInv, [Next]_vars PROVE IInv'
  OBVIOUS
<1>1. ASSUME NEW c \in Calls, Publisher(c) PROVE IInv'
  BY <1>1, PublisherStep
<1>2. ASSUME NEW w \in Workers, Worker(w) PROVE IInv'
  <2>1. CASE Receive(w)
    BY <2>1, ReceiveStep
  <2>2. CASE Leave(w)
    BY <2>2, LeaveStep
  <2>3. CASE SkipDuplicate(w)
    BY <2>3, SettleStep DEF SkipDuplicate
  <2>4. CASE Claim(w)
    BY <2>4, ClaimStep
  <2>5. CASE Reconcile(w)
    BY <2>5, SettleStep DEF Reconcile
  <2>6. CASE Abandon(w)
    BY <2>6, SettleStep DEF Abandon
  <2>7. CASE Fail(w) \/ Retry(w)
    BY <2>7, RetryStep
  <2> QED
    BY <1>2, <2>1, <2>2, <2>3, <2>4, <2>5, <2>6, <2>7 DEF Worker
<1>3. CASE Cancel \/ StopCall \/ Close \/ StopReturns \/ StopTimesOut \/ Finished \/ UNCHANGED vars
  BY <1>3, StopStep DEF Finished
<1> QED
  BY <1>1, <1>2, <1>3 DEF Next

LEMMA Invariance == Spec => []IInv
<1>1. Init => IInv
  BY InitIInv
<1>2. IInv /\ [Next]_vars => IInv'
  BY NextIInv
<1> QED
  BY <1>1, <1>2, PTL DEF Spec

-----------------------------------------------------------------------------
(* The types of bus, channel, pool and Stop, with the channel within its   *)
(* capacity and no attempt beyond the retries.                             *)
THEOREM TypeCorrect == Spec => []TypeOK
<1>1. IInv => TypeOK
  BY DEF IInv
<1> QED
  BY <1>1, Invariance, PTL

(* The lock of the bus: no publisher that saw the bus open sends on a      *)
(* closed channel.                                                         *)
THEOREM ChannelSafe == Spec => []NoSendOnClosedChannel
<1>1. IInv => NoSendOnClosedChannel
  BY DEF IInv
<1> QED
  BY <1>1, Invariance, PTL

(* Idempotency of the consumer: of the events that share an ID at most one *)
(* reaches the handler, for any number of workers and copies.              *)
THEOREM OneHandlingPerID == Spec => []HandledOncePerID
<1>1. ASSUME IInv PROVE HandledOncePerID
  <2> SUFFICES ASSUME NEW c \in Calls, NEW d \in Calls,
                      EventID[c] = EventID[d], EventID[c] # NoID,
                      tries[c] > 0, tries[d] > 0
               PROVE  c = d
    BY DEF HandledOncePerID
  <2>1. Passed(c) /\ Passed(d)
    BY DEF Passed
  <2> QED
    BY <1>1, <2>1 DEF IInv, SeenGuards
<1> QED
  BY <1>1, Invariance, PTL

(* The loop of processEvent: an event is given up after MaxRetries further *)
(* attempts, not before and not later.                                     *)
THEOREM AttemptsBounded == Spec => []RetryBudget
<1>1. IInv => RetryBudget
  BY DEF IInv
<1> QED
  BY <1>1, Invariance, PTL

(* Nothing is lost or doubled between Publish and the handler: at any time *)
(* an accepted event is in exactly one place, one that was not accepted is *)
(* in none, and a Stop of the consumer that returns nil has left no        *)
(* accepted event behind.                                                  *)
THEOREM NothingLost == Spec => []AcceptedIsAccountedFor
<1>1. ASSUME IInv, NEW c \in Calls
      PROVE  /\ Queued(c) => ~Held(c) /\ outcome[c] = "none"
             /\ Held(c) => outcome[c] = "none"
             /\ pub[c] # "accepted" => ~Queued(c) /\ ~Held(c) /\ outcome[c] = "none"
             /\ pub[c] = "accepted" => Queued(c) \/ Held(c) \/ outcome[c] # "none"
  <2>1. Queued(c) => ~Held(c)
    BY <1>1 DEF IInv, OneHolder, Queued, Held
  <2>2. Queued(c) \/ pub[c] # "accepted" => outcome[c] = "none"
    BY <1>1 DEF IInv, Untouched
  <2>3. Held(c) => outcome[c] = "none"
    BY <1>1, CallsAssumption DEF IInv, AttemptsCounted, Held
  <2>4. pub[c] # "accepted" => ~Queued(c) /\ ~Held(c)
    BY <1>1 DEF IInv, Untouched
  <2>5. pub[c] = "accepted" => Queued(c) \/ Held(c) \/ outcome[c] # "none"
    BY <1>1 DEF IInv, AccountedFor
  <2> QED
    BY <2>1, <2>2, <2>3, <2>4, <2>5
<1>2. ASSUME IInv, NEW c \in Calls, pub[c] = "accepted"
      PROVE  \E p \in Places(c) : Places(c) = {p}
  <2>1. CASE Queued(c)
    <3>1. PICK i \in 1..Len(ch) : ch[i] = c
      BY <2>1 DEF Queued
    <3>2. {k \in 1..Len(ch) : ch[k] = c} = {i}
      BY <1>2, <3>1 DEF IInv, OneHolder
    <3>3. {v \in Workers : job[v] = c} = {} /\ {outcome[c]} \ {"none"} = {}
      BY <1>1, <1>2, <2>1 DEF Held
    <3>4. Places(c) = {<<"channel", i>>}
      BY <3>2, <3>3 DEF Places
    <3> QED
      BY <3>4
  <2>2. CASE Held(c)
    <3>1. PICK w \in Workers : job[w] = c
      BY <2>2 DEF Held
    <3>2. {v \in Workers : job[v] = c} = {w}
      BY <1>2, <3>1, CallsAssumption DEF IInv, OneHolder
    <3>3. {k \in 1..Len(ch) : ch[k] = c} = {} /\ {outcome[c]} \ {"none"} = {}
      BY <1>1, <1>2, <2>2 DEF Queued
    <3>4. Places(c) = {<<"worker", w>>}
      BY <3>2, <3>3 DEF Places
    <3> QED
      BY <3>4
  <2>3. CASE outcome[c] # "none"
    <3>1. {k \in 1..Len(ch) : ch[k] = c} = {} /\ {v \in Workers : job[v] = c} = {}
      BY <1>1, <1>2, <2>3 DEF Queued, Held
    <3>2. Places(c) = {<<"outcome", outcome[c]>>}
      BY <2>3, <3>1 DEF Places
    <3> QED
      BY <3>2
  <2> QED
    BY <1>1, <1>2, <2>1, <2>2, <2>3
<1>3. ASSUME IInv, NEW c \in Calls, pub[c] # "accepted"
      PROVE  Places(c) = {}
  BY <1>1, <1>3 DEF Places, Queued, Held
<1>4. ASSUME IInv, NEW c \in Calls, pub[c] = "accepted", stop = "stopped"
      PROVE  outcome[c] # "none"
  <2>1. \A w \in Workers : at[w] = "exited" /\ ch = <<>> /\ job[w] = NoCall
    BY <1>4 DEF IInv, LeftDrained, JobsMatch
  <2>2. ch = <<>>
    BY <2>1, WorkersAssumption
  <2>3. ~Queued(c) /\ ~Held(c)
    BY <2>1, <2>2, CallsAssumption DEF Queued, Held
  <2> QED
    BY <1>1, <1>4, <2>3
<1>5. IInv => AcceptedIsAccountedFor
  BY <1>2, <1>3, <1>4 DEF AcceptedIsAccountedFor
<1> QED
  BY <1>5, Invariance, PTL

-----------------------------------------------------------------------------
(* Every step of EventBus is a step of EventDelivery under the mapping of  *)
(* EventBus, or changes nothing there.                                     *)

(* A worker is past the look-up with the event of c. *)
Given(c) == \E w \in Workers : job[w] = c /\ at[w] # "claim"

(* An ID is in seen because an event with it was handled, and an event is  *)
(* reconciled by an attempt.                                               *)
SeenIsHandled == \A e \in seen : \E d \in Handled : EventID[d] = e
ReconciledIsTried == \A c \in Calls : outcome[c] = "reconciled" => tries[c] > 0

RInv == IInv /\ SeenIsHandled /\ ReconciledIsTried

mapped == <<[c \in Calls |-> Phase(c)], Handled, ~closed>>

-----------------------------------------------------------------------------
(* Phase and Handled only look at pub, outcome and Given. *)
LEMMA SamePhase ==
  ASSUME NEW c \in Calls, pub'[c] = pub[c], outcome'[c] = outcome[c], Given(c)' <=> Given(c)
  PROVE  Phase(c)' = Phase(c) /\ (c \in Handled' <=> c \in Handled)
  BY DEF Phase, Stage, Handled, Given

(* A step after which these are what they were is a stutter. *)
LEMMA Stutter ==
  ASSUME \A c \in Calls : /\ pub'[c] = pub[c] /\ outcome'[c] = outcome[c]
                          /\ Given(c)' <=> Given(c),
         closed' = closed
  PROVE  mapped' = mapped /\ Handled' = Handled
<1>1. \A c \in Calls : Phase(c)' = Phase(c) /\ (c \in Handled' <=> c \in Handled)
  BY SamePhase
<1>2. Handled' = Handled
  BY <1>1 DEF Handled
<1>3. [c \in Calls |-> Phase(c)]' = [c \in Calls |-> Phase(c)]
  BY <1>1
<1> QED
  BY <1>2, <1>3 DEF mapped

(* A step that moves the event of one call only. *)
LEMMA OneMoves ==
  ASSUME NEW c \in Calls, closed' = closed,
         \A d \in Calls \ {c} : /\ pub'[d] = pub[d] /\ outcome'[d] = outcome[d]
                                /\ Given(d)' <=> Given(d)
  PROVE  /\ [d \in Calls |-> Phase(d)]' = [[d \in Calls |-> Phase(d)] EXCEPT ![c] = Phase(c)']
         /\ \A d \in Calls \ {c} : d \in Handled' <=> d \in Handled
<1>1. \A d \in Calls \ {c} : Phase(d)' = Phase(d) /\ (d \in Handled' <=> d \in Handled)
  BY SamePhase
<1> QED
  BY <1>1

(* Where the event of c is, read off the mapping. *)
LEMMA PhaseOf ==
  ASSUME IInv, NEW c \in Calls
  PROVE  /\ pub[c] \in {"idle", "sending"} => Phase(c) = "new" /\ c \notin Handled
         /\ pub[c] = "accepted" /\ outcome[c] = "none" /\ ~Given(c) =>
              Phase(c) = "queued" /\ c \notin Handled
         /\ pub[c] = "accepted" /\ outcome[c] = "none" /\ Given(c) =>
              Phase(c) = "taken" /\ c \in Handled
         /\ pub[c] = "accepted" /\ outcome[c] # "none" => Phase(c) = "settled"
         /\ pub[c] = "accepted" /\ outcome[c] \in {"reconciled", "abandoned"} => c \in Handled
<1>1. pub[c] # "accepted" => outcome[c] = "none" /\ ~Given(c)
  BY DEF IInv, Untouched, Held, Given
<1>2. c \in Handled <=> outcome[c] \in {"reconciled", "abandoned"} \/ Given(c)
  BY DEF Handled, Given
<1>3. pub[c] \in {"idle", "sending"} => Phase(c) = "new"
  BY DEF Phase, Stage
<1>4. pub[c] = "accepted" /\ outcome[c] # "none" => Phase(c) = "settled"
  BY DEF Phase, Stage
<1>5. pub[c] = "accepted" /\ outcome[c] = "none" =>
        Phase(c) = IF Given(c) THEN "taken" ELSE "queued"
  BY DEF Phase, Stage, Given
<1> QED
  BY <1>1, <1>2, <1>3, <1>4, <1>5

(* What has been handled has passed the look-up. *)
LEMMA HandledPassed ==
  ASSUME RInv, NEW d \in Handled
  PROVE  d \in Calls /\ Passed(d)
<1>1. d \in Calls
  BY DEF Handled
<1>2. CASE outcome[d] \in {"reconciled", "abandoned"}
  <2>1. tries[d] > 0
    BY <1>1, <1>2, Sizes DEF RInv, IInv, RetryBudget, ReconciledIsTried
  <2> QED
    BY <1>1, <2>1 DEF Passed
<1>3. CASE \E w \in Workers : job[w] = d /\ at[w] # "claim"
  <2>1. PICK w \in Workers : job[w] = d /\ at[w] # "claim"
    BY <1>3
  <2>2. at[w] \in {"handle", "backoff"}
    BY <1>1, <2>1, CallsAssumption DEF RInv, IInv, TypeOK, JobsMatch
  <2> QED
    BY <1>1, <2>1, <2>2 DEF Passed
<1> QED
  BY <1>2, <1>3 DEF Handled

-----------------------------------------------------------------------------
LEMMA InitMaps == Init => RInv /\ Delivery!Init
<1> SUFFICES ASSUME Init PROVE RInv /\ Delivery!Init
  OBVIOUS
<1>1. RInv
  BY InitIInv DEF RInv, SeenIsHandled, ReconciledIsTried, Init
<1>2. \A c \in Calls : Phase(c) = "new" /\ c \notin Handled
  BY <1>1, PhaseOf DEF RInv, Init
<1>3. Handled = {} /\ closed = FALSE
  BY <1>2 DEF Handled, Init
<1> QED
  BY <1>1, <1>2, <1>3 DEF Delivery!Init

(* Cancel and the steps of Stop: only the first Close shows. *)
LEMMA StopMaps ==
  ASSUME RInv, Cancel \/ StopCall \/ Close \/ StopReturns \/ StopTimesOut \/ UNCHANGED vars
  PROVE  (Delivery!Shut \/ mapped' = mapped) /\ Handled' = Handled
<1>1. \A c \in Calls : /\ pub'[c] = pub[c] /\ outcome'[c] = outcome[c]
                       /\ Given(c)' <=> Given(c)
  BY DEF Cancel, StopCall, Close, StopReturns, StopTimesOut, vars, busVars, poolVars, Given
<1>2. \A c \in Calls : Phase(c)' = Phase(c) /\ (c \in Handled' <=> c \in Handled)
  BY <1>1, SamePhase
<1>3. Handled' = Handled /\ [c \in Calls |-> Phase(c)]' = [c \in Calls |-> Phase(c)]
  BY <1>2 DEF Handled
<1>4. CASE closed' = closed
  BY <1>3, <1>4 DEF mapped
<1>5. CASE closed' # closed
  <2>1. ~closed /\ closed'
    BY <1>5 DEF Cancel, StopCall, Close, StopReturns, StopTimesOut, vars, busVars, RInv, IInv, TypeOK
  <2> QED
    BY <1>3, <2>1 DEF Delivery!Shut
<1> QED
  BY <1>3, <1>4, <1>5

(* Publish: the event is accepted or rejected when it leaves the select. *)
LEMMA PublisherMaps ==
  ASSUME RInv, NEW c \in Calls, Publisher(c)
  PROVE  /\ Delivery!Accept(c) \/ Delivery!Reject(c) \/ mapped' = mapped
         /\ Handled' = Handled
<1> USE DEF RInv
<1>1. /\ pub[c] \in {"idle", "sending"} /\ closed' = closed
      /\ outcome[c] = "none" /\ ~Given(c)
      /\ \A d \in Calls : outcome'[d] = outcome[d] /\ (Given(d)' <=> Given(d))
      /\ \A d \in Calls \ {c} : pub'[d] = pub[d]
  BY DEF Publisher, Enter, Send, GiveUp, poolVars, Given, IInv, TypeOK, Untouched, Held
<1>2. pub'[c] \in {"sending", "accepted", "refused", "canceled"}
  BY DEF Publisher, Enter, Send, GiveUp, IInv, TypeOK, NoSendOnClosedChannel, Sending
<1>3. Phase(c) = "new" /\ c \notin Handled
  BY <1>1, PhaseOf
<1>4. Phase(c)' = CASE pub'[c] = "sending" -> "new"
                    [] pub'[c] = "accepted" -> "queued"
                    [] OTHER -> "rejected"
  <2>1. outcome'[c] = "none" /\ ~Given(c)'
    BY <1>1
  <2> QED
    BY <1>2, <2>1 DEF Phase, Stage, Given
<1>5. /\ [d \in Calls |-> Phase(d)]' = [[d \in Calls |-> Phase(d)] EXCEPT ![c] = Phase(c)']
      /\ \A d \in Calls \ {c} : d \in Handled' <=> d \in Handled
  BY <1>1, OneMoves
<1>6. c \notin Handled'
  BY <1>1 DEF Handled, Given
<1>7. Handled' = Handled
  BY <1>3, <1>5, <1>6 DEF Handled
<1>8. CASE pub'[c] = "sending"
  BY <1>1, <1>3, <1>4, <1>5, <1>7, <1>8 DEF mapped
<1>9. CASE pub'[c] = "accepted"
  <2>1. ~closed
    BY <1>9 DEF Publisher, Enter, Send, GiveUp, IInv, TypeOK
  <2> QED
    BY <1>1, <1>3, <1>4, <1>5, <1>7, <1>9, <2>1 DEF Delivery!Accept
<1>10. CASE pub'[c] \in {"refused", "canceled"}
  BY <1>1, <1>3, <1>4, <1>5, <1>7, <1>10 DEF Delivery!Reject
<1> QED
  BY <1>2, <1>7, <1>8, <1>9, <1>10

(* The steps of a worker that do not show: taking an event out, leaving,   *)
(* failing and trying again.                                               *)
LEMMA HiddenWorkerMaps ==
  ASSUME RInv, NEW w \in Workers, Receive(w) \/ Leave(w) \/ Fail(w) \/ Retry(w)
  PROVE  mapped' = mapped /\ Handled' = Handled
<1> USE DEF RInv, IInv
<1>1. \A v \in Workers \ {w} : job'[v] = job[v] /\ at'[v] = at[v]
  BY DEF Receive, Leave, Fail, Retry, TypeOK
<1>2. \A c \in Calls : job'[w] = c /\ at'[w] # "claim" <=> job[w] = c /\ at[w] # "claim"
  BY CallsAssumption DEF Receive, Leave, Fail, Retry, TypeOK, JobsMatch
<1>3. \A c \in Calls : Given(c)' <=> Given(c)
  BY <1>1, <1>2 DEF Given
<1>4. \A c \in Calls : pub'[c] = pub[c] /\ outcome'[c] = outcome[c]
  BY DEF Receive, Leave, Fail, Retry, busVars
<1>5. closed' = closed
  BY DEF Receive, Leave, Fail, Retry, busVars
<1> QED
  BY <1>3, <1>4, <1>5, Stutter

(* LoadOrStore lets an event pass: no event of its ID was handled before. *)
LEMMA ClaimMaps ==
  ASSUME RInv, NEW w \in Workers, NEW c \in Calls, job[w] = c, Claim(w)
  PROVE  Delivery!Handle(c) /\ Handled' = Handled \cup {c}
<1> USE DEF Claim, busVars
<1>1. c # NoCall
  BY CallsAssumption
<1>2. /\ pub[c] = "accepted" /\ outcome[c] = "none"
      /\ \A v \in Workers \ {w} : job[v] # c
  BY <1>1, HeldEvent DEF RInv
<1>3. /\ at'[w] = "handle" /\ job' = job
      /\ \A v \in Workers \ {w} : at'[v] = at[v]
  BY DEF RInv, IInv, TypeOK
<1>4. ~Given(c) /\ Given(c)'
  BY <1>2, <1>3 DEF Given
<1>5. \A d \in Calls \ {c} : Given(d)' <=> Given(d)
  BY <1>3 DEF Given
<1>6. Phase(c) = "queued" /\ c \notin Handled
  BY <1>2, <1>4, PhaseOf DEF RInv
<1>7. Phase(c)' = "taken" /\ c \in Handled'
  BY <1>2, <1>4 DEF Phase, Stage, Handled, Given
<1>8. /\ [d \in Calls |-> Phase(d)]' = [[d \in Calls |-> Phase(d)] EXCEPT ![c] = "taken"]
      /\ \A d \in Calls \ {c} : d \in Handled' <=> d \in Handled
  BY <1>2, <1>5, <1>7, OneMoves
<1>9. Handled' = Handled \cup {c}
  BY <1>2, <1>7, <1>8 DEF Handled
<1>10. \A d \in Handled : ~Delivery!Duplicates(c, d)
  <2> SUFFICES ASSUME NEW d \in Handled, EventID[c] # NoID, EventID[d] = EventID[c]
               PROVE  FALSE
    BY DEF Delivery!Duplicates
  <2>1. d \in Calls /\ Passed(d)
    BY HandledPassed
  <2>2. EventID[d] \in seen
    BY <2>1 DEF RInv, IInv, SeenGuards
  <2> QED
    BY <2>2
<1> QED
  BY <1>2, <1>6, <1>8, <1>9, <1>10 DEF Delivery!Handle

(* LoadOrStore finds the ID of an event that was handled. *)
LEMMA SkipMaps ==
  ASSUME RInv, NEW w \in Workers, NEW c \in Calls, job[w] = c, SkipDuplicate(w)
  PROVE  Delivery!Drop(c) /\ Handled' = Handled
<1> USE DEF SkipDuplicate, Settle, busVars
<1>1. c # NoCall
  BY CallsAssumption
<1>2. /\ pub[c] = "accepted" /\ outcome[c] = "none"
      /\ \A v \in Workers \ {w} : job[v] # c
  BY <1>1, HeldEvent DEF RInv
<1>3. /\ job'[w] = NoCall
      /\ \A v \in Workers \ {w} : at'[v] = at[v] /\ job'[v] = job[v]
      /\ outcome'[c] = "skipped"
      /\ \A d \in Calls \ {c} : outcome'[d] = outcome[d]
      /\ pub' = pub /\ closed' = closed
  BY <1>2 DEF RInv, IInv, TypeOK
<1>4. \A d \in Calls : Given(d)' <=> Given(d)
  BY <1>2, <1>3, CallsAssumption DEF Given
<1>5. ~Given(c)
  BY <1>2 DEF Given
<1>6. Phase(c) = "queued" /\ c \notin Handled
  BY <1>2, <1>5, PhaseOf DEF RInv
<1>7. Phase(c)' = "settled" /\ c \notin Handled'
  <2>1. pub'[c] = "accepted" /\ outcome'[c] = "skipped" /\ ~Given(c)'
    BY <1>2, <1>3, <1>4, <1>5
  <2>2. Phase(c)' = "settled"
    BY <2>1 DEF Phase, Stage
  <2> QED
    BY <2>1, <2>2 DEF Handled, Given
<1>8. /\ [d \in Calls |-> Phase(d)]' = [[d \in Calls |-> Phase(d)] EXCEPT ![c] = "settled"]
      /\ \A d \in Calls \ {c} : d \in Handled' <=> d \in Handled
  <2>1. \A d \in Calls \ {c} : /\ pub'[d] = pub[d] /\ outcome'[d] = outcome[d]
                                /\ Given(d)' <=> Given(d)
    BY <1>3, <1>4
  <2> QED
    BY <1>2, <1>3, <1>7, <2>1, OneMoves
<1>9. Handled' = Handled
  BY <1>6, <1>7, <1>8 DEF Handled
<1>10. \E d \in Handled : Delivery!Duplicates(c, d)
  <2>1. EventID[c] \in seen /\ EventID[c] # NoID
    BY DEF RInv, IInv, TypeOK
  <2> QED
    BY <2>1 DEF RInv, SeenIsHandled, Delivery!Duplicates
<1> QED
  BY <1>2, <1>6, <1>8, <1>9, <1>10 DEF Delivery!Drop

(* The last attempt, successful or not. *)
LEMMA EndMaps ==
  ASSUME RInv, NEW w \in Workers, NEW c \in Calls, job[w] = c,
         Reconcile(w) \/ Abandon(w)
  PROVE  Delivery!Settle(c) /\ Handled' = Handled
<1> USE DEF Settle, busVars
<1>1. c # NoCall
  BY CallsAssumption
<1>2. /\ pub[c] = "accepted" /\ outcome[c] = "none"
      /\ \A v \in Workers \ {w} : job[v] # c
  BY <1>1, HeldEvent DEF RInv
<1>3. /\ job'[w] = NoCall
      /\ \A v \in Workers \ {w} : at'[v] = at[v] /\ job'[v] = job[v]
      /\ outcome'[c] \in {"reconciled", "abandoned"}
      /\ \A d \in Calls \ {c} : outcome'[d] = outcome[d]
      /\ pub' = pub /\ closed' = closed
  BY <1>2 DEF RInv, IInv, TypeOK, Reconcile, Abandon
<1>4. \A d \in Calls \ {c} : Given(d)' <=> Given(d)
  BY <1>2, <1>3, CallsAssumption DEF Given
<1>5. Given(c)
  BY DEF Given, Reconcile, Abandon
<1>6. Phase(c) = "taken" /\ c \in Handled
  BY <1>2, <1>5, PhaseOf DEF RInv
<1>7. Phase(c)' = "settled" /\ c \in Handled'
  <2>1. pub'[c] = "accepted" /\ outcome'[c] \in {"reconciled", "abandoned"}
    BY <1>2, <1>3
  <2>2. Phase(c)' = "settled"
    BY <2>1 DEF Phase, Stage
  <2> QED
    BY <1>2, <2>1, <2>2 DEF Handled
<1>8. /\ [d \in Calls |-> Phase(d)]' = [[d \in Calls |-> Phase(d)] EXCEPT ![c] = "settled"]
      /\ \A d \in Calls \ {c} : d \in Handled' <=> d \in Handled
  <2>1. \A d \in Calls \ {c} : /\ pub'[d] = pub[d] /\ outcome'[d] = outcome[d]
                                /\ Given(d)' <=> Given(d)
    BY <1>3, <1>4
  <2> QED
    BY <1>2, <1>3, <1>7, <2>1, OneMoves
<1>9. Handled' = Handled
  BY <1>6, <1>7, <1>8 DEF Handled
<1> QED
  BY <1>2, <1>3, <1>6, <1>8, <1>9 DEF Delivery!Settle

-----------------------------------------------------------------------------
(* A handled event stays handled, and seen grows only with one. *)
LEMMA NextRInv ==
  ASSUME RInv, [Next]_vars
  PROVE  RInv' /\ [Delivery!Next]_mapped
<1>1. IInv'
  BY NextIInv DEF RInv
<1>2. SUFFICES SeenIsHandled' /\ ReconciledIsTried' /\ [Delivery!Next]_mapped
  BY <1>1 DEF RInv
<1>3. ASSUME NEW c \in Calls, Publisher(c)
      PROVE  SeenIsHandled' /\ ReconciledIsTried' /\ [Delivery!Next]_mapped
  <2>1. seen' = seen /\ outcome' = outcome /\ tries' = tries
    BY <1>3 DEF Publisher, Enter, Send, GiveUp, poolVars
  <2> QED
    BY <1>3, <2>1, PublisherMaps DEF RInv, SeenIsHandled, ReconciledIsTried, Delivery!Next
<1>4. CASE Cancel \/ StopCall \/ Close \/ StopReturns \/ StopTimesOut \/ Finished \/ UNCHANGED vars
  <2>1. seen' = seen /\ outcome' = outcome /\ tries' = tries
    BY <1>4 DEF Cancel, StopCall, Close, StopReturns, StopTimesOut, Finished, vars, poolVars
  <2>2. (Delivery!Shut \/ mapped' = mapped) /\ Handled' = Handled
    BY <1>4, StopMaps DEF Finished
  <2> QED
    BY <2>1, <2>2 DEF RInv, SeenIsHandled, ReconciledIsTried, Delivery!Next
<1>5. ASSUME NEW w \in Workers, Worker(w)
      PROVE  SeenIsHandled' /\ ReconciledIsTried' /\ [Delivery!Next]_mapped
  <2>1. CASE Receive(w) \/ Leave(w)
    <3>1. seen' = seen /\ outcome' = outcome /\ tries' = tries
      BY <2>1 DEF Receive, Leave
    <3> QED
      BY <2>1, <3>1, HiddenWorkerMaps DEF RInv, SeenIsHandled, ReconciledIsTried
  <2>2. CASE Fail(w) \/ Retry(w)
    <3>1. seen' = seen /\ outcome' = outcome
      BY <2>2 DEF Fail, Retry
    <3>2. tries' = tries \/ tries' = [tries EXCEPT ![job[w]] = @ + 1]
      BY <2>2 DEF Fail, Retry
    <3>3. ReconciledIsTried'
      <4>1. tries \in [Calls -> Nat]
        BY DEF RInv, IInv, TypeOK
      <4>2. ASSUME NEW d \in Calls PROVE tries'[d] = tries[d] \/ tries'[d] = tries[d] + 1
        BY <3>2, <4>1
      <4>3. ASSUME NEW d \in Calls, tries[d] > 0 PROVE tries'[d] > 0
        <5>1. tries[d] \in Nat
          BY <4>1
        <5> QED
          BY <4>2, <4>3, <5>1
      <4> QED
        BY <3>1, <4>3 DEF RInv, ReconciledIsTried
    <3> QED
      BY <2>2, <3>1, <3>3, HiddenWorkerMaps DEF RInv, SeenIsHandled
  <2>3. ASSUME at[w] \in {"claim", "handle"} PROVE job[w] \in Calls
    BY <2>3 DEF RInv, IInv, TypeOK, JobsMatch
  <2>4. CASE Claim(w)
    <3>1. PICK c \in Calls : job[w] = c
      BY <2>3, <2>4 DEF Claim
    <3>2. Delivery!Handle(c) /\ Handled' = Handled \cup {c}
      BY <2>4, <3>1, ClaimMaps
    <3>3. seen' = seen \cup ({EventID[c]} \ {NoID}) /\ outcome' = outcome /\ tries' = tries
      BY <2>4, <3>1 DEF Claim
    <3> QED
      BY <3>2, <3>3 DEF RInv, SeenIsHandled, ReconciledIsTried, Delivery!Next
  <2>5. CASE SkipDuplicate(w)
    <3>1. PICK c \in Calls : job[w] = c
      BY <2>3, <2>5 DEF SkipDuplicate
    <3>2. Delivery!Drop(c) /\ Handled' = Handled
      BY <2>5, <3>1, SkipMaps
    <3>3. seen' = seen /\ tries' = tries /\ outcome' = [outcome EXCEPT ![c] = "skipped"]
      BY <2>5, <3>1 DEF SkipDuplicate, Settle
    <3>4. ReconciledIsTried'
      BY <3>3 DEF RInv, IInv, TypeOK, ReconciledIsTried
    <3> QED
      BY <3>2, <3>3, <3>4 DEF RInv, SeenIsHandled, Delivery!Next
  <2>6. CASE Reconcile(w) \/ Abandon(w)
    <3>1. PICK c \in Calls : job[w] = c
      BY <2>3, <2>6 DEF Reconcile, Abandon
    <3>2. Delivery!Settle(c) /\ Handled' = Handled
      BY <2>6, <3>1, EndMaps
    <3>3. /\ seen' = seen /\ tries' = [tries EXCEPT ![c] = @ + 1]
          /\ \E what : outcome' = [outcome EXCEPT ![c] = what]
      BY <2>6, <3>1 DEF Reconcile, Abandon, Settle
    <3>4. ReconciledIsTried'
      BY <3>3 DEF RInv, IInv, TypeOK, ReconciledIsTried
    <3> QED
      BY <3>2, <3>3, <3>4 DEF RInv, SeenIsHandled, Delivery!Next
  <2> QED
    BY <1>5, <2>1, <2>2, <2>4, <2>5, <2>6 DEF Worker
<1> QED
  BY <1>3, <1>4, <1>5 DEF Next

(* Bus and consumer, with lock, channel, pool and retries, implement the   *)
(* delivery of events that EventDelivery describes.                        *)
THEOREM Refinement == Spec => ImplementsDelivery
<1>1. Init => RInv /\ Delivery!Init
  BY InitMaps
<1>2. RInv /\ [Next]_vars => RInv' /\ [Delivery!Next]_(Delivery!vars)
  BY NextRInv DEF mapped, Delivery!vars
<1> QED
  BY <1>1, <1>2, PTL DEF Spec, ImplementsDelivery, Delivery!Spec
=============================================================================
