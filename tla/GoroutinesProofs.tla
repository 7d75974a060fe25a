-------------------------- MODULE GoroutinesProofs --------------------------
(***************************************************************************)
(* Proofs about the goroutine manager for every set of calls and every     *)
(* limit: the counters never drift, the limit is kept, and nothing runs    *)
(* once Wait has let its caller go.                                        *)
(***************************************************************************)
EXTENDS Goroutines, FiniteSetTheorems, TLAPS

(* Wait is called, if at all, when no function can be called afterwards    *)
(* without the context being looked at once more.                          *)
CalledInTime == waiter # "idle" => WaitMayBeCalled

(* Once wg.Wait has let go, nothing is in a function and what is left of   *)
(* the calls of Go will find the context done.                             *)
Quiet ==
  waiter \in {"awaited", "returned"} =>
    /\ At(InFunc) = {}
    /\ canceled \/ At(Settled) = Tasks

(* A function has no result before it ends, and an error is in errs or is  *)
(* about to get there.                                                     *)
Unfinished == {"idle", "parked", "admitted", "started", "running"}
ErrsComplete ==
  \A t \in Tasks :
    /\ pc[t] \in Unfinished => result[t] = "none"
    /\ result[t] = "error" <=> (t \in errs \/ pc[t] = "failing")

JoinedComplete == waiter = "returned" => joined = {t \in Tasks : result[t] = "error"}

IInv == TypeOK /\ NoLeak /\ CalledInTime /\ Quiet /\ ErrsComplete /\ JoinedComplete

-----------------------------------------------------------------------------
(* The limit is a positive number, whatever NewManager is given. *)
LEMMA CapacityPositive == Capacity \in Nat /\ Capacity > 0
  BY LimitAssumption DEF Capacity

(* What a task in place p contributes to the count of the places in S. *)
In(p, S) == IF p \in S THEN 1 ELSE 0

(* How many tasks are in a set of places after one of them has moved. *)
LEMMA CountAfterMove ==
  ASSUME pc \in [Tasks -> Places], NEW t \in Tasks, NEW p, NEW S,
         pc' = [pc EXCEPT ![t] = p]
  PROVE  /\ Cardinality(At(S)) \in Nat
         /\ Cardinality(At(S)) >= In(pc[t], S)
         /\ Cardinality(At(S)') = Cardinality(At(S)) + In(p, S) - In(pc[t], S)
<1> DEFINE C == At(S)
<1>1. IsFiniteSet(C)
  <2>1. C \subseteq Tasks
    BY DEF At
  <2> QED
    BY <2>1, TasksAssumption, FS_Subset
<1>2. Cardinality(C) \in Nat
  BY <1>1, FS_CardinalityType
<1>3. Cardinality(C) >= In(pc[t], S)
  <2>1. pc[t] \in S => C # {}
    BY DEF At
  <2> QED
    BY <1>1, <1>2, <2>1, FS_EmptySet DEF In
<1>4. (p \in S <=> pc[t] \in S) => At(S)' = C
  BY DEF At
<1>5. pc[t] \notin S /\ p \in S => At(S)' = C \cup {t} /\ t \notin C
  BY DEF At
<1>6. pc[t] \in S /\ p \notin S => At(S)' = C \ {t} /\ t \in C
  BY DEF At
<1>7. t \notin C => Cardinality(C \cup {t}) = Cardinality(C) + 1
  BY <1>1, FS_AddElement
<1>8. t \in C => Cardinality(C \ {t}) = Cardinality(C) - 1
  BY <1>1, FS_RemoveElement
<1>9. Cardinality(At(S)') = Cardinality(C) + In(p, S) - In(pc[t], S)
  <2>1. CASE p \in S <=> pc[t] \in S
    <3>1. Cardinality(At(S)') = Cardinality(C)
      BY <1>4, <2>1
    <3> QED
      BY <1>2, <2>1, <3>1 DEF In
  <2>2. CASE pc[t] \notin S /\ p \in S
    <3>1. Cardinality(At(S)') = Cardinality(C) + 1
      BY <1>5, <1>7, <2>2
    <3> QED
      BY <1>2, <2>2, <3>1 DEF In
  <2>3. CASE pc[t] \in S /\ p \notin S
    <3>1. Cardinality(At(S)') = Cardinality(C) - 1
      BY <1>6, <1>8, <2>3
    <3> QED
      BY <1>2, <2>3, <3>1 DEF In
  <2> QED
    BY <2>1, <2>2, <2>3
<1> QED
  BY <1>2, <1>3, <1>9

(* The counters stay right when they change by what the move changes. *)
LEMMA NoLeakAfterMove ==
  ASSUME TypeOK, NoLeak, NEW t \in Tasks, NEW p,
         pc' = [pc EXCEPT ![t] = p],
         sema' = sema + In(p, Holding) - In(pc[t], Holding),
         wg' = wg + In(p, Scheduled) - In(pc[t], Scheduled)
  PROVE  NoLeak' /\ sema' \in Nat /\ wg' \in Nat
<1>1. pc \in [Tasks -> Places] /\ In(p, Holding) \in Nat /\ In(p, Scheduled) \in Nat
  BY DEF TypeOK, In
<1>2. Cardinality(At(Holding)') = sema' /\ sema' \in Nat
  <2>1. /\ Cardinality(At(Holding)) \in Nat
        /\ Cardinality(At(Holding)) >= In(pc[t], Holding)
        /\ Cardinality(At(Holding)') = Cardinality(At(Holding)) + In(p, Holding) - In(pc[t], Holding)
    BY <1>1, CountAfterMove
  <2> QED
    BY <2>1 DEF NoLeak, In
<1>3. Cardinality(At(Scheduled)') = wg' /\ wg' \in Nat
  <2>1. /\ Cardinality(At(Scheduled)) \in Nat
        /\ Cardinality(At(Scheduled)) >= In(pc[t], Scheduled)
        /\ Cardinality(At(Scheduled)') = Cardinality(At(Scheduled)) + In(p, Scheduled) - In(pc[t], Scheduled)
    BY <1>1, CountAfterMove
  <2> QED
    BY <2>1 DEF NoLeak, In
<1> QED
  BY <1>2, <1>3 DEF NoLeak

(* A count of zero means that nobody is there. *)
LEMMA NobodyThere ==
  ASSUME NEW S, Cardinality(At(S)) = 0
  PROVE  At(S) = {}
<1>1. At(S) \subseteq Tasks
  BY DEF At
<1>2. IsFiniteSet(At(S))
  BY <1>1, TasksAssumption, FS_Subset
<1> QED
  BY <1>2, FS_EmptySet

-----------------------------------------------------------------------------
(* The fresh manager of NewManager satisfies the invariant. *)
LEMMA InitIInv == Init => IInv
<1> SUFFICES ASSUME Init PROVE IInv
  OBVIOUS
<1> USE DEF Init
<1>1. TypeOK
  <2>1. sema \in 0..Capacity
    BY CapacityPositive
  <2>2. pc \in [Tasks -> Places]
    BY DEF Places
  <2>3. result \in [Tasks -> Results]
    BY DEF Results
  <2> QED
    BY <2>1, <2>2, <2>3 DEF TypeOK
<1>2. NoLeak
  <2>1. At(Holding) = {} /\ At(Scheduled) = {}
    BY DEF At, Holding, Scheduled
  <2> QED
    BY <2>1, FS_EmptySet DEF NoLeak
<1>3. CalledInTime /\ Quiet /\ JoinedComplete
  BY DEF CalledInTime, Quiet, JoinedComplete
<1>4. ErrsComplete
  BY DEF ErrsComplete, Unfinished
<1> QED
  BY <1>1, <1>2, <1>3, <1>4 DEF IInv

(* The counters follow the tasks, so a slot or a count never leaks. *)
LEMMA CountersStep ==
  ASSUME TypeOK, NoLeak, [Next]_vars
  PROVE  TypeOK' /\ NoLeak'
<1>1. ASSUME NEW t \in Tasks, Park(t) \/ Admit(t) \/ TurnAway(t) \/ Goroutine(t)
      PROVE  TypeOK' /\ NoLeak'
  <2>1. CASE Park(t)
    <3>1. pc' = [pc EXCEPT ![t] = "parked"] /\ "parked" \in Places
      BY <2>1 DEF Park, Places, Holding, Scheduled, Settled
    <3>2. /\ sema' = sema + In(pc'[t], Holding) - In(pc[t], Holding)
          /\ wg' = wg + In(pc'[t], Scheduled) - In(pc[t], Scheduled)
          /\ sema' <= Capacity
      BY <2>1, <3>1, CapacityPositive DEF Park, Is, TypeOK, In, Holding, Scheduled
    <3>3. NoLeak' /\ sema' \in Nat /\ wg' \in Nat
      BY <3>1, <3>2, NoLeakAfterMove DEF TypeOK
    <3> QED
      BY <2>1, <3>1, <3>2, <3>3, CapacityPositive DEF Park, TypeOK
  <2>2. CASE Admit(t)
    <3>1. pc' = [pc EXCEPT ![t] = "admitted"] /\ "admitted" \in Places
      BY <2>2 DEF Admit, Places, Holding, Scheduled, Settled
    <3>2. /\ sema' = sema + In(pc'[t], Holding) - In(pc[t], Holding)
          /\ wg' = wg + In(pc'[t], Scheduled) - In(pc[t], Scheduled)
          /\ sema' <= Capacity
      BY <2>2, <3>1, CapacityPositive DEF Admit, Is, TypeOK, In, Holding, Scheduled
    <3>3. NoLeak' /\ sema' \in Nat /\ wg' \in Nat
      BY <3>1, <3>2, NoLeakAfterMove DEF TypeOK
    <3> QED
      BY <2>2, <3>1, <3>2, <3>3, CapacityPositive DEF Admit, TypeOK
  <2>3. CASE TurnAway(t)
    <3>1. pc' = [pc EXCEPT ![t] = "turnedAway"] /\ "turnedAway" \in Places
      BY <2>3 DEF TurnAway, Places, Holding, Scheduled, Settled
    <3>2. /\ sema' = sema + In(pc'[t], Holding) - In(pc[t], Holding)
          /\ wg' = wg + In(pc'[t], Scheduled) - In(pc[t], Scheduled)
          /\ sema' <= Capacity
      BY <2>3, <3>1, CapacityPositive DEF TurnAway, Is, TypeOK, In, Holding, Scheduled
    <3>3. NoLeak' /\ sema' \in Nat /\ wg' \in Nat
      BY <3>1, <3>2, NoLeakAfterMove DEF TypeOK
    <3> QED
      BY <2>3, <3>1, <3>2, <3>3, CapacityPositive DEF TurnAway, TypeOK
  <2>4. CASE Spawn(t)
    <3>1. pc' = [pc EXCEPT ![t] = "started"] /\ "started" \in Places
      BY <2>4 DEF Spawn, Places, Holding, Scheduled, Settled
    <3>2. /\ sema' = sema + In(pc'[t], Holding) - In(pc[t], Holding)
          /\ wg' = wg + In(pc'[t], Scheduled) - In(pc[t], Scheduled)
          /\ sema' <= Capacity
      BY <2>4, <3>1, CapacityPositive DEF Spawn, Is, TypeOK, In, Holding, Scheduled
    <3>3. NoLeak' /\ sema' \in Nat /\ wg' \in Nat
      BY <3>1, <3>2, NoLeakAfterMove DEF TypeOK
    <3> QED
      BY <2>4, <3>1, <3>2, <3>3, CapacityPositive DEF Spawn, TypeOK
  <2>5. CASE Begin(t)
    <3>1. pc' = [pc EXCEPT ![t] = "running"] /\ "running" \in Places
      BY <2>5 DEF Begin, Places, Holding, Scheduled, Settled
    <3>2. /\ sema' = sema + In(pc'[t], Holding) - In(pc[t], Holding)
          /\ wg' = wg + In(pc'[t], Scheduled) - In(pc[t], Scheduled)
          /\ sema' <= Capacity
      BY <2>5, <3>1, CapacityPositive DEF Begin, Is, TypeOK, In, Holding, Scheduled
    <3>3. NoLeak' /\ sema' \in Nat /\ wg' \in Nat
      BY <3>1, <3>2, NoLeakAfterMove DEF TypeOK
    <3> QED
      BY <2>5, <3>1, <3>2, <3>3, CapacityPositive DEF Begin, TypeOK
  <2>6. CASE Skip(t)
    <3>1. pc' = [pc EXCEPT ![t] = "exiting"] /\ "exiting" \in Places
      BY <2>6 DEF Skip, Places, Holding, Scheduled, Settled
    <3>2. /\ sema' = sema + In(pc'[t], Holding) - In(pc[t], Holding)
          /\ wg' = wg + In(pc'[t], Scheduled) - In(pc[t], Scheduled)
          /\ sema' <= Capacity
      BY <2>6, <3>1, CapacityPositive DEF Skip, Is, TypeOK, In, Holding, Scheduled
    <3>3. NoLeak' /\ sema' \in Nat /\ wg' \in Nat
      BY <3>1, <3>2, NoLeakAfterMove DEF TypeOK
    <3> QED
      BY <2>6, <3>1, <3>2, <3>3, CapacityPositive DEF Skip, TypeOK
  <2>7. CASE Collect(t)
    <3>1. pc' = [pc EXCEPT ![t] = "exiting"] /\ "exiting" \in Places
      BY <2>7 DEF Collect, Places, Holding, Scheduled, Settled
    <3>2. /\ sema' = sema + In(pc'[t], Holding) - In(pc[t], Holding)
          /\ wg' = wg + In(pc'[t], Scheduled) - In(pc[t], Scheduled)
          /\ sema' <= Capacity
      BY <2>7, <3>1, CapacityPositive DEF Collect, Is, TypeOK, In, Holding, Scheduled
    <3>3. NoLeak' /\ sema' \in Nat /\ wg' \in Nat
      BY <3>1, <3>2, NoLeakAfterMove DEF TypeOK
    <3> QED
      BY <2>7, <3>1, <3>2, <3>3, CapacityPositive DEF Collect, TypeOK
  <2>8. CASE Release(t)
    <3>1. pc' = [pc EXCEPT ![t] = "released"] /\ "released" \in Places
      BY <2>8 DEF Release, Places, Holding, Scheduled, Settled
    <3>2. /\ sema' = sema + In(pc'[t], Holding) - In(pc[t], Holding)
          /\ wg' = wg + In(pc'[t], Scheduled) - In(pc[t], Scheduled)
          /\ sema' <= Capacity
      BY <2>8, <3>1, CapacityPositive DEF Release, Is, TypeOK, In, Holding, Scheduled
    <3>3. NoLeak' /\ sema' \in Nat /\ wg' \in Nat
      BY <3>1, <3>2, NoLeakAfterMove DEF TypeOK
    <3> QED
      BY <2>8, <3>1, <3>2, <3>3, CapacityPositive DEF Release, TypeOK
  <2>9. CASE Done(t)
    <3>1. pc' = [pc EXCEPT ![t] = "gone"] /\ "gone" \in Places
      BY <2>9 DEF Done, Places, Holding, Scheduled, Settled
    <3>2. /\ sema' = sema + In(pc'[t], Holding) - In(pc[t], Holding)
          /\ wg' = wg + In(pc'[t], Scheduled) - In(pc[t], Scheduled)
          /\ sema' <= Capacity
      BY <2>9, <3>1, CapacityPositive DEF Done, Is, TypeOK, In, Holding, Scheduled
    <3>3. NoLeak' /\ sema' \in Nat /\ wg' \in Nat
      BY <3>1, <3>2, NoLeakAfterMove DEF TypeOK
    <3> QED
      BY <2>9, <3>1, <3>2, <3>3, CapacityPositive DEF Done, TypeOK
  <2>10. ASSUME NEW r \in Results \ {"none"}, Return(t, r)
        PROVE  TypeOK' /\ NoLeak'
    <3>1. PICK p \in {"failing", "exiting"} : pc' = [pc EXCEPT ![t] = p]
      BY <2>10 DEF Return
    <3>2. p \in Places
      BY DEF Places, Holding
    <3>3. /\ sema' = sema + In(pc'[t], Holding) - In(pc[t], Holding)
          /\ wg' = wg + In(pc'[t], Scheduled) - In(pc[t], Scheduled)
      BY <2>10, <3>1 DEF Return, Is, TypeOK, In, Holding, Scheduled
    <3>4. NoLeak' /\ sema' \in Nat /\ wg' \in Nat
      BY <3>1, <3>3, NoLeakAfterMove DEF TypeOK
    <3> QED
      BY <2>10, <3>1, <3>2, <3>4 DEF Return, TypeOK
  <2> QED
    BY <1>1, <2>1, <2>2, <2>3, <2>4, <2>5, <2>6, <2>7, <2>8, <2>9, <2>10 DEF Goroutine
<1>2. CASE Cancel
  BY <1>2 DEF Cancel, TypeOK, NoLeak, At
<1>3. CASE Wait \/ Wake \/ Join
  BY <1>3 DEF Wait, Wake, Join, TypeOK, NoLeak, At
<1>4. CASE Finished \/ UNCHANGED vars
  BY <1>4 DEF Finished, vars, TypeOK, NoLeak, At
<1> QED
  BY <1>1, <1>2, <1>3, <1>4 DEF Next

(* What Wait and its caller rely on besides the counters. *)
LEMMA WaiterStep ==
  ASSUME IInv, [Next]_vars
  PROVE  CalledInTime' /\ Quiet' /\ ErrsComplete' /\ JoinedComplete'
<1> USE DEF IInv
<1>1. ASSUME NEW t \in Tasks, Park(t) \/ Admit(t) \/ TurnAway(t) \/ Spawn(t) \/ Begin(t)
                                \/ Skip(t) \/ Release(t)
      PROVE  CalledInTime' /\ Quiet' /\ ErrsComplete' /\ JoinedComplete'
  <2>0. UNCHANGED <<canceled, result, errs, waiter, joined>>
    BY <1>1 DEF Park, Admit, TurnAway, Spawn, Begin, Skip, Release
  <2>1. PICK p \in Places \ {"idle", "failing"} :
          /\ pc' = [pc EXCEPT ![t] = p]
          /\ pc[t] \in Unfinished \cup {"exiting"} /\ (pc[t] = "exiting" => p = "released")
          /\ p \in {"parked", "admitted"} => pc[t] \in {"idle", "parked"}
          /\ p \in InFunc => pc[t] = "started" /\ ~canceled
    BY <1>1 DEF Park, Admit, TurnAway, Spawn, Begin, Skip, Release, Is, Places,
         Holding, Scheduled, Settled, InFunc, Unfinished
  <2>2. CalledInTime'
    BY <2>0, <2>1 DEF CalledInTime, WaitMayBeCalled, NoMoreGo, At, TypeOK
  <2>3. Quiet'
    BY <2>0, <2>1 DEF Quiet, At, TypeOK, InFunc, Settled, Unfinished
  <2>4. ErrsComplete'
    BY <2>0, <2>1 DEF ErrsComplete, TypeOK, Unfinished
  <2> QED
    BY <2>0, <2>2, <2>3, <2>4 DEF JoinedComplete
<1>2. ASSUME NEW t \in Tasks, NEW r \in Results \ {"none"}, Return(t, r)
      PROVE  CalledInTime' /\ Quiet' /\ ErrsComplete' /\ JoinedComplete'
  <2>1. waiter \notin {"awaited", "returned"}
    BY <1>2 DEF Return, Is, Quiet, At, InFunc
  <2>2. CalledInTime'
    BY <1>2 DEF Return, Is, CalledInTime, WaitMayBeCalled, NoMoreGo, At, TypeOK
  <2>3. ErrsComplete'
    BY <1>2 DEF Return, Is, ErrsComplete, TypeOK, Unfinished, Results
  <2> QED
    BY <1>2, <2>1, <2>2, <2>3 DEF Return, Quiet, JoinedComplete
<1>3. ASSUME NEW t \in Tasks, Collect(t)
      PROVE  CalledInTime' /\ Quiet' /\ ErrsComplete' /\ JoinedComplete'
  <2>1. waiter \notin {"awaited", "returned"}
    BY <1>3 DEF Collect, Is, Quiet, At, InFunc
  <2>2. CalledInTime'
    BY <1>3 DEF Collect, Is, CalledInTime, WaitMayBeCalled, NoMoreGo, At, TypeOK
  <2>3. ErrsComplete'
    BY <1>3 DEF Collect, Is, ErrsComplete, TypeOK, Unfinished
  <2> QED
    BY <1>3, <2>1, <2>2, <2>3 DEF Collect, Quiet, JoinedComplete
<1>4. ASSUME NEW t \in Tasks, Done(t)
      PROVE  CalledInTime' /\ Quiet' /\ ErrsComplete' /\ JoinedComplete'
  <2>1. /\ waiter' = waiter \/ (waiter = "parked" /\ waiter' = "woken")
        /\ pc[t] = "released" /\ pc' = [pc EXCEPT ![t] = "gone"]
        /\ UNCHANGED <<canceled, result, errs, joined>>
    BY <1>4 DEF Done, Is
  <2>2. CalledInTime'
    BY <2>1 DEF CalledInTime, WaitMayBeCalled, NoMoreGo, At, TypeOK
  <2>3. Quiet'
    BY <2>1 DEF Quiet, At, TypeOK, InFunc, Settled
  <2>4. ErrsComplete'
    BY <2>1 DEF ErrsComplete, TypeOK, Unfinished
  <2> QED
    BY <2>1, <2>2, <2>3, <2>4 DEF JoinedComplete
<1>5. CASE Cancel
  BY <1>5 DEF Cancel, CalledInTime, WaitMayBeCalled, Quiet, ErrsComplete, JoinedComplete, At
<1>6. CASE Wait \/ Wake
  <2>1. /\ waiter \in {"idle", "woken"} /\ waiter' \in {"awaited", "parked", "panicked"}
        /\ waiter' = "awaited" => wg = 0
        /\ UNCHANGED <<canceled, pc, result, errs, joined>>
    BY <1>6 DEF Wait, Wake
  <2>2. CalledInTime'
    BY <1>6 DEF Wait, Wake, CalledInTime, WaitMayBeCalled, NoMoreGo, At
  <2>3. WaitMayBeCalled
    BY <1>6 DEF Wait, Wake, CalledInTime
  <2>4. wg = 0 => At(Scheduled) = {}
    BY NobodyThere DEF NoLeak
  <2>5. At(Scheduled) = {} => At(InFunc) = {}
    BY DEF At, Scheduled, InFunc
  <2>6. At(Scheduled) = {} => canceled \/ At(Settled) = Tasks
    BY <2>3 DEF WaitMayBeCalled, NoMoreGo, At, TypeOK, Places, Holding, Scheduled, Settled
  <2>7. At(InFunc)' = At(InFunc) /\ At(Settled)' = At(Settled)
    BY <2>1 DEF At
  <2>8. Quiet'
    BY <2>1, <2>4, <2>5, <2>6, <2>7 DEF Quiet
  <2> QED
    BY <2>1, <2>2, <2>8 DEF ErrsComplete, JoinedComplete
<1>7. CASE Join
  <2>1. errs = {t \in Tasks : result[t] = "error"}
    BY <1>7 DEF Join, Quiet, ErrsComplete, TypeOK, At, InFunc
  <2> QED
    BY <1>7, <2>1 DEF Join, CalledInTime, WaitMayBeCalled, NoMoreGo, Quiet, ErrsComplete,
      JoinedComplete, At
<1>8. CASE Finished \/ UNCHANGED vars
  BY <1>8 DEF Finished, vars, CalledInTime, WaitMayBeCalled, NoMoreGo, Quiet,
    ErrsComplete, JoinedComplete, At
<1> QED
  BY <1>1, <1>2, <1>3, <1>4, <1>5, <1>6, <1>7, <1>8 DEF Next, Goroutine

(* Every step of a call of Go, of a goroutine or of Wait keeps the          *)
(* invariant.                                                              *)
LEMMA NextIInv == IInv /\ [Next]_vars => IInv'
  BY CountersStep, WaiterStep DEF IInv

-----------------------------------------------------------------------------
(* The invariant holds in every state the manager can be in. *)
THEOREM Invariance == Spec => []IInv
  BY InitIInv, NextIInv, PTL DEF Spec

(* The manager's state has its types; in particular sema, a Go channel,    *)
(* never holds more tokens than the limit and wg never goes below zero.    *)
THEOREM TypeCorrect == Spec => []TypeOK
<1>1. IInv => TypeOK
  BY DEF IInv
<1> QED
  BY <1>1, Invariance, PTL

(* No panic, error or cancellation leaks a slot or a count of wg.          *)
THEOREM CountersHold == Spec => []NoLeak
<1>1. IInv => NoLeak
  BY DEF IInv
<1> QED
  BY <1>1, Invariance, PTL

(* No more functions are in progress than NewManager allows.               *)
THEOREM LimitHolds == Spec => []LimitRespected
<1>1. IInv => LimitRespected
  <2> SUFFICES ASSUME IInv PROVE LimitRespected
    OBVIOUS
  <2>1. At(InFunc) \subseteq At(Holding) /\ At(Holding) \subseteq Tasks
    BY DEF At, InFunc, Holding
  <2>2. IsFiniteSet(At(Holding))
    BY <2>1, TasksAssumption, FS_Subset
  <2>3. Cardinality(At(InFunc)) <= Cardinality(At(Holding)) /\ IsFiniteSet(At(InFunc))
    BY <2>1, <2>2, FS_Subset
  <2>4. Cardinality(At(InFunc)) \in Nat
    BY <2>3, FS_CardinalityType
  <2>5. Cardinality(At(Holding)) = sema /\ sema \in 0..Capacity
    BY DEF IInv, TypeOK, NoLeak
  <2> QED
    BY <2>3, <2>4, <2>5, CapacityPositive DEF LimitRespected
<1> QED
  BY <1>1, Invariance, PTL

(* After wg.Wait nothing runs or will run, so Wait reads every error and   *)
(* App.Stop may close what the functions use.                              *)
THEOREM WaitFinal == Spec => []WaitIsFinal
<1>1. IInv => WaitIsFinal
  BY DEF IInv, Quiet, JoinedComplete, WaitIsFinal
<1> QED
  BY <1>1, Invariance, PTL
=============================================================================
