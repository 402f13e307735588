---------------------------- MODULE RefundsProofs ----------------------------
(***************************************************************************)
(* Theorems about Refunds, for every set of handlers and refunds, every    *)
(* amount and every bound.                                                 *)
(***************************************************************************)
EXTENDS Refunds, SumLemmas

\* A handler serves a refund that has a row, and an answer it still has to write
\* or announce is what became of the refund at the provider for good.
HandlerInv(h) ==
  LET c == call[h]
  IN  /\ c.pc # "idle" => c.refund \in Refunds /\ refund[c.refund].status # "none"
      /\ c.pc \in {"apply", "event"} =>
           /\ c.answer = "succeeded" => provider[c.refund] = "succeeded"
           /\ c.answer = "failed" => provider[c.refund] = "failed"
      /\ c.pc = "event" => c.answer \in {"succeeded", "failed"}

IInv == /\ TypeOK /\ ExecutedIsReserved /\ AnnouncedAsSettled
        /\ \A h \in Handlers : HandlerInv(h)

\* What no step undoes: a row stays, and what the provider settled stays settled.
Grows == \A r \in Refunds :
           /\ refund[r].status # "none" => refund'[r].status # "none"
           /\ provider[r] \in {"succeeded", "failed"} => provider'[r] = provider[r]

\* A handler that does not move keeps its invariant when nothing is undone.
LEMMA Stable ==
  ASSUME NEW h \in Handlers, HandlerInv(h), call'[h] = call[h], Grows
  PROVE  HandlerInv(h)'
BY DEF HandlerInv, Grows

\* An order without refunds satisfies the invariant.
LEMMA InitIInv == Init => IInv
<1> SUFFICES ASSUME Init PROVE IInv
  OBVIOUS
<1> USE RefundsAssumption
<1>1. TypeOK
  BY DEF Init, TypeOK, Rows, NoRow, Calls, Idle, Statuses, Fates, EventTypes
<1>2. ExecutedIsReserved /\ AnnouncedAsSettled
  BY DEF Init, ExecutedIsReserved, AnnouncedAsSettled, NoRow
<1>3. \A h \in Handlers : HandlerInv(h)
  BY DEF Init, HandlerInv, Idle
<1> QED  BY <1>1, <1>2, <1>3 DEF IInv

\* A step keeps the invariant when it keeps the parts, undoes nothing, and moves
\* at most the handler h, which keeps its own invariant.
LEMMA Together ==
  ASSUME IInv, TypeOK', ExecutedIsReserved', AnnouncedAsSettled', Grows,
         NEW h \in Handlers, HandlerInv(h)',
         \A g \in Handlers \ {h} : call'[g] = call[g]
  PROVE  IInv'
<1>1. \A g \in Handlers : HandlerInv(g)'
  BY Stable DEF IInv
<1> QED  BY <1>1 DEF IInv

\* A step that moves no handler.
LEMMA Alone ==
  ASSUME IInv, TypeOK', ExecutedIsReserved', AnnouncedAsSettled', Grows,
         \A g \in Handlers : call'[g] = call[g]
  PROVE  IInv'
BY Stable DEF IInv

LEMMA RowsTyped == NoRow \in Rows /\ Idle \in Calls
BY DEF NoRow, Rows, Statuses, Idle, Calls, Fates

\* Finish and Serve keep the type of the handlers.
LEMMA FinishTyped ==
  ASSUME call \in [Handlers -> Calls], NEW h \in Handlers, Finish(h)
  PROVE  call' \in [Handlers -> Calls]
BY RowsTyped DEF Finish

LEMMA ServeTyped ==
  ASSUME call \in [Handlers -> Calls], NEW h \in Handlers, NEW r \in Refunds, NEW w \in BOOLEAN,
         refund'[r] \in Rows, Serve(h, r, w)
  PROVE  call' \in [Handlers -> Calls]
BY DEF Serve, Calls, Fates

\* One step of a handler that was started.
LEMMA StepIInv ==
  ASSUME IInv, NEW h \in Handlers, Step(h)
  PROVE  IInv'
<1> USE RefundsAssumption DEF budget, At, Of
<1>0. TypeOK /\ ExecutedIsReserved /\ AnnouncedAsSettled /\ HandlerInv(h) /\ call[h] \in Calls
  BY DEF IInv, TypeOK
<1>1. CASE CallProvider(h)
  <2>r. call[h].refund \in Refunds /\ refund[call[h].refund].status # "none"
    BY <1>0, <1>1 DEF CallProvider, HandlerInv
  <2>p. PICK fate \in Fates :
          /\ provider[call[h].refund] # "none" => fate = provider[call[h].refund]
          /\ provider' = [provider EXCEPT ![call[h].refund] = fate]
          /\ call' = [call EXCEPT ![h].pc = "apply", ![h].answer = fate]
    BY <1>0, <1>1, <2>r DEF CallProvider, TypeOK, Fates
  <2>1. TypeOK'
    BY <1>0, <1>1, <2>r, <2>p DEF CallProvider, TypeOK, Calls, Rows, Fates
  <2>2. Grows
    BY <1>0, <1>1, <2>r, <2>p DEF CallProvider, TypeOK, Grows
  <2>3. ExecutedIsReserved'
    BY <1>0, <1>1, <2>r, <2>p
       DEF CallProvider, TypeOK, Rows, Statuses, ExecutedIsReserved, AnnouncedAsSettled, Reserved
  <2>4. AnnouncedAsSettled'
    BY <1>0, <1>1, <2>r, <2>p DEF CallProvider, TypeOK, AnnouncedAsSettled
  <2>5. HandlerInv(h)'
    BY <1>0, <1>1, <2>r, <2>p DEF CallProvider, TypeOK, Calls, HandlerInv
  <2> QED  BY <2>1, <2>2, <2>3, <2>4, <2>5, <2>p, Together, <1>0 DEF TypeOK
<1>2. CASE CallFails(h)
  <2>r. call[h].refund \in Refunds /\ refund[call[h].refund].status # "none"
    BY <1>0, <1>2 DEF CallFails, HandlerInv
  <2>p. PICK fate \in Fates :
          /\ provider[call[h].refund] # "none" => fate = provider[call[h].refund]
          /\ provider' = [provider EXCEPT ![call[h].refund] = fate]
    BY <1>0, <1>2, <2>r DEF CallFails, TypeOK, Fates
  <2>1. TypeOK'
    <3>1. call' \in [Handlers -> Calls]
      BY <1>0, <1>2 DEF CallFails, TypeOK, Calls
    <3>2. provider' \in [Refunds -> Fates] /\ faults' \in 0..MaxFaults
      BY <1>0, <1>2, <2>r, <2>p DEF CallFails, TypeOK
    <3> QED  BY <1>0, <1>2, <3>1, <3>2 DEF CallFails, TypeOK
  <2>2. Grows
    BY <1>0, <1>2, <2>r, <2>p DEF CallFails, TypeOK, Grows
  <2>3. ExecutedIsReserved'
    BY <1>0, <1>2, <2>r, <2>p
       DEF CallFails, TypeOK, Rows, Statuses, ExecutedIsReserved, AnnouncedAsSettled, Reserved
  <2>4. AnnouncedAsSettled'
    BY <1>0, <1>2, <2>r, <2>p DEF CallFails, TypeOK, AnnouncedAsSettled
  <2>5. HandlerInv(h)'
    BY <1>0, <1>2, <2>r, <2>p DEF CallFails, TypeOK, Calls, HandlerInv
  <2> QED  BY <1>2, <2>1, <2>2, <2>3, <2>4, <2>5, Together, <1>0 DEF TypeOK, CallFails
<1>3. CASE ApplyResult(h)
  <2> DEFINE r == call[h].refund
             a == call[h].answer
             row == [status |-> Outcome(a),
                     channelNo |-> refund[r].channelNo \/ a \in {"processing", "succeeded", "failed"},
                     attempts |-> 1,
                     next |-> IF Outcome(a) = "pending" THEN "later" ELSE "none"]
  <2>r. r \in Refunds
    BY <1>0, <1>3 DEF ApplyResult, HandlerInv
  <2>o. /\ Outcome(a) \in {"pending", "succeeded", "failed"}
        /\ Outcome(a) = "succeeded" => a = "succeeded"
        /\ Outcome(a) = "failed" => a = "failed"
    BY DEF Outcome
  <2>p. /\ refund' = [refund EXCEPT ![r] = row]
        /\ UNCHANGED <<provider, events, stream, faults, retries>>
        /\ \/ Outcome(a) # "pending" /\ call' = [call EXCEPT ![h].pc = "event"]
           \/ call' = [call EXCEPT ![h].pc = "retry"]
           \/ call' = [call EXCEPT ![h] = Idle]
    BY <1>3 DEF ApplyResult, Finish
  <2>w. row \in Rows
    BY <1>0, <2>r, <2>o DEF TypeOK, Rows, Statuses
  <2> HIDE DEF row
  <2>1. TypeOK'
    <3>1. CASE call' = [call EXCEPT ![h] = Idle]
      BY <1>0, <2>r, <2>p, <2>w, <3>1, RowsTyped DEF TypeOK
    <3>2. CASE call' # [call EXCEPT ![h] = Idle]
      BY <1>0, <2>r, <2>p, <2>w, <3>2 DEF TypeOK, Calls
    <3> QED  BY <3>1, <3>2
  <2>s. refund' = [refund EXCEPT ![r] = row] /\ row.status = Outcome(a)
    BY <2>p DEF row
  <2>2. Grows
    BY <1>0, <2>r, <2>o, <2>p, <2>s DEF TypeOK, Grows
  <2>3. ExecutedIsReserved'
    BY <1>0, <1>3, <2>r, <2>o, <2>p, <2>s DEF ApplyResult, TypeOK, ExecutedIsReserved, Reserved, HandlerInv
  <2>4. AnnouncedAsSettled'
    BY <1>0, <1>3, <2>r, <2>o, <2>p, <2>s DEF ApplyResult, TypeOK, AnnouncedAsSettled, HandlerInv
  <2>5. HandlerInv(h)'
    BY <1>0, <1>3, <2>r, <2>o, <2>p, <2>s DEF ApplyResult, TypeOK, Calls, HandlerInv, Idle
  <2> QED  BY <2>1, <2>2, <2>3, <2>4, <2>5, <2>p, Together, <1>0 DEF TypeOK
<1>4. CASE ScheduleRetry(h)
  <2>r. call[h].refund \in Refunds
    BY <1>0, <1>4 DEF ScheduleRetry, HandlerInv
  <2>1. TypeOK'
    <3>1. call' \in [Handlers -> Calls]
      BY <1>0, <1>4, FinishTyped DEF ScheduleRetry, TypeOK
    <3>2. call[h].seen.attempts + 1 \in Nat
      BY <1>0 DEF Calls, Rows
    <3>3. refund' \in [Refunds -> Rows]
      BY <1>0, <1>4, <2>r, <3>2 DEF ScheduleRetry, TypeOK, Rows, Statuses
    <3> QED  BY <1>0, <1>4, <3>1, <3>3 DEF ScheduleRetry, TypeOK
  <2>2. Grows
    BY <1>0, <1>4, <2>r DEF ScheduleRetry, TypeOK, Rows, Grows
  <2>3. ExecutedIsReserved'
    BY <1>0, <1>4, <2>r DEF ScheduleRetry, TypeOK, Rows, ExecutedIsReserved, Reserved
  <2>4. AnnouncedAsSettled'
    BY <1>0, <1>4, <2>r DEF ScheduleRetry, TypeOK, Rows, AnnouncedAsSettled
  <2>5. HandlerInv(h)'
    BY <1>0, <1>4 DEF ScheduleRetry, Finish, TypeOK, HandlerInv, Idle
  <2> QED  BY <1>4, <2>1, <2>2, <2>3, <2>4, <2>5, Together, <1>0 DEF TypeOK, ScheduleRetry, Finish
<1>5. CASE RecordEvent(h)
  <2>r. call[h].refund \in Refunds
    BY <1>0, <1>5 DEF RecordEvent, HandlerInv
  <2>1. TypeOK'
    BY <1>0, <1>5, <2>r DEF RecordEvent, Finish, TypeOK, Calls, Idle, NoRow, Rows, Statuses, Fates, EventTypes
  <2>2. Grows /\ ExecutedIsReserved'
    BY <1>0, <1>5, <2>r DEF RecordEvent, Grows, ExecutedIsReserved, Reserved
  <2>4. AnnouncedAsSettled'
    BY <1>0, <1>5, <2>r DEF RecordEvent, TypeOK, AnnouncedAsSettled, HandlerInv
  <2>5. HandlerInv(h)'
    BY <1>0, <1>5 DEF RecordEvent, Finish, TypeOK, HandlerInv, Idle
  <2> QED  BY <1>5, <2>1, <2>2, <2>4, <2>5, Together, <1>0 DEF TypeOK, RecordEvent, Finish
<1> QED  BY <1>1, <1>2, <1>3, <1>4, <1>5 DEF Step

\* Every step keeps the invariant.
LEMMA NextIInv == IInv /\ [Next]_vars => IInv'
<1> SUFFICES ASSUME IInv, [Next]_vars PROVE IInv'
  OBVIOUS
<1> USE RefundsAssumption DEF budget
<1>0. TypeOK /\ ExecutedIsReserved /\ AnnouncedAsSettled
  BY DEF IInv
<1>1. ASSUME NEW h \in Handlers, Step(h) PROVE IInv'
  BY <1>1, StepIInv
<1>2. ASSUME NEW h \in Handlers, Abort(h) PROVE IInv'
  <2>1. TypeOK'
    BY <1>0, <1>2 DEF Abort, Finish, TypeOK, Calls, Idle, NoRow, Rows, Statuses, Fates
  <2>2. Grows /\ ExecutedIsReserved' /\ AnnouncedAsSettled'
    BY <1>0, <1>2 DEF Abort, Grows, ExecutedIsReserved, Reserved, AnnouncedAsSettled
  <2>3. HandlerInv(h)'
    BY <1>0, <1>2 DEF Abort, Finish, TypeOK, HandlerInv, Idle
  <2> QED  BY <1>0, <1>2, <2>1, <2>2, <2>3, Together DEF Abort, Finish, TypeOK
<1>3. ASSUME NEW h \in Handlers, NEW r \in Refunds, Reserve(h, r) PROVE IInv'
  <2>1. refund' = [refund EXCEPT ![r] = [NoRow EXCEPT !.status = "pending", !.next = "due"]]
    BY <1>3 DEF Reserve
  <2>2. TypeOK'
    <3>1. refund' \in [Refunds -> Rows]
      BY <1>0, <2>1, RowsTyped DEF TypeOK, Rows, Statuses
    <3>2. call' \in [Handlers -> Calls]
      BY <1>0, <1>3, <3>1, ServeTyped DEF Reserve, TypeOK
    <3> QED  BY <1>0, <1>3, <3>1, <3>2 DEF Reserve, TypeOK
  <2>3. Grows /\ ExecutedIsReserved' /\ AnnouncedAsSettled'
    BY <1>0, <1>3, <2>1 DEF Reserve, TypeOK, NoRow, Grows, ExecutedIsReserved, Reserved, AnnouncedAsSettled
  <2>4. HandlerInv(h)'
    BY <1>0, <1>3, <2>1 DEF Reserve, Serve, TypeOK, NoRow, HandlerInv
  <2> QED  BY <1>0, <1>3, <2>2, <2>3, <2>4, Together DEF Reserve, Serve, TypeOK
<1>4. ASSUME NEW h \in Handlers, NEW r \in Refunds, Process(h, r) PROVE IInv'
  <2>1. UNCHANGED <<refund, provider, events>>
    BY <1>4 DEF Process
  <2>2. TypeOK'
    <3>1. refund'[r] \in Rows
      BY <1>0, <2>1 DEF TypeOK
    <3>2. call' \in [Handlers -> Calls]
      BY <1>0, <1>4, <3>1, ServeTyped DEF Process, TypeOK
    <3> QED  BY <1>0, <1>4, <2>1, <3>2 DEF Process, TypeOK
  <2>3. Grows /\ ExecutedIsReserved' /\ AnnouncedAsSettled'
    BY <1>0, <2>1 DEF Grows, ExecutedIsReserved, Reserved, AnnouncedAsSettled
  <2>4. CASE refund[r].status = "pending"
    <3>1. HandlerInv(h)'
      BY <1>0, <1>4, <2>1, <2>4 DEF Process, Serve, TypeOK, HandlerInv
    <3> QED  BY <1>0, <1>4, <2>2, <2>3, <2>4, <3>1, Together DEF Process, Serve, TypeOK
  <2>5. CASE refund[r].status # "pending"
    BY <1>4, <2>2, <2>3, <2>5, Alone DEF Process
  <2> QED  BY <2>4, <2>5
<1>5. ASSUME NEW r \in Refunds, ProviderSettles(r) PROVE IInv'
  <2>1. TypeOK'
    BY <1>0, <1>5 DEF ProviderSettles, TypeOK, Fates
  <2>2. Grows /\ ExecutedIsReserved' /\ AnnouncedAsSettled'
    BY <1>0, <1>5 DEF ProviderSettles, TypeOK, Grows, ExecutedIsReserved, Reserved, AnnouncedAsSettled
  <2> QED  BY <1>5, <2>1, <2>2, Alone DEF ProviderSettles
<1>6. ASSUME NEW r \in Refunds, TimePasses(r) PROVE IInv'
  <2>1. TypeOK'
    BY <1>0, <1>6 DEF TimePasses, TypeOK, Rows
  <2>2. Grows /\ ExecutedIsReserved' /\ AnnouncedAsSettled'
    BY <1>0, <1>6 DEF TimePasses, TypeOK, Rows, Grows, ExecutedIsReserved, Reserved, AnnouncedAsSettled
  <2> QED  BY <1>6, <2>1, <2>2, Alone DEF TimePasses
<1>7. ASSUME NEW r \in Refunds, ScanDue(r) \/ LoseMessage(r) PROVE IInv'
  <2>1. TypeOK'
    BY <1>0, <1>7 DEF ScanDue, LoseMessage, TypeOK
  <2>2. Grows /\ ExecutedIsReserved' /\ AnnouncedAsSettled'
    BY <1>0, <1>7 DEF ScanDue, LoseMessage, Grows, ExecutedIsReserved, Reserved, AnnouncedAsSettled
  <2> QED  BY <1>7, <2>1, <2>2, Alone DEF ScanDue, LoseMessage
<1>8. ASSUME NEW r \in Refunds, Retry(r) PROVE IInv'
  <2>1. TypeOK'
    <3>1. refund' \in [Refunds -> Rows]
      BY <1>0, <1>8 DEF Retry, TypeOK, Rows, Statuses
    <3> QED  BY <1>0, <1>8, <3>1 DEF Retry, TypeOK
  <2>2. Grows /\ ExecutedIsReserved' /\ AnnouncedAsSettled'
    BY <1>0, <1>8 DEF Retry, TypeOK, Rows, Grows, ExecutedIsReserved, Reserved, AnnouncedAsSettled
  <2> QED  BY <1>8, <2>1, <2>2, Alone DEF Retry
<1>9. CASE UNCHANGED vars
  <2>1. TypeOK' /\ Grows /\ ExecutedIsReserved' /\ AnnouncedAsSettled'
    BY <1>0, <1>9 DEF vars, TypeOK, Grows, ExecutedIsReserved, Reserved, AnnouncedAsSettled
  <2> QED  BY <1>9, <2>1, Alone DEF vars
<1> QED  BY <1>1, <1>2, <1>3, <1>4, <1>5, <1>6, <1>7, <1>8, <1>9 DEF Next

LEMMA Invariant == Spec => []IInv
BY InitIInv, NextIInv, PTL DEF Spec

-----------------------------------------------------------------------------
\* The refunds whose money has left or may still leave.  The reservations are no
\* bound for them, Retry reserves again what others took meanwhile; but it does so
\* for refunds that failed for good, and those are not alive.
Alive == {r \in Refunds : refund[r].status # "none" /\ provider[r] # "failed"}

AliveWithinPaid == Amounts(Alive) <= Paid

LEMMA AmountsAreSums == \A S : Amounts(S) = SumOf(Amount, S)
BY DEF Amounts, SumOf

LEMMA AmountsMonotone ==
  ASSUME NEW S \in SUBSET Refunds, NEW R \in SUBSET S
  PROVE  Amounts(R) <= Amounts(S) /\ Amounts(R) \in Nat
BY RefundsAssumption, AmountsAreSums, SumSubset, SumNat, FS_Subset

\* Only Reserve brings a refund to life.
LEMMA AliveShrinks ==
  ASSUME IInv, [Next]_vars, ~ \E h \in Handlers, r \in Refunds : Reserve(h, r)
  PROVE  Alive' \subseteq Alive
<1> USE DEF Alive, At, Of
<1>0. TypeOK
  BY DEF IInv
<1>1. ASSUME NEW h \in Handlers, Step(h) PROVE Alive' \subseteq Alive
  <2>1. HandlerInv(h)
    BY DEF IInv
  <2> DEFINE r == call[h].refund
  <2>2. r \in Refunds /\ refund[r].status # "none"
    BY <1>1, <2>1 DEF Step, CallProvider, CallFails, ApplyResult, ScheduleRetry, RecordEvent, HandlerInv
  <2>3. CASE CallProvider(h) \/ CallFails(h)
    <3>1. PICK fate : /\ provider' = [provider EXCEPT ![r] = fate]
                      /\ provider[r] # "none" => fate = provider[r]
      BY <2>3 DEF CallProvider, CallFails
    <3>2. UNCHANGED refund
      BY <2>3 DEF CallProvider, CallFails
    <3> QED  BY <1>0, <2>2, <3>1, <3>2 DEF TypeOK
  <2>4. CASE ApplyResult(h)
    BY <1>0, <2>2, <2>4 DEF ApplyResult, TypeOK
  <2>5. CASE ScheduleRetry(h)
    BY <1>0, <2>2, <2>5 DEF ScheduleRetry, TypeOK, Rows
  <2>6. CASE RecordEvent(h)
    BY <2>6 DEF RecordEvent
  <2> QED  BY <1>1, <2>3, <2>4, <2>5, <2>6 DEF Step
<1>2. ASSUME NEW h \in Handlers, Abort(h) PROVE Alive' \subseteq Alive
  BY <1>2 DEF Abort
<1>3. ASSUME NEW h \in Handlers, NEW r \in Refunds, Process(h, r) PROVE Alive' \subseteq Alive
  BY <1>3 DEF Process
<1>4. ASSUME NEW r \in Refunds, ProviderSettles(r) PROVE Alive' \subseteq Alive
  BY <1>0, <1>4 DEF ProviderSettles, TypeOK
<1>5. ASSUME NEW r \in Refunds, TimePasses(r) \/ Retry(r) PROVE Alive' \subseteq Alive
  BY <1>0, <1>5 DEF TimePasses, Retry, TypeOK, Rows
<1>6. ASSUME NEW r \in Refunds, ScanDue(r) \/ LoseMessage(r) PROVE Alive' \subseteq Alive
  BY <1>6 DEF ScanDue, LoseMessage
<1>7. CASE UNCHANGED vars
  BY <1>7 DEF vars
<1> QED  BY <1>1, <1>2, <1>3, <1>4, <1>5, <1>6, <1>7 DEF Next

LEMMA NextAliveWithinPaid ==
  ASSUME IInv, AliveWithinPaid, [Next]_vars
  PROVE  AliveWithinPaid'
<1>0. Alive \subseteq Refunds /\ Paid \in Nat
  BY RefundsAssumption DEF Alive
<1>1. CASE \E h \in Handlers, r \in Refunds : Reserve(h, r)
  <2>1. PICK h \in Handlers, r \in Refunds : Reserve(h, r)
    BY <1>1
  <2>2. Alive \subseteq Reserved
    BY DEF Alive, Reserved, IInv, TypeOK, Rows, Statuses, AnnouncedAsSettled
  <2>3. r \notin Reserved /\ Amount[r] <= Paid - Amounts(Reserved) /\ Reserved \subseteq Refunds
    BY <2>1 DEF Reserve, Reserved
  <2>4. Alive' \subseteq Reserved \cup {r}
    BY <2>1, <2>2 DEF Reserve, Alive, IInv, TypeOK
  <2>5. Amounts(Reserved \cup {r}) = Amount[r] + Amounts(Reserved)
    <3>1. IsFiniteSet(Reserved) /\ \A q \in Reserved \cup {r} : Amount[q] \in Nat
      BY <2>3, RefundsAssumption, FS_Subset
    <3> QED  BY <2>3, <3>1, AmountsAreSums, SumAdd
  <2>6. Amounts(Reserved) \in Nat /\ Amount[r] \in Nat
    BY <2>3, AmountsMonotone, RefundsAssumption
  <2>7. Amounts(Alive') <= Amounts(Reserved \cup {r}) /\ Amounts(Alive') \in Nat
    BY <2>3, <2>4, AmountsMonotone
  <2> QED  BY <1>0, <2>3, <2>5, <2>6, <2>7 DEF AliveWithinPaid
<1>2. CASE ~ \E h \in Handlers, r \in Refunds : Reserve(h, r)
  <2>1. Alive' \subseteq Alive
    BY <1>2, AliveShrinks
  <2>2. Amounts(Alive') <= Amounts(Alive) /\ Amounts(Alive') \in Nat /\ Amounts(Alive) \in Nat
    BY <1>0, <2>1, AmountsMonotone
  <2> QED  BY <1>0, <2>2 DEF AliveWithinPaid
<1> QED  BY <1>1, <1>2

\* The provider is never made to pay back more than was paid, for any number of
\* refunds and any amounts (Reserve and what follows its transaction).
THEOREM WithinPaid == Spec => []RefundedWithinPaid
<1> DEFINE Executed == {r \in Refunds : provider[r] \in {"processing", "succeeded", "mismatched"}}
<1>1. Init => AliveWithinPaid
  <2> SUFFICES ASSUME Init PROVE AliveWithinPaid
    OBVIOUS
  <2>1. Alive = {}
    BY DEF Init, Alive, NoRow
  <2> QED  BY <2>1, AmountsAreSums, SumEmpty, RefundsAssumption DEF AliveWithinPaid
<1>2. IInv /\ AliveWithinPaid => RefundedWithinPaid
  <2> SUFFICES ASSUME IInv, AliveWithinPaid PROVE Amounts(Executed) <= Paid
    BY DEF RefundedWithinPaid
  <2>1. Executed \subseteq Alive /\ Alive \subseteq Refunds
    BY DEF Alive, IInv, ExecutedIsReserved, Reserved
  <2>2. Amounts(Executed) <= Amounts(Alive) /\ Amounts(Executed) \in Nat /\ Amounts(Alive) \in Nat
    BY <2>1, AmountsMonotone
  <2> QED  BY <2>2, RefundsAssumption DEF AliveWithinPaid
<1>3. IInv /\ AliveWithinPaid /\ [Next]_vars => AliveWithinPaid'
  BY NextAliveWithinPaid
<1> QED  BY <1>1, <1>2, <1>3, Invariant, PTL DEF Spec

-----------------------------------------------------------------------------
\* Type correctness of every reachable state.
THEOREM TypeCorrect == Spec => []TypeOK
<1>1. IInv => TypeOK
  BY DEF IInv
<1> QED  BY Invariant, <1>1, PTL

\* No crash, lost answer, retry or stale write releases money that may leave.
THEOREM ExecutedReserved == Spec => []ExecutedIsReserved
<1>1. IInv => ExecutedIsReserved
  BY DEF IInv
<1> QED  BY Invariant, <1>1, PTL

\* The gateway settles and announces a refund only as the provider settled it.
THEOREM AnnouncedSettled == Spec => []AnnouncedAsSettled
<1>1. IInv => AnnouncedAsSettled
  BY DEF IInv
<1> QED  BY Invariant, <1>1, PTL

-----------------------------------------------------------------------------
(* What holds in place of SucceededIsAnnounced. *)

\* The event of a settled refund is recorded, or a handler is about to record it.
EventOf(a) == IF a = "succeeded" THEN "refund.succeeded" ELSE "refund.failed"
Announcing(r) == \E h \in Handlers : /\ At(h, "event") /\ Of(h) = r
                                    /\ call[h].answer = refund[r].status
AnnouncedOrAnnouncing ==
  faults = 0 =>
    \A r \in Refunds : refund[r].status \in {"succeeded", "failed"} =>
      EventOf(refund[r].status) \in events[r] \/ Announcing(r)

\* The row stays as settled, and nobody who is about to announce it gives up.
LEMMA StaysAnnounced ==
  ASSUME NEW r \in Refunds, EventOf(refund[r].status) \in events[r] \/ Announcing(r),
         refund'[r].status = refund[r].status, events[r] \subseteq events'[r],
         \A h \in Handlers : At(h, "event") => call'[h] = call[h]
  PROVE  EventOf(refund'[r].status) \in events'[r] \/ Announcing(r)'
BY DEF Announcing, At, Of

LEMMA NextAnnounced ==
  ASSUME IInv, AnnouncedOrAnnouncing, [Next]_vars
  PROVE  AnnouncedOrAnnouncing'
<1> USE DEF budget
<1>0. TypeOK /\ faults \in Nat
  BY RefundsAssumption DEF IInv, TypeOK
<1> SUFFICES ASSUME faults' = 0, NEW r \in Refunds, refund'[r].status \in {"succeeded", "failed"}
             PROVE  EventOf(refund'[r].status) \in events'[r] \/ Announcing(r)'
  BY DEF AnnouncedOrAnnouncing, Announcing
<1> DEFINE Goal == EventOf(refund'[r].status) \in events'[r] \/ Announcing(r)'
           Kept == /\ refund'[r].status = refund[r].status /\ events[r] \subseteq events'[r]
                   /\ \A h \in Handlers : At(h, "event") => call'[h] = call[h]
<1>c. faults = 0
  <2>1. ASSUME NEW h \in Handlers, Step(h) \/ Abort(h) PROVE faults = 0
    BY <1>0, <2>1 DEF Step, CallProvider, CallFails, ApplyResult, ScheduleRetry, RecordEvent, Abort
  <2>2. ASSUME NEW h \in Handlers, NEW q \in Refunds, Reserve(h, q) \/ Process(h, q) PROVE faults = 0
    BY <2>2 DEF Reserve, Process
  <2>3. ASSUME NEW q \in Refunds, \/ ProviderSettles(q) \/ TimePasses(q) \/ ScanDue(q)
                                  \/ Retry(q) \/ LoseMessage(q)
        PROVE  faults = 0
    BY <1>0, <2>3 DEF ProviderSettles, TimePasses, ScanDue, Retry, LoseMessage
  <2>4. CASE UNCHANGED vars
    BY <2>4 DEF vars
  <2> QED  BY <2>1, <2>2, <2>3, <2>4 DEF Next
<1>k. Kept => Goal
  BY <1>c, StaysAnnounced DEF AnnouncedOrAnnouncing
<1>1. ASSUME NEW h \in Handlers, CallProvider(h) PROVE Kept
  BY <1>0, <1>1 DEF CallProvider, At, TypeOK
<1>2. ASSUME NEW h \in Handlers, ApplyResult(h) PROVE Goal
  <2>1. CASE Of(h) = r
    <3>1. refund'[r].status = Outcome(call[h].answer)
      BY <1>0, <1>2, <2>1 DEF ApplyResult, TypeOK
    <3>2. call[h].answer = refund'[r].status
      BY <3>1 DEF Outcome
    <3>3. call' = [call EXCEPT ![h].pc = "event"]
      <4>1. Outcome(call[h].answer) # "pending" /\ call[h].answer # "error"
        BY <3>1, <3>2
      <4> QED  BY <1>2, <4>1 DEF ApplyResult, Finish
    <3>4. call'[h].pc = "event" /\ call'[h].refund = r /\ call'[h].answer = call[h].answer
      BY <1>0, <2>1, <3>3 DEF Of, TypeOK, Calls
    <3> QED  BY <3>2, <3>4 DEF Announcing, At, Of
  <2>2. CASE Of(h) # r
    <3>1. Kept
      BY <1>0, <1>2, <2>2 DEF ApplyResult, Finish, At, TypeOK
    <3> QED  BY <1>k, <3>1
  <2> QED  BY <2>1, <2>2
<1>3. ASSUME NEW h \in Handlers, ScheduleRetry(h) PROVE Kept
  <2>1. CASE Of(h) = r
    BY <1>0, <1>3, <2>1 DEF ScheduleRetry, TypeOK, Rows
  <2>2. CASE Of(h) # r
    BY <1>0, <1>3, <2>2 DEF ScheduleRetry, Finish, At, TypeOK
  <2> QED  BY <2>1, <2>2
<1>4. ASSUME NEW h \in Handlers, RecordEvent(h) PROVE Goal
  <2>1. /\ UNCHANGED refund /\ events[r] \subseteq events'[r]
        /\ \A g \in Handlers \ {h} : call'[g] = call[g]
    BY <1>0, <1>4 DEF RecordEvent, Finish, TypeOK
  <2>2. CASE Of(h) = r /\ call[h].answer = refund[r].status
    BY <1>0, <1>4, <2>1, <2>2 DEF RecordEvent, EventOf, TypeOK
  <2>3. CASE ~(Of(h) = r /\ call[h].answer = refund[r].status)
    BY <1>c, <2>1, <2>3 DEF AnnouncedOrAnnouncing, Announcing, At, Of
  <2> QED  BY <2>2, <2>3
<1>5. ASSUME NEW h \in Handlers, CallFails(h) \/ Abort(h) PROVE FALSE
  BY <1>0, <1>c, <1>5 DEF CallFails, Abort
<1>6. ASSUME NEW h \in Handlers, NEW q \in Refunds, Reserve(h, q) PROVE Kept
  BY <1>0, <1>6 DEF Reserve, Serve, NoRow, At, TypeOK
<1>7. ASSUME NEW h \in Handlers, NEW q \in Refunds, Process(h, q) PROVE Kept
  BY <1>0, <1>7 DEF Process, Serve, At, TypeOK
<1>8. ASSUME NEW q \in Refunds, ProviderSettles(q) \/ ScanDue(q) \/ LoseMessage(q) PROVE Kept
  BY <1>8 DEF ProviderSettles, ScanDue, LoseMessage
<1>9. ASSUME NEW q \in Refunds, TimePasses(q) \/ Retry(q) PROVE Kept
  BY <1>0, <1>9 DEF TimePasses, Retry, TypeOK, Rows
<1>10. CASE UNCHANGED vars
  BY <1>k, <1>10 DEF vars
<1> QED
  BY <1>k, <1>1, <1>2, <1>3, <1>4, <1>5, <1>6, <1>7, <1>8, <1>9, <1>10 DEF Next, Step

\* A settled refund stays unannounced only where a call failed or a process died: in a
\* run without faults its event is recorded, or its handler is the next to do it
\* (Process and CreateRefund, which commit the row before they record the event).
THEOREM UnannouncedByFaultOnly == Spec => []AnnouncedOrAnnouncing
<1>1. Init => AnnouncedOrAnnouncing
  BY DEF Init, NoRow, AnnouncedOrAnnouncing
<1>2. IInv /\ AnnouncedOrAnnouncing /\ [Next]_vars => AnnouncedOrAnnouncing'
  BY NextAnnounced
<1> QED  BY <1>1, <1>2, Invariant, PTL DEF Spec

=============================================================================
