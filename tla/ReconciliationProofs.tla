------------------------ MODULE ReconciliationProofs -------------------------
(***************************************************************************)
(* Theorems about Reconciliation, for every set of workers and every bound.*)
(***************************************************************************)
EXTENDS Reconciliation, FiniteSetTheorems, TLAPS

\* A worker holds an attempt below the limit, and what it is about to record or
\* resolve is decided.
WorkerInv(w) ==
  LET c == call[w]
  IN  /\ c.attempts < MaxAttempts
      /\ c.pc \in {"record", "resolve"} => status # "pending"

\* A record that is open has attempts left.
AttemptsLeft == recon.status \in {"none", "pending", "processing"} => recon.attempts < MaxAttempts

IInv == TypeOK /\ ResolvedIsDecided /\ AttemptsLeft /\ \A w \in Workers : WorkerInv(w)

\* What no step undoes: a decided order stays decided.
Grows == status # "pending" => status' # "pending"

\* A worker that does not move keeps its invariant.
LEMMA Stable ==
  ASSUME NEW w \in Workers, WorkerInv(w), call'[w] = call[w], Grows
  PROVE  WorkerInv(w)'
BY DEF WorkerInv, Grows

LEMMA IdleInv == ASSUME NEW w \in Workers, call'[w] = Idle PROVE WorkerInv(w)'
BY ReconciliationAssumption DEF WorkerInv, Idle

LEMMA IdleTyped == Idle \in Calls
BY ReconciliationAssumption DEF Idle, Calls, Trades

\* A step of the lifecycle keeps the order typed and decided.
LEMMA OrderSteps ==
  ASSUME Order!TypeOK, Order!Next \/ UNCHANGED order
  PROVE  Order!TypeOK' /\ Grows
BY DEF Order!TypeOK, Order!Next, Order!Pay, Order!FailPayment, Order!Close, Order!Expire,
       Order!CloseQuietly, Order!AnnouncePaid, Order!AnnounceFailed, Order!Statuses,
       Order!EventTypes, Grows, order

LEMMA InitIInv == Init => IInv
<1> SUFFICES ASSUME Init PROVE IInv
  OBVIOUS
<1> USE ReconciliationAssumption
<1>1. Order!TypeOK
  BY DEF Init, Order!Init, Order!TypeOK, Order!Statuses, Order!EventTypes
<1>2. TypeOK
  <2>1. channel \in Channels /\ expired \in BOOLEAN /\ scanned \in BOOLEAN /\ trade \in Trades
    BY DEF Init, Channels, Trades
  <2>2. recon \in Records
    BY DEF Init, Records, NoRecord
  <2>3. call \in [Workers -> Calls]
    BY IdleTyped DEF Init
  <2>4. queue \in 0..MaxQueue /\ faults \in 0..MaxFaults /\ retries \in 0..MaxRetries
    BY DEF Init
  <2> QED  BY <1>1, <2>1, <2>2, <2>3, <2>4 DEF TypeOK
<1>3. ResolvedIsDecided /\ AttemptsLeft /\ \A w \in Workers : WorkerInv(w)
  BY DEF Init, NoRecord, ResolvedIsDecided, AttemptsLeft, WorkerInv, Idle
<1> QED  BY <1>2, <1>3 DEF IInv

\* One step of a worker that made a claim.
LEMMA StepIInv ==
  ASSUME IInv, NEW w \in Workers, Step(w)
  PROVE  IInv'
<1> USE ReconciliationAssumption DEF world, budget, NotOrder, At
<1>0. /\ TypeOK /\ ResolvedIsDecided /\ AttemptsLeft /\ WorkerInv(w)
      /\ Order!TypeOK /\ call[w] \in Calls /\ call \in [Workers -> Calls]
  BY DEF IInv, TypeOK
<1>q. ASSUME Order!TypeOK', Grows, call' \in [Workers -> Calls], WorkerInv(w)',
             trade' \in Trades, recon' \in Records, ResolvedIsDecided', AttemptsLeft',
             channel' = channel, expired' = expired, scanned' = scanned, queue' = queue, retries' = retries,
             faults' \in 0..MaxFaults,
             \A v \in Workers \ {w} : call'[v] = call[v]
      PROVE  IInv'
  <2>1. \A v \in Workers : WorkerInv(v)'
    BY <1>q, Stable DEF IInv
  <2>2. TypeOK'
    BY <1>0, <1>q DEF TypeOK
  <2> QED  BY <1>q, <2>1, <2>2 DEF IInv
<1>f. 0..MaxFaults = 0..MaxFaults /\ faults \in 0..MaxFaults /\ trade \in Trades /\ recon \in Records
  BY <1>0 DEF TypeOK
<1>1. CASE FindOrder(w)
  <2>1. UNCHANGED order
    BY <1>1 DEF FindOrder
  <2>2. call' \in [Workers -> Calls] /\ \A v \in Workers \ {w} : call'[v] = call[v]
    BY <1>0, <1>1 DEF FindOrder, Goto, Calls
  <2>3. WorkerInv(w)'
    BY <1>0, <1>1, <2>1 DEF FindOrder, Goto, WorkerInv, order
  <2>4. ResolvedIsDecided' /\ AttemptsLeft'
    BY <1>0, <1>1, <2>1 DEF FindOrder, ResolvedIsDecided, AttemptsLeft, order
  <2> QED  BY <1>0, <1>f, <1>1, <1>q, <2>1, <2>2, <2>3, <2>4, OrderSteps DEF FindOrder
<1>2. CASE Query(w)
  <2>1. UNCHANGED order
    BY <1>2 DEF Query
  <2>2. call' \in [Workers -> Calls] /\ \A v \in Workers \ {w} : call'[v] = call[v]
    BY <1>0, <1>f, <1>2 DEF Query, Calls
  <2>3. WorkerInv(w)'
    BY <1>0, <1>2, <2>1 DEF Query, WorkerInv, order, Calls
  <2>4. ResolvedIsDecided' /\ AttemptsLeft'
    BY <1>0, <1>2, <2>1 DEF Query, ResolvedIsDecided, AttemptsLeft, order
  <2> QED  BY <1>0, <1>f, <1>2, <1>q, <2>1, <2>2, <2>3, <2>4, OrderSteps DEF Query
<1>3. CASE AttemptFails(w)
  <2>1. UNCHANGED order
    BY <1>3 DEF AttemptFails
  <2>2. call' \in [Workers -> Calls] /\ \A v \in Workers \ {w} : call'[v] = call[v]
    BY <1>0, <1>3 DEF AttemptFails, Goto, Calls
  <2>3. WorkerInv(w)'
    BY <1>0, <1>3, <2>1 DEF AttemptFails, Goto, WorkerInv, order
  <2>4. ResolvedIsDecided' /\ AttemptsLeft' /\ faults' \in 0..MaxFaults
    BY <1>0, <1>f, <1>3, <2>1 DEF AttemptFails, ResolvedIsDecided, AttemptsLeft, order
  <2> QED  BY <1>0, <1>f, <1>3, <1>q, <2>1, <2>2, <2>3, <2>4, OrderSteps DEF AttemptFails
<1>4. CASE Apply(w)
  <2>1. Order!Next \/ UNCHANGED order
    BY <1>4 DEF Apply, Order!Next
  <2>2. call' \in [Workers -> Calls] /\ \A v \in Workers \ {w} : call'[v] = call[v]
    BY <1>0, <1>4 DEF Apply, Goto, Calls
  <2>3. WorkerInv(w)'
    BY <1>0, <1>4 DEF Apply, Goto, WorkerInv, order, Order!Pay, Order!FailPayment,
                      Order!CloseQuietly, Calls, Trades
  <2>4. ResolvedIsDecided' /\ AttemptsLeft'
    BY <1>0, <1>4, <2>1, OrderSteps DEF Apply, ResolvedIsDecided, AttemptsLeft, Grows
  <2> QED  BY <1>0, <1>f, <1>4, <1>q, <2>1, <2>2, <2>3, <2>4, OrderSteps DEF Apply
<1>5. CASE Record(w)
  <2>1. Order!TypeOK' /\ Grows
    BY <1>0, <1>5 DEF Record, Order!TypeOK, Order!EventTypes, Grows
  <2>2. call' \in [Workers -> Calls] /\ \A v \in Workers \ {w} : call'[v] = call[v]
    BY <1>0, <1>5 DEF Record, Goto, Calls
  <2>3. WorkerInv(w)'
    BY <1>0, <1>5 DEF Record, Goto, WorkerInv
  <2>4. ResolvedIsDecided' /\ AttemptsLeft'
    BY <1>0, <1>5 DEF Record, ResolvedIsDecided, AttemptsLeft
  <2> QED  BY <1>0, <1>f, <1>5, <1>q, <2>1, <2>2, <2>3, <2>4 DEF Record
<1>6. CASE CloseTrade(w)
  <2>1. UNCHANGED order /\ trade' \in Trades
    BY <1>f, <1>6 DEF CloseTrade, Trades
  <2>2. call' \in [Workers -> Calls] /\ \A v \in Workers \ {w} : call'[v] = call[v]
    BY <1>0, <1>6 DEF CloseTrade, Goto, Calls
  <2>3. WorkerInv(w)'
    <3>1. call'[w].attempts = call[w].attempts /\ call'[w].pc \in {"expire", "reschedule"}
      BY <1>0, <1>6 DEF CloseTrade, Goto, Calls
    <3> QED  BY <1>0, <3>1 DEF WorkerInv
  <2>4. ResolvedIsDecided' /\ AttemptsLeft'
    BY <1>0, <1>6, <2>1 DEF CloseTrade, ResolvedIsDecided, AttemptsLeft, order
  <2> QED  BY <1>0, <1>f, <1>6, <1>q, <2>1, <2>2, <2>3, <2>4, OrderSteps DEF CloseTrade
<1>7. CASE Expire(w)
  <2>1. Order!Next \/ UNCHANGED order
    BY <1>7 DEF Expire, Order!Next
  <2>2. call' \in [Workers -> Calls] /\ \A v \in Workers \ {w} : call'[v] = call[v]
    BY <1>0, <1>7 DEF Expire, Goto, Calls
  <2>3. WorkerInv(w)'
    <3>1. /\ call'[w].attempts = call[w].attempts
          /\ \/ call'[w].pc = "reschedule"
             \/ call'[w].pc = "resolve" /\ status' # "pending"
      BY <1>0, <1>7 DEF Expire, Goto, Calls, Order!Expire
    <3> QED  BY <1>0, <3>1 DEF WorkerInv
  <2>4. ResolvedIsDecided' /\ AttemptsLeft'
    BY <1>0, <1>7, <2>1, OrderSteps DEF Expire, ResolvedIsDecided, AttemptsLeft, Grows
  <2> QED  BY <1>0, <1>f, <1>7, <1>q, <2>1, <2>2, <2>3, <2>4, OrderSteps DEF Expire
<1>8. CASE Resolve(w) \/ Reschedule(w)
  <2>1. UNCHANGED order
    BY <1>8 DEF Resolve, Reschedule
  <2>2. call' \in [Workers -> Calls] /\ call'[w] = Idle
        /\ \A v \in Workers \ {w} : call'[v] = call[v]
    BY <1>0, <1>8, IdleTyped DEF Resolve, Reschedule, Finish
  <2>3. call[w].attempts + 1 \in 0..MaxAttempts
    BY <1>0 DEF WorkerInv, Calls
  <2>4. recon' \in Records
    BY <1>f, <1>8, <2>3 DEF Resolve, Reschedule, Records
  <2>5. ResolvedIsDecided'
    BY <1>0, <1>f, <1>8, <2>1 DEF Resolve, Reschedule, ResolvedIsDecided, WorkerInv, Records, order
  <2>6. AttemptsLeft'
    <3>1. CASE Resolve(w)
      BY <1>f, <3>1 DEF Resolve, AttemptsLeft, Records
    <3>2. CASE Reschedule(w)
      <4>1. recon'.attempts = call[w].attempts + 1
        BY <1>f, <3>2 DEF Reschedule, Records
      <4>2. recon'.status = IF call[w].attempts + 1 >= MaxAttempts
                              THEN "manual_required" ELSE "pending"
        BY <1>f, <3>2 DEF Reschedule, Records
      <4> QED  BY <2>3, <4>1, <4>2 DEF AttemptsLeft
    <3> QED  BY <1>8, <3>1, <3>2
  <2> QED  BY <1>0, <1>f, <1>8, <1>q, <2>1, <2>2, <2>4, <2>5, <2>6, IdleInv, OrderSteps
           DEF Resolve, Reschedule
<1> QED  BY <1>1, <1>2, <1>3, <1>4, <1>5, <1>6, <1>7, <1>8 DEF Step

\* What the steps that only handle the record and its messages keep.
RecordInv == recon \in Records /\ AttemptsLeft /\ (recon.status = "resolved" => status # "pending")
BoundsInv == queue \in 0..MaxQueue /\ faults \in 0..MaxFaults /\ retries \in 0..MaxRetries

LEMMA RecordSteps ==
  ASSUME TypeOK, ResolvedIsDecided, AttemptsLeft,
         \/ EnsureForOrder \/ RequestActiveQuery \/ RequestFails \/ TimePasses \/ ScanDue
         \/ RecoverStale \/ Retry \/ LoseMessage
  PROVE  UNCHANGED <<order, channel, expired, scanned, trade, call>> /\ RecordInv' /\ BoundsInv'
<1> USE ReconciliationAssumption DEF world, budget, At
<1>0. recon \in Records /\ BoundsInv
  BY DEF TypeOK, BoundsInv
<1>1. CASE EnsureForOrder
  <2>1. recon' \in Records /\ recon'.status = "pending" /\ recon'.attempts = 0
    <3>1. recon' = [status |-> "pending", attempts |-> 0, next |-> "later", active |-> FALSE]
      BY <1>1 DEF EnsureForOrder, NoRecord
    <3> QED  BY <3>1 DEF Records
  <2>2. UNCHANGED <<order, channel, expired, scanned, trade, call>> /\ BoundsInv'
    BY <1>0, <1>1 DEF EnsureForOrder, BoundsInv
  <2> QED  BY <2>1, <2>2 DEF RecordInv, AttemptsLeft
<1>2. CASE RequestActiveQuery \/ RequestFails
  <2>1. /\ recon' \in Records /\ recon'.status = "pending" /\ recon'.attempts = recon.attempts
        /\ recon.status = "pending"
    BY <1>0, <1>2 DEF RequestActiveQuery, RequestFails, Records
  <2>2. UNCHANGED <<order, channel, expired, scanned, trade, call>>
    BY <1>2 DEF RequestActiveQuery, RequestFails
  <2>3. BoundsInv'
    <3>1. CASE RequestActiveQuery
      <4>1. queue' = (IF queue < MaxQueue THEN queue + 1 ELSE queue) /\ UNCHANGED <<faults, retries>>
        BY <3>1 DEF RequestActiveQuery, Enqueue
      <4> QED  BY <1>0, <4>1 DEF BoundsInv
    <3>2. CASE RequestFails
      <4>1. faults < MaxFaults /\ faults' = faults + 1 /\ UNCHANGED <<queue, retries>>
        BY <3>2 DEF RequestFails
      <4> QED  BY <1>0, <4>1 DEF BoundsInv
    <3> QED  BY <1>2, <3>1, <3>2
  <2> QED  BY <2>1, <2>2, <2>3 DEF RecordInv, AttemptsLeft
<1>3. CASE TimePasses
  <2>1. recon' \in Records /\ recon'.status = recon.status /\ recon'.attempts = recon.attempts
    BY <1>0, <1>3 DEF TimePasses, Records
  <2> QED  BY <1>0, <1>3, <2>1
           DEF TimePasses, RecordInv, BoundsInv, AttemptsLeft, ResolvedIsDecided, order
<1>4. CASE ScanDue \/ LoseMessage
  BY <1>0, <1>4 DEF ScanDue, LoseMessage, RecordInv, BoundsInv, AttemptsLeft,
                    ResolvedIsDecided, order
<1>5. CASE RecoverStale
  <2>1. /\ recon' \in Records /\ recon'.status = "pending" /\ recon'.attempts = recon.attempts
        /\ recon.status = "processing"
    BY <1>0, <1>5 DEF RecoverStale, Records
  <2>2. UNCHANGED <<order, channel, expired, scanned, trade, call>> /\ BoundsInv'
    BY <1>0, <1>5 DEF RecoverStale, BoundsInv
  <2> QED  BY <2>1, <2>2 DEF RecordInv, AttemptsLeft
<1>6. CASE Retry
  <2>1. recon' \in Records /\ recon'.status = "pending" /\ recon'.attempts = 0
    <3>1. recon' = [status |-> "pending", attempts |-> 0, next |-> "due", active |-> recon.active]
      BY <1>0, <1>6 DEF Retry, Records
    <3> QED  BY <1>0, <3>1 DEF Records
  <2>2. UNCHANGED <<order, channel, expired, scanned, trade, call>> /\ BoundsInv'
    BY <1>0, <1>6 DEF Retry, Enqueue, BoundsInv
  <2> QED  BY <2>1, <2>2 DEF RecordInv, AttemptsLeft
<1> QED  BY <1>1, <1>2, <1>3, <1>4, <1>5, <1>6

\* Every step keeps the invariant.
LEMMA NextIInv == IInv /\ [Next]_vars => IInv'
<1> SUFFICES ASSUME IInv, [Next]_vars PROVE IInv'
  OBVIOUS
<1> USE ReconciliationAssumption DEF world, budget, NotOrder, At
<1>0. TypeOK /\ ResolvedIsDecided /\ AttemptsLeft /\ Order!TypeOK
  BY DEF IInv, TypeOK
<1>q. ASSUME TypeOK', Grows, ResolvedIsDecided', AttemptsLeft', call' = call
      PROVE  IInv'
  BY <1>q, Stable DEF IInv
<1>1. CASE PayerActs \/ CapturePaypal \/ DeadlinePasses
  <2>1. UNCHANGED <<order, recon, queue, call>> /\ trade' \in Trades
    BY <1>0, <1>1 DEF PayerActs, CapturePaypal, DeadlinePasses, TypeOK, Trades
  <2>2. TypeOK'
    BY <1>0, <1>1, <2>1, OrderSteps DEF PayerActs, CapturePaypal, DeadlinePasses, TypeOK
  <2>3. Grows /\ ResolvedIsDecided' /\ AttemptsLeft'
    BY <1>0, <2>1 DEF Grows, ResolvedIsDecided, AttemptsLeft, order
  <2> QED  BY <1>q, <2>1, <2>2, <2>3
<1>2. CASE OtherRequests
  <2>1. Order!Next /\ UNCHANGED <<channel, expired, scanned, trade, recon, queue, call, faults, retries>>
    BY <1>2 DEF OtherRequests, Order!Next
  <2>2. Order!TypeOK' /\ Grows
    BY <1>0, <2>1, OrderSteps
  <2>3. TypeOK'
    BY <1>0, <2>1, <2>2 DEF TypeOK
  <2>4. ResolvedIsDecided' /\ AttemptsLeft'
    BY <1>0, <2>1, <2>2 DEF Grows, ResolvedIsDecided, AttemptsLeft
  <2> QED  BY <1>q, <2>1, <2>2, <2>3, <2>4
<1>3. CASE \/ EnsureForOrder \/ RequestActiveQuery \/ RequestFails \/ TimePasses \/ ScanDue
           \/ RecoverStale \/ Retry \/ LoseMessage
  <2>1. UNCHANGED <<order, channel, expired, scanned, trade, call>> /\ RecordInv' /\ BoundsInv'
    BY <1>0, <1>3, RecordSteps
  <2>2. TypeOK' /\ Grows
    BY <1>0, <2>1, OrderSteps DEF TypeOK, RecordInv, BoundsInv
  <2>3. ResolvedIsDecided' /\ AttemptsLeft'
    BY <2>1 DEF RecordInv, ResolvedIsDecided
  <2> QED  BY <1>q, <2>1, <2>2, <2>3
<1>4. ASSUME NEW w \in Workers, Claim(w) PROVE IInv'
  <2>1. UNCHANGED <<order, channel, expired, scanned, trade, faults, retries>>
    BY <1>4 DEF Claim
  <2>2. recon' \in Records /\ queue' \in 0..MaxQueue
    BY <1>0, <1>4 DEF Claim, TypeOK, Records
  <2>3. ResolvedIsDecided' /\ AttemptsLeft'
    BY <1>0, <1>4, <2>1 DEF Claim, TypeOK, Records, ResolvedIsDecided, AttemptsLeft, order
  <2>4. CASE recon.status = "pending"
    <3>1. call' = [call EXCEPT ![w] = [pc |-> "order", attempts |-> recon.attempts,
                                       late |-> expired, result |-> "open"]]
      BY <1>4, <2>4 DEF Claim
    <3>2. call' \in [Workers -> Calls]
      BY <1>0, <3>1 DEF TypeOK, Calls, Records, Trades
    <3>3. WorkerInv(w)'
      BY <1>0, <2>4, <3>1 DEF TypeOK, WorkerInv, AttemptsLeft
    <3>4. TypeOK' /\ Grows
      BY <1>0, <2>1, <2>2, <3>2, OrderSteps DEF TypeOK
    <3>5. \A v \in Workers : WorkerInv(v)'
      BY <1>0, <3>1, <3>3, <3>4, Stable DEF IInv, TypeOK
    <3> QED  BY <2>3, <3>4, <3>5 DEF IInv
  <2>5. CASE recon.status # "pending"
    <3>1. call' = call
      BY <1>4, <2>5 DEF Claim
    <3>2. TypeOK' /\ Grows
      BY <1>0, <2>1, <2>2, <3>1, OrderSteps DEF TypeOK
    <3> QED  BY <1>q, <2>3, <3>1, <3>2
  <2> QED  BY <2>4, <2>5
<1>5. ASSUME NEW w \in Workers, Step(w) PROVE IInv'
  BY <1>5, StepIInv
<1>6. ASSUME NEW w \in Workers, Crash(w) PROVE IInv'
  <2>1. UNCHANGED <<order, channel, expired, scanned, trade, recon, queue, retries>>
    BY <1>6 DEF Crash
  <2>2. /\ call' \in [Workers -> Calls] /\ call'[w] = Idle
        /\ \A v \in Workers \ {w} : call'[v] = call[v]
    BY <1>0, <1>6, IdleTyped DEF Crash, Finish, TypeOK
  <2>3. TypeOK' /\ Grows
    BY <1>0, <1>6, <2>1, <2>2, OrderSteps DEF Crash, TypeOK
  <2>4. ResolvedIsDecided' /\ AttemptsLeft'
    BY <1>0, <2>1 DEF ResolvedIsDecided, AttemptsLeft, order
  <2>5. \A v \in Workers : WorkerInv(v)'
    BY <2>2, <2>3, IdleInv, Stable DEF IInv
  <2> QED  BY <2>3, <2>4, <2>5 DEF IInv
<1>7. CASE UNCHANGED vars
  <2>1. UNCHANGED <<order, channel, expired, scanned, trade, recon, queue, call, faults, retries>>
    BY <1>7 DEF vars
  <2>2. TypeOK' /\ Grows
    BY <1>0, <2>1, OrderSteps DEF TypeOK
  <2>3. ResolvedIsDecided' /\ AttemptsLeft'
    BY <1>0, <2>1 DEF ResolvedIsDecided, AttemptsLeft, order
  <2> QED  BY <1>q, <2>1, <2>2, <2>3
<1> QED  BY <1>1, <1>2, <1>3, <1>4, <1>5, <1>6, <1>7 DEF Next

LEMMA Invariant == Spec => []IInv
BY InitIInv, NextIInv, PTL DEF Spec

\* Type correctness of every reachable state; in particular no record makes more
\* than MaxAttempts attempts between two retries of the administrator.
THEOREM TypeCorrect == Spec => []TypeOK
<1>1. IInv => TypeOK
  BY DEF IInv
<1> QED  BY Invariant, <1>1, PTL

\* Reconciliation never resolves the record of a pending order.
THEOREM ResolvedDecided == Spec => []ResolvedIsDecided
<1>1. IInv => ResolvedIsDecided
  BY DEF IInv
<1> QED  BY Invariant, <1>1, PTL

-----------------------------------------------------------------------------
(* What the provider said, and who may act on it. *)

\* A failed order has its failed_at.
FailureIsStamped == status = "failed" => everFailed

\* What a worker carries is true of the trade and of the order, however late it is
\* used: paid and closed are the last words of a provider, paid and failed_at of a row.
Carries(w) ==
  /\ call[w].result = "paid" => trade = "paid"
  /\ At(w, "expire") /\ channel = "wechat" => trade = "closed"
  /\ At(w, "record") => \/ call[w].result = "paid" /\ status = "paid"
                        \/ call[w].result = "failed" /\ everFailed

Decisions == /\ DecidedLikeProvider /\ FailureIsStamped
             /\ channel = "wechat" => trade # "unstarted"
             /\ \A w \in Workers : Carries(w)

\* Without faults and retries a worker at work owns the record, alone.
Undisturbed == faults = 0 /\ retries = 0
OwnsRecord ==
  Undisturbed =>
    \A v \in Workers : ~At(v, "idle") =>
      recon.status = "processing" /\ \A w \in Workers : ~At(w, "idle") => v = w

\* The last words of the provider, of the order and of the announcements.
Lasts == /\ trade = "paid" => trade' = "paid"
         /\ trade = "closed" => trade' = "closed"
         /\ trade # "unstarted" => trade' # "unstarted"
         /\ status = "paid" => status' = "paid"
         /\ everFailed => everFailed'
         /\ channel' = channel /\ scanned' = scanned

LEMMA OrderLasts ==
  ASSUME Order!Next \/ UNCHANGED order, UNCHANGED <<channel, scanned, trade>>
  PROVE  Lasts
BY DEF Order!Next, Order!Pay, Order!FailPayment, Order!Close, Order!Expire, Order!CloseQuietly,
   Order!AnnouncePaid, Order!AnnounceFailed, order, Lasts

\* Steps that are neither the worker's own nor the provider's, seen by the order.
OthersOnly == \/ EnsureForOrder \/ RequestActiveQuery \/ RequestFails \/ TimePasses \/ ScanDue
              \/ RecoverStale \/ Retry \/ LoseMessage \/ DeadlinePasses
              \/ (\E w \in Workers : Claim(w) \/ Crash(w)) \/ UNCHANGED vars

LEMMA OthersLeaveOrder == ASSUME OthersOnly PROVE UNCHANGED <<order, channel, scanned, trade>>
BY DEF OthersOnly, EnsureForOrder, RequestActiveQuery, RequestFails, TimePasses, ScanDue,
   RecoverStale, Retry, LoseMessage, DeadlinePasses, Claim, Crash, world, vars

\* The handlers of a worker's step: it moves, the others do not.
LEMMA StepMovesOne ==
  ASSUME IInv, NEW w \in Workers, Step(w), NEW v \in Workers \ {w}
  PROVE  call'[v] = call[v]
BY DEF Step, FindOrder, Query, AttemptFails, Apply, Record, CloseTrade, Expire, Resolve, Reschedule,
   Goto, Finish, IInv, TypeOK

\* How the order and the trade change in a step of a worker.
LEMMA StepDecides ==
  ASSUME IInv, Decisions, NEW w \in Workers, Step(w)
  PROVE  /\ Lasts
         /\ Carries(w)'
         /\ status' = "paid" => trade' = "paid"
         /\ channel = "wechat" /\ ~scanned /\ "order.expired" \in announced' => trade' = "closed"
         /\ FailureIsStamped'
         /\ Order!Next \/ UNCHANGED order
<1> USE DEF world, budget, NotOrder, At
<1>0. /\ call[w] \in Calls /\ call \in [Workers -> Calls] /\ trade \in Trades
      /\ Carries(w) /\ DecidedLikeProvider /\ FailureIsStamped
      /\ channel = "wechat" => trade # "unstarted"
  BY DEF IInv, TypeOK, Decisions
<1>g. ASSUME NEW p, Goto(w, p) PROVE call'[w].pc = p /\ call'[w].result = call[w].result
  BY <1>0, <1>g DEF Goto, Calls
<1>f. Finish(w) => call'[w].pc = "idle" /\ call'[w].result = "open"
  BY <1>0 DEF Finish, Idle
<1>s. ASSUME UNCHANGED <<order, channel, scanned, trade>>
      PROVE  /\ Lasts /\ (status' = "paid" => trade' = "paid") /\ FailureIsStamped'
             /\ channel = "wechat" /\ ~scanned /\ "order.expired" \in announced' => trade' = "closed"
             /\ Order!Next \/ UNCHANGED order
  BY <1>0, <1>s DEF Lasts, order, DecidedLikeProvider, FailureIsStamped
<1>1. CASE FindOrder(w) \/ AttemptFails(w)
  <2>1. UNCHANGED <<order, channel, scanned, trade>>
    BY <1>1 DEF FindOrder, AttemptFails
  <2>2. \E p \in {"resolve", "query", "reschedule"} : Goto(w, p)
    BY <1>1 DEF FindOrder, AttemptFails
  <2> QED  BY <1>0, <1>g, <1>s, <2>1, <2>2 DEF Carries
<1>2. CASE Query(w)
  <2>1. UNCHANGED <<order, channel, scanned, trade>>
    BY <1>2 DEF Query
  <2>2. call'[w].result = trade /\ call'[w].pc \in {"apply", "close", "reschedule"}
    BY <1>0, <1>2 DEF Query, Calls
  <2> QED  BY <1>s, <2>1, <2>2 DEF Carries
<1>3. CASE Apply(w)
  <2>1. UNCHANGED <<channel, scanned, trade>> /\ (Order!Next \/ UNCHANGED order) /\ Lasts
    BY <1>3, OrderLasts DEF Apply, Order!Next
  <2>2. /\ call'[w].result = call[w].result /\ call'[w].pc \in {"record", "resolve", "reschedule"}
        /\ call'[w].pc = "record" => \/ call[w].result = "paid" /\ status' = "paid"
                                     \/ call[w].result = "failed" /\ everFailed'
    <3>1. \/ /\ Goto(w, "record")
             /\ \/ call[w].result = "paid" /\ status' = "paid"
                \/ call[w].result = "failed" /\ everFailed'
          \/ Goto(w, "resolve") \/ Goto(w, "reschedule")
      <4>1. CASE call[w].result = "paid" /\ Order!Pay /\ Goto(w, "record")
        BY <4>1 DEF Order!Pay
      <4>2. CASE call[w].result = "failed" /\ Order!FailPayment /\ Goto(w, "record")
        BY <4>2 DEF Order!FailPayment
      <4>3. CASE /\ status = call[w].result /\ UNCHANGED order
                 /\ Goto(w, IF call[w].result = "closed" THEN "resolve" ELSE "record")
        <5>1. call[w].result \in {"unstarted", "open", "failed", "paid", "closed"}
              /\ status \in {"pending", "paid", "failed", "closed"}
          BY <1>0 DEF Calls, Trades, IInv, TypeOK, Order!TypeOK, Order!Statuses
        <5> QED  BY <1>0, <4>3, <5>1 DEF FailureIsStamped, order
      <4> QED  BY <1>3, <4>1, <4>2, <4>3 DEF Apply
    <3> QED  BY <1>g, <3>1
  <2>3. Carries(w)'
    BY <1>0, <2>1, <2>2 DEF Carries
  <2>4. /\ status' = "paid" => trade' = "paid"
        /\ announced' = announced /\ FailureIsStamped'
    BY <1>0, <1>3, <2>1 DEF Apply, Carries, DecidedLikeProvider, FailureIsStamped, order, Order!Pay,
       Order!FailPayment, Order!CloseQuietly
  <2> QED  BY <1>0, <2>1, <2>3, <2>4 DEF DecidedLikeProvider
<1>4. CASE Record(w)
  <2>1. UNCHANGED <<status, everFailed, channel, scanned, trade>> /\ Lasts
    BY <1>4 DEF Record, Lasts
  <2>2. Order!AnnouncePaid \/ Order!AnnounceFailed
    BY <1>0, <1>4 DEF Record, Carries, Order!AnnouncePaid, Order!AnnounceFailed
  <2>3. "order.expired" \in announced' => "order.expired" \in announced
    BY <1>4 DEF Record
  <2>4. Carries(w)'
    BY <1>0, <1>4, <1>g, <2>1 DEF Record, Carries
  <2> QED  BY <1>0, <2>1, <2>2, <2>3, <2>4 DEF DecidedLikeProvider, FailureIsStamped, Order!Next
<1>5. CASE CloseTrade(w)
  <2>1. UNCHANGED <<order, channel, scanned>> /\ Lasts
    BY <1>5 DEF CloseTrade, Lasts, order
  <2>2. /\ call'[w].result = call[w].result /\ call'[w].pc \in {"expire", "reschedule"}
        /\ call'[w].pc = "expire" /\ channel = "wechat" => trade' = "closed"
    BY <1>0, <1>5, <1>g DEF CloseTrade
  <2> QED  BY <1>0, <2>1, <2>2 DEF Carries, Lasts, order, DecidedLikeProvider, FailureIsStamped
<1>6. CASE Expire(w)
  <2>1. UNCHANGED <<channel, scanned, trade>> /\ (Order!Next \/ UNCHANGED order) /\ Lasts
    BY <1>6, OrderLasts DEF Expire, Order!Next
  <2>2. call'[w].result = call[w].result /\ call'[w].pc \in {"resolve", "reschedule"}
    BY <1>6, <1>g DEF Expire
  <2>3. /\ status' = "paid" => status = "paid"
        /\ status' = "failed" => status = "failed" /\ everFailed' = everFailed
        /\ channel = "wechat" => trade = "closed"
    BY <1>0, <1>6 DEF Expire, Order!Expire, order, Carries
  <2> QED  BY <1>0, <1>6, <2>1, <2>2, <2>3 DEF Carries, DecidedLikeProvider, FailureIsStamped, Lasts
<1>7. CASE Resolve(w) \/ Reschedule(w)
  <2>1. UNCHANGED <<order, channel, scanned, trade>> /\ Finish(w)
    BY <1>7 DEF Resolve, Reschedule
  <2> QED  BY <1>f, <1>s, <2>1 DEF Carries
<1> QED  BY <1>1, <1>2, <1>3, <1>4, <1>5, <1>6, <1>7 DEF Step

LEMMA CarriesStays ==
  ASSUME NEW w \in Workers, Carries(w), call'[w] = call[w], Lasts
  PROVE  Carries(w)'
BY DEF Carries, Lasts, At

LEMMA NextDecisions ==
  ASSUME IInv, Decisions, [Next]_vars
  PROVE  Decisions' /\ (Order!Next \/ UNCHANGED order)
<1>0. /\ DecidedLikeProvider /\ FailureIsStamped /\ \A w \in Workers : Carries(w)
      /\ call \in [Workers -> Calls]
  BY DEF Decisions, IInv, TypeOK
<1>1. ASSUME NEW w \in Workers, Step(w) PROVE Decisions' /\ (Order!Next \/ UNCHANGED order)
  <2>1. \A v \in Workers : Carries(v)'
    BY <1>0, <1>1, StepDecides, StepMovesOne, CarriesStays
  <2> QED  BY <1>1, <2>1, StepDecides DEF Decisions, DecidedLikeProvider, Lasts
<1>2. CASE PayerActs \/ CapturePaypal
  <2>1. UNCHANGED <<order, channel, scanned, call>> /\ Lasts
    BY <1>2 DEF PayerActs, CapturePaypal, Lasts, order
  <2> QED  BY <1>0, <2>1, CarriesStays DEF Decisions, DecidedLikeProvider, FailureIsStamped, Lasts, order
<1>3. CASE OtherRequests
  <2>1. UNCHANGED <<channel, scanned, trade, call>> /\ Order!Next /\ Lasts
    BY <1>3, OrderLasts DEF OtherRequests, Order!Next, world
  <2>2. /\ status' = "paid" => trade' = "paid"
        /\ ~scanned /\ "order.expired" \in announced' => "order.expired" \in announced
        /\ FailureIsStamped'
    BY <1>0, <1>3 DEF OtherRequests, DecidedLikeProvider, FailureIsStamped, Order!Pay, Order!FailPayment, Order!Close,
       Order!Expire, Order!CloseQuietly, Order!AnnouncePaid, Order!AnnounceFailed, world
  <2> QED  BY <1>0, <2>1, <2>2, CarriesStays DEF Decisions, DecidedLikeProvider, Lasts
<1>4. CASE OthersOnly
  <2>1. UNCHANGED <<order, channel, scanned, trade>> /\ Lasts
    BY <1>4, OthersLeaveOrder, OrderLasts
  <2>2. \A w \in Workers : call'[w] = call[w] \/ (call'[w].result = "open" /\ call'[w].pc \in {"idle", "order"})
    <3>1. ASSUME NEW v \in Workers, Claim(v)
          PROVE  \A w \in Workers : call'[w] = call[w] \/ (call'[w].result = "open" /\ call'[w].pc = "order")
      BY <1>0, <3>1 DEF Claim
    <3>2. ASSUME NEW v \in Workers, Crash(v)
          PROVE  \A w \in Workers : call'[w] = call[w] \/ (call'[w].result = "open" /\ call'[w].pc = "idle")
      BY <1>0, <3>2 DEF Crash, Finish, Idle
    <3>3. ASSUME OthersOnly, \A v \in Workers : ~Claim(v) /\ ~Crash(v)
          PROVE  call' = call
      BY <3>3 DEF OthersOnly, EnsureForOrder, RequestActiveQuery, RequestFails, TimePasses, ScanDue,
         RecoverStale, Retry, LoseMessage, DeadlinePasses, vars
    <3> QED  BY <1>4, <3>1, <3>2, <3>3
  <2>3. \A w \in Workers : Carries(w)'
    BY <1>0, <2>1, <2>2, CarriesStays DEF Carries, At
  <2> QED  BY <1>0, <2>1, <2>3 DEF Decisions, DecidedLikeProvider, FailureIsStamped, order
<1> QED  BY <1>1, <1>2, <1>3, <1>4 DEF Next, OthersOnly

LEMMA InitDecisions == Init => Decisions /\ OwnsRecord
BY DEF Init, Order!Init, Idle, At, Decisions, DecidedLikeProvider, FailureIsStamped, Carries,
   OwnsRecord, Channels

LEMMA DecisionsInvariant == Spec => []Decisions
<1>1. IInv /\ Decisions /\ [Next]_vars => Decisions'
  BY NextDecisions
<1> QED  BY <1>1, InitDecisions, Invariant, PTL DEF Spec

\* However stale its answer is, reconciliation decides as the provider did (Process,
\* ApplyPaymentResult, CloseExpiredPendingOrder).
THEOREM LikeProvider == Spec => []DecidedLikeProvider
<1>1. Decisions => DecidedLikeProvider
  BY DEF Decisions
<1> QED  BY <1>1, DecisionsInvariant, PTL

\* With the workers of reconciliation among its callers, the order still follows
\* OrderLifecycle: what a worker applies and records, later and in two calls, are
\* steps of it.
THEOREM FollowsLifecycle == Spec => Order!Spec
<1>1. Init => Order!Init
  BY DEF Init
<1>2. IInv /\ Decisions /\ [Next]_vars => [Order!Next]_(Order!vars)
  BY NextDecisions DEF order, Order!vars
<1> QED  BY <1>1, <1>2, DecisionsInvariant, Invariant, PTL DEF Spec, Order!Spec

\* What the lifecycle promises of the events: none contradicts the status, and an
\* order is not announced as closed twice.
Agreement ==
  /\ "payment.succeeded" \in announced => status = "paid"
  /\ "payment.failed" \in announced => everFailed
  /\ Order!ClosingTypes \cap announced # {} => status = "closed"
  /\ ~(Order!ClosingTypes \subseteq announced)

LEMMA LifecycleAgrees == Order!Spec => []Agreement
<1>1. Order!Init => Agreement
  BY DEF Order!Init, Order!ClosingTypes, Agreement
<1>2. Agreement /\ [Order!Next]_(Order!vars) => Agreement'
  BY DEF Agreement, Order!Next, Order!Pay, Order!FailPayment, Order!Close, Order!Expire,
     Order!CloseQuietly, Order!AnnouncePaid, Order!AnnounceFailed, Order!ClosingTypes, Order!vars
<1> QED  BY <1>1, <1>2, PTL DEF Order!Spec

\* Hence also with reconciliation the merchant is never told two stories (Process,
\* RecordPaymentSucceeded, CloseExpiredPendingOrder).
THEOREM ReconciledAgrees == Spec => []Agreement
BY FollowsLifecycle, LifecycleAgrees, PTL

LEMMA NextOwnsRecord ==
  ASSUME IInv, OwnsRecord, [Next]_vars
  PROVE  OwnsRecord'
<1> USE DEF At, world, budget, NotOrder
<1>0. call \in [Workers -> Calls] /\ recon \in Records /\ faults \in Nat /\ retries \in Nat
  BY ReconciliationAssumption DEF IInv, TypeOK
<1>1. SUFFICES ASSUME faults' = 0, retries' = 0 PROVE OwnsRecord'
  BY DEF OwnsRecord, Undisturbed
<1>q. ASSUME Undisturbed, call' = call, recon'.status = recon.status \/ \A v \in Workers : At(v, "idle")
      PROVE  OwnsRecord'
  BY <1>q DEF OwnsRecord
<1>2. CASE \/ PayerActs \/ CapturePaypal \/ DeadlinePasses \/ OtherRequests \/ TimePasses \/ ScanDue
           \/ UNCHANGED vars
  <2>1. Undisturbed /\ call' = call /\ recon'.status = recon.status
    BY <1>0, <1>1, <1>2 DEF PayerActs, CapturePaypal, DeadlinePasses, OtherRequests, TimePasses, ScanDue,
       Undisturbed, vars, Records
  <2> QED  BY <1>q, <2>1
<1>3. CASE EnsureForOrder \/ RequestActiveQuery \/ RecoverStale
  <2>1. Undisturbed /\ call' = call
    BY <1>0, <1>1, <1>3 DEF EnsureForOrder, RequestActiveQuery, RecoverStale, Undisturbed
  <2>2. \A v \in Workers : At(v, "idle")
    BY <1>0, <1>1, <1>3, <2>1 DEF EnsureForOrder, RequestActiveQuery, RecoverStale, OwnsRecord
  <2> QED  BY <1>q, <2>1, <2>2
<1>4. ~(RequestFails \/ Retry \/ LoseMessage) /\ \A w \in Workers : ~Crash(w) /\ ~AttemptFails(w)
  <2>1. faults' # faults + 1 /\ retries' # retries + 1
    BY <1>0, <1>1
  <2> QED  BY <2>1 DEF RequestFails, Retry, LoseMessage, Crash, AttemptFails
<1>5. ASSUME NEW w \in Workers, Claim(w) PROVE OwnsRecord'
  <2>1. Undisturbed
    BY <1>1, <1>5 DEF Claim, Undisturbed
  <2>2. CASE recon.status = "pending"
    <3>1. \A v \in Workers : At(v, "idle")
      BY <2>1, <2>2 DEF OwnsRecord
    <3>2. recon'.status = "processing" /\ \A v \in Workers : v # w => call'[v] = call[v]
      BY <1>0, <1>5, <2>2 DEF Claim, Records
    <3> QED  BY <3>1, <3>2 DEF OwnsRecord
  <2>3. CASE recon.status # "pending"
    BY <1>5, <1>q, <2>1, <2>3 DEF Claim
  <2> QED  BY <2>2, <2>3
<1>6. ASSUME NEW w \in Workers, Step(w) PROVE OwnsRecord'
  <2>1. Undisturbed /\ ~At(w, "idle")
    BY <1>1, <1>4, <1>6 DEF Step, FindOrder, Query, Apply, Record, CloseTrade, Expire, Resolve,
       Reschedule, Undisturbed
  <2>2. recon.status = "processing" /\ \A v \in Workers : v # w => At(v, "idle")
    BY <2>1 DEF OwnsRecord
  <2>3. \A v \in Workers : v # w => call'[v].pc = "idle"
    BY <1>6, <2>2, StepMovesOne
  <2>4. recon' = recon \/ call'[w].pc = "idle"
    BY <1>0, <1>4, <1>6 DEF Step, FindOrder, Query, Apply, Record, CloseTrade, Expire, Resolve,
       Reschedule, Finish, Idle
  <2> QED  BY <2>2, <2>3, <2>4 DEF OwnsRecord
<1> QED  BY <1>2, <1>3, <1>4, <1>5, <1>6 DEF Next

\* Of several messages for one record one worker acts on one, as long as nobody is
\* given up (Claim, a conditional update).
THEOREM ClaimExclusive == Spec => []ClaimIsExclusive
<1>1. IInv /\ OwnsRecord /\ [Next]_vars => OwnsRecord'
  BY NextOwnsRecord
<1>2. OwnsRecord => ClaimIsExclusive
  <2> DEFINE AtWork == {w \in Workers : ~At(w, "idle")}
  <2>1. SUFFICES ASSUME OwnsRecord, Undisturbed PROVE Cardinality(AtWork) <= 1
    BY DEF ClaimIsExclusive, Undisturbed
  <2>2. CASE AtWork = {}
    BY <2>2, FS_EmptySet
  <2>3. ASSUME NEW v \in AtWork PROVE Cardinality(AtWork) <= 1
    <3>1. AtWork = {v}
      BY <2>1 DEF OwnsRecord
    <3> QED  BY <3>1, FS_Singleton
  <2> QED  BY <2>2, <2>3
<1> QED  BY <1>1, <1>2, InitDecisions, Invariant, PTL DEF Spec

=============================================================================
